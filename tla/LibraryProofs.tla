---------------------------- MODULE LibraryProofs ----------------------------
(***************************************************************************)
(* What the calls of Library return, whatever they are called with: the    *)
(* ranking calls (m3-vector, m3-rank), the queries of the entity graph     *)
(* (m3-graph) and the directory sweep (m3-ingest).  Each loop is a fold:   *)
(* an "Unfold" lemma gives its function, a "Run" lemma what it is after so *)
(* many turns, and the lemma of what one turn keeps carries the loop's     *)
(* invariant to its end.  recurse, the sweep's recursion, is a function of *)
(* its calls, shown to exist and to be one by induction from the ceiling.  *)
(***************************************************************************)
EXTENDS Library, FoldLemmas

-----------------------------------------------------------------------------
(* The best of the candidates                                              *)

Candidate == [pos : Nat, score : Score]

\* One is no worse than the other: it scores more, or as much from a place no later.
First(a, b) == Beats(a.score, b.score) \/ (~ Beats(b.score, a.score) /\ a.pos <= b.pos)
IsFirst(x, scored) == /\ \E i \in 1 .. Len(scored) : x = scored[i]
                      /\ \A i \in 1 .. Len(scored) : First(x, scored[i])

\* Coming first is an order, and Better gives the first of two.
LEMMA FirstOrders ==
  ASSUME NaN \notin Int, NEW a \in Candidate, NEW b \in Candidate, NEW c \in Candidate
  PROVE  /\ First(a, a)
         /\ First(a, b) /\ First(b, c) => First(a, c)
         /\ First(a, b) /\ First(b, a) => a.pos = b.pos
         /\ Better(a, b) \in {a, b} /\ First(Better(a, b), a) /\ First(Better(a, b), b)
<1>1. /\ a.pos \in Nat /\ b.pos \in Nat /\ c.pos \in Nat
      /\ (a.score = NaN \/ a.score \in Int)
      /\ (b.score = NaN \/ b.score \in Int)
      /\ (c.score = NaN \/ c.score \in Int)
  BY DEF Candidate, Score
<1>2. First(a, a)
  BY <1>1 DEF First, Beats
<1>3. First(a, b) /\ First(b, c) => First(a, c)
  BY <1>1 DEF First, Beats
<1>4. First(a, b) /\ First(b, a) => a.pos = b.pos
  BY <1>1 DEF First, Beats
<1>5. Better(a, b) \in {a, b} /\ First(Better(a, b), a) /\ First(Better(a, b), b)
  BY <1>1 DEF Better, First, Beats
<1> QED
  BY <1>2, <1>3, <1>4, <1>5

\* The recursion of Best, once some function satisfies it.
Reduces(f, s, b) ==
  \A T \in SUBSET DOMAIN s : f[T] = IF T = {} THEN b ELSE Better(f[T \ {Max(T)}], s[Max(T)])

\* Best as the function of its fold.
LEMMA BestUnfolds ==
  ASSUME NEW scored, NEW s, s = Tail(scored), NEW b, b = Head(scored),
         NEW V, NEW f \in [SUBSET DOMAIN s -> V], Reduces(f, s, b)
  PROVE  \E g : Reduces(g, s, b) /\ Best(scored) = g[DOMAIN s]
<1>1. f = [T \in SUBSET DOMAIN s |-> IF T = {} THEN b ELSE Better(f[T \ {Max(T)}], s[Max(T)])]
  BY DEF Reduces
<1>2. PICK g : /\ g = [T \in SUBSET DOMAIN s |-> IF T = {} THEN b ELSE Better(g[T \ {Max(T)}], s[Max(T)])]
               /\ FoldLeft(Better, b, s) = g[DOMAIN s]
  BY <1>1, ZenonT(60) DEF FoldLeft, MapThenFoldSet
<1>3. Reduces(g, s, b)
  BY <1>2 DEF Reduces
<1>4. Best(scored) = FoldLeft(Better, b, s)
  BY DEF Best
<1> QED
  BY <1>2, <1>3, <1>4

\* The best of some candidates is the first of them.
LEMMA BestIsFirst ==
  ASSUME NaN \notin Int, NEW scored \in Seq(Candidate), scored # <<>>
  PROVE  IsFirst(Best(scored), scored)
<1> DEFINE b == Head(scored)
           s == Tail(scored)
           len == Len(s)
           V == Candidate
           next == [n \in 1 .. len |-> [u \in V |-> Better(u, s[n])]]
<1>1. /\ b \in V /\ b = scored[1] /\ s \in Seq(V) /\ DOMAIN s = 1 .. len /\ len \in Nat /\ Len(scored) = len + 1
      /\ \A n \in 1 .. len : s[n] \in V /\ s[n] = scored[n + 1]
  OBVIOUS
<1> HIDE DEF b, s, len, V
<1>2. \A n \in 1 .. len, u \in V : Better(u, s[n]) \in V
  BY <1>1, FirstOrders DEF V
<1>3. next \in [1 .. len -> [V -> V]]
  BY <1>2
<1> HIDE DEF next
<1>4. PICK f : IsLoop(f, len, V, b, next)
  BY <1>1, <1>3, LoopExists
<1>5. Reduces(f, s, b)
  <2> SUFFICES ASSUME NEW T \in SUBSET DOMAIN s, T # {} PROVE f[T] = Better(f[T \ {Max(T)}], s[Max(T)])
    BY <1>1, <1>4 DEF Reduces, IsLoop
  <2>1. Max(T) \in 1 .. len
    BY <1>1, LastPlace
  <2>2. f[T \ {Max(T)}] \in V /\ f[T] = next[Max(T)][f[T \ {Max(T)}]]
    BY <1>1, <1>4 DEF IsLoop
  <2> QED
    BY <2>1, <2>2 DEF next
<1>6. PICK g : Reduces(g, s, b) /\ Best(scored) = g[DOMAIN s]
  <2>1. f \in [SUBSET DOMAIN s -> V]
    BY <1>1, <1>4 DEF IsLoop
  <2> QED
    BY <1>5, <2>1, BestUnfolds DEF s, b
<1>7. Recursing(g, len, V, b, next)
  <2>1. g[{}] = b
    BY <1>6 DEF Reduces
  <2>2. ASSUME NEW T \in SUBSET (1 .. len), T # {}, g[T \ {Max(T)}] \in V
        PROVE  g[T] = next[Max(T)][g[T \ {Max(T)}]]
    <3>1. Max(T) \in 1 .. len
      BY <1>1, <2>2, LastPlace
    <3>2. g[T] = Better(g[T \ {Max(T)}], s[Max(T)])
      BY <1>1, <1>6, <2>2 DEF Reduces
    <3> QED
      BY <2>2, <3>1, <3>2 DEF next
  <2> QED
    BY <2>1, <2>2 DEF Recursing
<1>8. PICK h : IsTaken(h, len, V, b, next) /\ h[len] = g[1 .. len]
  BY <1>1, <1>3, <1>7, TakenAlong
<1>9. \A n \in 1 .. len : h[n - 1] \in V /\ h[n] \in V /\ h[n] = Better(h[n - 1], s[n])
  BY <1>8 DEF IsTaken, next
<1> DEFINE P == {n \in Nat : /\ h[n] \in V /\ \E i \in 1 .. n + 1 : h[n] = scored[i]
                             /\ \A i \in 1 .. n + 1 : First(h[n], scored[i])}
<1>10. 0 \in P
  <2>1. h[0] = b /\ First(b, b)
    BY <1>1, <1>8, FirstOrders DEF IsTaken, V
  <2> QED
    BY <1>1, <2>1
<1>11. ASSUME NEW n \in 1 .. len, n - 1 \in P PROVE n \in P
  <2>1. /\ h[n - 1] \in V /\ s[n] \in V /\ s[n] = scored[n + 1] /\ n \in Nat
        /\ \E i \in 1 .. n : h[n - 1] = scored[i]
        /\ \A i \in 1 .. n : First(h[n - 1], scored[i])
    BY <1>1, <1>11
  <2>2. /\ h[n] \in {h[n - 1], s[n]} /\ First(h[n], h[n - 1]) /\ First(h[n], s[n]) /\ h[n] \in V
    BY <1>9, <2>1, FirstOrders DEF V
  <2>3. \A i \in 1 .. n + 1 : i = n + 1 \/ i \in 1 .. n
    BY <2>1
  <2>4. \A i \in 1 .. n : scored[i] \in V /\ i \in 1 .. n + 1
    BY <1>1, <1>11 DEF V
  <2>5. \A i \in 1 .. n : First(h[n], scored[i])
    BY <2>1, <2>2, <2>4, FirstOrders DEF V
  <2>6. \E i \in 1 .. n + 1 : h[n] = scored[i]
    BY <2>1, <2>2, <2>4
  <2> QED
    BY <2>1, <2>2, <2>3, <2>5, <2>6
<1>12. len \in P
  <2> HIDE DEF P
  <2> QED
    BY <1>1, <1>10, <1>11, PrefixInduction
<1>13. Best(scored) = h[len]
  BY <1>1, <1>6, <1>8
<1> QED
  BY <1>1, <1>12, <1>13 DEF IsFirst

\* However rayon cuts the candidates.
LEMMA PickIsFirst ==
  ASSUME NaN \notin Int, NEW scored \in Seq(Candidate), scored # <<>>, NEW cut
  PROVE  IsFirst(Pick(scored, cut), scored)
<1>1. CASE Len(scored) < ParThreshold \/ cut \notin 1 .. (Len(scored) - 1)
  BY <1>1, BestIsFirst DEF Pick
<1>2. CASE ~ (Len(scored) < ParThreshold \/ cut \notin 1 .. (Len(scored) - 1))
  <2> DEFINE len == Len(scored)
             s == SubSeq(scored, 1, cut)
             t == SubSeq(scored, cut + 1, len)
             a == Best(s)
             b == Best(t)
  <2>1. cut \in 1 .. len - 1 /\ len \in Nat /\ cut \in 0 .. len
    BY <1>2
  <2>2. /\ s \in Seq(Candidate) /\ Len(s) = cut /\ s # <<>>
        /\ \A i \in 1 .. cut : s[i] = scored[i]
    BY <2>1
  <2>3. /\ t \in Seq(Candidate) /\ Len(t) = len - cut /\ t # <<>>
        /\ \A i \in 1 .. len - cut : t[i] = scored[cut + i]
    <3>1. t \in Seq(Candidate) /\ Len(t) = len - cut /\ \A i \in 1 .. len - cut : t[i] = scored[cut + i]
      <4> HIDE DEF len
      <4>1. SubSeq(scored, cut + 1, Len(scored)) = t
        BY DEF len
      <4> QED
        BY <2>1, <4>1, BackPart DEF len
    <3>2. len - cut > 0
      BY <2>1
    <3> QED
      BY <3>1, <3>2
  <2>4. IsFirst(a, s) /\ IsFirst(b, t)
    <3> HIDE DEF s, t
    <3> QED
      BY <2>2, <2>3, BestIsFirst
  <2>5. Pick(scored, cut) = Better(a, b)
    BY <1>2 DEF Pick
  <2> HIDE DEF s, t, a, b, len
  <2>6. PICK i \in 1 .. cut : a = scored[i]
    BY <2>2, <2>4 DEF IsFirst
  <2>7. PICK j \in 1 .. len - cut : b = scored[cut + j]
    BY <2>3, <2>4 DEF IsFirst
  <2>8. i \in 1 .. len /\ cut + j \in 1 .. len /\ a \in Candidate /\ b \in Candidate
    BY <2>1, <2>6, <2>7 DEF len
  <2>9. /\ Better(a, b) \in {a, b} /\ First(Better(a, b), a) /\ First(Better(a, b), b)
    BY <2>8, FirstOrders
  <2>10. ASSUME NEW m \in 1 .. len PROVE First(Better(a, b), scored[m])
    <3>1. scored[m] \in Candidate
      BY DEF len
    <3>2. CASE m <= cut
      <4>1. First(a, scored[m])
        BY <2>1, <2>2, <2>4, <3>2 DEF IsFirst
      <4> QED
        BY <2>8, <2>9, <3>1, <4>1, FirstOrders
    <3>3. CASE m > cut
      <4>1. m - cut \in 1 .. len - cut /\ cut + (m - cut) = m
        BY <2>1, <3>3
      <4>2. First(b, scored[m])
        BY <2>3, <2>4, <4>1 DEF IsFirst
      <4> QED
        BY <2>8, <2>9, <3>1, <4>2, FirstOrders
    <3> QED
      BY <2>1, <3>2, <3>3
  <2> QED
    BY <2>5, <2>6, <2>7, <2>8, <2>9, <2>10 DEF IsFirst, len
<1> QED
  BY <1>1, <1>2

-----------------------------------------------------------------------------
(* What is left without one                                                *)

Rising(s) == \A i, j \in DOMAIN s : i < j => s[i] < s[j]

\* The places of a sequence but for one, in whatever order.
Shifts(to, back, n, p) ==
  /\ to \in [1 .. n - 1 -> (1 .. n) \ {p}] /\ back \in [(1 .. n) \ {p} -> 1 .. n - 1]
  /\ \A k \in (1 .. n) \ {p} : to[back[k]] = k
  /\ \A m \in 1 .. n - 1 : back[to[m]] = m

\* A sequence moved onto places that leave out one has all elements but that one.
LEMMA AllButOne ==
  ASSUME NEW A, NEW s \in Seq(A), Distinct(s), NEW n \in Nat \ {0}, Len(s) = n, NEW p \in 1 .. n,
         NEW to, NEW back, Shifts(to, back, n, p),
         NEW w, w \in Seq(A), Len(w) = n - 1, \A m \in 1 .. n - 1 : w[m] = s[to[m]]
  PROVE  ToSet(w) = ToSet(s) \ {s[p]} /\ Distinct(w)
<1>1. DOMAIN s = 1 .. n /\ DOMAIN w = 1 .. n - 1
  OBVIOUS
<1>0. /\ to \in [1 .. n - 1 -> (1 .. n) \ {p}] /\ back \in [(1 .. n) \ {p} -> 1 .. n - 1]
      /\ \A k \in (1 .. n) \ {p} : to[back[k]] = k
      /\ \A m \in 1 .. n - 1 : back[to[m]] = m
  BY DEF Shifts
<1>2. Distinct(w)
  <2> SUFFICES ASSUME NEW i \in 1 .. n - 1, NEW j \in 1 .. n - 1, w[i] = w[j] PROVE i = j
    BY <1>1 DEF Distinct
  <2>1. to[i] \in 1 .. n /\ to[j] \in 1 .. n /\ s[to[i]] = s[to[j]]
    BY <1>0
  <2>2. to[i] = to[j]
    BY <1>1, <2>1 DEF Distinct
  <2> QED
    BY <1>0, <2>2
<1>3. ASSUME NEW m \in 1 .. n - 1 PROVE w[m] \in ToSet(s) \ {s[p]}
  <2>1. to[m] \in 1 .. n /\ to[m] # p /\ w[m] = s[to[m]]
    BY <1>0
  <2>2. s[to[m]] # s[p]
    BY <1>1, <2>1 DEF Distinct
  <2>3. s[to[m]] \in ToSet(s)
    BY <1>1, <2>1 DEF ToSet
  <2> QED
    BY <2>1, <2>2, <2>3
<1>4. ASSUME NEW k \in 1 .. n, s[k] # s[p] PROVE s[k] \in ToSet(w)
  <2>1. k \in (1 .. n) \ {p}
    BY <1>4
  <2>2. back[k] \in 1 .. n - 1 /\ to[back[k]] = k
    BY <1>0, <2>1
  <2>3. w[back[k]] = s[k]
    BY <2>2
  <2> QED
    BY <1>1, <2>2, <2>3 DEF ToSet
<1>5. ToSet(w) = {w[m] : m \in 1 .. n - 1} /\ ToSet(s) = {s[k] : k \in 1 .. n}
  BY <1>1 DEF ToSet
<1>6. ToSet(w) \subseteq ToSet(s) \ {s[p]}
  BY <1>3, <1>5
<1>7. ToSet(s) \ {s[p]} \subseteq ToSet(w)
  BY <1>4, <1>5
<1> QED
  BY <1>2, <1>6, <1>7

\* Either way of removing a candidate leaves all the others; moving up keeps their order.
LEMMA WithoutKeeps ==
  ASSUME NEW A, A \subseteq Int, NEW s \in Seq(A), Distinct(s), NEW p \in DOMAIN s, NEW swap \in BOOLEAN,
         NEW w, w = Without(s, p, swap)
  PROVE  /\ w \in Seq(A) /\ Len(w) = Len(s) - 1 /\ Distinct(w)
         /\ ToSet(w) = ToSet(s) \ {s[p]}
         /\ ~ swap /\ Rising(s) => Rising(w)
<1> DEFINE n == Len(s)
<1>1. n \in Nat \ {0} /\ Len(s) = n /\ p \in 1 .. n /\ DOMAIN s = 1 .. n /\ \A k \in 1 .. n : s[k] \in A
  OBVIOUS
<1>2. CASE swap
  <2> DEFINE e == [s EXCEPT ![p] = Last(s)]
             to == [m \in 1 .. n - 1 |-> IF m = p THEN n ELSE m]
             back == [k \in (1 .. n) \ {p} |-> IF k = n THEN p ELSE k]
  <2>1. e \in Seq(A) /\ Len(e) = n /\ \A m \in 1 .. n : e[m] = IF m = p THEN s[n] ELSE s[m]
    BY <1>1 DEF Last
  <2>2. w = SubSeq(e, 1, n - 1)
    <3>1. w = Front(e)
      BY <1>2 DEF Without
    <3> HIDE DEF e
    <3> QED
      BY <2>1, <3>1 DEF Front
  <2>3. w \in Seq(A) /\ Len(w) = n - 1 /\ \A m \in 1 .. n - 1 : w[m] = e[m]
    <3> HIDE DEF e, n
    <3>1. 1 \in Int /\ n - 1 \in Int /\ \A m \in 1 .. n - 1 : e[m] \in A
      BY <1>1, <2>1
    <3> QED
      BY <1>1, <2>1, <2>2, <3>1, SubSeqProperties
  <2>4. \A m \in 1 .. n - 1 : w[m] = s[to[m]]
    <3> HIDE DEF e, n
    <3> QED
      BY <1>1, <2>1, <2>3
  <2>5. /\ to \in [1 .. n - 1 -> (1 .. n) \ {p}] /\ back \in [(1 .. n) \ {p} -> 1 .. n - 1]
        /\ \A k \in (1 .. n) \ {p} : to[back[k]] = k
        /\ \A m \in 1 .. n - 1 : back[to[m]] = m
    <3> HIDE DEF n
    <3> QED
      BY <1>1
  <2>7. Shifts(to, back, n, p)
    BY <2>5 DEF Shifts
  <2> HIDE DEF e, n, to, back
  <2>6. ToSet(w) = ToSet(s) \ {s[p]} /\ Distinct(w)
    BY <1>1, <2>3, <2>4, <2>7, AllButOne
  <2> QED
    BY <1>2, <2>3, <2>6 DEF n
<1>3. CASE ~ swap
  <2> DEFINE a == SubSeq(s, 1, p - 1)
             b == SubSeq(s, p + 1, n)
             to == [m \in 1 .. n - 1 |-> IF m < p THEN m ELSE m + 1]
             back == [k \in (1 .. n) \ {p} |-> IF k < p THEN k ELSE k - 1]
  <2>1. w = a \o b
    BY <1>3 DEF Without, RemoveAt
  <2>2. a \in Seq(A) /\ Len(a) = p - 1 /\ \A m \in 1 .. p - 1 : a[m] = s[m]
    BY <1>1
  <2>3. b \in Seq(A) /\ Len(b) = n - p /\ \A m \in 1 .. n - p : b[m] = s[p + m]
    <3>1. p \in 0 .. Len(s) /\ b = SubSeq(s, p + 1, Len(s))
      BY <1>1
    <3> HIDE DEF b
    <3> QED
      BY <1>1, <3>1, BackPart
  <2> HIDE DEF a, b
  <2>4. w \in Seq(A) /\ Len(w) = n - 1
    <3> HIDE DEF n, to, back
    <3>1. a \o b \in Seq(A) /\ Len(a \o b) = Len(a) + Len(b)
      BY <2>2, <2>3, ConcatProperties
    <3> QED
      BY <1>1, <2>1, <2>2, <2>3, <3>1
  <2>5. ASSUME NEW m \in 1 .. n - 1 PROVE w[m] = s[to[m]]
    <3> HIDE DEF n
    <3>1. CASE m < p
      BY <1>1, <2>1, <2>2, <2>3, <3>1
    <3>2. CASE m >= p
      <4>1. m - (p - 1) \in 1 .. n - p /\ p + (m - (p - 1)) = m + 1 /\ ~ (m < p)
        BY <1>1, <3>2
      <4>2. w[m] = b[m - (p - 1)]
        <5> HIDE DEF to, back
        <5>1. a \in Seq(A) /\ b \in Seq(A) /\ Len(a) = p - 1 /\ Len(b) = n - p
          BY <2>2, <2>3
        <5>2. m \in 1 .. Len(a) + Len(b) /\ ~ (m <= Len(a))
          BY <1>1, <3>2, <5>1
        <5>3. (a \o b)[m] = b[m - Len(a)]
          BY <5>1, <5>2, ConcatProperties
        <5> QED
          BY <2>1, <5>1, <5>3, Zenon
      <4> QED
        BY <2>3, <4>1, <4>2
    <3> QED
      BY <1>1, <3>1, <3>2
  <2>6. /\ to \in [1 .. n - 1 -> (1 .. n) \ {p}] /\ back \in [(1 .. n) \ {p} -> 1 .. n - 1]
        /\ \A k \in (1 .. n) \ {p} : to[back[k]] = k
        /\ \A m \in 1 .. n - 1 : back[to[m]] = m
    <3> HIDE DEF n
    <3> QED
      BY <1>1
  <2>9. Shifts(to, back, n, p)
    BY <2>6 DEF Shifts
  <2>7. ToSet(w) = ToSet(s) \ {s[p]} /\ Distinct(w)
    <3> HIDE DEF n, to, back
    <3> QED
      BY <1>1, <2>4, <2>5, <2>9, AllButOne
  <2>8. ASSUME Rising(s) PROVE Rising(w)
    <3> SUFFICES ASSUME NEW i \in 1 .. n - 1, NEW j \in 1 .. n - 1, i < j PROVE w[i] < w[j]
      <4>1. DOMAIN w = 1 .. n - 1
        BY <2>4
      <4> QED
        BY <4>1 DEF Rising
    <3>1. to[i] \in 1 .. n /\ to[j] \in 1 .. n /\ to[i] < to[j]
      BY <1>1
    <3> HIDE DEF to
    <3>2. s[to[i]] < s[to[j]]
      BY <1>1, <2>8, <3>1 DEF Rising
    <3> QED
      BY <2>5, <3>2
  <2> QED
    BY <1>3, <2>4, <2>7, <2>8 DEF n
<1> QED
  BY <1>2, <1>3

\* The extremes of some integers are among them.
LEMMA ExtremesOfFinite ==
  ASSUME NEW S, S \subseteq Int, S # {}, IsFiniteSet(S)
  PROVE  /\ Max(S) \in S /\ \A m \in S : Max(S) >= m
         /\ Min(S) \in S /\ \A m \in S : Min(S) <= m
<1> DEFINE Up == {p \in S \X S : p[1] >= p[2]}
           Down == {p \in S \X S : p[1] <= p[2]}
<1>1. \A x, y \in S : (<<x, y>> \in Up <=> x >= y) /\ (<<x, y>> \in Down <=> x <= y)
  OBVIOUS
<1> HIDE DEF Up, Down
<1>2. Orders(Up, S) /\ Orders(Down, S)
  BY <1>1 DEF Orders
<1>3. \E x \in S : \A y \in S : x >= y
  BY <1>1, <1>2, FirstExists
<1>4. \E x \in S : \A y \in S : x <= y
  BY <1>1, <1>2, FirstExists
<1> QED
  BY <1>3, <1>4 DEF Max, Min

\* A gain is a number or NaN.
LEMMA GainIsScore ==
  ASSUME NaN \notin Int, Whole \in Int, NEW rel, NEW cand, rel[cand] \in Score, NEW lambda \in Int,
         NEW sim, NEW chosen, IsFiniteSet(chosen), \A s \in chosen : sim[cand][s] \in Score
  PROVE  Gain(rel, sim, lambda, cand, chosen) \in Score
<1> DEFINE S == {sim[cand][s] : s \in chosen}
           T == {0} \cup (S \ {NaN})
<1>1. IsFiniteSet(S)
  <2> DEFINE f == [s \in chosen |-> sim[cand][s]]
  <2>1. f \in Surjection(chosen, S)
    BY DEF Surjection
  <2> HIDE DEF f
  <2> QED
    BY <2>1, FS_Surjection
<1>2. T \subseteq Int /\ T # {}
  BY DEF Score
<1>3. IsFiniteSet(T)
  <2>1. IsFiniteSet(S \ {NaN}) /\ IsFiniteSet({0})
    BY <1>1, FS_Difference, FS_Singleton
  <2> HIDE DEF S
  <2> QED
    BY <2>1, FS_Union
<1>4. Max(T) \in Int
  <2> HIDE DEF T
  <2> QED
    BY <1>2, <1>3, ExtremesOfFinite
<1>5. Likest(sim, cand, chosen) = Max(T)
  BY DEF Likest
<1> HIDE DEF S, T
<1>6. CASE rel[cand] = NaN
  BY <1>6 DEF Gain, Score
<1>7. CASE rel[cand] # NaN
  <2>1. rel[cand] \in Int /\ Likest(sim, cand, chosen) \in Int
    BY <1>4, <1>5, <1>7 DEF Score
  <2>2. lambda * rel[cand] - (Whole - lambda) * Likest(sim, cand, chosen) \in Int
    BY <2>1
  <2> QED
    BY <1>7, <2>2 DEF Gain, Score
<1> QED
  BY <1>6, <1>7

-----------------------------------------------------------------------------
(* One turn of the selection                                               *)

\* The candidates of n, chosen and left.
Selections(n) == [chosen : Seq(1 .. n), left : Seq(1 .. n)]
Parted(st, n) ==
  /\ st \in Selections(n) /\ Distinct(st.chosen) /\ Distinct(st.left)
  /\ ToSet(st.chosen) \cup ToSet(st.left) = 1 .. n
  /\ ToSet(st.chosen) \cap ToSet(st.left) = {}

AreRelevances(rel, sim, lambda) ==
  /\ NaN \notin Int /\ Whole \in Int /\ lambda \in Int /\ rel \in Seq(Score)
  /\ \A i, j \in 1 .. Len(rel) : sim[i][j] \in Score

GainOf(rel, sim, lambda, st, c) == Gain(rel, sim, lambda, c, ToSet(st.chosen))

\* The gains are of candidates.
LEMMA GainsAre ==
  ASSUME NEW rel, NEW sim, NEW lambda, AreRelevances(rel, sim, lambda),
         NEW st \in Selections(Len(rel)), st.left # <<>>
  PROVE  LET scored == Gains(rel, sim, lambda, st)
         IN  /\ scored \in Seq(Candidate) /\ scored # <<>> /\ Len(scored) = Len(st.left)
             /\ \A i \in 1 .. Len(st.left) :
                  scored[i].pos = i /\ scored[i].score = GainOf(rel, sim, lambda, st, st.left[i])
<1> DEFINE n == Len(rel)
           len == Len(st.left)
           chosen == ToSet(st.chosen)
           scored == Gains(rel, sim, lambda, st)
           gain(i) == Gain(rel, sim, lambda, st.left[i], chosen)
<1>1. /\ st.left \in Seq(1 .. n) /\ st.chosen \in Seq(1 .. n) /\ len \in Nat \ {0}
      /\ DOMAIN st.left = 1 .. len /\ \A i \in 1 .. len : st.left[i] \in 1 .. n
  <2>1. st.left \in Seq(1 .. n) /\ st.chosen \in Seq(1 .. n)
    BY DEF Selections
  <2> QED
    BY <2>1
<1>2. IsFiniteSet(chosen) /\ chosen \subseteq 1 .. n
  <2>1. IsFiniteSet(chosen)
    BY <1>1, DistinctSize
  <2>2. chosen \subseteq 1 .. n
    BY <1>1 DEF ToSet
  <2> QED
    BY <2>1, <2>2
<1>3. ASSUME NEW i \in 1 .. len PROVE gain(i) \in Score
  <2>1. /\ rel[st.left[i]] \in Score /\ \A s \in chosen : sim[st.left[i]][s] \in Score
        /\ NaN \notin Int /\ Whole \in Int /\ lambda \in Int
    BY <1>1, <1>2 DEF AreRelevances
  <2> HIDE DEF chosen
  <2> QED
    BY <1>2, <2>1, GainIsScore
<1> HIDE DEF len, chosen, gain
<1>4. scored = [i \in 1 .. len |-> [pos |-> i, score |-> gain(i)]]
  BY <1>1 DEF Gains, gain, chosen
<1>5. \A i \in 1 .. len : [pos |-> i, score |-> gain(i)] \in Candidate
  BY <1>3 DEF Candidate
<1>6. scored \in Seq(Candidate) /\ Len(scored) = len /\ scored # <<>>
  <2> HIDE DEF scored
  <2>1. scored \in [1 .. len -> Candidate]
    BY <1>4, <1>5
  <2> QED
    BY <1>1, <2>1
<1>7. \A i \in 1 .. len : scored[i].pos = i /\ scored[i].score = gain(i)
  BY <1>4
<1> QED
  BY <1>6, <1>7 DEF len, gain, chosen, GainOf

\* What one turn of the loop takes, and leaves.
IsTurn(new, st, c, rel, sim, lambda, swap) ==
  /\ c \in ToSet(st.left)
  /\ new.chosen = Append(st.chosen, c)
  /\ new.left \in Seq(1 .. Len(rel)) /\ Distinct(new.left)
  /\ ToSet(new.left) = ToSet(st.left) \ {c} /\ Len(new.left) = Len(st.left) - 1
  /\ \A d \in ToSet(st.left) :
       ~ Beats(GainOf(rel, sim, lambda, st, d), GainOf(rel, sim, lambda, st, c))
  /\ ~ swap /\ Rising(st.left) =>
       /\ Rising(new.left)
       /\ \A d \in ToSet(st.left) :
            d < c => Beats(GainOf(rel, sim, lambda, st, c), GainOf(rel, sim, lambda, st, d))

\* A turn takes one candidate that nothing left gains more than, whatever the cut.
LEMMA TurnTakes ==
  ASSUME NEW rel, NEW sim, NEW lambda, AreRelevances(rel, sim, lambda),
         NEW st \in Selections(Len(rel)), st.left # <<>>, Distinct(st.left),
         NEW swap \in BOOLEAN, NEW cut
  PROVE  /\ \E c \in 1 .. Len(rel) : IsTurn(TakeBest(rel, sim, lambda, st, swap, cut), st, c, rel, sim, lambda, swap)
         /\ \A other : TakeBest(rel, sim, lambda, st, swap, other) = TakeBest(rel, sim, lambda, st, swap, cut)
<1> DEFINE n == Len(rel)
           len == Len(st.left)
           scored == Gains(rel, sim, lambda, st)
           x == Pick(scored, cut)
           p == x.pos
           gain(c) == GainOf(rel, sim, lambda, st, c)
<1>1. /\ st.left \in Seq(1 .. n) /\ st.chosen \in Seq(1 .. n) /\ len \in Nat \ {0}
      /\ DOMAIN st.left = 1 .. len /\ \A i \in 1 .. len : st.left[i] \in 1 .. n
  <2>1. st.left \in Seq(1 .. n) /\ st.chosen \in Seq(1 .. n)
    BY DEF Selections
  <2> QED
    BY <2>1
<1>2. /\ scored \in Seq(Candidate) /\ scored # <<>> /\ Len(scored) = len
      /\ \A i \in 1 .. len : scored[i].pos = i /\ scored[i].score = gain(st.left[i])
  BY GainsAre
<1> HIDE DEF scored, gain
<1>3. NaN \notin Int
  BY DEF AreRelevances
<1>4. ASSUME NEW other PROVE Pick(scored, other).pos = p
  <2>1. IsFirst(Pick(scored, other), scored) /\ IsFirst(x, scored)
    BY <1>2, <1>3, PickIsFirst
  <2> DEFINE y == Pick(scored, other)
  <2> HIDE DEF x, y
  <2>2. PICK i \in 1 .. len : y = scored[i]
    BY <1>2, <2>1 DEF IsFirst, y
  <2>3. PICK j \in 1 .. len : x = scored[j]
    BY <1>2, <2>1 DEF IsFirst
  <2>4. First(y, x) /\ First(x, y)
    BY <1>2, <2>1, <2>2, <2>3 DEF IsFirst, y
  <2>5. x \in Candidate /\ y \in Candidate
    BY <1>2, <2>2, <2>3
  <2> QED
    BY <1>3, <2>4, <2>5, FirstOrders DEF y
<1>5. \A other : TakeBest(rel, sim, lambda, st, swap, other) = TakeBest(rel, sim, lambda, st, swap, cut)
  BY <1>4 DEF TakeBest, scored
<1>6. IsFirst(x, scored)
  BY <1>2, <1>3, PickIsFirst
<1> DEFINE new == TakeBest(rel, sim, lambda, st, swap, cut)
           c == st.left[p]
<1>7. new = [chosen |-> Append(st.chosen, c), left |-> Without(st.left, p, swap)]
  BY DEF TakeBest, scored
<1> HIDE DEF x, new
<1>8. p \in 1 .. len /\ x = scored[p]
  <2>1. PICK i \in 1 .. len : x = scored[i]
    BY <1>2, <1>6 DEF IsFirst
  <2> QED
    BY <1>2, <2>1
<1> HIDE DEF p
<1>9. c \in 1 .. n /\ c \in ToSet(st.left)
  BY <1>1, <1>8 DEF ToSet
<1>10. /\ new.chosen = Append(st.chosen, c)
       /\ new.left \in Seq(1 .. n) /\ Distinct(new.left)
       /\ ToSet(new.left) = ToSet(st.left) \ {c} /\ Len(new.left) = len - 1
       /\ ~ swap /\ Rising(st.left) => Rising(new.left)
  <2>1. new.chosen = Append(st.chosen, c) /\ new.left = Without(st.left, p, swap)
    BY <1>7
  <2> DEFINE s == st.left
             A == 1 .. n
             w == new.left
  <2>2. A \subseteq Int /\ s \in Seq(A) /\ Distinct(s) /\ p \in DOMAIN s /\ w = Without(s, p, swap)
    BY <1>1, <1>8, <2>1
  <2> HIDE DEF s, A, w
  <2>3. /\ w \in Seq(A) /\ Len(w) = Len(s) - 1 /\ Distinct(w)
        /\ ToSet(w) = ToSet(s) \ {s[p]}
        /\ ~ swap /\ Rising(s) => Rising(w)
    BY <2>2, WithoutKeeps
  <2> QED
    BY <2>1, <2>3 DEF s, A, w
<1>11. ASSUME NEW i \in 1 .. len
       PROVE  /\ ~ Beats(gain(st.left[i]), gain(c))
              /\ i < p => Beats(gain(c), gain(st.left[i]))
  <2>1. First(scored[p], scored[i]) /\ scored[i] \in Candidate /\ scored[p] \in Candidate
    BY <1>2, <1>6, <1>8 DEF IsFirst
  <2>2. /\ scored[i].pos = i /\ scored[p].pos = p
        /\ scored[i].score = gain(st.left[i]) /\ scored[p].score = gain(c)
    BY <1>2, <1>8
  <2>3. /\ scored[i].score = NaN \/ scored[i].score \in Int
        /\ scored[p].score = NaN \/ scored[p].score \in Int
    BY <2>1 DEF Candidate, Score
  <2>4. ~ Beats(scored[i].score, scored[p].score) /\ (i < p => Beats(scored[p].score, scored[i].score))
    BY <1>1, <1>3, <1>8, <2>1, <2>2, <2>3 DEF First, Beats
  <2> QED
    BY <2>2, <2>4
<1>12. ASSUME NEW d \in ToSet(st.left)
       PROVE  /\ ~ Beats(gain(d), gain(c))
              /\ Rising(st.left) /\ d < c => Beats(gain(c), gain(d))
  <2>1. PICK i \in 1 .. len : d = st.left[i]
    BY <1>1 DEF ToSet
  <2>2. Rising(st.left) /\ d < c => i < p
    <3> SUFFICES ASSUME Rising(st.left), d < c, ~ (i < p) PROVE FALSE
      OBVIOUS
    <3>1. CASE i = p
      BY <1>1, <1>8, <2>1, <3>1
    <3>2. CASE i > p
      <4>1. st.left[p] < st.left[i]
        BY <1>1, <1>8, <3>2 DEF Rising
      <4> HIDE DEF n
      <4> QED
        BY <1>1, <1>8, <2>1, <4>1
    <3> QED
      BY <1>8, <3>1, <3>2
  <2> QED
    BY <1>11, <2>1, <2>2
<1>13. IsTurn(new, st, c, rel, sim, lambda, swap)
  BY <1>9, <1>10, <1>12 DEF IsTurn, gain
<1> QED
  BY <1>5, <1>9, <1>13 DEF new

-----------------------------------------------------------------------------
(* The turns of the selection                                              *)

\* A turn of the loop, which does nothing when nothing is left.
TurnOf(rel, sim, lambda, st, swap, cut) ==
  IF st.left = <<>> THEN st ELSE TakeBest(rel, sim, lambda, st, swap, cut)

Turns(f, len, rel, sim, lambda, start, swap, cut) ==
  \A T \in SUBSET (1 .. len) :
    f[T] = IF T = {} THEN start ELSE TurnOf(rel, sim, lambda, f[T \ {Max(T)}], swap, cut)

\* The fold of Greedy is such a recursion.
IsTurned(rel, sim, lambda, start, len, swap, cut) ==
  \E g : /\ Turns(g, len, rel, sim, lambda, start, swap, cut)
         /\ Greedy(rel, sim, lambda, start, len, swap, cut) = g[1 .. len].chosen

\* The selection as the function of its fold.
LEMMA GreedyUnfolds ==
  ASSUME NEW rel, NEW sim, NEW lambda, NEW start, NEW len \in Nat, NEW swap, NEW cut,
         NEW V, NEW f \in [SUBSET (1 .. len) -> V], Turns(f, len, rel, sim, lambda, start, swap, cut)
  PROVE  IsTurned(rel, sim, lambda, start, len, swap, cut)
<1> DEFINE Turn(st) == IF st.left = <<>> THEN st ELSE TakeBest(rel, sim, lambda, st, swap, cut)
<1>1. DOMAIN Numbers(len) = 1 .. len
  BY DEF Numbers
<1>2. f = [T \in SUBSET DOMAIN Numbers(len) |-> IF T = {} THEN start ELSE Turn(f[T \ {Max(T)}])]
  BY <1>1, Zenon DEF Turns, TurnOf
<1>3. PICK g : /\ g = [T \in SUBSET DOMAIN Numbers(len) |-> IF T = {} THEN start ELSE Turn(g[T \ {Max(T)}])]
               /\ Greedy(rel, sim, lambda, start, len, swap, cut) = g[DOMAIN Numbers(len)].chosen
  BY <1>2, ZenonT(60) DEF Greedy, FoldLeft, MapThenFoldSet
<1>4. Turns(g, len, rel, sim, lambda, start, swap, cut)
  BY <1>1, <1>3, Zenon DEF Turns, TurnOf
<1> QED
  BY <1>1, <1>3, <1>4, Zenon DEF IsTurned

\* What the loop makes of the first m turns.
IsGreedy(h, len, rel, sim, lambda, start, swap, cut) ==
  /\ h[0] = start
  /\ \A m \in 1 .. len : /\ h[m - 1] \in Selections(Len(rel)) /\ Distinct(h[m - 1].left)
                         /\ h[m] = TurnOf(rel, sim, lambda, h[m - 1], swap, cut)
  /\ Greedy(rel, sim, lambda, start, len, swap, cut) = h[len].chosen

\* The states of the selection, turn by turn.
LEMMA GreedyRuns ==
  ASSUME NEW rel, NEW sim, NEW lambda, AreRelevances(rel, sim, lambda),
         NEW start \in Selections(Len(rel)), Distinct(start.left), NEW len \in Nat,
         NEW swap \in BOOLEAN, NEW cut
  PROVE  \E h : IsGreedy(h, len, rel, sim, lambda, start, swap, cut)
<1> DEFINE n == Len(rel)
           V == {st \in Selections(n) : Distinct(st.left)}
           turn(u) == TurnOf(rel, sim, lambda, u, swap, cut)
           next == [m \in 1 .. len |-> [u \in V |-> turn(u)]]
<1>1. ASSUME NEW u \in V PROVE turn(u) \in V
  <2>1. CASE u.left = <<>>
    BY <2>1 DEF TurnOf
  <2>2. CASE u.left # <<>>
    <3> DEFINE new == TakeBest(rel, sim, lambda, u, swap, cut)
    <3>1. PICK c \in 1 .. n : IsTurn(new, u, c, rel, sim, lambda, swap)
      BY <2>2, TurnTakes
    <3>2. new.chosen = Append(u.chosen, c) /\ new.left \in Seq(1 .. n) /\ Distinct(new.left)
      BY <3>1 DEF IsTurn
    <3>3. new = [chosen |-> new.chosen, left |-> new.left]
      BY DEF TakeBest
    <3>4. u.chosen \in Seq(1 .. n)
      BY DEF Selections
    <3> HIDE DEF new
    <3>5. new.chosen \in Seq(1 .. n)
      BY <3>2, <3>4
    <3>6. new \in Selections(n)
      BY <3>2, <3>3, <3>5 DEF Selections
    <3> QED
      BY <2>2, <3>2, <3>6 DEF TurnOf, new
  <2> QED
    BY <2>1, <2>2
<1>2. start \in V
  OBVIOUS
<1> HIDE DEF V, turn
<1>3. next \in [1 .. len -> [V -> V]]
  BY <1>1
<1> HIDE DEF next
<1>4. PICK f : IsLoop(f, len, V, start, next)
  BY <1>2, <1>3, LoopExists
<1>5. Turns(f, len, rel, sim, lambda, start, swap, cut)
  <2> SUFFICES ASSUME NEW T \in SUBSET (1 .. len), T # {} PROVE f[T] = turn(f[T \ {Max(T)}])
    BY <1>4 DEF Turns, IsLoop, turn
  <2>1. Max(T) \in 1 .. len
    BY LastPlace
  <2>2. f[T \ {Max(T)}] \in V /\ f[T] = next[Max(T)][f[T \ {Max(T)}]]
    BY <1>4 DEF IsLoop
  <2> QED
    BY <2>1, <2>2 DEF next
<1>6. PICK g : /\ Turns(g, len, rel, sim, lambda, start, swap, cut)
               /\ Greedy(rel, sim, lambda, start, len, swap, cut) = g[1 .. len].chosen
  <2>1. f \in [SUBSET (1 .. len) -> V]
    BY <1>4 DEF IsLoop
  <2>2. IsTurned(rel, sim, lambda, start, len, swap, cut)
    <3> HIDE DEF n
    <3> QED
      BY <1>5, <2>1, GreedyUnfolds
  <2> QED
    BY <2>2 DEF IsTurned
<1>7. Recursing(g, len, V, start, next)
  <2>1. g[{}] = start
    BY <1>6 DEF Turns
  <2>2. ASSUME NEW T \in SUBSET (1 .. len), T # {}, g[T \ {Max(T)}] \in V
        PROVE  g[T] = next[Max(T)][g[T \ {Max(T)}]]
    <3>1. Max(T) \in 1 .. len
      BY <2>2, LastPlace
    <3>2. g[T] = turn(g[T \ {Max(T)}])
      BY <1>6, <2>2 DEF Turns, turn
    <3> QED
      BY <2>2, <3>1, <3>2 DEF next
  <2> QED
    BY <2>1, <2>2 DEF Recursing
<1>8. PICK h : IsTaken(h, len, V, start, next) /\ h[len] = g[1 .. len]
  BY <1>2, <1>3, <1>7, TakenAlong
<1>9. \A m \in 1 .. len : h[m - 1] \in V /\ h[m] = turn(h[m - 1])
  BY <1>8 DEF IsTaken, next
<1>10. IsGreedy(h, len, rel, sim, lambda, start, swap, cut)
  BY <1>6, <1>8, <1>9 DEF IsGreedy, IsTaken, turn, V
<1> QED
  BY <1>10

\* Each pick so far was the best of what was left.
PickedBest(s, from, rel, sim, lambda) ==
  \A i \in from .. Len(s) :
    LET chosen == {s[j] : j \in 1 .. (i - 1)}
    IN  \A c \in DOMAIN rel \ chosen :
          ~ Beats(Gain(rel, sim, lambda, c, chosen), Gain(rel, sim, lambda, s[i], chosen))

\* One more is picked.
LEMMA PicksGrow ==
  ASSUME NEW rel, NEW sim, NEW lambda, NEW N \in Nat, N = Len(rel), DOMAIN rel = 1 .. N,
         NEW s \in Seq(1 .. N), NEW x \in 1 .. N, NEW from \in Nat, from >= 1,
         NEW t, t = Append(s, x)
  PROVE  /\ PickedBest(s, from, rel, sim, lambda)
            /\ (\A c \in DOMAIN rel \ ToSet(s) :
                  ~ Beats(Gain(rel, sim, lambda, c, ToSet(s)), Gain(rel, sim, lambda, x, ToSet(s))))
            => PickedBest(t, from, rel, sim, lambda)
         /\ TiesGoToTheFirst(s, from, rel, sim, lambda)
            /\ (\A c \in DOMAIN rel \ ToSet(s) :
                  c < x => Beats(Gain(rel, sim, lambda, x, ToSet(s)), Gain(rel, sim, lambda, c, ToSet(s))))
            => TiesGoToTheFirst(t, from, rel, sim, lambda)
<1> DEFINE len == Len(s)
<1>1. /\ len \in Nat /\ Len(t) = len + 1 /\ t[len + 1] = x
      /\ \A j \in 1 .. len : t[j] = s[j]
      /\ DOMAIN s = 1 .. len
  OBVIOUS
<1> HIDE DEF len
<1>2. \A i \in from .. len + 1 : {t[j] : j \in 1 .. (i - 1)} = {s[j] : j \in 1 .. (i - 1)}
  <2> SUFFICES ASSUME NEW i \in from .. len + 1 PROVE {t[j] : j \in 1 .. (i - 1)} = {s[j] : j \in 1 .. (i - 1)}
    OBVIOUS
  <2>1. \A j \in 1 .. (i - 1) : j \in 1 .. len
    BY <1>1
  <2>2. \A j \in 1 .. (i - 1) : t[j] = s[j]
    BY <1>1, <2>1
  <2> QED
    BY <2>2
<1>3. {s[j] : j \in 1 .. ((len + 1) - 1)} = ToSet(s)
  <2>1. (len + 1) - 1 = len
    BY <1>1
  <2> QED
    BY <1>1, <2>1 DEF ToSet
<1>4. \A i \in from .. len + 1 : i = len + 1 \/ (i \in from .. len /\ t[i] = s[i])
  BY <1>1
<1>5. ASSUME PickedBest(s, from, rel, sim, lambda),
             \A c \in DOMAIN rel \ ToSet(s) :
               ~ Beats(Gain(rel, sim, lambda, c, ToSet(s)), Gain(rel, sim, lambda, x, ToSet(s)))
      PROVE  PickedBest(t, from, rel, sim, lambda)
  <2> SUFFICES ASSUME NEW i \in from .. len + 1
               PROVE  LET chosen == {t[j] : j \in 1 .. (i - 1)}
                      IN  \A c \in DOMAIN rel \ chosen :
                            ~ Beats(Gain(rel, sim, lambda, c, chosen), Gain(rel, sim, lambda, t[i], chosen))
    BY <1>1 DEF PickedBest
  <2>1. CASE i = len + 1
    BY <1>1, <1>2, <1>3, <1>5, <2>1
  <2>2. CASE i # len + 1
    BY <1>2, <1>4, <1>5, <2>2 DEF PickedBest, len
  <2> QED
    BY <2>1, <2>2
<1>6. ASSUME TiesGoToTheFirst(s, from, rel, sim, lambda),
             \A c \in DOMAIN rel \ ToSet(s) :
               c < x => Beats(Gain(rel, sim, lambda, x, ToSet(s)), Gain(rel, sim, lambda, c, ToSet(s)))
      PROVE  TiesGoToTheFirst(t, from, rel, sim, lambda)
  <2> SUFFICES ASSUME NEW i \in from .. len + 1
               PROVE  LET chosen == {t[j] : j \in 1 .. (i - 1)}
                      IN  \A c \in DOMAIN rel \ chosen :
                            c < t[i] => Beats(Gain(rel, sim, lambda, t[i], chosen), Gain(rel, sim, lambda, c, chosen))
    BY <1>1 DEF TiesGoToTheFirst
  <2>1. CASE i = len + 1
    BY <1>1, <1>2, <1>3, <1>6, <2>1
  <2>2. CASE i # len + 1
    BY <1>2, <1>4, <1>6, <2>2 DEF TiesGoToTheFirst, len
  <2> QED
    BY <2>1, <2>2
<1> QED
  BY <1>5, <1>6

\* What the loop has after m turns.
AfterTurns(st, m, rel, sim, lambda, start, swap) ==
  /\ Parted(st, Len(rel))
  /\ Len(st.chosen) = Len(start.chosen) + m /\ Len(st.left) = Len(start.left) - m
  /\ \A i \in DOMAIN start.chosen : st.chosen[i] = start.chosen[i]
  /\ PickedBest(st.chosen, Len(start.chosen) + 1, rel, sim, lambda)
  /\ ~ swap /\ Rising(start.left) =>
       Rising(st.left) /\ TiesGoToTheFirst(st.chosen, Len(start.chosen) + 1, rel, sim, lambda)

\* A turn keeps what is true of a selection: each pick so far was the best there was.
LEMMA TurnKeeps ==
  ASSUME NEW rel, NEW sim, NEW lambda, AreRelevances(rel, sim, lambda),
         NEW start, Parted(start, Len(rel)), NEW swap \in BOOLEAN, NEW cut,
         NEW m \in Nat, m < Len(start.left),
         NEW st, AfterTurns(st, m, rel, sim, lambda, start, swap),
         NEW new, new = TurnOf(rel, sim, lambda, st, swap, cut)
  PROVE  AfterTurns(new, m + 1, rel, sim, lambda, start, swap)
<1> DEFINE n == Len(rel)
           c0 == Len(start.chosen)
           l0 == Len(start.left)
<1>1. /\ n \in Nat /\ DOMAIN rel = 1 .. n /\ c0 \in Nat /\ l0 \in Nat
      /\ start.left \in Seq(1 .. n) /\ start.chosen \in Seq(1 .. n)
  BY DEF AreRelevances, Parted, Selections
<1>2. /\ st \in Selections(n) /\ Distinct(st.chosen) /\ Distinct(st.left)
      /\ ToSet(st.chosen) \cup ToSet(st.left) = 1 .. n
      /\ ToSet(st.chosen) \cap ToSet(st.left) = {}
      /\ Len(st.chosen) = c0 + m /\ Len(st.left) = l0 - m
      /\ \A i \in DOMAIN start.chosen : st.chosen[i] = start.chosen[i]
      /\ PickedBest(st.chosen, c0 + 1, rel, sim, lambda)
  BY DEF AfterTurns, Parted
<1>3. st.left \in Seq(1 .. n) /\ st.chosen \in Seq(1 .. n)
  BY <1>2 DEF Selections
<1>4. st.left # <<>>
  BY <1>1, <1>2
<1>5. new = TakeBest(rel, sim, lambda, st, swap, cut)
  BY <1>4 DEF TurnOf
<1>6. PICK c \in 1 .. n : IsTurn(new, st, c, rel, sim, lambda, swap)
  BY <1>2, <1>4, <1>5, TurnTakes
<1>7. /\ c \in ToSet(st.left) /\ new.chosen = Append(st.chosen, c)
      /\ new.left \in Seq(1 .. n) /\ Distinct(new.left)
      /\ ToSet(new.left) = ToSet(st.left) \ {c} /\ Len(new.left) = Len(st.left) - 1
  BY <1>6 DEF IsTurn
<1>8. new = [chosen |-> new.chosen, left |-> new.left]
  BY <1>5 DEF TakeBest
<1>9. c \notin ToSet(st.chosen)
  BY <1>2, <1>7
<1> HIDE DEF n, c0, l0
<1>10. /\ new.chosen \in Seq(1 .. n) /\ Len(new.chosen) = Len(st.chosen) + 1
       /\ \A i \in 1 .. Len(st.chosen) : new.chosen[i] = st.chosen[i]
       /\ new.chosen[Len(st.chosen) + 1] = c
  <2>1. st.chosen \in Seq(1 .. n) /\ c \in 1 .. n /\ new.chosen = Append(st.chosen, c)
    BY <1>3, <1>7 DEF n
  <2> DEFINE u == st.chosen
             A == 1 .. n
  <2>2. u \in Seq(A) /\ c \in A /\ new.chosen = Append(u, c)
    BY <2>1
  <2> HIDE DEF u, A
  <2>3. /\ new.chosen \in Seq(A) /\ Len(new.chosen) = Len(u) + 1
        /\ \A i \in 1 .. Len(u) : new.chosen[i] = u[i]
        /\ new.chosen[Len(u) + 1] = c
    BY <2>2
  <2> QED
    BY <2>3 DEF u, A
<1>11. Distinct(new.chosen) /\ ToSet(new.chosen) = ToSet(st.chosen) \cup {c}
  <2> DEFINE u == st.chosen
             A == 1 .. n
  <2>1. u \in Seq(A) /\ c \in A /\ c \notin ToSet(u) /\ Distinct(u)
    BY <1>2, <1>3, <1>9 DEF n
  <2> HIDE DEF u, A
  <2>2. ToSet(Append(u, c)) = ToSet(u) \cup {c} /\ Distinct(Append(u, c))
    BY <2>1, DistinctAppend
  <2> QED
    BY <1>7, <2>2 DEF u
<1>12. Parted(new, n)
  <2>1. new \in Selections(n)
    BY <1>7, <1>8, <1>10 DEF Selections
  <2> QED
    BY <1>2, <1>7, <1>11, <2>1 DEF Parted
<1>13. Len(new.chosen) = c0 + (m + 1) /\ Len(new.left) = l0 - (m + 1)
  <2>1. Len(st.chosen) = c0 + m /\ Len(st.left) = l0 - m /\ Len(new.left) = Len(st.left) - 1
    BY <1>2, <1>7, Zenon
  <2>2. Len(new.chosen) = Len(st.chosen) + 1
    BY <1>10
  <2>3. c0 \in Nat /\ l0 \in Nat
    BY <1>1
  <2> QED
    BY <2>1, <2>2, <2>3
<1>14. \A i \in DOMAIN start.chosen : new.chosen[i] = start.chosen[i]
  <2>1. \A i \in DOMAIN start.chosen : i \in 1 .. Len(st.chosen)
    BY <1>1, <1>2 DEF c0
  <2> QED
    BY <1>2, <1>10, <2>1
<1> DEFINE left == ToSet(st.left)
           s == st.chosen
           t == new.chosen
           from == c0 + 1
<1>15. DOMAIN rel \ ToSet(s) = left
  BY <1>1, <1>2
<1>16. /\ \A d \in left : ~ Beats(Gain(rel, sim, lambda, d, ToSet(s)), Gain(rel, sim, lambda, c, ToSet(s)))
       /\ ~ swap /\ Rising(st.left) =>
            /\ Rising(new.left)
            /\ \A d \in left :
                 d < c => Beats(Gain(rel, sim, lambda, c, ToSet(s)), Gain(rel, sim, lambda, d, ToSet(s)))
  BY <1>6 DEF IsTurn, GainOf
<1>17. n = Len(rel) /\ s \in Seq(1 .. n) /\ from \in Nat /\ from >= 1 /\ t = Append(s, c)
  <2>1. n = Len(rel) /\ s \in Seq(1 .. n) /\ t = Append(s, c)
    BY <1>3, <1>7, Zenon DEF n
  <2>2. c0 \in Nat
    BY <1>1
  <2> QED
    BY <2>1, <2>2
<1>18. /\ PickedBest(s, from, rel, sim, lambda)
       /\ ~ swap /\ Rising(start.left) => Rising(st.left) /\ TiesGoToTheFirst(s, from, rel, sim, lambda)
  BY DEF AfterTurns, c0
<1> HIDE DEF left, s, t, from
<1>19. /\ PickedBest(s, from, rel, sim, lambda)
            /\ (\A d \in DOMAIN rel \ ToSet(s) :
                  ~ Beats(Gain(rel, sim, lambda, d, ToSet(s)), Gain(rel, sim, lambda, c, ToSet(s))))
            => PickedBest(t, from, rel, sim, lambda)
       /\ TiesGoToTheFirst(s, from, rel, sim, lambda)
            /\ (\A d \in DOMAIN rel \ ToSet(s) :
                  d < c => Beats(Gain(rel, sim, lambda, c, ToSet(s)), Gain(rel, sim, lambda, d, ToSet(s))))
            => TiesGoToTheFirst(t, from, rel, sim, lambda)
  BY <1>1, <1>17, PicksGrow
<1>20. PickedBest(t, from, rel, sim, lambda)
  BY <1>15, <1>16, <1>18, <1>19
<1>21. ~ swap /\ Rising(start.left) => Rising(new.left) /\ TiesGoToTheFirst(t, from, rel, sim, lambda)
  BY <1>15, <1>16, <1>18, <1>19
<1> QED
  BY <1>12, <1>13, <1>14, <1>20, <1>21 DEF AfterTurns, n, c0, l0, t, from

\* What the loop returns, whichever way the candidates are cut.
GreedyResult(out, len, rel, sim, lambda, start, swap) ==
  /\ out \in Seq(1 .. Len(rel)) /\ Distinct(out) /\ Len(out) = Len(start.chosen) + len
  /\ \A i \in DOMAIN start.chosen : out[i] = start.chosen[i]
  /\ PickedBest(out, Len(start.chosen) + 1, rel, sim, lambda)
  /\ ~ swap /\ Rising(start.left) => TiesGoToTheFirst(out, Len(start.chosen) + 1, rel, sim, lambda)

GreedyIsRight(len, rel, sim, lambda, start, swap, cut) ==
  /\ GreedyResult(Greedy(rel, sim, lambda, start, len, swap, cut), len, rel, sim, lambda, start, swap)
  /\ \A other : Greedy(rel, sim, lambda, start, len, swap, other) = Greedy(rel, sim, lambda, start, len, swap, cut)

\* A selection of so many picks the best at every turn, and the same for every cut.
LEMMA GreedyHolds ==
  ASSUME NEW rel, NEW sim, NEW lambda, AreRelevances(rel, sim, lambda),
         NEW start, Parted(start, Len(rel)), NEW swap \in BOOLEAN, NEW cut,
         NEW len \in Nat, len <= Len(start.left)
  PROVE  GreedyIsRight(len, rel, sim, lambda, start, swap, cut)
<1> DEFINE n == Len(rel)
<1>1. start \in Selections(n) /\ Distinct(start.left) /\ Distinct(start.chosen)
      /\ start.left \in Seq(1 .. n) /\ start.chosen \in Seq(1 .. n)
  BY DEF Parted, Selections
<1>2. ASSUME NEW any PROVE \E h : IsGreedy(h, len, rel, sim, lambda, start, swap, any)
  BY <1>1, GreedyRuns
<1>3. PICK h : IsGreedy(h, len, rel, sim, lambda, start, swap, cut)
  BY <1>2
<1>4. /\ h[0] = start
      /\ \A m \in 1 .. len : /\ h[m - 1] \in Selections(n) /\ Distinct(h[m - 1].left)
                             /\ h[m] = TurnOf(rel, sim, lambda, h[m - 1], swap, cut)
      /\ Greedy(rel, sim, lambda, start, len, swap, cut) = h[len].chosen
  BY <1>3 DEF IsGreedy
<1> HIDE DEF n
<1> DEFINE P == {m \in Nat : AfterTurns(h[m], m, rel, sim, lambda, start, swap)}
<1>5. 0 \in P
  <2>1. PickedBest(start.chosen, Len(start.chosen) + 1, rel, sim, lambda)
    BY <1>1 DEF PickedBest
  <2>2. TiesGoToTheFirst(start.chosen, Len(start.chosen) + 1, rel, sim, lambda)
    BY <1>1 DEF TiesGoToTheFirst
  <2>3. Len(start.chosen) + 0 = Len(start.chosen) /\ Len(start.left) - 0 = Len(start.left)
    BY <1>1
  <2>4. AfterTurns(start, 0, rel, sim, lambda, start, swap)
    BY <2>1, <2>2, <2>3 DEF AfterTurns
  <2> QED
    BY <1>4, <2>4
<1>6. ASSUME NEW m \in 1 .. len, m - 1 \in P PROVE m \in P
  <2> DEFINE k == m - 1
             st == h[k]
             new == h[m]
  <2>1. k \in Nat /\ k < Len(start.left) /\ k + 1 = m
    BY <1>1
  <2>2. AfterTurns(st, k, rel, sim, lambda, start, swap) /\ new = TurnOf(rel, sim, lambda, st, swap, cut)
    BY <1>4, <1>6
  <2> HIDE DEF k, st, new
  <2>3. AfterTurns(new, k + 1, rel, sim, lambda, start, swap)
    BY <2>1, <2>2, TurnKeeps
  <2> QED
    BY <2>1, <2>3 DEF new
<1>7. len \in P
  <2> HIDE DEF P
  <2> QED
    BY <1>5, <1>6, PrefixInduction
<1>8. GreedyResult(h[len].chosen, len, rel, sim, lambda, start, swap)
  <2>1. AfterTurns(h[len], len, rel, sim, lambda, start, swap)
    BY <1>7
  <2>2. h[len].chosen \in Seq(1 .. Len(rel)) /\ Distinct(h[len].chosen)
    BY <2>1 DEF AfterTurns, Parted, Selections
  <2> QED
    BY <2>1, <2>2 DEF AfterTurns, GreedyResult
<1>9. ASSUME NEW other
      PROVE  Greedy(rel, sim, lambda, start, len, swap, other) = Greedy(rel, sim, lambda, start, len, swap, cut)
  <2>1. PICK g : IsGreedy(g, len, rel, sim, lambda, start, swap, other)
    BY <1>2
  <2>2. /\ g[0] = start
        /\ \A m \in 1 .. len : g[m] = TurnOf(rel, sim, lambda, g[m - 1], swap, other)
        /\ Greedy(rel, sim, lambda, start, len, swap, other) = g[len].chosen
    BY <2>1 DEF IsGreedy
  <2> DEFINE Q == {m \in Nat : g[m] = h[m]}
  <2>3. 0 \in Q
    BY <1>4, <2>2
  <2>4. ASSUME NEW m \in 1 .. len, m - 1 \in Q PROVE m \in Q
    <3> DEFINE st == h[m - 1]
    <3>1. st \in Selections(n) /\ Distinct(st.left)
      BY <1>4
    <3>2. g[m] = TurnOf(rel, sim, lambda, st, swap, other) /\ h[m] = TurnOf(rel, sim, lambda, st, swap, cut)
      BY <1>4, <2>2, <2>4
    <3> HIDE DEF st
    <3>3. CASE st.left = <<>>
      BY <3>2, <3>3 DEF TurnOf
    <3>4. CASE st.left # <<>>
      <4>1. TakeBest(rel, sim, lambda, st, swap, other) = TakeBest(rel, sim, lambda, st, swap, cut)
        BY <3>1, <3>4, TurnTakes DEF n
      <4> QED
        BY <3>2, <3>4, <4>1 DEF TurnOf
    <3> QED
      BY <3>3, <3>4
  <2>5. len \in Q
    <3> HIDE DEF Q
    <3> QED
      BY <2>3, <2>4, PrefixInduction
  <2> QED
    BY <1>4, <2>2, <2>5
<1> QED
  BY <1>4, <1>8, <1>9 DEF GreedyIsRight

-----------------------------------------------------------------------------
(* mmr_rerank and mmr_rerank_scored                                        *)

StartOf(n, seed) == IF seed THEN Seeded(n) ELSE Unseeded(n)

\* A selection starts with the seed chosen or nothing, and the rest left.
LEMMA StartsParted ==
  ASSUME NEW n \in Nat, NEW seed \in BOOLEAN, seed => n > 0
  PROVE  /\ Parted(StartOf(n, seed), n) /\ Rising(StartOf(n, seed).left)
         /\ Len(StartOf(n, seed).chosen) = (IF seed THEN 1 ELSE 0)
         /\ Len(StartOf(n, seed).left) = n - (IF seed THEN 1 ELSE 0)
         /\ seed => 1 \in DOMAIN StartOf(n, seed).chosen /\ StartOf(n, seed).chosen[1] = 1
<1>1. /\ Numbers(n) \in Seq(1 .. n) /\ Len(Numbers(n)) = n /\ \A i \in 1 .. n : Numbers(n)[i] = i
      /\ DOMAIN Numbers(n) = 1 .. n
  BY DEF Numbers
<1>2. CASE ~ seed
  <2> DEFINE st == Unseeded(n)
  <2>1. st = [chosen |-> <<>>, left |-> Numbers(n)]
    BY DEF Unseeded
  <2>2. StartOf(n, seed) = st
    BY <1>2 DEF StartOf
  <2> HIDE DEF st
  <2>3. st.chosen = <<>> /\ st.left = Numbers(n) /\ st \in Selections(n)
    BY <1>1, <2>1 DEF Selections
  <2>4. ToSet(st.chosen) = {} /\ ToSet(st.left) = 1 .. n /\ Distinct(st.chosen) /\ Distinct(st.left)
    BY <1>1, <2>3 DEF ToSet, Distinct
  <2>5. Parted(st, n) /\ Rising(st.left)
    BY <1>1, <2>3, <2>4 DEF Parted, Rising
  <2> QED
    BY <1>1, <1>2, <2>2, <2>3, <2>5
<1>3. CASE seed
  <2> DEFINE st == Seeded(n)
             t == Tail(Numbers(n))
  <2>1. st = [chosen |-> <<1>>, left |-> t]
    BY DEF Seeded
  <2>2. StartOf(n, seed) = st
    BY <1>3 DEF StartOf
  <2>3. n > 0 /\ 1 \in 1 .. n
    BY <1>3
  <2>4. /\ t \in Seq(1 .. n) /\ Len(t) = n - 1 /\ DOMAIN t = 1 .. n - 1
        /\ \A i \in 1 .. n - 1 : t[i] = i + 1
    BY <1>1, <2>3
  <2> HIDE DEF st, t
  <2>5. st.chosen = <<1>> /\ st.left = t /\ st \in Selections(n)
    BY <2>1, <2>3, <2>4 DEF Selections
  <2>6. ToSet(<<1>>) = {1} /\ Distinct(<<1>>) /\ Len(<<1>>) = 1 /\ 1 \in DOMAIN <<1>>
    BY DEF ToSet, Distinct
  <2>7. Distinct(t) /\ Rising(t)
    <3>1. \A i, j \in 1 .. n - 1 : (t[i] = t[j] => i = j) /\ (i < j => t[i] < t[j])
      BY <2>4
    <3> QED
      BY <2>4, <3>1 DEF Distinct, Rising
  <2>8. ToSet(t) = 2 .. n
    <3>1. ASSUME NEW k \in 2 .. n PROVE k - 1 \in 1 .. n - 1 /\ t[k - 1] = k
      BY <2>4
    <3>2. ToSet(t) = {t[i] : i \in 1 .. n - 1}
      BY <2>4 DEF ToSet
    <3>3. \A i \in 1 .. n - 1 : t[i] \in 2 .. n
      BY <2>4
    <3>4. \A k \in 2 .. n : \E i \in 1 .. n - 1 : t[i] = k
      BY <3>1
    <3> QED
      BY <3>2, <3>3, <3>4
  <2>9. {1} \cup 2 .. n = 1 .. n /\ {1} \cap 2 .. n = {}
    BY <2>3
  <2>10. Parted(st, n)
    BY <2>5, <2>6, <2>7, <2>8, <2>9 DEF Parted
  <2>11. Len(st.chosen) = 1 /\ Len(st.left) = n - 1 /\ 1 \in DOMAIN st.chosen /\ st.chosen[1] = 1 /\ Rising(st.left)
    BY <2>4, <2>5, <2>6, <2>7
  <2> QED
    BY <1>3, <2>2, <2>10, <2>11
<1> QED
  BY <1>2, <1>3

\* A greedy selection of k.
MmrResult(out, k, first, rel, sim, lambda) ==
  /\ out \in Seq(1 .. Len(rel)) /\ Distinct(out) /\ Len(out) = Min({k, Len(rel)})
  /\ PickedBest(out, first, rel, sim, lambda)

\* mmr_rerank_scored.
MmrScoredResult(s, k, seed, rel, sim, lambda) ==
  /\ s = Good(s.value) /\ MmrResult(s.value, k, IF seed THEN 2 ELSE 1, rel, sim, lambda)
  /\ TiesGoToTheFirst(s.value, IF seed THEN 2 ELSE 1, rel, sim, lambda)
  /\ seed /\ s.value # <<>> => s.value[1] = 1

\* mmr_rerank_scored picks greedily, and rayon's cut makes no difference.
LEMMA MmrScoredHolds ==
  ASSUME NEW rel, NEW sim, NEW lambda, AreRelevances(rel, sim, lambda), Len(sim) = Len(rel),
         NEW k \in Nat, NEW seed \in BOOLEAN, NEW cut
  PROVE  /\ MmrScoredResult(MmrScored(rel, sim, lambda, k, seed, cut), k, seed, rel, sim, lambda)
         /\ \A other : MmrScored(rel, sim, lambda, k, seed, other) = MmrScored(rel, sim, lambda, k, seed, cut)
<1> DEFINE n == Len(rel)
           take == Min({k, n})
           start == StartOf(n, seed)
           len == take - Len(start.chosen)
           S(any) == MmrScored(rel, sim, lambda, k, seed, any)
           first == IF seed THEN 2 ELSE 1
<1>1. n \in Nat
  BY DEF AreRelevances
<1>2. take = (IF k <= n THEN k ELSE n)
  <2>1. k \in Int /\ n \in Int
    BY <1>1
  <2> HIDE DEF n
  <2> QED
    BY <2>1, ExtremesOfTwo
<1>3. ASSUME NEW any PROVE S(any) = IF take = 0 THEN Good(<<>>) ELSE Good(Greedy(rel, sim, lambda, start, len, FALSE, any))
  BY DEF MmrScored, StartOf
<1>4. CASE take = 0
  <2>1. \A any : S(any) = Good(<<>>)
    BY <1>3, <1>4
  <2>2. Good(<<>>).value = <<>>
    BY DEF Good
  <2> HIDE DEF S
  <2>3. MmrResult(<<>>, k, first, rel, sim, lambda) /\ TiesGoToTheFirst(<<>>, first, rel, sim, lambda)
    BY <1>4 DEF MmrResult, PickedBest, TiesGoToTheFirst, Distinct
  <2>4. MmrScoredResult(S(cut), k, seed, rel, sim, lambda)
    BY <2>1, <2>2, <2>3 DEF MmrScoredResult
  <2> QED
    BY <2>1, <2>4 DEF S
<1>5. CASE take # 0
  <2>1. n > 0
    BY <1>1, <1>2, <1>5
  <2>2. /\ Parted(start, n) /\ Rising(start.left)
        /\ Len(start.chosen) = (IF seed THEN 1 ELSE 0)
        /\ Len(start.left) = n - (IF seed THEN 1 ELSE 0)
        /\ seed => 1 \in DOMAIN start.chosen /\ start.chosen[1] = 1
    BY <1>1, <2>1, StartsParted
  <2>3. len \in Nat /\ len <= Len(start.left)
    BY <1>1, <1>2, <1>5, <2>1, <2>2
  <2> DEFINE G(any) == Greedy(rel, sim, lambda, start, len, FALSE, any)
             out == G(cut)
  <2>4. /\ GreedyResult(out, len, rel, sim, lambda, start, FALSE)
        /\ \A other : G(other) = out
    <3>1. Parted(start, Len(rel))
      BY <2>2
    <3>2. FALSE \in BOOLEAN
      OBVIOUS
    <3>3. GreedyIsRight(len, rel, sim, lambda, start, FALSE, cut)
      <4> HIDE DEF start, len, G, out, S
      <4> QED
        BY <2>3, <3>1, <3>2, GreedyHolds
    <3> QED
      BY <3>3 DEF GreedyIsRight
  <2>5. \A any : S(any) = Good(out)
    <3> SUFFICES ASSUME NEW any PROVE S(any) = Good(out)
      OBVIOUS
    <3>1. S(any) = Good(G(any))
      BY <1>3, <1>5
    <3> QED
      BY <2>4, <3>1
  <2>6. Good(out).value = out
    BY DEF Good
  <2>7. /\ out \in Seq(1 .. n) /\ Distinct(out) /\ Len(out) = Len(start.chosen) + len
        /\ \A i \in DOMAIN start.chosen : out[i] = start.chosen[i]
        /\ PickedBest(out, Len(start.chosen) + 1, rel, sim, lambda)
        /\ TiesGoToTheFirst(out, Len(start.chosen) + 1, rel, sim, lambda)
    BY <2>2, <2>4 DEF GreedyResult
  <2>8. Len(start.chosen) + 1 = first /\ Len(start.chosen) + len = take
    BY <1>1, <1>2, <2>2
  <2> HIDE DEF S, out, G, first, len, take
  <2>9. seed => out[1] = 1
    BY <2>2, <2>7
  <2>10. MmrResult(out, k, first, rel, sim, lambda)
    BY <2>7, <2>8 DEF MmrResult, take
  <2>11. MmrScoredResult(S(cut), k, seed, rel, sim, lambda)
    BY <2>5, <2>6, <2>7, <2>8, <2>9, <2>10 DEF MmrScoredResult, first
  <2> QED
    BY <2>5, <2>11 DEF S
<1> QED
  BY <1>4, <1>5

\* mmr_rerank.
LEMMA MmrRerankHolds ==
  ASSUME NEW rel, NEW sim, NEW lambda, AreRelevances(rel, sim, lambda), NEW k \in Nat, NEW cut
  PROVE  /\ MmrResult(MmrRerank(rel, sim, lambda, k, cut), k, 1, rel, sim, lambda)
         /\ \A other : MmrRerank(rel, sim, lambda, k, other) = MmrRerank(rel, sim, lambda, k, cut)
<1> DEFINE n == Len(rel)
           take == Min({k, n})
           start == StartOf(n, FALSE)
           G(any) == Greedy(rel, sim, lambda, start, take, TRUE, any)
           out == G(cut)
<1>1. n \in Nat
  BY DEF AreRelevances
<1>2. take = (IF k <= n THEN k ELSE n)
  <2>1. k \in Int /\ n \in Int
    BY <1>1
  <2> HIDE DEF n
  <2> QED
    BY <2>1, ExtremesOfTwo
<1>3. /\ Parted(start, n) /\ Len(start.chosen) = 0 /\ Len(start.left) = n - 0
  BY <1>1, StartsParted
<1>4. \A any : MmrRerank(rel, sim, lambda, k, any) = G(any)
  BY DEF MmrRerank, StartOf
<1>5. take \in Nat /\ take <= Len(start.left)
  <2> HIDE DEF n, start, take
  <2> QED
    BY <1>1, <1>2, <1>3
<1>6. /\ GreedyResult(out, take, rel, sim, lambda, start, TRUE)
      /\ \A other : G(other) = out
  <2>1. Parted(start, Len(rel))
    BY <1>3
  <2>2. TRUE \in BOOLEAN
    OBVIOUS
  <2>3. GreedyIsRight(take, rel, sim, lambda, start, TRUE, cut)
    <3> HIDE DEF start, take, G, out
    <3> QED
      BY <1>5, <2>1, <2>2, GreedyHolds
  <2> QED
    BY <2>3 DEF GreedyIsRight
<1> HIDE DEF start, take, n
<1>7. Len(start.chosen) + 1 = 1 /\ Len(start.chosen) + take = take
  BY <1>3, <1>5
<1>8. MmrResult(out, k, 1, rel, sim, lambda)
  <2> HIDE DEF out
  <2> QED
    BY <1>6, <1>7 DEF GreedyResult, MmrResult, take, n
<1> QED
  BY <1>4, <1>6, <1>8

-----------------------------------------------------------------------------
(* rank_hybrid                                                             *)

\* One candidate in the order of relevance.
Ranks(kept, i, contents, k) ==
  IF EnoughRanked(kept, k) \/ Duplicate(contents, kept, i) THEN kept ELSE Append(kept, i)

Preranks(f, contents, k, order) ==
  \A T \in SUBSET DOMAIN order :
    f[T] = IF T = {} THEN <<>> ELSE Ranks(f[T \ {Max(T)}], order[Max(T)], contents, k)

\* The fold of Preranked is such a recursion.
IsPreranked(order, contents, k) ==
  \E g : Preranks(g, contents, k, order) /\ Preranked(order, contents, k) = g[DOMAIN order]

\* The walk down the relevances as the function of its fold.
LEMMA PrerankedUnfolds ==
  ASSUME NEW order, NEW contents, NEW k, NEW V, NEW f \in [SUBSET DOMAIN order -> V],
         Preranks(f, contents, k, order)
  PROVE  IsPreranked(order, contents, k)
<1> DEFINE Step(kept, i) == IF EnoughRanked(kept, k) \/ Duplicate(contents, kept, i)
                            THEN kept ELSE Append(kept, i)
<1>1. f = [T \in SUBSET DOMAIN order |-> IF T = {} THEN <<>> ELSE Step(f[T \ {Max(T)}], order[Max(T)])]
  BY Zenon DEF Preranks, Ranks
<1>2. PICK g : /\ g = [T \in SUBSET DOMAIN order |-> IF T = {} THEN <<>> ELSE Step(g[T \ {Max(T)}], order[Max(T)])]
               /\ Preranked(order, contents, k) = g[DOMAIN order]
  BY <1>1, ZenonT(60) DEF Preranked, FoldLeft, MapThenFoldSet
<1>3. Preranks(g, contents, k, order)
  BY <1>2, Zenon DEF Preranks, Ranks
<1> QED
  BY <1>2, <1>3, Zenon DEF IsPreranked

\* The first so many candidates taken.
IsRanking(h, n, contents, k, order) ==
  /\ h[0] = <<>>
  /\ \A m \in 1 .. n : h[m - 1] \in Seq(1 .. n) /\ h[m] = Ranks(h[m - 1], order[m], contents, k)
  /\ Preranked(order, contents, k) = h[n]

\* What rank_hybrid has kept, candidate by candidate.
LEMMA PrerankedRuns ==
  ASSUME NEW n \in Nat, NEW order \in Seq(1 .. n), Len(order) = n, NEW contents, NEW k
  PROVE  \E h : IsRanking(h, n, contents, k, order)
<1> DEFINE V == Seq(1 .. n)
           turn(u, m) == Ranks(u, order[m], contents, k)
           next == [m \in 1 .. n |-> [u \in V |-> turn(u, m)]]
<1>0. DOMAIN order = 1 .. n /\ \A m \in 1 .. n : order[m] \in 1 .. n
  OBVIOUS
<1>1. ASSUME NEW u \in V, NEW m \in 1 .. n PROVE turn(u, m) \in V
  <2>1. Append(u, order[m]) \in V
    BY <1>0
  <2> QED
    BY <2>1 DEF Ranks
<1>2. <<>> \in V
  OBVIOUS
<1> HIDE DEF V, turn
<1>3. next \in [1 .. n -> [V -> V]]
  BY <1>1
<1> HIDE DEF next
<1>4. PICK f : IsLoop(f, n, V, <<>>, next)
  BY <1>2, <1>3, LoopExists
<1>5. Preranks(f, contents, k, order)
  <2> SUFFICES ASSUME NEW T \in SUBSET (1 .. n), T # {} PROVE f[T] = turn(f[T \ {Max(T)}], Max(T))
    BY <1>0, <1>4 DEF Preranks, IsLoop, turn
  <2>1. Max(T) \in 1 .. n
    BY LastPlace
  <2>2. f[T \ {Max(T)}] \in V /\ f[T] = next[Max(T)][f[T \ {Max(T)}]]
    BY <1>4 DEF IsLoop
  <2> QED
    BY <2>1, <2>2 DEF next
<1>6. PICK g : Preranks(g, contents, k, order) /\ Preranked(order, contents, k) = g[1 .. n]
  <2>1. f \in [SUBSET DOMAIN order -> V]
    BY <1>0, <1>4 DEF IsLoop
  <2>2. IsPreranked(order, contents, k)
    BY <1>5, <2>1, PrerankedUnfolds
  <2> QED
    BY <1>0, <2>2 DEF IsPreranked
<1>7. Recursing(g, n, V, <<>>, next)
  <2>1. g[{}] = <<>>
    BY <1>6 DEF Preranks
  <2>2. ASSUME NEW T \in SUBSET (1 .. n), T # {}, g[T \ {Max(T)}] \in V
        PROVE  g[T] = next[Max(T)][g[T \ {Max(T)}]]
    <3>1. Max(T) \in 1 .. n
      BY <2>2, LastPlace
    <3>2. g[T] = turn(g[T \ {Max(T)}], Max(T))
      BY <1>0, <1>6, <2>2 DEF Preranks, turn
    <3> QED
      BY <2>2, <3>1, <3>2 DEF next
  <2> QED
    BY <2>1, <2>2 DEF Recursing
<1>8. PICK h : IsTaken(h, n, V, <<>>, next) /\ h[n] = g[1 .. n]
  BY <1>2, <1>3, <1>7, TakenAlong
<1>9. \A m \in 1 .. n : h[m - 1] \in V /\ h[m] = turn(h[m - 1], m)
  BY <1>8 DEF IsTaken, next
<1>10. IsRanking(h, n, contents, k, order)
  BY <1>6, <1>8, <1>9 DEF IsRanking, IsTaken, turn, V
<1> QED
  BY <1>10

\* Two candidates of one content that is not blank.
Copies(contents, i, j) == contents[i] # Blank /\ contents[i] = contents[j]

\* What is kept of the first m candidates: no copies, of each the most relevant.
AreKept(kept, m, n, rel, contents, k, order) ==
  /\ kept \in Seq(1 .. n) /\ Distinct(kept) /\ Len(kept) <= m
  /\ \A o \in ToSet(kept) : \E b \in 1 .. m : order[b] = o
  /\ \A i, j \in ToSet(kept) : Copies(contents, i, j) => i = j
  /\ \A a \in 1 .. m, o \in ToSet(kept) :
       order[a] \notin ToSet(kept) /\ Copies(contents, order[a], o) => rel[order[a]] <= rel[o]
  /\ ~ EnoughRanked(kept, k) =>
       \A a \in 1 .. m : order[a] \in ToSet(kept) \/ Duplicate(contents, kept, order[a])
  /\ m > 0 => kept # <<>> /\ kept[1] = order[1]

\* Candidates by falling relevance.
Falls(order, n, rel) ==
  /\ order \in Seq(1 .. n) /\ Len(order) = n /\ Distinct(order)
  /\ \A a, b \in 1 .. n : a < b => rel[order[a]] >= rel[order[b]]

\* One more candidate keeps what is true of those kept so far.
LEMMA RanksKeeps ==
  ASSUME NEW n \in Nat, NEW rel \in Seq(Int), Len(rel) = n, NEW contents, NEW k \in Nat,
         NEW order, Falls(order, n, rel),
         NEW m \in 1 .. n, NEW kept, AreKept(kept, m - 1, n, rel, contents, k, order),
         NEW new, new = Ranks(kept, order[m], contents, k)
  PROVE  AreKept(new, m, n, rel, contents, k, order)
<1>1. /\ \A a \in 1 .. n : order[a] \in 1 .. n
      /\ \A a, b \in 1 .. n : (a < b => rel[order[a]] >= rel[order[b]]) /\ (order[a] = order[b] => a = b)
      /\ \A a \in 1 .. n : rel[a] \in Int
  <2>1. /\ order \in Seq(1 .. n) /\ Len(order) = n /\ Distinct(order)
        /\ \A a, b \in 1 .. n : a < b => rel[order[a]] >= rel[order[b]]
    BY DEF Falls
  <2>2. DOMAIN order = 1 .. n /\ DOMAIN rel = 1 .. n
    BY <2>1
  <2>3. (\A a \in 1 .. n : order[a] \in 1 .. n) /\ (\A a \in 1 .. n : rel[a] \in Int)
    BY <2>1, <2>2
  <2>4. \A a, b \in 1 .. n : order[a] = order[b] => a = b
    BY <2>1, <2>2 DEF Distinct
  <2> QED
    BY <2>1, <2>3, <2>4
<1>2. /\ kept \in Seq(1 .. n) /\ Distinct(kept) /\ Len(kept) <= m - 1 /\ Len(kept) \in Nat
      /\ \A o \in ToSet(kept) : \E b \in 1 .. m - 1 : order[b] = o
      /\ \A i, j \in ToSet(kept) : Copies(contents, i, j) => i = j
      /\ \A a \in 1 .. m - 1, o \in ToSet(kept) :
           order[a] \notin ToSet(kept) /\ Copies(contents, order[a], o) => rel[order[a]] <= rel[o]
      /\ ~ EnoughRanked(kept, k) =>
           \A a \in 1 .. m - 1 : order[a] \in ToSet(kept) \/ Duplicate(contents, kept, order[a])
      /\ m - 1 > 0 => kept # <<>> /\ kept[1] = order[1]
  BY DEF AreKept
<1>3. \A a \in 1 .. m : a = m \/ a \in 1 .. m - 1
  OBVIOUS
<1>4. order[m] \notin ToSet(kept)
  <2>1. \A b \in 1 .. m - 1 : b \in 1 .. n /\ b # m
    OBVIOUS
  <2> QED
    BY <1>1, <1>2, <2>1
<1>5. CASE EnoughRanked(kept, k) \/ Duplicate(contents, kept, order[m])
  <2>1. new = kept
    BY <1>5 DEF Ranks
  <2>2. kept # <<>>
    <3>1. ToSet(<<>>) = {}
      BY DEF ToSet
    <3> QED
      BY <1>5, <3>1 DEF EnoughRanked, Duplicate
  <2>3. m - 1 > 0
    <3>1. Len(kept) > 0
      BY <1>2, <2>2
    <3> QED
      BY <1>2, <3>1
  <2>4. ASSUME NEW o \in ToSet(kept) PROVE rel[order[m]] <= rel[o]
    <3>1. PICK b \in 1 .. m - 1 : order[b] = o
      BY <1>2
    <3>2. b \in 1 .. n /\ b < m
      OBVIOUS
    <3> QED
      BY <1>1, <3>1, <3>2
  <2>5. \A o \in ToSet(kept) : \E b \in 1 .. m : order[b] = o
    BY <1>2
  <2>6. \A a \in 1 .. m, o \in ToSet(kept) :
          order[a] \notin ToSet(kept) /\ Copies(contents, order[a], o) => rel[order[a]] <= rel[o]
    BY <1>2, <1>3, <2>4
  <2>7. ~ EnoughRanked(kept, k) =>
          \A a \in 1 .. m : order[a] \in ToSet(kept) \/ Duplicate(contents, kept, order[a])
    BY <1>2, <1>3, <1>5
  <2>8. Len(kept) <= m /\ kept # <<>> /\ kept[1] = order[1]
    BY <1>2, <2>2, <2>3
  <2> QED
    BY <1>2, <2>1, <2>5, <2>6, <2>7, <2>8 DEF AreKept
<1>6. CASE ~ (EnoughRanked(kept, k) \/ Duplicate(contents, kept, order[m]))
  <2> DEFINE x == order[m]
             A == 1 .. n
  <2>1. new = Append(kept, x) /\ x \in A /\ kept \in Seq(A) /\ x \notin ToSet(kept)
    BY <1>1, <1>2, <1>4, <1>6 DEF Ranks
  <2> HIDE DEF x, A
  <2>2. new \in Seq(A) /\ ToSet(new) = ToSet(kept) \cup {x} /\ Distinct(new)
    BY <1>2, <2>1, DistinctAppend
  <2>3. /\ Len(new) = Len(kept) + 1 /\ new[Len(kept) + 1] = x
        /\ kept # <<>> => new[1] = kept[1]
    BY <1>2, <2>1
  <2>4. new # <<>> /\ Len(new) <= m /\ new[1] = order[1]
    <3>1. CASE kept = <<>>
      <4>1. m = 1
        BY <1>2, <3>1
      <4>2. Len(kept) = 0
        BY <3>1
      <4> QED
        BY <2>3, <4>1, <4>2 DEF x
    <3>2. CASE kept # <<>>
      <4>1. Len(kept) > 0
        BY <1>2, <3>2
      <4> QED
        BY <1>2, <2>3, <3>2, <4>1
    <3> QED
      BY <3>1, <3>2
  <2>5. \A i \in ToSet(kept) : ~ Copies(contents, i, x) /\ ~ Copies(contents, x, i)
    BY <1>6 DEF Copies, Duplicate, x
  <2>6. \A i, j \in ToSet(new) : Copies(contents, i, j) => i = j
    BY <1>2, <2>2, <2>5
  <2>7. \A o \in ToSet(new) : \E b \in 1 .. m : order[b] = o
    <3>1. m \in 1 .. m /\ \A b \in 1 .. m - 1 : b \in 1 .. m
      OBVIOUS
    <3> QED
      BY <1>2, <2>2, <3>1 DEF x
  <2>8. \A a \in 1 .. m - 1 : ~ Copies(contents, order[a], x) \/ order[a] \in ToSet(kept)
    <3> SUFFICES ASSUME NEW a \in 1 .. m - 1, Copies(contents, order[a], x), order[a] \notin ToSet(kept)
                 PROVE  FALSE
      OBVIOUS
    <3>1. PICK j \in ToSet(kept) : contents[j] = contents[order[a]]
      BY <1>2, <1>6 DEF Duplicate
    <3>2. Duplicate(contents, kept, x)
      BY <3>1 DEF Duplicate, Copies
    <3> QED
      BY <1>6, <3>2 DEF x
  <2>9. \A a \in 1 .. m, o \in ToSet(new) :
          order[a] \notin ToSet(new) /\ Copies(contents, order[a], o) => rel[order[a]] <= rel[o]
    BY <1>2, <1>3, <2>2, <2>8 DEF x
  <2>10. \A i : Duplicate(contents, kept, i) => Duplicate(contents, new, i)
    BY <2>2 DEF Duplicate
  <2>11. \A a \in 1 .. m : order[a] \in ToSet(new) \/ Duplicate(contents, new, order[a])
    BY <1>2, <1>3, <1>6, <2>2, <2>10 DEF x
  <2> QED
    BY <2>2, <2>4, <2>6, <2>7, <2>9, <2>11 DEF AreKept, A
<1> QED
  BY <1>5, <1>6

\* rank_hybrid keeps no copies, and of copies the most relevant.
LEMMA PrerankedKeeps ==
  ASSUME NEW n \in Nat, NEW rel \in Seq(Int), Len(rel) = n, NEW contents, NEW k \in Nat,
         NEW order, Falls(order, n, rel)
  PROVE  AreKept(Preranked(order, contents, k), n, n, rel, contents, k, order)
<1>1. order \in Seq(1 .. n) /\ Len(order) = n
  BY DEF Falls
<1>2. PICK h : IsRanking(h, n, contents, k, order)
  BY <1>1, PrerankedRuns
<1>3. /\ h[0] = <<>>
      /\ \A m \in 1 .. n : h[m] = Ranks(h[m - 1], order[m], contents, k)
      /\ Preranked(order, contents, k) = h[n]
  BY <1>2 DEF IsRanking
<1> DEFINE P == {m \in Nat : AreKept(h[m], m, n, rel, contents, k, order)}
<1>4. 0 \in P
  <2>1. ToSet(<<>>) = {} /\ Distinct(<<>>) /\ Len(<<>>) = 0
    BY DEF ToSet, Distinct
  <2>2. AreKept(<<>>, 0, n, rel, contents, k, order)
    BY <2>1 DEF AreKept
  <2> QED
    BY <1>3, <2>2
<1>5. ASSUME NEW m \in 1 .. n, m - 1 \in P PROVE m \in P
  <2> DEFINE kept == h[m - 1]
             new == h[m]
  <2>1. AreKept(kept, m - 1, n, rel, contents, k, order) /\ new = Ranks(kept, order[m], contents, k)
    BY <1>3, <1>5
  <2> HIDE DEF kept, new
  <2>2. AreKept(new, m, n, rel, contents, k, order)
    BY <2>1, RanksKeeps
  <2> QED
    BY <2>2 DEF new
<1>6. n \in P
  <2> HIDE DEF P
  <2> QED
    BY <1>4, <1>5, PrefixInduction
<1> QED
  BY <1>3, <1>6

\* Distinct numbers up to n that are n are all of them.
LEMMA DistinctCover ==
  ASSUME NEW n \in Nat, NEW s \in Seq(1 .. n), Distinct(s), Len(s) = n
  PROVE  ToSet(s) = 1 .. n
<1>1. IsFiniteSet(ToSet(s)) /\ Cardinality(ToSet(s)) = n
  BY DistinctSize
<1>2. ToSet(s) \subseteq 1 .. n
  BY DEF ToSet
<1>3. IsFiniteSet(1 .. n) /\ Cardinality(1 .. n) = n
  <2>1. /\ IsFiniteSet(1 .. n)
        /\ Cardinality(1 .. n) = IF 1 > n THEN 0 ELSE n - 1 + 1
    <3>1. 1 \in Int /\ n \in Int
      OBVIOUS
    <3> QED
      BY <3>1, FS_Interval, Zenon
  <2> QED
    BY <2>1
<1> QED
  BY <1>1, <1>2, <1>3, FS_Subset

\* What a sequence is.
LEMMA SeqParts ==
  ASSUME NEW A, NEW s \in Seq(A)
  PROVE  DOMAIN s = 1 .. Len(s) /\ Len(s) \in Nat /\ \A i \in 1 .. Len(s) : s[i] \in A
OBVIOUS

\* A function on 1 .. m is a sequence.
LEMMA SeqMade ==
  ASSUME NEW A, NEW m \in Nat, NEW s \in [1 .. m -> A]
  PROVE  s \in Seq(A) /\ Len(s) = m /\ DOMAIN s = 1 .. m
OBVIOUS

\* The selection that rank_hybrid makes of what is kept.
LEMMA HybridHolds ==
  ASSUME NaN \notin Int, Whole \in Int, NEW n \in Nat, NEW rel \in Seq(Int), Len(rel) = n,
         NEW contents \in Seq(Nat), Len(contents) = n,
         NEW sim \in Seq(Seq(Score)), Len(sim) = n, IsSquare(sim),
         NEW lambda \in Int, NEW k \in Nat, NEW order, Falls(order, n, rel), NEW cut,
         NEW r, r.rel = rel, r.contents = contents, r.k = k,
         NEW out, RankHybrid(rel, contents, sim, lambda, k, order, cut) = Good(out)
  PROVE  HybridHasNoCopies(r, out)
<1> DEFINE pre == Preranked(order, contents, k)
           l == Len(pre)
           relp == [i \in DOMAIN pre |-> rel[pre[i]]]
           simp == [i \in DOMAIN pre |-> [j \in DOMAIN pre |-> sim[pre[i]][pre[j]]]]
           s == MmrScored(relp, simp, lambda, k, TRUE, cut)
           v == s.value
<1>1. AreKept(pre, n, n, rel, contents, k, order)
  BY PrerankedKeeps
<1>2. /\ pre \in Seq(1 .. n) /\ Distinct(pre) /\ l <= n /\ l \in Nat
      /\ \A i, j \in ToSet(pre) : Copies(contents, i, j) => i = j
      /\ \A a \in 1 .. n, o \in ToSet(pre) :
           order[a] \notin ToSet(pre) /\ Copies(contents, order[a], o) => rel[order[a]] <= rel[o]
      /\ ~ EnoughRanked(pre, k) =>
           \A a \in 1 .. n : order[a] \in ToSet(pre) \/ Duplicate(contents, pre, order[a])
      /\ n > 0 => pre # <<>> /\ pre[1] = order[1]
  BY <1>1 DEF AreKept
<1>3. RankHybrid(rel, contents, sim, lambda, k, order, cut)
      = IF pre = <<>> THEN Good(<<>>) ELSE Good([i \in DOMAIN v |-> pre[v[i]]])
  BY DEF RankHybrid
<1>4. out = IF pre = <<>> THEN <<>> ELSE [i \in DOMAIN v |-> pre[v[i]]]
  <2>1. \A a, b : Good(a) = Good(b) => a = b
    <3>1. \A a : Good(a).value = a
      BY DEF Good
    <3> QED
      BY <3>1
  <2> HIDE DEF pre, v
  <2> QED
    BY <1>3, <2>1
<1>5. /\ DOMAIN pre = 1 .. l /\ \A i \in 1 .. l : pre[i] \in 1 .. n
      /\ DOMAIN rel = 1 .. n /\ \A i \in 1 .. n : rel[i] \in Int
      /\ \A i \in 1 .. n, j \in 1 .. n : sim[i][j] \in Score
  <2>1. DOMAIN pre = 1 .. l /\ \A i \in 1 .. l : pre[i] \in 1 .. n
    <3> DEFINE A == 1 .. n
    <3>1. pre \in Seq(A)
      BY <1>2
    <3> HIDE DEF pre, A
    <3>2. Len(pre) \in Nat /\ DOMAIN pre = 1 .. Len(pre) /\ \A i \in 1 .. Len(pre) : pre[i] \in A
      BY <3>1, LenProperties, ElementOfSeq
    <3> QED
      BY <3>2, Zenon DEF A
  <2>2. DOMAIN rel = 1 .. n /\ \A i \in 1 .. n : rel[i] \in Int
    OBVIOUS
  <2>3. ASSUME NEW i \in 1 .. n, NEW j \in 1 .. n PROVE sim[i][j] \in Score
    <3>1. i \in DOMAIN sim /\ DOMAIN sim = 1 .. Len(sim)
      OBVIOUS
    <3>2. Len(sim[i]) = n
      BY <3>1 DEF IsSquare
    <3>3. sim[i] \in Seq(Score)
      BY <3>1
    <3> QED
      BY <3>2, <3>3
  <2> QED
    BY <2>1, <2>2, <2>3
<1>6. \A a, b \in 1 .. n : (a < b => rel[order[a]] >= rel[order[b]])
  BY DEF Falls
<1>7. \A i \in 1 .. n : \E a \in 1 .. n : order[a] = i
  <2>1. order \in Seq(1 .. n) /\ Len(order) = n /\ Distinct(order)
    BY DEF Falls
  <2>2. ToSet(order) = 1 .. n
    BY <2>1, DistinctCover
  <2>3. DOMAIN order = 1 .. n
    BY <2>1
  <2> QED
    BY <2>2, <2>3 DEF ToSet
<1> HIDE DEF pre, l
<1>8. /\ relp \in Seq(Int) /\ Len(relp) = l /\ DOMAIN relp = 1 .. l /\ Len(simp) = l
      /\ \A i, j \in 1 .. l : simp[i][j] \in Score
      /\ \A i \in 1 .. l : relp[i] = rel[pre[i]]
  <2>1. l \in Nat
    BY <1>2
  <2>2. relp = [i \in 1 .. l |-> rel[pre[i]]] /\ simp = [i \in 1 .. l |-> [j \in 1 .. l |-> sim[pre[i]][pre[j]]]]
    BY <1>5
  <2>3. \A i \in 1 .. l : rel[pre[i]] \in Int
    BY <1>5
  <2>4. \A i, j \in 1 .. l : sim[pre[i]][pre[j]] \in Score
    BY <1>5
  <2>5. relp \in Seq(Int) /\ Len(relp) = l /\ DOMAIN relp = 1 .. l
    BY <2>1, <2>2, <2>3
  <2>6. Len(simp) = l
    BY <2>1, <2>2
  <2>7. \A i, j \in 1 .. l : simp[i][j] \in Score
    BY <2>2, <2>4
  <2> QED
    BY <2>2, <2>5, <2>6, <2>7
<1>9. AreRelevances(relp, simp, lambda)
  <2>1. relp \in Seq(Score)
    <3> HIDE DEF relp
    <3>1. \A i \in 1 .. l : relp[i] \in Int
      BY <1>8
    <3>2. \A i \in 1 .. l : relp[i] \in Score
      BY <3>1 DEF Score
    <3> QED
      BY <1>2, <1>8, <3>2
  <2> HIDE DEF relp, simp
  <2> QED
    BY <1>8, <2>1 DEF AreRelevances
<1>10. MmrScoredResult(s, k, TRUE, relp, simp, lambda)
  <2>1. TRUE \in BOOLEAN /\ Len(simp) = Len(relp)
    BY <1>8
  <2> HIDE DEF relp, simp
  <2> QED
    BY <1>9, <2>1, MmrScoredHolds
<1>11. /\ v \in Seq(1 .. l) /\ Distinct(v) /\ Len(v) = Min({k, l})
       /\ v # <<>> => v[1] = 1
  <2> HIDE DEF relp, simp, s
  <2> QED
    BY <1>8, <1>10 DEF MmrScoredResult, MmrResult
<1> HIDE DEF relp, simp, s, v
<1>12. Len(v) = (IF k <= l THEN k ELSE l) /\ Len(v) \in Nat
  <2>1. k \in Int /\ l \in Int
    BY <1>2
  <2> QED
    <3>1. Min({k, l}) = IF k <= l THEN k ELSE l
      BY <2>1, ExtremesOfTwo
    <3>2. Len(v) \in Nat
      BY <1>11, SeqParts
    <3> QED
      BY <1>11, <3>1, <3>2
<1>13. CASE n = 0
  <2>1. l = 0 /\ v = <<>>
    BY <1>2, <1>11, <1>12, <1>13
  <2>2. out = <<>>
    BY <1>4, <2>1
  <2>3. NoRepeats(out) /\ Len(out) = 0 /\ DOMAIN out = {} /\ ToSet(out) = {} /\ DOMAIN rel = {}
    <3>1. ToSet(<<>>) = {} /\ Cardinality({}) = 0
      BY FS_EmptySet DEF ToSet
    <3> QED
      BY <1>5, <1>13, <2>2, <3>1 DEF NoRepeats
  <2> QED
    BY <2>2, <2>3 DEF HybridHasNoCopies
<1>14. CASE n > 0
  <2>1. pre # <<>> /\ pre[1] = order[1] /\ out = [i \in DOMAIN v |-> pre[v[i]]]
    BY <1>2, <1>4, <1>14
  <2>2. /\ DOMAIN v = 1 .. Len(v) /\ DOMAIN out = 1 .. Len(v) /\ Len(out) = Len(v)
        /\ \A i \in 1 .. Len(v) : v[i] \in 1 .. l /\ out[i] = pre[v[i]] /\ out[i] \in 1 .. n
        /\ out \in Seq(1 .. n)
    <3>1. DOMAIN v = 1 .. Len(v) /\ \A i \in 1 .. Len(v) : v[i] \in 1 .. l
      BY <1>11, SeqParts
    <3>2. out = [i \in 1 .. Len(v) |-> pre[v[i]]]
      BY <2>1, <3>1
    <3>3. \A i \in 1 .. Len(v) : pre[v[i]] \in 1 .. n
      BY <1>5, <3>1
    <3>4. out \in Seq(1 .. n) /\ DOMAIN out = 1 .. Len(v) /\ Len(out) = Len(v)
      <4>1. out \in [1 .. Len(v) -> 1 .. n]
        BY <3>2, <3>3
      <4>2. Len(v) \in Nat
        BY <1>12
      <4> DEFINE A == 1 .. n
                 len == Len(v)
      <4>3. len \in Nat /\ out \in [1 .. len -> A]
        BY <4>1, <4>2
      <4> HIDE DEF A, len
      <4>4. out \in Seq(A) /\ Len(out) = len /\ DOMAIN out = 1 .. len
        BY <4>3, SeqMade
      <4> QED
        BY <4>4 DEF A, len
    <3> QED
      BY <3>1, <3>2, <3>3, <3>4
  <2>3. Distinct(out)
    <3> SUFFICES ASSUME NEW i \in 1 .. Len(v), NEW j \in 1 .. Len(v), out[i] = out[j] PROVE i = j
      BY <2>2 DEF Distinct
    <3>1. v[i] = v[j]
      BY <1>2, <1>5, <2>2 DEF Distinct
    <3> QED
      BY <1>11, <2>2, <3>1 DEF Distinct
  <2>4. NoRepeats(out) /\ Len(out) <= k
    <3>1. Cardinality(ToSet(out)) = Len(out)
      BY <2>2, <2>3, DistinctSize
    <3> QED
      BY <1>2, <1>12, <2>2, <3>1 DEF NoRepeats
  <2>5. ToSet(out) \subseteq ToSet(pre)
    <3>1. ToSet(out) = {out[i] : i \in 1 .. Len(v)} /\ ToSet(pre) = {pre[i] : i \in 1 .. l}
      BY <1>5, <2>2 DEF ToSet
    <3> QED
      BY <2>2, <3>1
  <2>6. \A i \in DOMAIN out : out[i] \in ToSet(pre)
    <3>1. \A i \in DOMAIN out : out[i] \in ToSet(out)
      BY DEF ToSet
    <3> QED
      BY <2>5, <3>1
  <2>7. \A i, j \in DOMAIN out : i # j => \/ contents[out[i]] = Blank
                                        \/ contents[out[i]] # contents[out[j]]
    <3> SUFFICES ASSUME NEW i \in DOMAIN out, NEW j \in DOMAIN out, i # j,
                        contents[out[i]] # Blank, contents[out[i]] = contents[out[j]]
                 PROVE  FALSE
      OBVIOUS
    <3>1. out[i] = out[j]
      BY <1>2, <2>6 DEF Copies
    <3> QED
      BY <2>3, <3>1 DEF Distinct
  <2>8. ASSUME NEW i \in DOMAIN rel, NEW o \in ToSet(out),
               i \notin ToSet(out), contents[i] = contents[o], contents[i] # Blank
        PROVE  rel[i] <= rel[o]
    <3>1. o \in ToSet(pre) /\ Copies(contents, i, o)
      BY <2>5, <2>8 DEF Copies
    <3>2. i \notin ToSet(pre)
      BY <1>2, <2>8, <3>1
    <3>3. PICK a \in 1 .. n : order[a] = i
      BY <1>5, <1>7
    <3> QED
      BY <1>2, <3>1, <3>2, <3>3
  <2>9. k >= n => {i \in DOMAIN rel : contents[i] = Blank} \subseteq ToSet(out)
    <3> SUFFICES ASSUME k >= n, NEW i \in 1 .. n, contents[i] = Blank PROVE i \in ToSet(out)
      BY <1>5
    <3>1. ~ EnoughRanked(pre, k)
      BY <1>2, <1>14 DEF EnoughRanked, l
    <3>2. PICK a \in 1 .. n : order[a] = i
      BY <1>7
    <3>3. i \in ToSet(pre)
      BY <1>2, <3>1, <3>2 DEF Duplicate
    <3>4. PICK b \in 1 .. l : pre[b] = i
      BY <1>5, <3>3 DEF ToSet
    <3>5. Len(v) = l
      <4>1. l \in Nat /\ l <= n
        BY <1>2
      <4> QED
        BY <1>12, <4>1
    <3>6. ToSet(v) = 1 .. l
      BY <1>2, <1>11, <3>5, DistinctCover
    <3>7. PICK c \in 1 .. Len(v) : v[c] = b
      BY <2>2, <3>6 DEF ToSet
    <3>8. out[c] = i /\ c \in DOMAIN out
      BY <2>2, <3>4, <3>7
    <3> QED
      BY <3>8 DEF ToSet
  <2>10. out # <<>> => \A i \in DOMAIN rel : rel[i] <= rel[out[1]]
    <3> SUFFICES ASSUME out # <<>>, NEW i \in 1 .. n PROVE rel[i] <= rel[out[1]]
      BY <1>5
    <3>1. Len(v) > 0 /\ v # <<>>
      BY <1>12, <2>2
    <3>2. out[1] = order[1]
      BY <1>11, <1>12, <2>1, <2>2, <3>1
    <3>3. PICK a \in 1 .. n : order[a] = i
      BY <1>7
    <3>4. a = 1 \/ a > 1
      OBVIOUS
    <3>5. rel[order[a]] <= rel[order[1]]
      <4>1. 1 \in 1 .. n /\ order[a] \in 1 .. n
        BY <1>14, <3>3
      <4>2. rel[order[a]] \in Int
        BY <1>5, <4>1
      <4> QED
        BY <1>6, <3>4, <4>1, <4>2
    <3> QED
      BY <3>2, <3>3, <3>5
  <2> QED
    BY <2>4, <2>7, <2>8, <2>9, <2>10, Zenon DEF HybridHasNoCopies
<1> QED
  BY <1>13, <1>14

-----------------------------------------------------------------------------
(* The walk of the displacement guard                                      *)

Walks(n) == [perm : [1 .. n -> 1 .. n], primaries : SUBSET (1 .. n)]

Guards(f, len, rows, margin, start) ==
  \A T \in SUBSET (1 .. len) :
    f[T] = IF T = {} THEN start ELSE GuardRank(rows, margin, f[T \ {Max(T)}], Max(T))

\* The fold of DisplacementPermutation is such a recursion.
IsGuarded(len, rows, margin, start) ==
  \E g : /\ Guards(g, len, rows, margin, start)
         /\ FoldLeft(LAMBDA s, rank : GuardRank(rows, margin, s, rank), start, Numbers(len)) = g[1 .. len]

\* The guard's walk as the function of its fold.
LEMMA GuardUnfolds ==
  ASSUME NEW rows, NEW margin, NEW start, NEW len \in Nat,
         NEW V, NEW f \in [SUBSET (1 .. len) -> V], Guards(f, len, rows, margin, start)
  PROVE  IsGuarded(len, rows, margin, start)
<1> DEFINE Step(st, rank) == GuardRank(rows, margin, st, rank)
           s == Numbers(len)
<1>1. DOMAIN s = 1 .. len /\ \A m \in 1 .. len : s[m] = m
  BY DEF Numbers
<1>2. \A T \in SUBSET (1 .. len) : T # {} => s[Max(T)] = Max(T)
  BY <1>1, LastPlace
<1> HIDE DEF s
<1>3. f = [T \in SUBSET DOMAIN s |-> IF T = {} THEN start ELSE Step(f[T \ {Max(T)}], s[Max(T)])]
  <2>1. f = [T \in SUBSET (1 .. len) |-> f[T]]
    OBVIOUS
  <2>2. \A T \in SUBSET (1 .. len) : f[T] = IF T = {} THEN start ELSE Step(f[T \ {Max(T)}], s[Max(T)])
    BY <1>2, Zenon DEF Guards
  <2> QED
    BY <1>1, <2>1, <2>2, Zenon
<1>4. PICK g : /\ g = [T \in SUBSET DOMAIN s |-> IF T = {} THEN start ELSE Step(g[T \ {Max(T)}], s[Max(T)])]
               /\ FoldLeft(Step, start, s) = g[DOMAIN s]
  BY <1>3, ZenonT(60) DEF FoldLeft, MapThenFoldSet
<1>5. Guards(g, len, rows, margin, start)
  <2>1. \A T \in SUBSET (1 .. len) : g[T] = IF T = {} THEN start ELSE Step(g[T \ {Max(T)}], s[Max(T)])
    BY <1>1, <1>4, Zenon
  <2> QED
    BY <1>2, <2>1, Zenon DEF Guards
<1> QED
  BY <1>1, <1>4, <1>5, Zenon DEF IsGuarded, s

\* The least of some places.
LEMMA FirstPlace ==
  ASSUME NEW n \in Nat, NEW S \in SUBSET (1 .. n), S # {}
  PROVE  Min(S) \in S /\ \A p \in S : Min(S) <= p
<1>1. IsFiniteSet(S) /\ S \subseteq Int
  <2>1. 1 \in Int /\ n \in Int /\ S \subseteq Int
    OBVIOUS
  <2>2. IsFiniteSet(1 .. n)
    BY <2>1, FS_Interval
  <2> QED
    BY <2>1, <2>2, FS_Subset
<1> QED
  BY <1>1, ExtremesOfFinite

\* Two places of a function exchanged.
Exchanged(t, s, a, b, D) ==
  /\ t[b] = s[a] /\ (a # b => t[a] = s[b])
  /\ \A x \in D : x # a /\ x # b => t[x] = s[x]

\* What a swap exchanges.
LEMMA SwapIs ==
  ASSUME NEW D, NEW A, NEW s \in [D -> A], NEW a \in D, NEW b \in D
  PROVE  Swap(s, a, b) \in [D -> A] /\ Exchanged(Swap(s, a, b), s, a, b, D)
BY DEF Swap, Exchanged

\* A rank of the walk stays, or takes the first primary after it.
RankIs(new, st, rank, live, rows, margin) ==
  \/ /\ new.perm = st.perm /\ new.primaries = live
     /\ rows[st.perm[rank]].expansion /\ live # {} =>
          /\ Min(live) \in live /\ \A p \in live : Min(live) <= p
          /\ Dominates(rows[st.perm[rank]].score, rows[st.perm[Min(live)]].score, margin)
  \/ /\ rows[st.perm[rank]].expansion /\ live # {}
     /\ Min(live) \in live /\ \A p \in live : Min(live) <= p
     /\ new.perm = Swap(st.perm, rank, Min(live)) /\ new.primaries = live \ {Min(live)}

\* What one rank of the walk does.
LEMMA GuardRankIs ==
  ASSUME NEW n \in Nat, NEW rows, NEW margin, NEW st \in Walks(n), NEW rank \in 1 .. n,
         NEW live, live = {p \in st.primaries : p > rank},
         NEW new, new = GuardRank(rows, margin, st, rank)
  PROVE  new \in Walks(n) /\ RankIs(new, st, rank, live, rows, margin)
<1>1. /\ st.perm \in [1 .. n -> 1 .. n] /\ st.primaries \in SUBSET (1 .. n) /\ live \in SUBSET (1 .. n)
      /\ st = [perm |-> st.perm, primaries |-> st.primaries]
  BY DEF Walks
<1>2. live # {} => Min(live) \in live /\ \A p \in live : Min(live) <= p
  BY <1>1, FirstPlace
<1> DEFINE here == rows[st.perm[rank]]
           stays == \/ ~ here.expansion \/ live = {}
                    \/ Dominates(here.score, rows[st.perm[Min(live)]].score, margin)
<1>3. new = IF stays THEN [st EXCEPT !.primaries = live]
            ELSE [perm |-> Swap(st.perm, rank, Min(live)), primaries |-> live \ {Min(live)}]
  BY Zenon DEF GuardRank
<1>4. CASE stays
  <2>1. new = [st EXCEPT !.primaries = live]
    BY <1>3, <1>4, Zenon
  <2>2. new = [perm |-> st.perm, primaries |-> live]
    BY <1>1, <2>1
  <2>3. new \in Walks(n) /\ new.perm = st.perm /\ new.primaries = live
    BY <1>1, <2>2 DEF Walks
  <2> QED
    BY <1>2, <1>4, <2>3, Zenon DEF RankIs
<1>5. CASE ~ stays
  <2>1. new = [perm |-> Swap(st.perm, rank, Min(live)), primaries |-> live \ {Min(live)}]
    BY <1>3, <1>5, Zenon
  <2>2. live # {} /\ here.expansion
    BY <1>5, Zenon
  <2>3. Min(live) \in 1 .. n
    BY <1>1, <1>2, <2>2
  <2> DEFINE q == Min(live)
  <2>4. Swap(st.perm, rank, q) \in [1 .. n -> 1 .. n]
    <3> DEFINE D == 1 .. n
               s == st.perm
    <3>1. s \in [D -> D] /\ rank \in D /\ q \in D
      BY <1>1, <2>3
    <3> HIDE DEF q, D, s
    <3>2. Swap(s, rank, q) \in [D -> D]
      BY <3>1, SwapIs
    <3> QED
      BY <3>2 DEF D, s
  <2>5. new \in Walks(n) /\ new.perm = Swap(st.perm, rank, q) /\ new.primaries = live \ {q}
    <3> DEFINE P == Swap(st.perm, rank, q)
               rest == live \ {q}
    <3>1. new = [perm |-> P, primaries |-> rest] /\ P \in [1 .. n -> 1 .. n] /\ rest \in SUBSET (1 .. n)
      BY <1>1, <2>1, <2>4
    <3> HIDE DEF P, rest
    <3>2. new \in Walks(n) /\ new.perm = P /\ new.primaries = rest
      BY <3>1 DEF Walks
    <3> QED
      BY <3>2 DEF P, rest
  <2> QED
    BY <1>2, <2>2, <2>5, Zenon DEF RankIs
<1> QED
  BY <1>4, <1>5, Zenon

GuardedBy(len, rows, margin, start) ==
  FoldLeft(LAMBDA s, rank : GuardRank(rows, margin, s, rank), start, Numbers(len))
IsGuardWalk(h, len, n, rows, margin, start) ==
  /\ h[0] = start
  /\ \A m \in 1 .. len : h[m - 1] \in Walks(n) /\ h[m] = GuardRank(rows, margin, h[m - 1], m)
  /\ h[len] \in Walks(n) /\ GuardedBy(len, rows, margin, start) = h[len]

\* The states of the guard's walk, rank by rank.
LEMMA GuardRuns ==
  ASSUME NEW n \in Nat, NEW len \in Nat, len <= n, NEW rows, NEW margin, NEW start \in Walks(n)
  PROVE  \E h : IsGuardWalk(h, len, n, rows, margin, start)
<1> DEFINE V == Walks(n)
           turn(u, m) == GuardRank(rows, margin, u, m)
           next == [m \in 1 .. len |-> [u \in V |-> turn(u, m)]]
<1>1. ASSUME NEW u \in V, NEW m \in 1 .. len PROVE turn(u, m) \in V
  <2>1. m \in 1 .. n
    OBVIOUS
  <2> DEFINE live == {p \in u.primaries : p > m}
             new == GuardRank(rows, margin, u, m)
  <2>2. live = {p \in u.primaries : p > m} /\ new = GuardRank(rows, margin, u, m)
    OBVIOUS
  <2> HIDE DEF live, new
  <2>3. new \in Walks(n)
    BY <2>1, <2>2, GuardRankIs
  <2> QED
    BY <2>3 DEF new
<1>2. start \in V
  OBVIOUS
<1> HIDE DEF V, turn
<1>3. next \in [1 .. len -> [V -> V]]
  BY <1>1
<1> HIDE DEF next
<1>4. PICK f : IsLoop(f, len, V, start, next)
  BY <1>2, <1>3, LoopExists
<1>5. Guards(f, len, rows, margin, start)
  <2> SUFFICES ASSUME NEW T \in SUBSET (1 .. len), T # {} PROVE f[T] = turn(f[T \ {Max(T)}], Max(T))
    BY <1>4 DEF Guards, IsLoop, turn
  <2>1. Max(T) \in 1 .. len
    BY LastPlace
  <2>2. f[T \ {Max(T)}] \in V /\ f[T] = next[Max(T)][f[T \ {Max(T)}]]
    BY <1>4 DEF IsLoop
  <2> QED
    BY <2>1, <2>2 DEF next
<1>6. PICK g : Guards(g, len, rows, margin, start) /\ GuardedBy(len, rows, margin, start) = g[1 .. len]
  <2>1. f \in [SUBSET (1 .. len) -> V]
    BY <1>4 DEF IsLoop
  <2>2. IsGuarded(len, rows, margin, start)
    BY <1>5, <2>1, GuardUnfolds
  <2> QED
    BY <2>2, Zenon DEF IsGuarded, GuardedBy
<1>7. Recursing(g, len, V, start, next)
  <2>1. g[{}] = start
    BY <1>6 DEF Guards
  <2>2. ASSUME NEW T \in SUBSET (1 .. len), T # {}, g[T \ {Max(T)}] \in V
        PROVE  g[T] = next[Max(T)][g[T \ {Max(T)}]]
    <3>1. Max(T) \in 1 .. len
      BY <2>2, LastPlace
    <3>2. g[T] = turn(g[T \ {Max(T)}], Max(T))
      BY <1>6, <2>2 DEF Guards, turn
    <3> QED
      BY <2>2, <3>1, <3>2 DEF next
  <2> QED
    BY <2>1, <2>2 DEF Recursing
<1>8. PICK h : IsTaken(h, len, V, start, next) /\ h[len] = g[1 .. len]
  BY <1>2, <1>3, <1>7, TakenAlong
<1>9. \A m \in 1 .. len : h[m - 1] \in V /\ h[m] = turn(h[m - 1], m)
  BY <1>8 DEF IsTaken, next
<1>10. h[len] \in V
  <2>1. len = 0 \/ len \in 1 .. len
    OBVIOUS
  <2> QED
    BY <1>2, <1>8, <2>1 DEF IsTaken
<1>11. IsGuardWalk(h, len, n, rows, margin, start)
  BY <1>6, <1>8, <1>9, <1>10 DEF IsGuardWalk, IsTaken, turn, V
<1> QED
  BY <1>11

Primary(rows, perm, p) == ~ rows[perm[p]].expansion

\* What the walk has seen to up to rank m.
Guarded(st, m, n, rows, margin) ==
  /\ st \in Walks(n) /\ Distinct(st.perm)
  /\ st.primaries = {p \in 1 .. n : p > m /\ Primary(rows, st.perm, p)}
  /\ \A i, j \in 1 .. n :
       i < j /\ Primary(rows, st.perm, i) /\ Primary(rows, st.perm, j) => st.perm[i] < st.perm[j]
  /\ \A i, j \in 1 .. n :
       i <= m /\ i < j /\ ~ Primary(rows, st.perm, i) /\ Primary(rows, st.perm, j)
         /\ (\A x \in 1 .. n : i < x /\ x < j => ~ Primary(rows, st.perm, x))
         => Dominates(rows[st.perm[i]].score, rows[st.perm[j]].score, margin)

\* A rank keeps the primaries in their order and the ranks above it fair.
LEMMA GuardKeeps ==
  ASSUME NEW n \in Nat, NEW rows, NEW margin, NEW m \in 1 .. n,
         NEW st, Guarded(st, m - 1, n, rows, margin),
         NEW new, new = GuardRank(rows, margin, st, m)
  PROVE  Guarded(new, m, n, rows, margin)
<1> DEFINE perm == st.perm
           prim(p) == Primary(rows, perm, p)
           live == {p \in st.primaries : p > m}
           q == Min(live)
           to == new.perm
<1>1. /\ st \in Walks(n) /\ Distinct(perm)
      /\ st.primaries = {p \in 1 .. n : p > m - 1 /\ prim(p)}
      /\ \A i, j \in 1 .. n : i < j /\ prim(i) /\ prim(j) => perm[i] < perm[j]
      /\ \A i, j \in 1 .. n :
           i <= m - 1 /\ i < j /\ ~ prim(i) /\ prim(j) /\ (\A x \in 1 .. n : i < x /\ x < j => ~ prim(x))
             => Dominates(rows[perm[i]].score, rows[perm[j]].score, margin)
  BY DEF Guarded
<1>2. perm \in [1 .. n -> 1 .. n] /\ m \in Nat
  BY <1>1 DEF Walks
<1>3. live = {p \in 1 .. n : p > m /\ prim(p)}
  <2>1. \A p \in 1 .. n : p > m => p > m - 1
    OBVIOUS
  <2> QED
    BY <1>1, <2>1
<1>4. /\ new \in Walks(n)
      /\ \/ to = perm /\ new.primaries = live
            /\ (rows[perm[m]].expansion /\ live # {} =>
                  /\ q \in live /\ \A p \in live : q <= p
                  /\ Dominates(rows[perm[m]].score, rows[perm[q]].score, margin))
         \/ /\ rows[perm[m]].expansion /\ live # {}
            /\ q \in live /\ \A p \in live : q <= p
            /\ to = Swap(perm, m, q) /\ new.primaries = live \ {q}
  <2>1. live = {p \in st.primaries : p > m}
    OBVIOUS
  <2> HIDE DEF perm, live, q, to
  <2>2. st \in Walks(n)
    BY <1>1
  <2>3. new \in Walks(n) /\ RankIs(new, st, m, live, rows, margin)
    BY <2>1, <2>2, GuardRankIs
  <2> QED
    BY <2>3, Zenon DEF RankIs, perm, q, to
<1> HIDE DEF perm, live, q, to
<1>5. CASE to = perm /\ new.primaries = live
           /\ (rows[perm[m]].expansion /\ live # {} =>
                 /\ q \in live /\ \A p \in live : q <= p
                 /\ Dominates(rows[perm[m]].score, rows[perm[q]].score, margin))
  <2>1. ASSUME NEW i \in 1 .. n, NEW j \in 1 .. n, i <= m, i < j, ~ prim(i), prim(j),
               \A x \in 1 .. n : i < x /\ x < j => ~ prim(x)
        PROVE  Dominates(rows[perm[i]].score, rows[perm[j]].score, margin)
    <3>1. CASE i <= m - 1
      BY <1>1, <2>1, <3>1
    <3>2. CASE i = m
      <4>1. j \in live /\ rows[perm[m]].expansion
        BY <1>3, <2>1, <3>2 DEF Primary
      <4>2. q \in live /\ q <= j /\ Dominates(rows[perm[m]].score, rows[perm[q]].score, margin)
        BY <1>5, <4>1
      <4>3. q \in 1 .. n /\ q > m /\ prim(q)
        BY <1>3, <4>2
      <4>4. q = j
        BY <2>1, <3>2, <4>2, <4>3
      <4> QED
        BY <3>2, <4>2, <4>4
    <3> QED
      BY <2>1, <3>1, <3>2
  <2> QED
    <3>1. to = perm /\ new.primaries = live
      BY <1>5
    <3>2. new \in Walks(n) /\ Distinct(to)
      BY <1>1, <1>4, <3>1
    <3>3. new.primaries = {p \in 1 .. n : p > m /\ Primary(rows, to, p)}
      BY <1>3, <3>1
    <3>4. \A i, j \in 1 .. n : i < j /\ Primary(rows, to, i) /\ Primary(rows, to, j) => to[i] < to[j]
      BY <1>1, <3>1
    <3>5. \A i, j \in 1 .. n :
            i <= m /\ i < j /\ ~ Primary(rows, to, i) /\ Primary(rows, to, j)
              /\ (\A x \in 1 .. n : i < x /\ x < j => ~ Primary(rows, to, x))
              => Dominates(rows[to[i]].score, rows[to[j]].score, margin)
      BY <2>1, <3>1
    <3> QED
      BY <3>2, <3>3, <3>4, <3>5, Zenon DEF Guarded, to
<1>6. CASE /\ rows[perm[m]].expansion /\ live # {}
           /\ q \in live /\ \A p \in live : q <= p
           /\ to = Swap(perm, m, q) /\ new.primaries = live \ {q}
  <2>1. q \in 1 .. n /\ q > m /\ prim(q) /\ ~ prim(m)
    BY <1>3, <1>6 DEF Primary
  <2>2. \A x \in 1 .. n : m < x /\ x < q => ~ prim(x)
    BY <1>3, <1>6, <2>1
  <2>4. to[q] = perm[m] /\ to[m] = perm[q] /\ \A x \in 1 .. n : x # m /\ x # q => to[x] = perm[x]
    <3> DEFINE D == 1 .. n
    <3>1. perm \in [D -> D] /\ m \in D /\ q \in D /\ to = Swap(perm, m, q)
      BY <1>2, <1>6, <2>1
    <3> HIDE DEF D
    <3>2. perm \in [D -> D] /\ m \in D /\ q \in D /\ m # q
      BY <2>1, <3>1
    <3>3. Exchanged(Swap(perm, m, q), perm, m, q, D)
      BY <3>2, SwapIs
    <3> QED
      BY <3>1, <3>2, <3>3 DEF Exchanged, D
  <2> DEFINE toPrim(p) == Primary(rows, to, p)
  <2>5. /\ toPrim(m) /\ ~ toPrim(q)
        /\ \A x \in 1 .. n : x # m /\ x # q => (toPrim(x) <=> prim(x))
    BY <2>1, <2>4, Zenon DEF Primary
  <2>6. Distinct(to)
    <3>1. DOMAIN perm = 1 .. n
      BY <1>2
    <3>2. DOMAIN to = 1 .. n
      BY <1>4 DEF Walks, to
    <3>3. \A i, j \in 1 .. n : perm[i] = perm[j] => i = j
      BY <1>1, <3>1 DEF Distinct
    <3> SUFFICES ASSUME NEW i \in 1 .. n, NEW j \in 1 .. n, to[i] = to[j] PROVE i = j
      BY <3>2 DEF Distinct
    <3> QED
      BY <2>1, <2>4, <3>3
  <2>7. new.primaries = {p \in 1 .. n : p > m /\ toPrim(p)}
    <3>1. new.primaries = live \ {q}
      BY <1>6
    <3>2. \A p \in 1 .. n : p > m /\ toPrim(p) <=> p > m /\ prim(p) /\ p # q
      BY <2>5
    <3> HIDE DEF prim, toPrim
    <3> QED
      BY <1>3, <3>1, <3>2
  <2>8. ASSUME NEW i \in 1 .. n, NEW j \in 1 .. n, i < j, toPrim(i), toPrim(j) PROVE to[i] < to[j]
    <3> HIDE DEF prim, toPrim
    <3>1. i # q /\ j # q
      BY <2>5, <2>8
    <3>2. CASE i = m
      <4>1. j # m /\ prim(j) /\ j > m
        BY <2>5, <2>8, <3>1, <3>2
      <4>2. j > q
        BY <2>1, <2>2, <3>1, <4>1
      <4> QED
        BY <1>1, <2>1, <2>4, <3>1, <3>2, <4>1, <4>2
    <3>3. CASE j = m
      <4>1. i # m /\ prim(i) /\ i < q
        BY <2>1, <2>5, <2>8, <3>1, <3>3
      <4> QED
        BY <1>1, <2>1, <2>4, <3>1, <3>3, <4>1
    <3>4. CASE i # m /\ j # m
      BY <1>1, <2>4, <2>5, <2>8, <3>1, <3>4
    <3> QED
      BY <3>2, <3>3, <3>4
  <2>9. ASSUME NEW i \in 1 .. n, NEW j \in 1 .. n, i <= m, i < j, ~ toPrim(i), toPrim(j),
               \A x \in 1 .. n : i < x /\ x < j => ~ toPrim(x)
        PROVE  Dominates(rows[to[i]].score, rows[to[j]].score, margin)
    <3> HIDE DEF prim, toPrim
    <3>1. i < m /\ i # m /\ i # q /\ i <= m - 1 /\ ~ prim(i) /\ j # q
      BY <2>1, <2>5, <2>9
    <3>2. ~ (m < j)
      BY <2>5, <2>9, <3>1
    <3>3. CASE j = m
      <4>1. \A x \in 1 .. n : i < x /\ x < q => ~ prim(x)
        <5> SUFFICES ASSUME NEW x \in 1 .. n, i < x, x < q PROVE ~ prim(x)
          OBVIOUS
        <5>1. CASE x < m
          <6>1. ~ toPrim(x) /\ x # m /\ x # q
            BY <2>1, <2>9, <3>3, <5>1
          <6> QED
            BY <2>5, <6>1
        <5>2. CASE x = m
          BY <2>1, <5>2
        <5>3. CASE m < x
          BY <2>2, <5>3
        <5> QED
          BY <5>1, <5>2, <5>3
      <4>2. i < q
        BY <2>1, <3>1
      <4>3. Dominates(rows[perm[i]].score, rows[perm[q]].score, margin)
        BY <1>1, <2>1, <3>1, <4>1, <4>2
      <4> QED
        BY <2>4, <3>1, <3>3, <4>3
    <3>4. CASE j < m
      <4>1. j # m /\ j # q /\ prim(j)
        BY <2>5, <2>9, <3>1, <3>4
      <4>2. \A x \in 1 .. n : i < x /\ x < j => ~ prim(x)
        <5> SUFFICES ASSUME NEW x \in 1 .. n, i < x, x < j PROVE ~ prim(x)
          OBVIOUS
        <5>1. x # m /\ x # q /\ ~ toPrim(x)
          BY <2>1, <2>9, <3>4
        <5> QED
          BY <2>5, <5>1
      <4>3. Dominates(rows[perm[i]].score, rows[perm[j]].score, margin)
        BY <1>1, <2>9, <3>1, <4>1, <4>2
      <4> QED
        BY <2>4, <3>1, <4>1, <4>3
    <3> QED
      BY <3>2, <3>3, <3>4
  <2> QED
    BY <1>4, <2>6, <2>7, <2>8, <2>9 DEF Guarded, to
<1> QED
  BY <1>4, <1>5, <1>6 DEF perm, q, to

\* An expansion at one of the first m ranks dominates the next primary.
FairTo(perm, m, n, rows, margin) ==
  \A i, j \in 1 .. n :
    i <= m /\ i < j /\ ~ Primary(rows, perm, i) /\ Primary(rows, perm, j)
      /\ (\A x \in 1 .. n : i < x /\ x < j => ~ Primary(rows, perm, x))
      => Dominates(rows[perm[i]].score, rows[perm[j]].score, margin)

\* What displacement_permutation returns.
IsDisplaced(perm, n, rows, protected, margin) ==
  /\ perm \in [1 .. n -> 1 .. n] /\ Distinct(perm)
  /\ \A i, j \in 1 .. n :
       i < j /\ Primary(rows, perm, i) /\ Primary(rows, perm, j) => perm[i] < perm[j]
  /\ ~ (margin <= Whole) => FairTo(perm, Min({protected, n}), n, rows, margin)

WalkFrom(rows) == [perm |-> Numbers(Len(rows)), primaries |-> {p \in DOMAIN rows : ~ rows[p].expansion}]

\* The permutation is that of the whole walk, or none below a margin of one.
LEMMA PermutationIs ==
  ASSUME NEW rows, NEW protected, NEW margin
  PROVE  DisplacementPermutation(rows, protected, margin)
         = IF margin <= Whole THEN Numbers(Len(rows))
           ELSE GuardedBy(Min({protected, Len(rows)}), rows, margin, WalkFrom(rows)).perm
BY Zenon DEF DisplacementPermutation, GuardedBy, WalkFrom

\* Before the first rank nothing has moved.
LEMMA WalkStarts ==
  ASSUME NEW n \in Nat, NEW rows \in Seq(Row), Len(rows) = n, NEW margin
  PROVE  Guarded(WalkFrom(rows), 0, n, rows, margin)
<1> DEFINE st == WalkFrom(rows)
           prims == {p \in 1 .. n : ~ rows[p].expansion}
<1>1. DOMAIN rows = 1 .. n
  OBVIOUS
<1>2. Numbers(n) \in [1 .. n -> 1 .. n] /\ \A p \in 1 .. n : Numbers(n)[p] = p
  BY DEF Numbers
<1>3. st = [perm |-> Numbers(n), primaries |-> prims] /\ prims \in SUBSET (1 .. n)
  BY <1>1 DEF WalkFrom
<1> HIDE DEF st
<1>4. st.perm = Numbers(n) /\ st.primaries = prims /\ st \in Walks(n)
  BY <1>2, <1>3 DEF Walks
<1>5. \A p \in 1 .. n : st.perm[p] = p /\ (Primary(rows, st.perm, p) <=> ~ rows[p].expansion)
  BY <1>2, <1>4 DEF Primary
<1>6. Distinct(st.perm)
  BY <1>2, <1>4 DEF Distinct
<1>7. st.primaries = {p \in 1 .. n : p > 0 /\ Primary(rows, st.perm, p)}
  BY <1>4, <1>5
<1>8. \A i, j \in 1 .. n :
        i < j /\ Primary(rows, st.perm, i) /\ Primary(rows, st.perm, j) => st.perm[i] < st.perm[j]
  BY <1>5
<1>9. \A i \in 1 .. n : ~ (i <= 0)
  OBVIOUS
<1> QED
  BY <1>4, <1>6, <1>7, <1>8, <1>9, Zenon DEF Guarded, st

\* The permutation loses no row and is fair to the primaries.
LEMMA DisplacementHolds ==
  ASSUME NEW n \in Nat, NEW rows \in Seq(Row), Len(rows) = n, NEW protected \in Nat, NEW margin
  PROVE  IsDisplaced(DisplacementPermutation(rows, protected, margin), n, rows, protected, margin)
<1> DEFINE len == Min({protected, n})
           start == WalkFrom(rows)
           perm == DisplacementPermutation(rows, protected, margin)
<1>1. len \in Nat /\ len <= n
  <2>1. protected \in Int /\ n \in Int
    OBVIOUS
  <2>2. len = IF protected <= n THEN protected ELSE n
    BY <2>1, ExtremesOfTwo
  <2> QED
    BY <2>2
<1>2. Guarded(start, 0, n, rows, margin)
  BY WalkStarts
<1>3. start \in Walks(n)
  BY <1>2 DEF Guarded
<1>4. perm = IF margin <= Whole THEN Numbers(n) ELSE GuardedBy(len, rows, margin, start).perm
  BY PermutationIs
<1>5. Numbers(n) = start.perm
  BY DEF WalkFrom
<1> HIDE DEF len, start, perm
<1>6. CASE margin <= Whole
  <2>1. perm = start.perm
    BY <1>4, <1>5, <1>6
  <2>2. perm \in [1 .. n -> 1 .. n]
    BY <1>3, <2>1 DEF Walks
  <2> QED
    BY <1>2, <1>6, <2>1, <2>2 DEF IsDisplaced, Guarded, perm
<1>7. CASE ~ (margin <= Whole)
  <2>1. PICK h : IsGuardWalk(h, len, n, rows, margin, start)
    BY <1>1, <1>3, GuardRuns
  <2>2. /\ h[0] = start
        /\ \A m \in 1 .. len : h[m] = GuardRank(rows, margin, h[m - 1], m)
        /\ GuardedBy(len, rows, margin, start) = h[len]
    BY <2>1 DEF IsGuardWalk
  <2> DEFINE P == {m \in Nat : Guarded(h[m], m, n, rows, margin)}
  <2>3. 0 \in P
    BY <1>2, <2>2
  <2>4. ASSUME NEW m \in 1 .. len, m - 1 \in P PROVE m \in P
    <3> DEFINE st == h[m - 1]
               new == h[m]
    <3>1. Guarded(st, m - 1, n, rows, margin) /\ new = GuardRank(rows, margin, st, m) /\ m \in 1 .. n
      BY <1>1, <2>2, <2>4
    <3> HIDE DEF st, new
    <3>2. Guarded(new, m, n, rows, margin)
      BY <3>1, GuardKeeps
    <3> QED
      BY <3>2 DEF new
  <2>5. len \in P
    <3> HIDE DEF P
    <3> QED
      BY <1>1, <2>3, <2>4, PrefixInduction
  <2>6. Guarded(h[len], len, n, rows, margin) /\ perm = h[len].perm
    BY <1>4, <1>7, <2>2, <2>5
  <2>7. perm \in [1 .. n -> 1 .. n]
    BY <2>6 DEF Guarded, Walks
  <2>8. Distinct(perm) /\ FairTo(perm, len, n, rows, margin)
    BY <2>6 DEF Guarded, FairTo
  <2> QED
    BY <2>6, <2>7, <2>8 DEF IsDisplaced, Guarded, perm, len
<1> QED
  BY <1>6, <1>7

Fair(n, rows, protected, margin) ==
  ~ (margin <= Whole) => FairTo(Numbers(n), Min({protected, n}), n, rows, margin)

\* Where every expansion dominates already, the walk moves nothing.
LEMMA FairStays ==
  ASSUME NEW n \in Nat, NEW rows \in Seq(Row), Len(rows) = n, NEW protected \in Nat, NEW margin,
         Fair(n, rows, protected, margin)
  PROVE  DisplacementPermutation(rows, protected, margin) = Numbers(n)
<1> DEFINE len == Min({protected, n})
           start == WalkFrom(rows)
           perm == DisplacementPermutation(rows, protected, margin)
           id == Numbers(n)
<1>1. len \in Nat /\ len <= n
  <2>1. protected \in Int /\ n \in Int
    OBVIOUS
  <2>2. len = IF protected <= n THEN protected ELSE n
    BY <2>1, ExtremesOfTwo
  <2> QED
    BY <2>2
<1>2. Guarded(start, 0, n, rows, margin)
  BY WalkStarts
<1>3. start \in Walks(n)
  BY <1>2 DEF Guarded
<1>4. perm = IF margin <= Whole THEN id ELSE GuardedBy(len, rows, margin, start).perm
  BY PermutationIs
<1>5. id = start.perm
  BY DEF WalkFrom
<1> HIDE DEF len, start, perm, id
<1>6. CASE margin <= Whole
  BY <1>4, <1>6 DEF perm, id
<1>7. CASE ~ (margin <= Whole)
  <2>0. FairTo(id, len, n, rows, margin)
    BY <1>7, Zenon DEF Fair, id, len
  <2>1. PICK h : IsGuardWalk(h, len, n, rows, margin, start)
    BY <1>1, <1>3, GuardRuns
  <2>2. /\ h[0] = start
        /\ \A m \in 1 .. len : h[m] = GuardRank(rows, margin, h[m - 1], m)
        /\ GuardedBy(len, rows, margin, start) = h[len]
    BY <2>1 DEF IsGuardWalk
  <2> DEFINE P == {m \in Nat : Guarded(h[m], m, n, rows, margin) /\ h[m].perm = id}
  <2>3. 0 \in P
    BY <1>2, <1>5, <2>2
  <2>4. ASSUME NEW m \in 1 .. len, m - 1 \in P PROVE m \in P
    <3> DEFINE st == h[m - 1]
               new == h[m]
               live == {p \in st.primaries : p > m}
    <3>1. Guarded(st, m - 1, n, rows, margin) /\ new = GuardRank(rows, margin, st, m) /\ m \in 1 .. n /\ st.perm = id
      BY <1>1, <2>2, <2>4
    <3>2. live = {p \in st.primaries : p > m}
      OBVIOUS
    <3> HIDE DEF st, new, live
    <3>3. Guarded(new, m, n, rows, margin)
      BY <3>1, GuardKeeps
    <3>4. /\ st \in Walks(n)
          /\ st.primaries = {p \in 1 .. n : p > m - 1 /\ Primary(rows, id, p)}
      BY <3>1 DEF Guarded
    <3>5. live = {p \in 1 .. n : p > m /\ Primary(rows, id, p)}
      <4>1. \A p \in 1 .. n : p > m => p > m - 1
        OBVIOUS
      <4> QED
        BY <3>2, <3>4, <4>1
    <3>6. ASSUME rows[st.perm[m]].expansion, live # {}
          PROVE  Dominates(rows[st.perm[m]].score, rows[st.perm[Min(live)]].score, margin)
      <4> DEFINE q == Min(live)
      <4>1. q \in live /\ \A p \in live : q <= p
        <5>1. live \in SUBSET (1 .. n)
          BY <3>5
        <5> QED
          BY <3>6, <5>1, FirstPlace
      <4> HIDE DEF q
      <4>2. q \in 1 .. n /\ m < q /\ Primary(rows, id, q) /\ ~ Primary(rows, id, m) /\ m <= len
        BY <3>1, <3>5, <3>6, <4>1 DEF Primary
      <4>3. \A x \in 1 .. n : m < x /\ x < q => ~ Primary(rows, id, x)
        BY <3>5, <4>1, <4>2
      <4> QED
        BY <2>0, <3>1, <4>2, <4>3 DEF FairTo, q
    <3>7. new = [st EXCEPT !.primaries = live]
      BY <3>1, <3>2, <3>6, Zenon DEF GuardRank
    <3>8. new.perm = id
      <4>1. st = [perm |-> st.perm, primaries |-> st.primaries]
        BY <3>4 DEF Walks
      <4> QED
        BY <3>1, <3>7, <4>1
    <3> QED
      BY <3>3, <3>8 DEF new
  <2>5. len \in P
    <3> HIDE DEF P
    <3> QED
      BY <1>1, <2>3, <2>4, PrefixInduction
  <2> QED
    BY <1>4, <1>7, <2>2, <2>5 DEF perm, id
<1> QED
  BY <1>6, <1>7

-----------------------------------------------------------------------------
(* Rows rotated in place, a cycle at a time                                *)

\* The states of the rotation in place, over n rows of X.
Rotations(n, X) == [items : [1 .. n -> X], perm : [1 .. n -> 1 .. n], current : 0 .. n, closed : BOOLEAN]

OneTurn(s, start, saved) == IF s.closed THEN s ELSE Turned(s, start, saved)

CycleTurns(f, len, start, saved, base) ==
  \A T \in SUBSET (1 .. len) :
    f[T] = IF T = {} THEN base ELSE OneTurn(f[T \ {Max(T)}], start, saved)
TurnedBy(len, start, saved, base) ==
  FoldLeft(LAMBDA s, turn : IF s.closed THEN s ELSE Turned(s, start, saved), base, Numbers(len))
AreTurns(len, start, saved, base) ==
  \E g : CycleTurns(g, len, start, saved, base) /\ TurnedBy(len, start, saved, base) = g[1 .. len]

\* A cycle as the function of its fold.
LEMMA TurnsUnfold ==
  ASSUME NEW start, NEW saved, NEW base, NEW len \in Nat,
         NEW V, NEW f \in [SUBSET (1 .. len) -> V], CycleTurns(f, len, start, saved, base)
  PROVE  AreTurns(len, start, saved, base)
<1> DEFINE Step(s, turn) == IF s.closed THEN s ELSE Turned(s, start, saved)
           s == Numbers(len)
<1>1. DOMAIN s = 1 .. len
  BY DEF Numbers
<1> HIDE DEF s
<1>2. f = [T \in SUBSET DOMAIN s |-> IF T = {} THEN base ELSE Step(f[T \ {Max(T)}], s[Max(T)])]
  <2>1. f = [T \in SUBSET (1 .. len) |-> f[T]]
    OBVIOUS
  <2>2. \A T \in SUBSET (1 .. len) : f[T] = IF T = {} THEN base ELSE Step(f[T \ {Max(T)}], s[Max(T)])
    BY Zenon DEF CycleTurns, OneTurn
  <2> QED
    BY <1>1, <2>1, <2>2, Zenon
<1>3. PICK g : /\ g = [T \in SUBSET DOMAIN s |-> IF T = {} THEN base ELSE Step(g[T \ {Max(T)}], s[Max(T)])]
               /\ FoldLeft(Step, base, s) = g[DOMAIN s]
  BY <1>2, ZenonT(60) DEF FoldLeft, MapThenFoldSet
<1>4. CycleTurns(g, len, start, saved, base)
  <2>1. \A T \in SUBSET (1 .. len) : g[T] = IF T = {} THEN base ELSE Step(g[T \ {Max(T)}], s[Max(T)])
    BY <1>1, <1>3, Zenon
  <2> QED
    BY <2>1, Zenon DEF CycleTurns, OneTurn
<1> QED
  BY <1>1, <1>3, <1>4, Zenon DEF AreTurns, TurnedBy, s

\* One turn of a cycle that is not closed yet.
TurnMade(new, s, start, saved) ==
  LET c == s.current
      next == s.perm[c]
  IN  /\ new.perm = [s.perm EXCEPT ![c] = c]
      /\ next # start => /\ new.items = [s.items EXCEPT ![c] = s.items[next]]
                         /\ new.current = next /\ ~ new.closed
      /\ next = start => /\ new.items = [s.items EXCEPT ![c] = saved]
                         /\ new.current = c /\ new.closed

\* A state of the rotation, from its parts.
LEMMA RotationMade ==
  ASSUME NEW A, NEW B, NEW C, NEW a \in A, NEW p \in B, NEW c \in C, NEW z \in BOOLEAN
  PROVE  [items |-> a, perm |-> p, current |-> c, closed |-> z]
           \in [items : A, perm : B, current : C, closed : BOOLEAN]
OBVIOUS

\* Another permutation in the same state.
LEMMA RotationExcept ==
  ASSUME NEW a, NEW p, NEW c, NEW z, NEW q, NEW s, s = [items |-> a, perm |-> p, current |-> c, closed |-> z]
  PROVE  [s EXCEPT !.perm = q] = [items |-> a, perm |-> q, current |-> c, closed |-> z]
OBVIOUS

\* What one turn of a cycle moves.
LEMMA TurnedIs ==
  ASSUME NEW n \in Nat, NEW X, NEW s \in Rotations(n, X), s.current \in 1 .. n, ~ s.closed,
         NEW start \in 1 .. n, NEW saved \in X,
         NEW new, new = Turned(s, start, saved)
  PROVE  new \in Rotations(n, X) /\ TurnMade(new, s, start, saved)
<1> DEFINE c == s.current
           next == s.perm[c]
           P == [s.perm EXCEPT ![c] = c]
           I == [s.items EXCEPT ![c] = s.items[next]]
           J == [s.items EXCEPT ![c] = saved]
           done == [s EXCEPT !.perm[s.current] = s.current]
<1>1. /\ s.items \in [1 .. n -> X] /\ s.perm \in [1 .. n -> 1 .. n] /\ s.current \in 0 .. n
      /\ s = [items |-> s.items, perm |-> s.perm, current |-> c, closed |-> s.closed] /\ s.closed = FALSE
  BY DEF Rotations
<1>2. next \in 1 .. n /\ c \in 1 .. n /\ next \in 0 .. n /\ c \in 0 .. n
  BY <1>1
<1>3. P \in [1 .. n -> 1 .. n] /\ I \in [1 .. n -> X] /\ J \in [1 .. n -> X]
  <2> DEFINE D == 1 .. n
             item == s.items[next]
  <2>1. c \in D /\ next \in D /\ s.items \in [D -> X] /\ s.perm \in [D -> D] /\ item \in X
    BY <1>1, <1>2
  <2> HIDE DEF D, c, next, item
  <2>2. [s.perm EXCEPT ![c] = c] \in [D -> D] /\ [s.items EXCEPT ![c] = item] \in [D -> X]
        /\ [s.items EXCEPT ![c] = saved] \in [D -> X]
    BY <2>1
  <2> QED
    BY <2>2, Zenon DEF D, c, next, item
<1>4. done = [items |-> s.items, perm |-> P, current |-> c, closed |-> FALSE]
  <2> DEFINE a == s.items
             p == s.perm
             z == s.closed
             q == P
  <2>1. s = [items |-> a, perm |-> p, current |-> c, closed |-> z] /\ z = FALSE /\ q = P
    BY <1>1
  <2> HIDE DEF a, p, c, z, q
  <2>2. [s EXCEPT !.perm = q] = [items |-> a, perm |-> q, current |-> c, closed |-> z]
    BY <2>1, RotationExcept
  <2> QED
    BY <2>1, <2>2, Zenon DEF a, p, c, q
<1>5. new = IF next # start THEN [done EXCEPT !.items[s.current] = s.items[next], !.current = next]
            ELSE [done EXCEPT !.items[s.current] = saved, !.closed = TRUE]
  BY Zenon DEF Turned
<1> HIDE DEF done
<1>6. CASE next # start
  <2>1. new = [items |-> I, perm |-> P, current |-> next, closed |-> FALSE]
    <3>1. new = [done EXCEPT !.items[s.current] = s.items[next], !.current = next]
      BY <1>5, <1>6, Zenon
    <3> QED
      BY <1>4, <3>1
  <2> HIDE DEF P, I, next
  <2>2. new \in Rotations(n, X)
    <3> DEFINE cur == next
    <3>1. I \in [1 .. n -> X] /\ P \in [1 .. n -> 1 .. n] /\ cur \in 0 .. n
      BY <1>2, <1>3
    <3>2. new = [items |-> I, perm |-> P, current |-> cur, closed |-> FALSE] /\ FALSE \in BOOLEAN
      BY <2>1
    <3> HIDE DEF cur
    <3>3. [items |-> I, perm |-> P, current |-> cur, closed |-> FALSE]
            \in [items : [1 .. n -> X], perm : [1 .. n -> 1 .. n], current : 0 .. n, closed : BOOLEAN]
      BY <3>1, <3>2, RotationMade
    <3> QED
      BY <3>2, <3>3, Zenon DEF Rotations
  <2>3. new.perm = P /\ new.items = I /\ new.current = next /\ ~ new.closed
    BY <2>1
  <2> QED
    BY <1>6, <2>2, <2>3 DEF TurnMade, P, I, next
<1>7. CASE next = start
  <2>1. new = [items |-> J, perm |-> P, current |-> c, closed |-> TRUE]
    <3>1. new = [done EXCEPT !.items[s.current] = saved, !.closed = TRUE]
      BY <1>5, <1>7, Zenon
    <3> QED
      BY <1>4, <3>1
  <2> HIDE DEF P, J
  <2>2. new \in Rotations(n, X)
    <3> DEFINE cur == c
    <3>1. J \in [1 .. n -> X] /\ P \in [1 .. n -> 1 .. n] /\ cur \in 0 .. n
      BY <1>2, <1>3
    <3>2. new = [items |-> J, perm |-> P, current |-> cur, closed |-> TRUE] /\ TRUE \in BOOLEAN
      BY <2>1
    <3> HIDE DEF cur
    <3>3. [items |-> J, perm |-> P, current |-> cur, closed |-> TRUE]
            \in [items : [1 .. n -> X], perm : [1 .. n -> 1 .. n], current : 0 .. n, closed : BOOLEAN]
      BY <3>1, <3>2, RotationMade
    <3> QED
      BY <3>2, <3>3, Zenon DEF Rotations
  <2>3. new.perm = P /\ new.items = J /\ new.current = c /\ new.closed
    BY <2>1
  <2> QED
    BY <1>7, <2>2, <2>3 DEF TurnMade, P, J
<1> QED
  BY <1>6, <1>7, Zenon

\* Every place has its row, or is as it was; a place is done after its predecessors.
Settled(s, i) == s.perm[i] = i
Placed(s, n, perm, rows) ==
  \A i \in 1 .. n : \/ Settled(s, i) /\ s.items[i] = rows[perm[i]]
                    \/ ~ Settled(s, i) /\ s.perm[i] = perm[i] /\ s.items[i] = rows[i]
Followed(s, n, perm, start) ==
  \A i \in 1 .. n : Settled(s, perm[i]) /\ perm[i] # start => Settled(s, i)
Keeps(s, b, n) == \A i \in 1 .. n : Settled(b, i) => Settled(s, i)
Turning(s, turns, n, X, perm, rows, start, b) ==
  /\ s \in Rotations(n, X) /\ Placed(s, n, perm, rows) /\ Keeps(s, b, n)
  /\ s.closed => Settled(s, start) /\ Followed(s, n, perm, 0)
  /\ ~ s.closed => /\ s.current \in 1 .. n /\ ~ Settled(s, s.current)
                   /\ Followed(s, n, perm, start)
                   /\ \/ s.current = start
                      \/ Settled(s, start) /\ \E w \in 1 .. n : Settled(s, w) /\ perm[w] = s.current
                   /\ Cardinality({i \in 1 .. n : Settled(s, i)}) >= turns

\* A turn moves the row that belongs at the place and marks the place as done.
LEMMA TurnRotates ==
  ASSUME NEW n \in Nat, NEW X, NEW rows \in [1 .. n -> X], NEW perm \in [1 .. n -> 1 .. n], Distinct(perm),
         NEW start \in 1 .. n, NEW turns \in 1 .. n, NEW b,
         NEW s, Turning(s, turns - 1, n, X, perm, rows, start, b),
         NEW new, new = OneTurn(s, start, rows[start])
  PROVE  Turning(new, turns, n, X, perm, rows, start, b)
<1> DEFINE c == s.current
           next == s.perm[c]
           saved == rows[start]
<1>1. CASE s.closed
  BY <1>1, Zenon DEF OneTurn, Turning
<1>2. CASE ~ s.closed
  <2>1. /\ s \in Rotations(n, X) /\ Placed(s, n, perm, rows) /\ Keeps(s, b, n)
        /\ c \in 1 .. n /\ ~ Settled(s, c) /\ Followed(s, n, perm, start)
        /\ (c = start \/ (Settled(s, start) /\ \E w \in 1 .. n : Settled(s, w) /\ perm[w] = c))
        /\ Cardinality({i \in 1 .. n : Settled(s, i)}) >= turns - 1
    BY <1>2 DEF Turning
  <2>2. s.items \in [1 .. n -> X] /\ s.perm \in [1 .. n -> 1 .. n] /\ saved \in X
    BY <2>1 DEF Rotations
  <2>3. next = perm[c] /\ s.items[c] = rows[c] /\ next \in 1 .. n /\ next # c
    BY <2>1, <2>2 DEF Placed, Settled
  <2>4. new \in Rotations(n, X) /\ TurnMade(new, s, start, saved)
    <3>1. new = Turned(s, start, saved)
      BY <1>2, Zenon DEF OneTurn
    <3> HIDE DEF saved
    <3> QED
      BY <1>2, <2>1, <2>2, <3>1, TurnedIs
  <2>5. new.perm = [s.perm EXCEPT ![c] = c]
    BY <2>4 DEF TurnMade
  <2>6. new.items[c] = rows[next] /\ \A i \in 1 .. n : i # c => new.items[i] = s.items[i]
    <3>1. CASE next # start
      <4>1. ~ Settled(s, next)
        BY <2>1, <2>3, <3>1 DEF Followed
      <4>2. s.items[next] = rows[next]
        BY <2>1, <2>3, <4>1 DEF Placed
      <4>3. new.items = [s.items EXCEPT ![c] = s.items[next]]
        BY <2>4, <3>1 DEF TurnMade
      <4> QED
        BY <2>1, <2>2, <4>2, <4>3
    <3>2. CASE next = start
      <4>1. new.items = [s.items EXCEPT ![c] = saved]
        BY <2>4, <3>2 DEF TurnMade
      <4> QED
        BY <2>1, <2>2, <3>2, <4>1
    <3> QED
      BY <3>1, <3>2
  <2>7. \A i \in 1 .. n : Settled(new, i) <=> (Settled(s, i) \/ i = c)
    BY <2>1, <2>2, <2>5 DEF Settled
  <2>8. \A i \in 1 .. n : i # c => new.perm[i] = s.perm[i]
    BY <2>1, <2>2, <2>5
  <2> HIDE DEF c, next
  <2>9. Placed(new, n, perm, rows)
    <3> SUFFICES ASSUME NEW i \in 1 .. n
                 PROVE  \/ Settled(new, i) /\ new.items[i] = rows[perm[i]]
                        \/ ~ Settled(new, i) /\ new.perm[i] = perm[i] /\ new.items[i] = rows[i]
      BY DEF Placed
    <3>1. CASE i = c
      BY <2>3, <2>6, <2>7, <3>1
    <3>2. CASE i # c
      BY <2>1, <2>6, <2>7, <2>8, <3>2 DEF Placed
    <3> QED
      BY <3>1, <3>2
  <2>10. Keeps(new, b, n)
    BY <2>1, <2>7 DEF Keeps
  <2>11. \A i, k \in 1 .. n : perm[i] = perm[k] => i = k
    BY DEF Distinct
  <2>12. Followed(new, n, perm, start)
    <3> SUFFICES ASSUME NEW i \in 1 .. n, Settled(new, perm[i]), perm[i] # start PROVE Settled(new, i)
      BY DEF Followed
    <3>0. perm[i] \in 1 .. n
      OBVIOUS
    <3>1. CASE Settled(s, perm[i])
      BY <2>1, <2>7, <3>1 DEF Followed
    <3>2. CASE perm[i] = c
      <4>1. PICK w \in 1 .. n : Settled(s, w) /\ perm[w] = c
        BY <2>1, <3>2
      <4> QED
        BY <2>7, <2>11, <3>2, <4>1
    <3> QED
      BY <2>7, <3>0, <3>1, <3>2
  <2>13. Settled(new, start)
    BY <2>1, <2>7
  <2>14. CASE next = start
    <3>1. new.closed
      BY <2>4, <2>14 DEF TurnMade, c, next
    <3>2. Followed(new, n, perm, 0)
      <4> SUFFICES ASSUME NEW i \in 1 .. n, Settled(new, perm[i]) PROVE Settled(new, i)
        BY DEF Followed
      <4>1. CASE perm[i] = start
        BY <2>1, <2>3, <2>7, <2>11, <2>14, <4>1
      <4> QED
        BY <2>12, <4>1 DEF Followed
    <3> QED
      BY <2>4, <2>9, <2>10, <2>13, <3>1, <3>2, Zenon DEF Turning
  <2>15. CASE next # start
    <3>1. ~ new.closed /\ new.current = next
      BY <2>4, <2>15 DEF TurnMade, c, next
    <3>2. ~ Settled(s, next)
      BY <2>1, <2>3, <2>15 DEF Followed
    <3>3. ~ Settled(new, next)
      BY <2>3, <2>7, <3>2
    <3>4. \E w \in 1 .. n : Settled(new, w) /\ perm[w] = new.current
      BY <2>1, <2>3, <2>7, <3>1
    <3> DEFINE D == {i \in 1 .. n : Settled(s, i)}
               E == {i \in 1 .. n : Settled(new, i)}
    <3>5. Cardinality(E) >= turns
      <4>1. IsFiniteSet(D)
        <5>1. D \subseteq 1 .. n /\ 1 \in Int /\ n \in Int
          OBVIOUS
        <5>2. IsFiniteSet(1 .. n)
          BY <5>1, FS_Interval
        <5> QED
          BY <5>1, <5>2, FS_Subset
      <4>2. E = D \cup {c} /\ c \notin D
        BY <2>1, <2>7
      <4>3. Cardinality(D) >= turns - 1
        BY <2>1
      <4> HIDE DEF D, E
      <4>4. Cardinality(E) = Cardinality(D) + 1 /\ Cardinality(D) \in Nat
        BY <4>1, <4>2, FS_AddElement, FS_CardinalityType
      <4> QED
        BY <4>3, <4>4
    <3> QED
      BY <2>3, <2>4, <2>9, <2>10, <2>12, <2>13, <3>1, <3>3, <3>4, <3>5 DEF Turning
  <2> QED
    BY <2>14, <2>15
<1> QED
  BY <1>1, <1>2

Turnings(n, X) == {s \in Rotations(n, X) : s.current \in 1 .. n}
IsCycle(h, len, n, X, start, saved, base) ==
  /\ h[0] = base
  /\ \A m \in 1 .. len : h[m - 1] \in Turnings(n, X) /\ h[m] = OneTurn(h[m - 1], start, saved)
  /\ h[len] \in Turnings(n, X) /\ TurnedBy(len, start, saved, base) = h[len]

\* A turn leads from a state of a cycle to another.
LEMMA OneTurnType ==
  ASSUME NEW n \in Nat, NEW X, NEW s \in Turnings(n, X), NEW start \in 1 .. n, NEW saved \in X
  PROVE  OneTurn(s, start, saved) \in Turnings(n, X)
<1> DEFINE new == Turned(s, start, saved)
<1>1. s \in Rotations(n, X) /\ s.current \in 1 .. n /\ s.perm[s.current] \in 1 .. n
  BY DEF Turnings, Rotations
<1>2. CASE s.closed
  BY <1>2, Zenon DEF OneTurn
<1>3. CASE ~ s.closed
  <2>1. new = Turned(s, start, saved)
    OBVIOUS
  <2> HIDE DEF new
  <2>2. new \in Rotations(n, X) /\ TurnMade(new, s, start, saved)
    BY <1>1, <1>3, <2>1, TurnedIs
  <2>3. new.current = s.perm[s.current] \/ new.current = s.current
    BY <2>2, Zenon DEF TurnMade
  <2>4. new \in Turnings(n, X)
    BY <1>1, <2>2, <2>3 DEF Turnings
  <2> QED
    BY <1>3, <2>1, <2>4, Zenon DEF OneTurn
<1> QED
  BY <1>2, <1>3

\* The states of a cycle, turn by turn.
LEMMA CycleRuns ==
  ASSUME NEW n \in Nat, NEW len \in Nat, NEW X, NEW start \in 1 .. n, NEW saved \in X,
         NEW base \in Turnings(n, X)
  PROVE  \E h : IsCycle(h, len, n, X, start, saved, base)
<1> DEFINE V == Turnings(n, X)
           turn(u) == OneTurn(u, start, saved)
           next == [m \in 1 .. len |-> [u \in V |-> turn(u)]]
<1>1. ASSUME NEW u \in V PROVE turn(u) \in V
  BY OneTurnType
<1>2. base \in V
  OBVIOUS
<1> HIDE DEF V, turn
<1>3. next \in [1 .. len -> [V -> V]]
  BY <1>1
<1> HIDE DEF next
<1>4. PICK f : IsLoop(f, len, V, base, next)
  BY <1>2, <1>3, LoopExists
<1>5. CycleTurns(f, len, start, saved, base)
  <2> SUFFICES ASSUME NEW T \in SUBSET (1 .. len), T # {} PROVE f[T] = turn(f[T \ {Max(T)}])
    BY <1>4 DEF CycleTurns, IsLoop, turn
  <2>1. Max(T) \in 1 .. len
    BY LastPlace
  <2>2. f[T \ {Max(T)}] \in V /\ f[T] = next[Max(T)][f[T \ {Max(T)}]]
    BY <1>4 DEF IsLoop
  <2> QED
    BY <2>1, <2>2 DEF next
<1>6. PICK g : CycleTurns(g, len, start, saved, base) /\ TurnedBy(len, start, saved, base) = g[1 .. len]
  <2>1. f \in [SUBSET (1 .. len) -> V]
    BY <1>4 DEF IsLoop
  <2>2. AreTurns(len, start, saved, base)
    BY <1>5, <2>1, TurnsUnfold
  <2> QED
    BY <2>2, Zenon DEF AreTurns
<1>7. Recursing(g, len, V, base, next)
  <2>1. g[{}] = base
    BY <1>6 DEF CycleTurns
  <2>2. ASSUME NEW T \in SUBSET (1 .. len), T # {}, g[T \ {Max(T)}] \in V
        PROVE  g[T] = next[Max(T)][g[T \ {Max(T)}]]
    <3>1. Max(T) \in 1 .. len
      BY <2>2, LastPlace
    <3>2. g[T] = turn(g[T \ {Max(T)}])
      BY <1>6, <2>2 DEF CycleTurns, turn
    <3> QED
      BY <2>2, <3>1, <3>2 DEF next
  <2> QED
    BY <2>1, <2>2 DEF Recursing
<1>8. PICK h : IsTaken(h, len, V, base, next) /\ h[len] = g[1 .. len]
  BY <1>2, <1>3, <1>7, TakenAlong
<1>9. \A m \in 1 .. len : h[m - 1] \in V /\ h[m] = turn(h[m - 1])
  BY <1>8 DEF IsTaken, next
<1>10. h[len] \in V
  <2>1. len = 0 \/ len \in 1 .. len
    OBVIOUS
  <2> QED
    BY <1>2, <1>8, <2>1 DEF IsTaken
<1>11. IsCycle(h, len, n, X, start, saved, base)
  BY <1>6, <1>8, <1>9, <1>10 DEF IsCycle, IsTaken, turn, V
<1> QED
  BY <1>11

\* Between two cycles.
Rotating(s, m, n, X, perm, rows) ==
  /\ s \in Rotations(n, X) /\ Placed(s, n, perm, rows) /\ Followed(s, n, perm, 0)
  /\ \A i \in 1 .. m : Settled(s, i)

\* A cycle starts in the state that the one before it left.
LEMMA RotationRestarts ==
  ASSUME NEW a, NEW p, NEW c, NEW z, NEW d, NEW y, NEW s,
         s = [items |-> a, perm |-> p, current |-> c, closed |-> z]
  PROVE  [s EXCEPT !.current = d, !.closed = y] = [items |-> a, perm |-> p, current |-> d, closed |-> y]
<1> DEFINE u == [items |-> a, perm |-> p, current |-> d, closed |-> z]
<1>1. [s EXCEPT !.current = d] = u
  OBVIOUS
<1>2. [u EXCEPT !.closed = y] = [items |-> a, perm |-> p, current |-> d, closed |-> y]
  OBVIOUS
<1>3. [s EXCEPT !.current = d, !.closed = y] = [[s EXCEPT !.current = d] EXCEPT !.closed = y]
  OBVIOUS
<1> QED
  BY <1>1, <1>2, <1>3, Zenon

Restarted(s, start) == [s EXCEPT !.current = start, !.closed = s.perm[start] = start]
IsRestarted(base, s, start, n, X) ==
  /\ base \in Turnings(n, X) /\ base.items = s.items /\ base.perm = s.perm
  /\ base.current = start /\ base.closed = Settled(s, start)
  /\ Rotated(s, start) = TurnedBy(n, start, s.items[start], base)

\* Where a cycle starts.
LEMMA RotatedIs ==
  ASSUME NEW n \in Nat, NEW X, NEW s \in Rotations(n, X), NEW start \in 1 .. n
  PROVE  IsRestarted(Restarted(s, start), s, start, n, X)
<1> DEFINE base == Restarted(s, start)
           a == s.items
           p == s.perm
           z == s.perm[start] = start
<1>1. /\ a \in [1 .. n -> X] /\ p \in [1 .. n -> 1 .. n]
      /\ s = [items |-> a, perm |-> p, current |-> s.current, closed |-> s.closed]
      /\ start \in 0 .. n /\ z \in BOOLEAN
  BY DEF Rotations
<1>2. Len(s.perm) = n
  BY <1>1
<1>3. Rotated(s, start) = TurnedBy(n, start, s.items[start], base)
  BY <1>2, Zenon DEF Rotated, TurnedBy, Restarted
<1> HIDE DEF a, p, z, base
<1>4. base = [items |-> a, perm |-> p, current |-> start, closed |-> z]
  <2>1. base = [s EXCEPT !.current = start, !.closed = z]
    BY Zenon DEF z, base, Restarted
  <2> DEFINE c == s.current
             y == s.closed
  <2>2. s = [items |-> a, perm |-> p, current |-> c, closed |-> y]
    BY <1>1
  <2> HIDE DEF c, y
  <2> QED
    BY <2>1, <2>2, RotationRestarts
<1>5. base \in Rotations(n, X)
  <2>1. [items |-> a, perm |-> p, current |-> start, closed |-> z]
          \in [items : [1 .. n -> X], perm : [1 .. n -> 1 .. n], current : 0 .. n, closed : BOOLEAN]
    BY <1>1, RotationMade
  <2> QED
    BY <1>4, <2>1, Zenon DEF Rotations
<1>6. base.items = a /\ base.perm = p /\ base.current = start /\ base.closed = z
  BY <1>4
<1>7. base \in Turnings(n, X)
  BY <1>5, <1>6 DEF Turnings
<1> QED
  BY <1>3, <1>6, <1>7, Zenon DEF IsRestarted, Settled, a, p, z, base

\* A cycle moves every row of it to its place, and leaves the others alone.
LEMMA CycleRotates ==
  ASSUME NEW n \in Nat, NEW X, NEW rows \in [1 .. n -> X], NEW perm \in [1 .. n -> 1 .. n], Distinct(perm),
         NEW start \in 1 .. n, NEW s, Rotating(s, start - 1, n, X, perm, rows)
  PROVE  Rotating(Rotated(s, start), start, n, X, perm, rows)
<1> DEFINE base == Restarted(s, start)
           new == Rotated(s, start)
           saved == s.items[start]
<1>1. /\ s \in Rotations(n, X) /\ Placed(s, n, perm, rows) /\ Followed(s, n, perm, 0)
      /\ \A i \in 1 .. start - 1 : Settled(s, i)
  BY DEF Rotating
<1>2. IsRestarted(base, s, start, n, X)
  BY <1>1, RotatedIs
<1> HIDE DEF base
<1>3. /\ base \in Turnings(n, X) /\ base.items = s.items /\ base.perm = s.perm
      /\ base.current = start /\ (base.closed <=> Settled(s, start))
      /\ new = TurnedBy(n, start, saved, base)
  BY <1>2, Zenon DEF IsRestarted, new
<1> HIDE DEF new
<1>4. saved \in X
  BY <1>1 DEF Rotations
<1>5. \A i \in 1 .. n : Settled(base, i) <=> Settled(s, i)
  BY <1>3 DEF Settled
<1>6. base \in Rotations(n, X) /\ Placed(base, n, perm, rows) /\ Keeps(base, s, n) /\ Followed(base, n, perm, 0)
  <2>1. base \in Rotations(n, X)
    BY <1>3 DEF Turnings
  <2>2. Placed(base, n, perm, rows)
    BY <1>1, <1>3, <1>5 DEF Placed
  <2>3. Followed(base, n, perm, 0)
    BY <1>1, <1>5 DEF Followed
  <2> QED
    BY <1>5, <2>1, <2>2, <2>3 DEF Keeps
<1>7. Turning(base, 0, n, X, perm, rows, start, s)
  <2>1. base.closed => Settled(base, start)
    BY <1>3, <1>5
  <2>2. Followed(base, n, perm, start)
    BY <1>6 DEF Followed
  <2>3. ~ base.closed => base.current \in 1 .. n /\ ~ Settled(base, base.current) /\ base.current = start
    BY <1>3, <1>5
  <2> DEFINE D == {i \in 1 .. n : Settled(base, i)}
  <2>4. Cardinality(D) >= 0
    <3>1. IsFiniteSet(D)
      <4>1. D \subseteq 1 .. n /\ 1 \in Int /\ n \in Int
        OBVIOUS
      <4>2. IsFiniteSet(1 .. n)
        BY <4>1, FS_Interval
      <4> QED
        BY <4>1, <4>2, FS_Subset
    <3> HIDE DEF D
    <3>2. Cardinality(D) \in Nat
      BY <3>1, FS_CardinalityType
    <3> QED
      BY <3>2
  <2> QED
    BY <1>6, <2>1, <2>2, <2>3, <2>4, Zenon DEF Turning
<1>8. PICK h : IsCycle(h, n, n, X, start, saved, base)
  BY <1>3, <1>4, CycleRuns
<1>9. h[0] = base /\ h[n] = new /\ \A m \in 1 .. n : h[m] = OneTurn(h[m - 1], start, saved)
  BY <1>3, <1>8 DEF IsCycle
<1>10. CASE Settled(s, start)
  <2> DEFINE P == {m \in Nat : h[m] = base}
  <2>1. 0 \in P
    BY <1>9
  <2>2. \A m \in 1 .. n : m - 1 \in P => m \in P
    <3>1. OneTurn(base, start, saved) = base
      BY <1>3, <1>10, Zenon DEF OneTurn
    <3> SUFFICES ASSUME NEW m \in 1 .. n, m - 1 \in P PROVE m \in P
      OBVIOUS
    <3>2. m \in Nat /\ h[m - 1] = base /\ h[m] = OneTurn(h[m - 1], start, saved)
      BY <1>9
    <3> HIDE DEF base
    <3> QED
      BY <3>1, <3>2
  <2>3. n \in P
    <3> HIDE DEF P
    <3> QED
      BY <2>1, <2>2, PrefixInduction
  <2>4. new = base
    BY <1>9, <2>3
  <2>5. \A i \in 1 .. start : Settled(base, i)
    <3>1. \A i \in 1 .. start : i \in 1 .. start - 1 \/ i = start
      OBVIOUS
    <3>2. 1 .. start \subseteq 1 .. n
      OBVIOUS
    <3> QED
      BY <1>1, <1>5, <1>10, <3>1, <3>2
  <2> QED
    BY <1>6, <2>4, <2>5, Zenon DEF Rotating, new
<1>11. CASE ~ Settled(s, start)
  <2>1. saved = rows[start]
    BY <1>1, <1>11 DEF Placed
  <2> DEFINE P == {m \in Nat : Turning(h[m], m, n, X, perm, rows, start, s)}
  <2>2. 0 \in P
    BY <1>7, <1>9
  <2>3. ASSUME NEW m \in 1 .. n, m - 1 \in P PROVE m \in P
    <3> DEFINE u == h[m - 1]
               v == h[m]
    <3>1. Turning(u, m - 1, n, X, perm, rows, start, s) /\ v = OneTurn(u, start, rows[start])
      BY <1>9, <2>1, <2>3
    <3> HIDE DEF u, v
    <3>2. Turning(v, m, n, X, perm, rows, start, s)
      BY <3>1, TurnRotates
    <3> QED
      BY <3>2 DEF v
  <2>4. n \in P
    <3> HIDE DEF P
    <3> QED
      BY <2>2, <2>3, PrefixInduction
  <2>5. Turning(new, n, n, X, perm, rows, start, s)
    BY <1>9, <2>4
  <2>6. new.closed
    <3> SUFFICES ASSUME ~ new.closed PROVE FALSE
      OBVIOUS
    <3> DEFINE D == {i \in 1 .. n : Settled(new, i)}
               c == new.current
    <3>1. c \in 1 .. n /\ ~ Settled(new, c) /\ Cardinality(D) >= n
      BY <2>5 DEF Turning
    <3>2. D \subseteq 1 .. n /\ 1 \in Int /\ n \in Int /\ c \notin D
      BY <3>1
    <3>3. IsFiniteSet(1 .. n) /\ Cardinality(1 .. n) = n
      <4>1. /\ IsFiniteSet(1 .. n)
            /\ Cardinality(1 .. n) = IF 1 > n THEN 0 ELSE n - 1 + 1
        BY <3>2, FS_Interval
      <4> QED
        BY <4>1
    <3> HIDE DEF D, c
    <3>4. IsFiniteSet(D) /\ D \cup {c} \subseteq 1 .. n
      BY <3>1, <3>2, <3>3, FS_Subset
    <3>5. Cardinality(D \cup {c}) = Cardinality(D) + 1 /\ Cardinality(D) \in Nat
      BY <3>2, <3>4, FS_AddElement, FS_CardinalityType
    <3>6. Cardinality(D \cup {c}) <= Cardinality(1 .. n)
      BY <3>3, <3>4, FS_Subset
    <3> QED
      BY <3>1, <3>3, <3>5, <3>6
  <2>7. /\ new \in Rotations(n, X) /\ Placed(new, n, perm, rows) /\ Keeps(new, s, n)
        /\ Settled(new, start) /\ Followed(new, n, perm, 0)
    BY <2>5, <2>6 DEF Turning
  <2>8. \A i \in 1 .. start : Settled(new, i)
    <3>1. \A i \in 1 .. start : i \in 1 .. start - 1 \/ i = start
      OBVIOUS
    <3>2. 1 .. start \subseteq 1 .. n
      OBVIOUS
    <3> QED
      BY <1>1, <2>7, <3>1, <3>2 DEF Keeps
  <2> QED
    BY <2>7, <2>8, Zenon DEF Rotating, new
<1> QED
  BY <1>10, <1>11

\* A cycle leads from a state of the rotation to another.
LEMMA RotatedType ==
  ASSUME NEW n \in Nat, NEW X, NEW s \in Rotations(n, X), NEW start \in 1 .. n
  PROVE  Rotated(s, start) \in Rotations(n, X)
<1> DEFINE base == Restarted(s, start)
           saved == s.items[start]
<1>1. IsRestarted(base, s, start, n, X)
  BY RotatedIs
<1> HIDE DEF base
<1>2. base \in Turnings(n, X) /\ Rotated(s, start) = TurnedBy(n, start, saved, base)
  BY <1>1, Zenon DEF IsRestarted
<1>3. saved \in X
  BY DEF Rotations
<1> HIDE DEF saved
<1>4. PICK h : IsCycle(h, n, n, X, start, saved, base)
  BY <1>2, <1>3, CycleRuns
<1> QED
  BY <1>2, <1>4 DEF IsCycle, Turnings

Cycles(f, len, base) ==
  \A T \in SUBSET (1 .. len) : f[T] = IF T = {} THEN base ELSE Rotated(f[T \ {Max(T)}], Max(T))
CycledBy(len, base) == FoldLeft(Rotated, base, Numbers(len))
AreCycles(len, base) == \E g : Cycles(g, len, base) /\ CycledBy(len, base) = g[1 .. len]

\* The rotation as the function of its fold.
LEMMA CyclesUnfold ==
  ASSUME NEW base, NEW len \in Nat, NEW V, NEW f \in [SUBSET (1 .. len) -> V], Cycles(f, len, base)
  PROVE  AreCycles(len, base)
<1> DEFINE s == Numbers(len)
<1>1. DOMAIN s = 1 .. len /\ \A m \in 1 .. len : s[m] = m
  BY DEF Numbers
<1>2. \A T \in SUBSET (1 .. len) : T # {} => s[Max(T)] = Max(T)
  BY <1>1, LastPlace
<1> HIDE DEF s
<1>3. f = [T \in SUBSET DOMAIN s |-> IF T = {} THEN base ELSE Rotated(f[T \ {Max(T)}], s[Max(T)])]
  <2>1. f = [T \in SUBSET (1 .. len) |-> f[T]]
    OBVIOUS
  <2>2. \A T \in SUBSET (1 .. len) : f[T] = IF T = {} THEN base ELSE Rotated(f[T \ {Max(T)}], s[Max(T)])
    BY <1>2, Zenon DEF Cycles
  <2> QED
    BY <1>1, <2>1, <2>2, Zenon
<1>4. PICK g : /\ g = [T \in SUBSET DOMAIN s |-> IF T = {} THEN base ELSE Rotated(g[T \ {Max(T)}], s[Max(T)])]
               /\ FoldLeft(Rotated, base, s) = g[DOMAIN s]
  BY <1>3, ZenonT(60) DEF FoldLeft, MapThenFoldSet
<1>5. Cycles(g, len, base)
  <2>1. \A T \in SUBSET (1 .. len) : g[T] = IF T = {} THEN base ELSE Rotated(g[T \ {Max(T)}], s[Max(T)])
    BY <1>1, <1>4, Zenon
  <2> QED
    BY <1>2, <2>1, Zenon DEF Cycles
<1> QED
  BY <1>1, <1>4, <1>5, Zenon DEF AreCycles, CycledBy, s

AreRotated(h, len, n, X, base) ==
  /\ h[0] = base /\ \A m \in 1 .. len : h[m] = Rotated(h[m - 1], m)
  /\ CycledBy(len, base) = h[len]

\* The states of the rotation, cycle by cycle.
LEMMA RotationRuns ==
  ASSUME NEW n \in Nat, NEW X, NEW base \in Rotations(n, X)
  PROVE  \E h : AreRotated(h, n, n, X, base)
<1> DEFINE V == Rotations(n, X)
           turn(u, m) == Rotated(u, m)
           next == [m \in 1 .. n |-> [u \in V |-> turn(u, m)]]
<1>1. ASSUME NEW u \in V, NEW m \in 1 .. n PROVE turn(u, m) \in V
  BY RotatedType
<1>2. base \in V
  OBVIOUS
<1> HIDE DEF V, turn
<1>3. next \in [1 .. n -> [V -> V]]
  BY <1>1
<1> HIDE DEF next
<1>4. PICK f : IsLoop(f, n, V, base, next)
  BY <1>2, <1>3, LoopExists
<1>5. Cycles(f, n, base)
  <2> SUFFICES ASSUME NEW T \in SUBSET (1 .. n), T # {} PROVE f[T] = turn(f[T \ {Max(T)}], Max(T))
    BY <1>4 DEF Cycles, IsLoop, turn
  <2>1. Max(T) \in 1 .. n
    BY LastPlace
  <2>2. f[T \ {Max(T)}] \in V /\ f[T] = next[Max(T)][f[T \ {Max(T)}]]
    BY <1>4 DEF IsLoop
  <2> QED
    BY <2>1, <2>2 DEF next
<1>6. PICK g : Cycles(g, n, base) /\ CycledBy(n, base) = g[1 .. n]
  <2>1. f \in [SUBSET (1 .. n) -> V]
    BY <1>4 DEF IsLoop
  <2>2. AreCycles(n, base)
    BY <1>5, <2>1, CyclesUnfold
  <2> QED
    BY <2>2, Zenon DEF AreCycles
<1>7. Recursing(g, n, V, base, next)
  <2>1. g[{}] = base
    BY <1>6 DEF Cycles
  <2>2. ASSUME NEW T \in SUBSET (1 .. n), T # {}, g[T \ {Max(T)}] \in V
        PROVE  g[T] = next[Max(T)][g[T \ {Max(T)}]]
    <3>1. Max(T) \in 1 .. n
      BY <2>2, LastPlace
    <3>2. g[T] = turn(g[T \ {Max(T)}], Max(T))
      BY <1>6, <2>2 DEF Cycles, turn
    <3> QED
      BY <2>2, <3>1, <3>2 DEF next
  <2> QED
    BY <2>1, <2>2 DEF Recursing
<1>8. PICK h : IsTaken(h, n, V, base, next) /\ h[n] = g[1 .. n]
  BY <1>2, <1>3, <1>7, TakenAlong
<1>9. \A m \in 1 .. n : h[m - 1] \in V /\ h[m] = turn(h[m - 1], m)
  BY <1>8 DEF IsTaken, next
<1>10. AreRotated(h, n, n, X, base)
  BY <1>6, <1>8, <1>9 DEF AreRotated, IsTaken, turn
<1> QED
  BY <1>10

RotationFrom(rows, perm) == [items |-> rows, perm |-> perm, current |-> 0, closed |-> TRUE]

Permuted(rows, perm, n) == [i \in 1 .. n |-> rows[perm[i]]]

\* The rotation in place puts every row where the permutation wants it.
LEMMA RotationHolds ==
  ASSUME NEW n \in Nat, NEW X, NEW rows \in [1 .. n -> X], NEW perm \in [1 .. n -> 1 .. n], Distinct(perm)
  PROVE  CycledBy(n, RotationFrom(rows, perm)).items = Permuted(rows, perm, n)
<1> DEFINE base == RotationFrom(rows, perm)
<1>1. base = [items |-> rows, perm |-> perm, current |-> 0, closed |-> TRUE] /\ 0 \in 0 .. n /\ TRUE \in BOOLEAN
  BY DEF RotationFrom
<1> HIDE DEF base
<1>2. base \in Rotations(n, X)
  <2> DEFINE D == 0 .. n
             c == 0
  <2>1. c \in D
    OBVIOUS
  <2> HIDE DEF D, c
  <2>2. [items |-> rows, perm |-> perm, current |-> c, closed |-> TRUE]
          \in [items : [1 .. n -> X], perm : [1 .. n -> 1 .. n], current : D, closed : BOOLEAN]
    BY <1>1, <2>1, RotationMade
  <2> QED
    BY <1>1, <2>2, Zenon DEF Rotations, D, c
<1>3. Rotating(base, 0, n, X, perm, rows)
  <2>1. base.perm = perm /\ base.items = rows
    BY <1>1
  <2>2. Placed(base, n, perm, rows)
    BY <2>1 DEF Placed, Settled
  <2>3. Followed(base, n, perm, 0)
    <3>1. \A i, k \in 1 .. n : perm[i] = perm[k] => i = k
      BY DEF Distinct
    <3>2. \A i \in 1 .. n : perm[i] \in 1 .. n
      OBVIOUS
    <3>3. \A i \in 1 .. n : perm[perm[i]] = perm[i] => perm[i] = i
      BY <3>1, <3>2
    <3> QED
      BY <2>1, <3>3 DEF Followed, Settled
  <2>4. \A i \in 1 .. 0 : Settled(base, i)
    OBVIOUS
  <2> QED
    BY <1>2, <2>2, <2>3, <2>4, Zenon DEF Rotating
<1>4. PICK h : AreRotated(h, n, n, X, base)
  BY <1>2, RotationRuns
<1>5. h[0] = base /\ CycledBy(n, base) = h[n] /\ \A m \in 1 .. n : h[m] = Rotated(h[m - 1], m)
  BY <1>4 DEF AreRotated
<1> DEFINE P == {m \in Nat : Rotating(h[m], m, n, X, perm, rows)}
<1>6. 0 \in P
  BY <1>3, <1>5
<1>7. ASSUME NEW m \in 1 .. n, m - 1 \in P PROVE m \in P
  <2> DEFINE u == h[m - 1]
  <2>1. Rotating(u, m - 1, n, X, perm, rows) /\ h[m] = Rotated(u, m)
    BY <1>5, <1>7
  <2> HIDE DEF u
  <2>2. Rotating(Rotated(u, m), m, n, X, perm, rows)
    BY <2>1, CycleRotates
  <2> QED
    BY <2>1, <2>2
<1>8. n \in P
  <2> HIDE DEF P
  <2> QED
    BY <1>6, <1>7, PrefixInduction
<1> DEFINE s == h[n]
<1>9. Rotating(s, n, n, X, perm, rows)
  BY <1>8
<1> HIDE DEF s
<1>10. s.items \in [1 .. n -> X] /\ \A i \in 1 .. n : s.items[i] = rows[perm[i]]
  BY <1>9 DEF Rotating, Rotations, Placed
<1>11. s.items = [i \in 1 .. n |-> rows[perm[i]]]
  BY <1>10
<1> QED
  BY <1>5, <1>11, Zenon DEF s, base, Permuted

\* What enforce_displacement_guard returns.
LEMMA EnforcedIs ==
  ASSUME NEW n \in Nat, NEW rows \in Seq(Row), Len(rows) = n, NEW protected \in Nat, NEW margin
  PROVE  EnforceDisplacementGuard(rows, protected, margin)
         = Permuted(rows, DisplacementPermutation(rows, protected, margin), n)
<1> DEFINE perm == DisplacementPermutation(rows, protected, margin)
<1>1. rows \in [1 .. n -> Row]
  OBVIOUS
<1>2. IsDisplaced(perm, n, rows, protected, margin)
  BY DisplacementHolds
<1>3. EnforceDisplacementGuard(rows, protected, margin) = CycledBy(n, RotationFrom(rows, perm)).items
  BY Zenon DEF EnforceDisplacementGuard, CycledBy, RotationFrom
<1> HIDE DEF perm
<1>4. perm \in [1 .. n -> 1 .. n] /\ Distinct(perm)
  BY <1>2 DEF IsDisplaced
<1>5. CycledBy(n, RotationFrom(rows, perm)).items = Permuted(rows, perm, n)
  BY <1>1, <1>4, RotationHolds
<1> QED
  BY <1>3, <1>5, Zenon DEF perm

-----------------------------------------------------------------------------
(* The displacement guard                                                  *)

\* The displacement guard is fair and, applied again, changes nothing.
LEMMA GuardHolds ==
  ASSUME NEW n \in Nat, NEW r, r.rows \in Seq(Row), Len(r.rows) = n, r.protected \in Nat, r.margin \in Int,
         Whole \in Int, NEW out, out = EnforceDisplacementGuard(r.rows, r.protected, r.margin)
  PROVE  GuardIsFair(r, out)
<1> DEFINE rows == r.rows
           protected == r.protected
           margin == r.margin
           perm == DisplacementPermutation(rows, protected, margin)
           len == Min({protected, n})
           id == Numbers(n)
<1>1. IsDisplaced(perm, n, rows, protected, margin)
  BY DisplacementHolds
<1>2. out = [i \in 1 .. n |-> rows[perm[i]]]
  <2>1. out = Permuted(rows, perm, n)
    BY EnforcedIs
  <2> QED
    BY <2>1, Zenon DEF Permuted
<1>3. rows \in Seq(Row) /\ Len(rows) = n /\ DOMAIN rows = 1 .. n /\ protected \in Nat /\ margin \in Int
  OBVIOUS
<1>4. len \in Nat /\ len <= n
  <2>1. protected \in Int /\ n \in Int
    OBVIOUS
  <2>2. len = IF protected <= n THEN protected ELSE n
    BY <2>1, ExtremesOfTwo
  <2> QED
    BY <2>2
<1>5. out = EnforceDisplacementGuard(rows, protected, margin)
  OBVIOUS
<1> HIDE DEF rows, protected, margin, perm, len, id
<1>6. perm \in [1 .. n -> 1 .. n] /\ Distinct(perm) /\ (~ (margin <= Whole) => FairTo(perm, len, n, rows, margin))
  BY <1>1 DEF IsDisplaced, len
<1>7. ToSet(perm) = 1 .. n
  <2> DEFINE A == 1 .. n
  <2>1. perm \in [1 .. n -> A]
    BY <1>6
  <2> HIDE DEF A
  <2>2. perm \in Seq(A) /\ Len(perm) = n
    BY <2>1, SeqMade
  <2> QED
    BY <1>6, <2>2, DistinctCover DEF A
<1>8. out \in Seq(Row) /\ Len(out) = n /\ DOMAIN out = 1 .. n /\ \A i \in 1 .. n : out[i] = rows[perm[i]]
  <2>1. \A i \in 1 .. n : rows[perm[i]] \in Row
    BY <1>3, <1>6
  <2>2. out \in [1 .. n -> Row]
    BY <1>2, <2>1
  <2>3. out \in Seq(Row) /\ Len(out) = n /\ DOMAIN out = 1 .. n
    BY <2>2, SeqMade
  <2> QED
    BY <1>2, <2>3
<1>9. id \in [1 .. n -> 1 .. n] /\ \A i \in 1 .. n : id[i] = i
  BY DEF id, Numbers
<1>10. \A i \in 1 .. n : Primary(out, id, i) <=> Primary(rows, perm, i)
  BY <1>8, <1>9, Zenon DEF Primary
<1>11. EnforceDisplacementGuard(out, protected, margin) = out
  <2>1. ~ (margin <= Whole) => FairTo(id, len, n, out, margin)
    <3> SUFFICES ASSUME ~ (margin <= Whole) PROVE FairTo(id, len, n, out, margin)
      OBVIOUS
    <3> SUFFICES ASSUME NEW i \in 1 .. n, NEW j \in 1 .. n, i <= len, i < j,
                        ~ Primary(out, id, i), Primary(out, id, j),
                        \A x \in 1 .. n : i < x /\ x < j => ~ Primary(out, id, x)
                 PROVE  Dominates(out[id[i]].score, out[id[j]].score, margin)
      BY Zenon DEF FairTo
    <3>1. \A x \in 1 .. n : i < x /\ x < j => ~ Primary(rows, perm, x)
      BY <1>10
    <3>2. ~ Primary(rows, perm, i) /\ Primary(rows, perm, j)
      BY <1>10
    <3>3. Dominates(rows[perm[i]].score, rows[perm[j]].score, margin)
      BY <1>6, <3>1, <3>2 DEF FairTo
    <3> QED
      BY <1>8, <1>9, <3>3
  <2>2. DisplacementPermutation(out, protected, margin) = id
    <3>1. Fair(n, out, protected, margin)
      BY <2>1, Zenon DEF Fair, len, id
    <3>2. DisplacementPermutation(out, protected, margin) = Numbers(n)
      BY <1>3, <1>8, <3>1, FairStays
    <3> QED
      BY <3>2, Zenon DEF id
  <2> DEFINE again == EnforceDisplacementGuard(out, protected, margin)
  <2>3. again = Permuted(out, DisplacementPermutation(out, protected, margin), n)
    BY <1>3, <1>8, EnforcedIs
  <2> HIDE DEF again
  <2>4. again = [i \in 1 .. n |-> out[id[i]]]
    BY <2>2, <2>3, Zenon DEF Permuted
  <2>5. out = [i \in 1 .. n |-> out[i]]
    BY <1>8
  <2> QED
    BY <1>9, <2>4, <2>5 DEF again
<1>12. \A i, j \in 1 .. n :
         i < j /\ ~ rows[perm[i]].expansion /\ ~ rows[perm[j]].expansion => perm[i] < perm[j]
  BY <1>1 DEF IsDisplaced, Primary
<1>13. margin > Whole =>
         \A i \in 1 .. len, j \in 1 .. n :
           out[i].expansion /\ ~ out[j].expansion /\ i < j
             /\ (\A m \in (i + 1) .. (j - 1) : out[m].expansion)
             => Dominates(out[i].score, out[j].score, margin)
  <2> SUFFICES ASSUME margin > Whole, NEW i \in 1 .. len, NEW j \in 1 .. n,
                      out[i].expansion, ~ out[j].expansion, i < j,
                      \A m \in (i + 1) .. (j - 1) : out[m].expansion
               PROVE  Dominates(out[i].score, out[j].score, margin)
    OBVIOUS
  <2>1. i \in 1 .. n /\ i <= len /\ ~ (margin <= Whole)
    BY <1>3, <1>4
  <2>2. ~ Primary(rows, perm, i) /\ Primary(rows, perm, j)
    BY <1>8, <2>1 DEF Primary
  <2>3. \A x \in 1 .. n : i < x /\ x < j => ~ Primary(rows, perm, x)
    <3> SUFFICES ASSUME NEW x \in 1 .. n, i < x, x < j PROVE ~ Primary(rows, perm, x)
      OBVIOUS
    <3>1. x \in (i + 1) .. (j - 1)
      BY <2>1
    <3> QED
      BY <1>8, <3>1 DEF Primary
  <2> QED
    BY <1>6, <1>8, <2>1, <2>2, <2>3 DEF FairTo
<1>14. DOMAIN perm = 1 .. n
  BY <1>6
<1>15. DOMAIN rows = 1 .. n /\ len = Min({protected, Len(out)})
  BY <1>3, <1>8 DEF len
<1> QED
  BY <1>2, <1>7, <1>8, <1>11, <1>12, <1>13, <1>14, <1>15, Zenon DEF GuardIsFair, rows, protected, margin, perm

-----------------------------------------------------------------------------
(* Rank fusion: rows of one id merged                                      *)

\* A row with another score is a row.
LEMMA FusionRowMade == ASSUME NEW a \in FusionRow, NEW x \in Int PROVE [a EXCEPT !.score = x] \in FusionRow
BY DEF FusionRow

\* A score on the unit scale is a whole number of units' parts.
LEMMA OnScale ==
  ASSUME NEW x \in Int, NEW lo \in Int, NEW range \in Nat \ {0}, NEW unit \in Int
  PROVE  ((x - lo) * unit) \div range \in Int
<1> DEFINE y == (x - lo) * unit
<1>1. y \in Int
  OBVIOUS
<1> HIDE DEF y
<1>2. y \div range \in Int
  BY <1>1
<1> QED
  BY <1>2 DEF y

\* Normalised rows are rows, of the same ids.
LEMMA NormalizedType ==
  ASSUME Unit \in Int, NEW rows \in Seq(FusionRow)
  PROVE  MinMaxNormalize(rows) \in Seq(FusionRow) /\ Len(MinMaxNormalize(rows)) = Len(rows)
         /\ \A i \in 1 .. Len(rows) : MinMaxNormalize(rows)[i].id = rows[i].id
<1> DEFINE n == Len(rows)
           scores == {rows[i].score : i \in DOMAIN rows}
           lo == Min(scores)
           hi == Max(scores)
           range == hi - lo
           Graded(x) == IF range = 0 THEN Unit ELSE ((x - lo) * Unit) \div range
           out == MinMaxNormalize(rows)
<1>1. n \in Nat /\ DOMAIN rows = 1 .. n /\ \A i \in 1 .. n : rows[i] \in FusionRow
  OBVIOUS
<1>2. out = [i \in 1 .. n |-> [rows[i] EXCEPT !.score = Graded(@)]]
  BY <1>1, Zenon DEF MinMaxNormalize
<1>3. \A i \in 1 .. n : rows[i].score \in Int /\ rows[i].score \in scores
  BY <1>1 DEF FusionRow
<1>4. ASSUME NEW i \in 1 .. n PROVE Graded(rows[i].score) \in Int
  <2> DEFINE x == rows[i].score
  <2>1. x \in Int /\ x \in scores /\ scores \subseteq Int
    BY <1>1, <1>3
  <2>2. IsFiniteSet(scores)
    <3> DEFINE t == [m \in 1 .. n |-> rows[m].score]
    <3>1. t \in [1 .. n -> Int] /\ ToSet(t) = scores
      BY <1>1, <1>3 DEF ToSet
    <3> HIDE DEF t
    <3>2. t \in Seq(Int)
      BY <1>1, <3>1, SeqMade
    <3>3. IsFiniteSet(ToSet(t))
      BY <3>2, DistinctSize
    <3> QED
      BY <3>1, <3>3
  <2> HIDE DEF x, scores
  <2>3. hi \in scores /\ lo \in scores /\ \A m \in scores : hi >= m
    BY <2>1, <2>2, ExtremesOfFinite
  <2> HIDE DEF lo, hi
  <2>4. lo \in Int /\ range \in Nat
    BY <2>1, <2>3
  <2> HIDE DEF range
  <2>5. range # 0 => ((x - lo) * Unit) \div range \in Int
    <3> SUFFICES ASSUME range # 0 PROVE ((x - lo) * Unit) \div range \in Int
      OBVIOUS
    <3>1. range \in Nat \ {0}
      BY <2>4
    <3> QED
      BY <2>1, <2>4, <3>1, OnScale
  <2> QED
    BY <2>5 DEF x
<1> HIDE DEF Graded, out
<1>5. \A i \in 1 .. n : [rows[i] EXCEPT !.score = Graded(@)] \in FusionRow
  BY <1>1, <1>4, FusionRowMade
<1>6. out \in [1 .. n -> FusionRow]
  BY <1>2, <1>5
<1>7. out \in Seq(FusionRow) /\ Len(out) = n
  BY <1>1, <1>6, SeqMade
<1>8. \A i \in 1 .. n : out[i].id = rows[i].id
  BY <1>1, <1>2 DEF FusionRow
<1> QED
  BY <1>7, <1>8 DEF out

\* Weighted rows are rows, of the same ids.
LEMMA WeightedType ==
  ASSUME NEW rows \in Seq(FusionRow), NEW w \in Int
  PROVE  Weighted(rows, w) \in Seq(FusionRow) /\ Len(Weighted(rows, w)) = Len(rows)
         /\ \A i \in 1 .. Len(rows) : Weighted(rows, w)[i].id = rows[i].id
<1> DEFINE n == Len(rows)
           out == Weighted(rows, w)
<1>1. n \in Nat /\ DOMAIN rows = 1 .. n /\ \A i \in 1 .. n : rows[i] \in FusionRow
  OBVIOUS
<1>2. out = [i \in 1 .. n |-> [rows[i] EXCEPT !.score = @ * w]]
  BY <1>1, Zenon DEF Weighted
<1>3. \A i \in 1 .. n : rows[i].score * w \in Int
  BY <1>1 DEF FusionRow
<1> HIDE DEF out
<1>4. \A i \in 1 .. n : [rows[i] EXCEPT !.score = @ * w] \in FusionRow
  BY <1>1, <1>3, FusionRowMade
<1>5. out \in [1 .. n -> FusionRow]
  BY <1>2, <1>4
<1>6. out \in Seq(FusionRow) /\ Len(out) = n
  BY <1>1, <1>5, SeqMade
<1>7. \A i \in 1 .. n : out[i].id = rows[i].id
  BY <1>1, <1>2 DEF FusionRow
<1> QED
  BY <1>6, <1>7 DEF out

\* The contributions are rows, as many as both lists have.
LEMMA ContributionsType ==
  ASSUME Unit \in Int, NEW fts \in Seq(FusionRow), NEW vector \in Seq(FusionRow),
         NEW wFts \in Int, NEW wVector \in Int
  PROVE  /\ Contributions(fts, vector, wFts, wVector) \in Seq(FusionRow)
         /\ Len(Contributions(fts, vector, wFts, wVector)) = Len(fts) + Len(vector)
<1> DEFINE a == MinMaxNormalize(fts)
           b == MinMaxNormalize(vector)
           c == Weighted(a, wFts)
           d == Weighted(b, wVector)
<1>1. a \in Seq(FusionRow) /\ Len(a) = Len(fts) /\ b \in Seq(FusionRow) /\ Len(b) = Len(vector)
  BY NormalizedType
<1>2. Contributions(fts, vector, wFts, wVector) = c \o d
  BY Zenon DEF Contributions
<1> HIDE DEF a, b
<1>3. c \in Seq(FusionRow) /\ Len(c) = Len(a) /\ d \in Seq(FusionRow) /\ Len(d) = Len(b)
  BY <1>1, WeightedType
<1> HIDE DEF c, d
<1>4. c \o d \in Seq(FusionRow) /\ Len(c \o d) = Len(c) + Len(d)
  BY <1>3, ConcatProperties
<1> QED
  BY <1>1, <1>2, <1>3, <1>4

Merges(f, s) ==
  \A T \in SUBSET DOMAIN s : f[T] = IF T = {} THEN <<>> ELSE Merge(f[T \ {Max(T)}], s[Max(T)])
MergedBy(s) == FoldLeft(Merge, <<>>, s)
AreMerges(s) == \E g : Merges(g, s) /\ MergedBy(s) = g[DOMAIN s]

\* The merging as the function of its fold.
LEMMA MergesUnfold ==
  ASSUME NEW s, NEW V, NEW f \in [SUBSET DOMAIN s -> V], Merges(f, s)
  PROVE  AreMerges(s)
<1>1. f = [T \in SUBSET DOMAIN s |-> IF T = {} THEN <<>> ELSE Merge(f[T \ {Max(T)}], s[Max(T)])]
  BY Zenon DEF Merges
<1>2. PICK g : /\ g = [T \in SUBSET DOMAIN s |-> IF T = {} THEN <<>> ELSE Merge(g[T \ {Max(T)}], s[Max(T)])]
               /\ FoldLeft(Merge, <<>>, s) = g[DOMAIN s]
  BY <1>1, ZenonT(60) DEF FoldLeft, MapThenFoldSet
<1>3. Merges(g, s)
  BY <1>2, Zenon DEF Merges
<1> QED
  BY <1>2, <1>3, Zenon DEF AreMerges, MergedBy

\* One row joins those before it.
Joined(new, f, row) ==
  \/ /\ (f = <<>> \/ f[Len(f)].id # row.id) /\ Len(new) = Len(f) + 1
     /\ new[Len(f) + 1] = row /\ \A i \in 1 .. Len(f) : new[i] = f[i]
  \/ /\ f # <<>> /\ f[Len(f)].id = row.id /\ Len(new) = Len(f) /\ row.score > f[Len(f)].score
     /\ new[Len(f)] = row /\ \A i \in 1 .. Len(f) : i # Len(f) => new[i] = f[i]
  \/ f # <<>> /\ f[Len(f)].id = row.id /\ new = f /\ ~ (row.score > f[Len(f)].score)

\* What one more row does to the rows merged so far.
LEMMA MergeIs ==
  ASSUME NEW A, NEW f \in Seq(A), NEW row \in A
  PROVE  Merge(f, row) \in Seq(A) /\ Joined(Merge(f, row), f, row)
<1> DEFINE last == f[Len(f)]
           new == Merge(f, row)
<1>1. Len(f) \in Nat /\ DOMAIN f = 1 .. Len(f) /\ Last(f) = last /\ f \in [1 .. Len(f) -> A]
      /\ (f = <<>> <=> Len(f) = 0)
  BY DEF Last
<1>2. new = IF f = <<>> \/ Last(f).id # row.id THEN Append(f, row)
            ELSE IF row.score > Last(f).score THEN [f EXCEPT ![Len(f)] = row]
            ELSE f
  BY Zenon DEF Merge
<1> HIDE DEF new
<1>3. CASE f = <<>> \/ last.id # row.id
  <2>1. new = Append(f, row)
    BY <1>1, <1>2, <1>3, Zenon
  <2>2. /\ new \in Seq(A) /\ Len(new) = Len(f) + 1 /\ new[Len(f) + 1] = row
        /\ \A i \in 1 .. Len(f) : new[i] = f[i]
    BY <2>1, AppendProperties
  <2> QED
    BY <1>3, <2>2, Zenon DEF Joined, new, last
<1>4. CASE ~ (f = <<>> \/ last.id # row.id) /\ row.score > last.score
  <2>1. new = [f EXCEPT ![Len(f)] = row]
    BY <1>1, <1>2, <1>4, Zenon
  <2>2. Len(f) \in 1 .. Len(f)
    BY <1>1, <1>4
  <2> DEFINE n == Len(f)
             D == 1 .. n
  <2>3. f \in [D -> A] /\ n \in D
    BY <1>1, <2>2
  <2> HIDE DEF D
  <2>4. new \in [D -> A] /\ new[n] = row /\ \A i \in D : i # n => new[i] = f[i]
    BY <2>1, <2>3
  <2>5. new \in [1 .. n -> A] /\ n \in Nat
    BY <1>1, <2>4 DEF D
  <2>6. new \in Seq(A) /\ Len(new) = n
    BY <2>5, SeqMade
  <2> QED
    BY <1>4, <2>4, <2>6, Zenon DEF Joined, new, last, D
<1>5. CASE ~ (f = <<>> \/ last.id # row.id) /\ ~ (row.score > last.score)
  <2>1. new = f
    BY <1>1, <1>2, <1>5, Zenon
  <2> QED
    BY <1>5, <2>1, Zenon DEF Joined, new, last
<1> QED
  BY <1>3, <1>4, <1>5, Zenon

IsMerging(h, s) ==
  /\ h[0] = <<>>
  /\ \A m \in 1 .. Len(s) : h[m - 1] \in Seq(FusionRow) /\ h[m] = Merge(h[m - 1], s[m])
  /\ MergedBy(s) = h[Len(s)]

\* The merged rows, row by row.
LEMMA MergeRuns ==
  ASSUME NEW s \in Seq(FusionRow)
  PROVE  \E h : IsMerging(h, s)
<1> DEFINE n == Len(s)
           V == Seq(FusionRow)
           turn(u, m) == Merge(u, s[m])
           next == [m \in 1 .. n |-> [u \in V |-> turn(u, m)]]
<1>0. n \in Nat /\ DOMAIN s = 1 .. n /\ \A m \in 1 .. n : s[m] \in FusionRow
  OBVIOUS
<1>1. ASSUME NEW u \in V, NEW m \in 1 .. n PROVE turn(u, m) \in V
  <2> DEFINE row == s[m]
  <2>1. u \in Seq(FusionRow) /\ row \in FusionRow
    BY <1>0
  <2> HIDE DEF row
  <2>2. Merge(u, row) \in Seq(FusionRow)
    BY <2>1, MergeIs
  <2> QED
    BY <2>2 DEF row
<1>2. <<>> \in V
  OBVIOUS
<1> HIDE DEF V, turn, n
<1>3. next \in [1 .. n -> [V -> V]]
  BY <1>1
<1> HIDE DEF next
<1>4. PICK f : IsLoop(f, n, V, <<>>, next)
  BY <1>0, <1>2, <1>3, LoopExists
<1>5. Merges(f, s)
  <2> SUFFICES ASSUME NEW T \in SUBSET (1 .. n), T # {} PROVE f[T] = turn(f[T \ {Max(T)}], Max(T))
    BY <1>0, <1>4 DEF Merges, IsLoop, turn
  <2>1. Max(T) \in 1 .. n
    BY <1>0, LastPlace
  <2>2. f[T \ {Max(T)}] \in V /\ f[T] = next[Max(T)][f[T \ {Max(T)}]]
    BY <1>4 DEF IsLoop
  <2> QED
    BY <2>1, <2>2 DEF next
<1>6. PICK g : Merges(g, s) /\ MergedBy(s) = g[1 .. n]
  <2>1. f \in [SUBSET DOMAIN s -> V]
    BY <1>0, <1>4 DEF IsLoop
  <2>2. AreMerges(s)
    BY <1>5, <2>1, MergesUnfold
  <2> QED
    BY <1>0, <2>2, Zenon DEF AreMerges
<1>7. Recursing(g, n, V, <<>>, next)
  <2>1. g[{}] = <<>>
    BY <1>6 DEF Merges
  <2>2. ASSUME NEW T \in SUBSET (1 .. n), T # {}, g[T \ {Max(T)}] \in V
        PROVE  g[T] = next[Max(T)][g[T \ {Max(T)}]]
    <3>1. Max(T) \in 1 .. n
      BY <1>0, <2>2, LastPlace
    <3>2. g[T] = turn(g[T \ {Max(T)}], Max(T))
      BY <1>0, <1>6, <2>2 DEF Merges, turn
    <3> QED
      BY <2>2, <3>1, <3>2 DEF next
  <2> QED
    BY <2>1, <2>2 DEF Recursing
<1>8. PICK h : IsTaken(h, n, V, <<>>, next) /\ h[n] = g[1 .. n]
  BY <1>0, <1>2, <1>3, <1>7, TakenAlong
<1>9. \A m \in 1 .. n : h[m - 1] \in V /\ h[m] = turn(h[m - 1], m)
  BY <1>8 DEF IsTaken, next
<1>10. IsMerging(h, s)
  BY <1>6, <1>8, <1>9 DEF IsMerging, IsTaken, turn, V, n
<1> QED
  BY <1>10

RisingIds(s) == \A a, b \in 1 .. Len(s) : a < b => s[a].id <= s[b].id

\* The first m rows are merged: each id once, in order, with its best row.
Fused(f, m, s) ==
  /\ f \in Seq(FusionRow)
  /\ \A i, j \in 1 .. Len(f) : i < j => f[i].id < f[j].id
  /\ \A i \in 1 .. Len(f) : \E a \in 1 .. m : f[i] = s[a]
  /\ \A a \in 1 .. m : \E i \in 1 .. Len(f) : f[i].id = s[a].id /\ f[i].score >= s[a].score

\* One more row keeps each id once, with the larger of its scores.
LEMMA MergeKeeps ==
  ASSUME NEW s \in Seq(FusionRow), RisingIds(s),
         NEW m \in 1 .. Len(s), NEW f, Fused(f, m - 1, s), NEW new, new = Merge(f, s[m])
  PROVE  Fused(new, m, s)
<1> DEFINE row == s[m]
           n == Len(f)
<1>1. /\ f \in Seq(FusionRow)
      /\ \A i, j \in 1 .. n : i < j => f[i].id < f[j].id
      /\ \A i \in 1 .. n : \E a \in 1 .. m - 1 : f[i] = s[a]
      /\ \A a \in 1 .. m - 1 : \E i \in 1 .. n : f[i].id = s[a].id /\ f[i].score >= s[a].score
  BY DEF Fused
<1>11. \A a, b \in 1 .. Len(s) : a < b => s[a].id <= s[b].id
  BY DEF RisingIds
<1>2. n \in Nat /\ (f = <<>> <=> n = 0) /\ row \in FusionRow
  BY <1>1
<1>3. new \in Seq(FusionRow) /\ Joined(new, f, row)
  <2>1. f \in Seq(FusionRow) /\ row \in FusionRow /\ new = Merge(f, row)
    BY <1>1, <1>2
  <2> HIDE DEF row
  <2> QED
    BY <2>1, MergeIs
<1>4. m \in Nat /\ 1 .. m = (1 .. m - 1) \cup {m} /\ m - 1 \in Int /\ \A a \in 1 .. m - 1 : a < m
  OBVIOUS
<1>5. /\ row.id \in Int /\ row.score \in Int
      /\ \A i \in 1 .. n : f[i].id \in Int /\ f[i].score \in Int
      /\ \A a \in 1 .. m : s[a].id \in Int /\ s[a].score \in Int
  <2>1. \A i \in 1 .. n : f[i] \in FusionRow
    BY <1>1
  <2>2. \A a \in 1 .. m : s[a] \in FusionRow
    BY <1>4
  <2> QED
    BY <1>2, <2>1, <2>2 DEF FusionRow
<1>6. \A i \in 1 .. n : f[i].id <= row.id
  <2> SUFFICES ASSUME NEW i \in 1 .. n PROVE f[i].id <= row.id
    OBVIOUS
  <2>1. PICK a \in 1 .. m - 1 : f[i] = s[a]
    BY <1>1
  <2>2. a \in 1 .. Len(s) /\ a < m
    BY <2>1
  <2> QED
    BY <1>11, <2>1, <2>2
<1>7. s[m] = row
  OBVIOUS
<1> HIDE DEF row, n
<1>8. CASE /\ (f = <<>> \/ f[n].id # row.id) /\ Len(new) = n + 1
           /\ new[n + 1] = row /\ \A i \in 1 .. n : new[i] = f[i]
  <2>1. \A i \in 1 .. n : f[i].id < row.id
    <3> SUFFICES ASSUME NEW i \in 1 .. n PROVE f[i].id < row.id
      OBVIOUS
    <3>1. f[n].id # row.id /\ n \in 1 .. n
      BY <1>2, <1>8
    <3>2. f[n].id < row.id
      BY <1>5, <1>6, <3>1
    <3>3. i = n \/ f[i].id < f[n].id
      BY <1>1, <1>2, <3>1
    <3> QED
      BY <1>5, <3>1, <3>2, <3>3
  <2>2. \A i \in 1 .. Len(new) : i \in 1 .. n \/ i = n + 1
    BY <1>2, <1>8
  <2>3. \A i, j \in 1 .. Len(new) : i < j => new[i].id < new[j].id
    <3> SUFFICES ASSUME NEW i \in 1 .. Len(new), NEW j \in 1 .. Len(new), i < j PROVE new[i].id < new[j].id
      OBVIOUS
    <3>1. i \in 1 .. n
      BY <1>2, <2>2
    <3> QED
      BY <1>1, <1>8, <2>1, <2>2, <3>1
  <2>4. ASSUME NEW i \in 1 .. Len(new) PROVE \E a \in 1 .. m : new[i] = s[a]
    <3>1. CASE i \in 1 .. n
      <4>1. PICK a \in 1 .. m - 1 : f[i] = s[a]
        BY <1>1, <3>1
      <4>2. a \in 1 .. m /\ new[i] = f[i]
        BY <1>4, <1>8, <3>1
      <4> QED
        BY <4>1, <4>2
    <3>2. CASE i = n + 1
      <4>1. m \in 1 .. m
        BY <1>4
      <4> QED
        BY <1>7, <1>8, <3>2, <4>1
    <3> QED
      BY <2>2, <3>1, <3>2
  <2>5. \A a \in 1 .. m : \E i \in 1 .. Len(new) : new[i].id = s[a].id /\ new[i].score >= s[a].score
    <3> SUFFICES ASSUME NEW a \in 1 .. m
                 PROVE  \E i \in 1 .. Len(new) : new[i].id = s[a].id /\ new[i].score >= s[a].score
      OBVIOUS
    <3>1. CASE a = m
      <4>1. n + 1 \in 1 .. Len(new) /\ row.score >= row.score
        BY <1>2, <1>5, <1>8
      <4> QED
        BY <1>7, <1>8, <3>1, <4>1
    <3>2. CASE a # m
      <4>1. PICK i \in 1 .. n : f[i].id = s[a].id /\ f[i].score >= s[a].score
        BY <1>1, <1>4, <3>2
      <4>2. i \in 1 .. Len(new) /\ new[i] = f[i]
        BY <1>2, <1>8
      <4> QED
        BY <4>1, <4>2
    <3> QED
      BY <3>1, <3>2
  <2> QED
    BY <1>3, <2>3, <2>4, <2>5, Zenon DEF Fused
<1>9. CASE /\ f # <<>> /\ f[n].id = row.id /\ Len(new) = n /\ row.score > f[n].score
           /\ new[n] = row /\ \A i \in 1 .. n : i # n => new[i] = f[i]
  <2>0. n \in 1 .. n
    BY <1>2, <1>9
  <2>1. \A i \in 1 .. n : new[i].id = f[i].id /\ new[i].score >= f[i].score
    BY <1>5, <1>9
  <2>2. \A i, j \in 1 .. Len(new) : i < j => new[i].id < new[j].id
    BY <1>1, <1>9, <2>1
  <2>3. ASSUME NEW i \in 1 .. Len(new) PROVE \E a \in 1 .. m : new[i] = s[a]
    <3>1. CASE i # n
      <4>1. PICK a \in 1 .. m - 1 : f[i] = s[a]
        BY <1>1, <1>9
      <4>2. a \in 1 .. m /\ new[i] = f[i]
        BY <1>4, <1>9, <3>1
      <4> QED
        BY <4>1, <4>2
    <3>2. CASE i = n
      <4>1. m \in 1 .. m
        BY <1>4
      <4> QED
        BY <1>7, <1>9, <3>2, <4>1
    <3> QED
      BY <3>1, <3>2
  <2>4. \A a \in 1 .. m : \E i \in 1 .. Len(new) : new[i].id = s[a].id /\ new[i].score >= s[a].score
    <3> SUFFICES ASSUME NEW a \in 1 .. m
                 PROVE  \E i \in 1 .. n : new[i].id = s[a].id /\ new[i].score >= s[a].score
      BY <1>9
    <3>1. CASE a = m
      BY <1>5, <1>7, <1>9, <2>0, <3>1
    <3>2. CASE a # m
      <4>1. PICK i \in 1 .. n : f[i].id = s[a].id /\ f[i].score >= s[a].score
        BY <1>1, <1>4, <3>2
      <4>2. new[i].score \in Int
        BY <1>5, <1>9
      <4> QED
        BY <1>5, <2>1, <4>1, <4>2
    <3> QED
      BY <3>1, <3>2
  <2> QED
    BY <1>3, <2>2, <2>3, <2>4, Zenon DEF Fused
<1>10. CASE f # <<>> /\ f[n].id = row.id /\ new = f /\ ~ (row.score > f[n].score)
  <2>0. n \in 1 .. n /\ Len(new) = n
    BY <1>2, <1>10 DEF n
  <2>1. ASSUME NEW i \in 1 .. Len(new) PROVE \E a \in 1 .. m : new[i] = s[a]
    <3>1. PICK a \in 1 .. m - 1 : f[i] = s[a]
      BY <1>1, <2>0
    <3>2. a \in 1 .. m /\ new[i] = f[i]
      BY <1>4, <1>10
    <3> QED
      BY <3>1, <3>2
  <2>2. \A a \in 1 .. m : \E i \in 1 .. Len(new) : new[i].id = s[a].id /\ new[i].score >= s[a].score
    <3> SUFFICES ASSUME NEW a \in 1 .. m
                 PROVE  \E i \in 1 .. n : f[i].id = s[a].id /\ f[i].score >= s[a].score
      BY <1>10, <2>0
    <3>1. CASE a = m
      <4>1. f[n].id = row.id /\ row.score \in Int /\ f[n].score \in Int
        BY <1>5, <1>10, <2>0
      <4>2. f[n].score >= row.score
        BY <1>10, <4>1
      <4>3. s[a] = row
        BY <1>7, <3>1
      <4> QED
        BY <2>0, <4>1, <4>2, <4>3
    <3>2. CASE a # m
      BY <1>1, <1>4, <3>2
    <3> QED
      BY <3>1, <3>2
  <2>3. \A i, j \in 1 .. Len(new) : i < j => new[i].id < new[j].id
    BY <1>1, <1>10, <2>0
  <2> QED
    BY <1>3, <2>1, <2>2, <2>3, Zenon DEF Fused
<1> QED
  BY <1>3, <1>8, <1>9, <1>10, Zenon DEF Joined, n

\* Merging rows in the order of their ids leaves each id once, with its largest score.
LEMMA MergedIs ==
  ASSUME NEW s \in Seq(FusionRow), RisingIds(s)
  PROVE  Fused(MergedBy(s), Len(s), s)
<1> DEFINE n == Len(s)
<1>1. PICK h : IsMerging(h, s)
  BY MergeRuns
<1>2. h[0] = <<>> /\ MergedBy(s) = h[n] /\ \A m \in 1 .. n : h[m] = Merge(h[m - 1], s[m])
  BY <1>1 DEF IsMerging
<1> DEFINE P == {m \in Nat : Fused(h[m], m, s)}
<1>3. 0 \in P
  <2>1. <<>> \in Seq(FusionRow) /\ Len(<<>>) = 0 /\ 1 .. 0 = {}
    OBVIOUS
  <2>2. Fused(<<>>, 0, s)
    BY <2>1 DEF Fused
  <2> QED
    BY <1>2, <2>2
<1>4. ASSUME NEW m \in 1 .. n, m - 1 \in P PROVE m \in P
  <2> DEFINE u == h[m - 1]
             v == h[m]
  <2>1. Fused(u, m - 1, s) /\ v = Merge(u, s[m]) /\ m \in 1 .. Len(s)
    BY <1>2, <1>4
  <2> HIDE DEF u, v
  <2>2. Fused(v, m, s)
    BY <2>1, MergeKeeps
  <2> QED
    BY <2>2 DEF v
<1>5. n \in P
  <2>1. n \in Nat
    OBVIOUS
  <2> HIDE DEF P, n
  <2> QED
    BY <1>3, <1>4, <2>1, PrefixInduction
<1> QED
  BY <1>2, <1>5

-----------------------------------------------------------------------------
(* Best first                                                              *)

IsBestFirst(s, rows) == \A i, j \in DOMAIN s : i < j => Above(s[i], s[j])

\* Distinct rows have an order best first, and it has all of them.
LEMMA BestFirstHolds ==
  ASSUME NEW rows \in Seq(FusionRow), Distinct(rows)
  PROVE  /\ BestFirst(rows) \in Seq(FusionRow) /\ IsBestFirst(BestFirst(rows), rows)
         /\ Distinct(BestFirst(rows)) /\ ToSet(BestFirst(rows)) = ToSet(rows)
<1> DEFINE k == Len(rows)
           S == ToSet(rows)
           R == {p \in S \X S : Above(p[1], p[2]) \/ p[1] = p[2]}
           out == BestFirst(rows)
<1>1. k \in Nat /\ DOMAIN rows = 1 .. k /\ S \subseteq FusionRow
  BY DEF ToSet
<1>2. IsFiniteSet(S) /\ Cardinality(S) = k
  BY DistinctSize
<1> HIDE DEF S, k
<1>3. \A a, b \in S : <<a, b>> \in R <=> (Above(a, b) \/ a = b)
  <2> SUFFICES ASSUME NEW a \in S, NEW b \in S PROVE <<a, b>> \in R <=> (Above(a, b) \/ a = b)
    OBVIOUS
  <2> DEFINE p == <<a, b>>
  <2>1. p \in S \X S /\ p[1] = a /\ p[2] = b
    OBVIOUS
  <2> HIDE DEF p
  <2>2. p \in R <=> (Above(p[1], p[2]) \/ p[1] = p[2])
    BY <2>1, Zenon
  <2> QED
    BY <2>1, <2>2, Zenon DEF p
<1> HIDE DEF R
<1>4. \A a \in S : a.id \in Int /\ a.score \in Int
  BY <1>1 DEF FusionRow
<1>5. \A a, b \in S : a.id = b.id /\ a.score = b.score => a = b
  <2> SUFFICES ASSUME NEW a \in S, NEW b \in S, a.id = b.id, a.score = b.score PROVE a = b
    OBVIOUS
  <2>1. a = [id |-> a.id, score |-> a.score] /\ b = [id |-> b.id, score |-> b.score]
    BY <1>1 DEF FusionRow
  <2> QED
    BY <2>1, Zenon
<1>6. \A a, b \in S : Above(a, b) \/ Above(b, a) \/ a = b
  BY <1>4, <1>5 DEF Above
<1>7. \A a, b, c \in S : Above(a, b) /\ Above(b, c) => Above(a, c)
  BY <1>4 DEF Above
<1>8. \A a \in S : ~ Above(a, a)
  BY <1>4 DEF Above
<1>9. Orders(R, S)
  BY <1>3, <1>6, <1>7 DEF Orders
<1>10. PICK s \in [1 .. k -> S] : \A m, n \in 1 .. k : m < n => s[m] # s[n] /\ <<s[m], s[n]>> \in R
  BY <1>2, <1>9, EnumerationExists
<1>11. IsBestFirst(s, rows)
  <2>1. DOMAIN s = 1 .. k /\ \A m \in 1 .. k : s[m] \in S
    BY <1>10
  <2> SUFFICES ASSUME NEW i \in 1 .. k, NEW j \in 1 .. k, i < j PROVE Above(s[i], s[j])
    BY <2>1 DEF IsBestFirst
  <2>2. s[i] # s[j] /\ <<s[i], s[j]>> \in R /\ s[i] \in S /\ s[j] \in S
    BY <1>10, <2>1
  <2> QED
    BY <1>3, <2>2, Zenon
<1>12. out = CHOOSE t \in [1 .. k -> S] : IsBestFirst(t, rows)
  BY <1>1, Zenon DEF BestFirst, IsBestFirst, S
<1> HIDE DEF out
<1>13. out \in [1 .. k -> S] /\ IsBestFirst(out, rows)
  BY <1>10, <1>11, <1>12, Zenon
<1>14. Distinct(out)
  <2>1. DOMAIN out = 1 .. k /\ \A m \in 1 .. k : out[m] \in S
    BY <1>13
  <2> SUFFICES ASSUME NEW i \in 1 .. k, NEW j \in 1 .. k, out[i] = out[j], i # j PROVE FALSE
    BY <2>1 DEF Distinct
  <2>2. Above(out[i], out[j]) \/ Above(out[j], out[i])
    <3>1. i < j \/ j < i
      BY <1>1
    <3> QED
      BY <1>13, <2>1, <3>1 DEF IsBestFirst
  <2> QED
    BY <1>8, <2>1, <2>2
<1>15. out \in Seq(S) /\ Len(out) = k
  BY <1>1, <1>13, SeqMade
<1>16. ToSet(out) = S
  <2>1. Cardinality(ToSet(out)) = k
    BY <1>14, <1>15, DistinctSize
  <2>2. ToSet(out) \subseteq S
    BY <1>15 DEF ToSet
  <2> QED
    BY <1>2, <2>1, <2>2, FS_Subset
<1>17. out \in Seq(FusionRow)
  <2>1. \A i \in 1 .. k : out[i] \in FusionRow
    BY <1>1, <1>13
  <2>2. out \in [1 .. k -> FusionRow]
    BY <1>13, <2>1
  <2> QED
    BY <1>1, <2>2, SeqMade
<1> QED
  BY <1>13, <1>14, <1>16, <1>17 DEF out, S

\* An order of some rows by id.
ById(order, all) ==
  /\ order \in [DOMAIN all -> DOMAIN all] /\ \A i, j \in DOMAIN all : order[i] = order[j] => i = j
  /\ \A i, j \in DOMAIN all : i < j => all[order[i]].id <= all[order[j]].id

\* Fusion has every id once, with the larger contribution, best first.
LEMMA FusionHolds ==
  ASSUME Unit \in Int, NEW r, r.fts \in Seq(FusionRow), r.vector \in Seq(FusionRow),
         r.wFts \in Int, r.wVector \in Int,
         ById(r.order, Contributions(r.fts, r.vector, r.wFts, r.wVector)),
         NEW out, out = Fuse(r.fts, r.vector, r.wFts, r.wVector, r.order)
  PROVE  FusionIsRight(r, out)
<1> DEFINE all == Contributions(r.fts, r.vector, r.wFts, r.wVector)
           order == r.order
           n == Len(all)
           s == [i \in 1 .. n |-> all[order[i]]]
           f == MergedBy(s)
           ids == [i \in DOMAIN out |-> out[i].id]
<1>1. all \in Seq(FusionRow)
  BY ContributionsType
<1>2. ById(order, all) /\ out = BestFirst(Merged(all, order))
  BY Zenon DEF Fuse
<1> HIDE DEF all, order
<1>3. n \in Nat /\ DOMAIN all = 1 .. n /\ \A i \in 1 .. n : all[i] \in FusionRow
  BY <1>1
<1> HIDE DEF n
<1>4. /\ order \in [1 .. n -> 1 .. n] /\ Distinct(order)
      /\ \A i, j \in 1 .. n : i < j => all[order[i]].id <= all[order[j]].id
  BY <1>2, <1>3 DEF ById, Distinct
<1>5. ToSet(order) = 1 .. n
  <2> DEFINE A == 1 .. n
  <2>1. order \in [1 .. n -> A]
    BY <1>4
  <2> HIDE DEF A
  <2>2. order \in Seq(A) /\ Len(order) = n
    BY <1>3, <2>1, SeqMade
  <2> QED
    BY <1>3, <1>4, <2>2, DistinctCover DEF A
<1>6. s \in Seq(FusionRow) /\ Len(s) = n /\ DOMAIN s = 1 .. n /\ \A i \in 1 .. n : s[i] = all[order[i]]
  <2>1. \A i \in 1 .. n : all[order[i]] \in FusionRow
    BY <1>3, <1>4
  <2>2. s \in [1 .. n -> FusionRow]
    BY <2>1
  <2>3. \A i \in 1 .. n : s[i] = all[order[i]]
    OBVIOUS
  <2> HIDE DEF s
  <2> QED
    BY <1>3, <2>2, <2>3, SeqMade
<1>7. Merged(all, order) = f
  <2>1. DOMAIN order = 1 .. n
    BY <1>4
  <2> QED
    BY <2>1, Zenon DEF Merged, MergedBy
<1> HIDE DEF s
<1>8. Fused(f, n, s)
  <2>1. RisingIds(s)
    BY <1>4, <1>6 DEF RisingIds
  <2> QED
    BY <1>6, <2>1, MergedIs
<1> HIDE DEF f
<1>9. /\ f \in Seq(FusionRow)
      /\ \A i, j \in 1 .. Len(f) : i < j => f[i].id < f[j].id
      /\ \A i \in 1 .. Len(f) : \E a \in 1 .. n : f[i] = s[a]
      /\ \A a \in 1 .. n : \E i \in 1 .. Len(f) : f[i].id = s[a].id /\ f[i].score >= s[a].score
  BY <1>8 DEF Fused
<1>10. Len(f) \in Nat /\ DOMAIN f = 1 .. Len(f) /\ \A i \in 1 .. Len(f) : f[i] \in FusionRow
  BY <1>9
<1>11. \A i, j \in 1 .. Len(f) : f[i].id = f[j].id => i = j
  <2>1. \A i \in 1 .. Len(f) : f[i].id \in Int
    BY <1>10 DEF FusionRow
  <2> SUFFICES ASSUME NEW i \in 1 .. Len(f), NEW j \in 1 .. Len(f), f[i].id = f[j].id, i # j PROVE FALSE
    OBVIOUS
  <2>2. i < j \/ j < i
    BY <1>10
  <2>3. f[i].id < f[j].id \/ f[j].id < f[i].id
    BY <1>9, <2>2
  <2>4. f[i].id \in Int /\ f[j].id \in Int
    BY <2>1
  <2> QED
    BY <2>3, <2>4
<1>12. Distinct(f)
  BY <1>10, <1>11 DEF Distinct
<1>13. out \in Seq(FusionRow) /\ IsBestFirst(out, f) /\ Distinct(out) /\ ToSet(out) = ToSet(f)
  <2>1. out = BestFirst(f)
    BY <1>2, <1>7
  <2> QED
    BY <1>9, <1>12, <2>1, BestFirstHolds
<1>14. DOMAIN out = 1 .. Len(out) /\ Len(out) \in Nat /\ \A i \in 1 .. Len(out) : out[i] \in FusionRow
  BY <1>13
<1>15. \A i \in DOMAIN out : \E j \in 1 .. Len(f) : out[i] = f[j]
  BY <1>10, <1>13, Zenon DEF ToSet
<1>16. \A j \in 1 .. Len(f) : \E i \in DOMAIN out : out[i] = f[j]
  BY <1>10, <1>13, Zenon DEF ToSet
<1>17. \A a \in DOMAIN all : \E i \in 1 .. n : s[i] = all[a]
  <2> SUFFICES ASSUME NEW a \in 1 .. n PROVE \E i \in 1 .. n : s[i] = all[a]
    BY <1>3
  <2>1. PICK i \in 1 .. n : order[i] = a
    BY <1>4, <1>5 DEF ToSet
  <2> QED
    BY <1>6, <2>1
<1>18. ASSUME NEW i \in DOMAIN out
       PROVE  \E a \in DOMAIN all : out[i] = all[a]
  <2>1. PICK j \in 1 .. Len(f) : out[i] = f[j]
    BY <1>15
  <2>2. PICK b \in 1 .. n : f[j] = s[b]
    BY <1>9
  <2>3. order[b] \in DOMAIN all /\ s[b] = all[order[b]]
    BY <1>3, <1>4, <1>6
  <2> QED
    BY <2>1, <2>2, <2>3
<1>19. ASSUME NEW a \in DOMAIN all
       PROVE  \E i \in DOMAIN out : out[i].id = all[a].id /\ out[i].score >= all[a].score
  <2>1. PICK b \in 1 .. n : s[b] = all[a]
    BY <1>17
  <2>2. PICK j \in 1 .. Len(f) : f[j].id = s[b].id /\ f[j].score >= s[b].score
    BY <1>9
  <2>3. PICK i \in DOMAIN out : out[i] = f[j]
    BY <1>16
  <2> QED
    BY <2>1, <2>2, <2>3
<1>20. ASSUME NEW i \in DOMAIN out, NEW j \in DOMAIN out, out[i].id = out[j].id PROVE i = j
  <2>1. PICK a \in 1 .. Len(f) : out[i] = f[a]
    BY <1>15
  <2>2. PICK b \in 1 .. Len(f) : out[j] = f[b]
    BY <1>15
  <2>3. out[i] = out[j]
    BY <1>11, <1>20, <2>1, <2>2
  <2> QED
    BY <1>13, <2>3 DEF Distinct
<1>21. NoRepeats(ids)
  <2>1. \A i \in 1 .. Len(out) : out[i].id \in Int
    BY <1>14 DEF FusionRow
  <2>2. ids \in [1 .. Len(out) -> Int] /\ \A i \in 1 .. Len(out) : ids[i] = out[i].id
    BY <1>14, <2>1
  <2> HIDE DEF ids
  <2>3. ids \in Seq(Int) /\ Len(ids) = Len(out) /\ DOMAIN ids = 1 .. Len(out)
    BY <1>14, <2>2, SeqMade
  <2>4. Distinct(ids)
    BY <1>14, <1>20, <2>2, <2>3 DEF Distinct
  <2> QED
    BY <2>3, <2>4, DistinctSize DEF NoRepeats
<1>22. {out[i].id : i \in DOMAIN out} = {all[i].id : i \in DOMAIN all}
  <2>1. ASSUME NEW i \in DOMAIN out PROVE out[i].id \in {all[a].id : a \in DOMAIN all}
    BY <1>18
  <2>2. ASSUME NEW a \in DOMAIN all PROVE all[a].id \in {out[i].id : i \in DOMAIN out}
    BY <1>19
  <2> QED
    BY <2>1, <2>2
<1>23. ASSUME NEW i \in DOMAIN out
       PROVE  out[i].score = Max({all[j].score : j \in {x \in DOMAIN all : all[x].id = out[i].id}})
  <2> DEFINE T == {all[j].score : j \in {x \in DOMAIN all : all[x].id = out[i].id}}
             top == out[i].score
  <2>1. PICK a \in DOMAIN all : out[i] = all[a]
    BY <1>18
  <2>2. top \in T
    BY <2>1
  <2>3. \A t \in T : t \in Int /\ top >= t
    <3> SUFFICES ASSUME NEW j \in DOMAIN all, all[j].id = out[i].id PROVE all[j].score \in Int /\ top >= all[j].score
      OBVIOUS
    <3>1. PICK x \in DOMAIN out : out[x].id = all[j].id /\ out[x].score >= all[j].score
      BY <1>19
    <3>2. x = i
      BY <1>20, <3>1
    <3>3. all[j].score \in Int
      BY <1>3 DEF FusionRow
    <3> QED
      BY <3>1, <3>2, <3>3
  <2> HIDE DEF T, top
  <2>4. Max(T) \in T /\ \A t \in T : Max(T) >= t
    <3>1. \E x \in T : \A y \in T : x >= y
      BY <2>2, <2>3
    <3> QED
      BY <3>1, Zenon DEF Max
  <2>5. Max(T) = top
    <3>1. Max(T) \in Int /\ top \in Int /\ Max(T) >= top /\ top >= Max(T)
      BY <2>2, <2>3, <2>4
    <3> QED
      BY <3>1
  <2> QED
    BY <2>5, Zenon DEF T, top
<1>24. \A i, j \in DOMAIN out :
         i < j => \/ out[i].score > out[j].score
                  \/ out[i].score = out[j].score /\ out[i].id < out[j].id
  BY <1>13, Zenon DEF IsBestFirst, Above
<1> QED
  BY <1>21, <1>22, <1>23, <1>24, Zenon DEF FusionIsRight, all, ids

-----------------------------------------------------------------------------
(* Cosines of packed rows, recency, hybrid scores                          *)

\* A row is pooled as it would be alone.
LEMMA PooledHolds ==
  ASSUME NEW r, CosineMaxpool(r.anchorDims, r.rows, r.dim).ok,
         NEW out, out = CosineMaxpool(r.anchorDims, r.rows, r.dim).value
  PROVE  PooledRowsAreApart(r, out)
<1>1. ~ (\E i \in DOMAIN r.anchorDims : r.anchorDims[i] # r.dim)
  BY DEF CosineMaxpool, Fail
<1>2. \A rows : CosineMaxpool(r.anchorDims, rows, r.dim).value = [i \in DOMAIN rows |-> Pooled(rows[i], r.dim)]
  <2> SUFFICES ASSUME NEW rows
               PROVE  CosineMaxpool(r.anchorDims, rows, r.dim).value = [i \in DOMAIN rows |-> Pooled(rows[i], r.dim)]
    OBVIOUS
  <2> DEFINE v == [i \in DOMAIN rows |-> Pooled(rows[i], r.dim)]
  <2>1. CosineMaxpool(r.anchorDims, rows, r.dim) = Good(v)
    BY <1>1, Zenon DEF CosineMaxpool
  <2> HIDE DEF v
  <2>2. CosineMaxpool(r.anchorDims, rows, r.dim).value = v
    BY <2>1 DEF Good
  <2> QED
    BY <2>2 DEF v
<1>3. ASSUME NEW i \in DOMAIN r.rows
      PROVE  out[i] = CosineMaxpool(r.anchorDims, <<r.rows[i]>>, r.dim).value[1]
  <2> DEFINE row == r.rows[i]
             alone == CosineMaxpool(r.anchorDims, <<row>>, r.dim)
  <2>1. out[i] = Pooled(row, r.dim)
    <3> DEFINE v == [x \in DOMAIN r.rows |-> Pooled(r.rows[x], r.dim)]
    <3>1. out = v /\ v[i] = Pooled(row, r.dim)
      BY <1>2, Zenon
    <3> HIDE DEF v, row
    <3> QED
      BY <3>1
  <2>2. alone.value = [x \in DOMAIN <<row>> |-> Pooled(<<row>>[x], r.dim)]
    BY <1>2, Zenon
  <2> HIDE DEF row, alone
  <2>3. 1 \in DOMAIN <<row>> /\ <<row>>[1] = row
    OBVIOUS
  <2>4. alone.value[1] = Pooled(row, r.dim)
    BY <2>2, <2>3
  <2> QED
    BY <2>1, <2>4 DEF row, alone
<1> QED
  BY <1>3, Zenon DEF PooledRowsAreApart

\* Division rounds down and keeps the order.
LEMMA DivMonotone ==
  ASSUME NEW x \in Int, NEW y \in Int, NEW d \in Nat \ {0}, x <= y
  PROVE  x \div d \in Int /\ x \div d <= y \div d
OBVIOUS

\* A multiple divides exactly.
LEMMA DivExact ==
  ASSUME NEW x \in Int, NEW d \in Nat \ {0}
  PROVE  (x * d) \div d = x
OBVIOUS

\* A product with a natural number keeps the order.
LEMMA ProductGrows ==
  ASSUME NEW a \in Nat, NEW x \in Int, NEW y \in Int, x <= y
  PROVE  a * x \in Int /\ a * x <= a * y
OBVIOUS

\* The dated by rising date.
ByDate(order, dates) ==
  /\ order \in Seq(DOMAIN dates) /\ Distinct(order)
  /\ ToSet(order) = {i \in DOMAIN dates : dates[i] # NaN}
  /\ \A a, b \in DOMAIN order : a < b => dates[order[a]] <= dates[order[b]]

\* The bonus grows with the date, up to the whole bias.
LEMMA RecencyHolds ==
  ASSUME NaN \notin Int, Unit \in Nat, NEW r, r.dates \in Seq(Score), r.bias \in Int, ByDate(r.order, r.dates),
         NEW out, out = RecencyBonusRanks(r.dates, r.bias, r.order)
  PROVE  BonusGrowsWithDate(r, out)
<1> DEFINE dates == r.dates
           order == r.order
           n == Len(order)
           full == r.bias * Unit
           place(i) == CHOOSE x \in DOMAIN order : order[x] = i
           none == r.bias <= 0 \/ n < 2
           bonus(i) == (full * (place(i) - 1)) \div (n - 1)
<1>1. out = [i \in DOMAIN dates |-> IF none \/ i \notin ToSet(order) THEN 0 ELSE bonus(i)]
  BY Zenon DEF RecencyBonusRanks
<1>2. /\ order \in Seq(DOMAIN dates) /\ \A a, b \in DOMAIN order : order[a] = order[b] => a = b
      /\ ToSet(order) = {i \in DOMAIN dates : dates[i] # NaN}
      /\ \A a, b \in DOMAIN order : a < b => dates[order[a]] <= dates[order[b]]
  BY DEF ByDate, Distinct
<1>3. n \in Nat /\ DOMAIN order = 1 .. n /\ \A x \in 1 .. n : order[x] \in DOMAIN dates
  BY <1>2
<1>4. full \in Int /\ (~ none => full \in Nat /\ n - 1 \in Nat \ {0})
  <2>1. ~ none => r.bias \in Nat /\ n - 1 \in Nat \ {0}
    BY <1>3
  <2>2. r.bias \in Nat => full \in Nat
    OBVIOUS
  <2> QED
    BY <2>1, <2>2
<1>5. ASSUME NEW i \in ToSet(order) PROVE place(i) \in 1 .. n /\ order[place(i)] = i
  <2>1. \E x \in DOMAIN order : order[x] = i
    BY <1>5, Zenon DEF ToSet
  <2> QED
    BY <1>3, <2>1, Zenon
<1>6. \A i \in DOMAIN dates : dates[i] # NaN => dates[i] \in Int
  BY DEF Score
<1> HIDE DEF dates, order, n, full, place
<1>7. ASSUME NEW i \in DOMAIN dates, NEW j \in DOMAIN dates, dates[i] # NaN, dates[j] # NaN, dates[i] < dates[j]
      PROVE  out[i] <= out[j]
  <2>1. i \in ToSet(order) /\ j \in ToSet(order)
    BY <1>2, <1>7
  <2>2. place(i) \in 1 .. n /\ place(j) \in 1 .. n /\ order[place(i)] = i /\ order[place(j)] = j
    BY <1>5, <2>1
  <2>3. place(i) < place(j)
    <3>1. ~ (dates[j] <= dates[i])
      BY <1>6, <1>7
    <3>2. place(i) # place(j)
      BY <1>6, <1>7, <2>2
    <3>3. ~ (place(j) < place(i))
      BY <1>2, <1>3, <2>2, <3>1
    <3> QED
      BY <1>3, <2>2, <3>2, <3>3
  <2>4. CASE none
    <3>1. out[i] = 0 /\ out[j] = 0
      BY <1>1, <2>4
    <3> QED
      BY <3>1
  <2>5. CASE ~ none
    <3> DEFINE x == place(i) - 1
               y == place(j) - 1
               d == n - 1
    <3>1. out[i] = bonus(i) /\ out[j] = bonus(j)
      BY <1>1, <2>1, <2>5
    <3>2. x \in Int /\ y \in Int /\ x <= y /\ full \in Nat /\ d \in Nat \ {0}
      BY <1>3, <1>4, <2>2, <2>3, <2>5
    <3> HIDE DEF x, y, d
    <3>3. full * x \in Int /\ full * y \in Int /\ full * x <= full * y
      BY <3>2, ProductGrows
    <3>4. (full * x) \div d <= (full * y) \div d
      BY <3>2, <3>3, DivMonotone
    <3> QED
      BY <3>1, <3>4 DEF x, y, d
  <2> QED
    BY <2>4, <2>5
<1>8. ASSUME NEW i \in DOMAIN dates, dates[i] = NaN PROVE out[i] = 0
  BY <1>1, <1>2, <1>8
<1>9. ASSUME r.bias > 0, n > 1 PROVE out[Last(order)] = full
  <2>1. ~ none /\ n \in 1 .. n
    BY <1>3, <1>9
  <2> DEFINE i == order[n]
             d == n - 1
  <2>2. Last(order) = i
    BY DEF Last, n
  <2>3. i \in ToSet(order) /\ i \in DOMAIN dates
    BY <1>3, <2>1 DEF ToSet
  <2>4. place(i) = n
    <3>1. place(i) \in 1 .. n /\ order[place(i)] = i
      BY <1>5, <2>3
    <3> QED
      BY <1>2, <1>3, <2>1, <3>1
  <2>5. out[i] = (full * d) \div d
    BY <1>1, <2>1, <2>3, <2>4
  <2>6. full \in Int /\ d \in Nat \ {0}
    BY <1>4, <2>1
  <2> HIDE DEF i, d
  <2>7. (full * d) \div d = full
    BY <2>6, DivExact
  <2> QED
    BY <2>2, <2>5, <2>7
<1> QED
  BY <1>7, <1>8, <1>9, Zenon DEF BonusGrowsWithDate, dates, order, n, full

\* A longer content is penalised no more, and from the threshold on not at all.
LEMMA PenaltyGrows ==
  ASSUME NEW a \in Nat, NEW b \in Nat, a <= b, NEW threshold \in Nat
  PROVE  /\ LengthPenalty(a, threshold) \in Nat /\ LengthPenalty(b, threshold) \in Nat
         /\ LengthPenalty(a, threshold) <= LengthPenalty(b, threshold)
         /\ a >= threshold => LengthPenalty(a, threshold) = LengthPenalty(b, threshold)
<1> DEFINE share(len) == (10 * len) \div Max({threshold, 1})
<1>1. ASSUME NEW len \in Nat, len < threshold
      PROVE  /\ LengthPenalty(len, threshold) = IF 3 >= (10 * len) \div threshold THEN 3 ELSE (10 * len) \div threshold
             /\ (10 * len) \div threshold \in Int /\ (10 * len) \div threshold <= 10
  <2>1. Max({threshold, 1}) = threshold
    <3>1. threshold >= 1 /\ threshold \in Int /\ 1 \in Int
      BY <1>1
    <3>2. Max({threshold, 1}) = IF threshold >= 1 THEN threshold ELSE 1
      BY <3>1, ExtremesOfTwo
    <3> QED
      BY <3>1, <3>2
  <2> DEFINE part == (10 * len) \div threshold
  <2>2. part \in Int /\ part <= 10
    <3>1. threshold \in Nat \ {0} /\ 10 * len \in Int /\ 10 * threshold \in Int /\ 10 * len <= 10 * threshold
      BY <1>1
    <3>2. (10 * len) \div threshold \in Int /\ (10 * len) \div threshold <= (10 * threshold) \div threshold
      <4> DEFINE x == 10 * len
                 y == 10 * threshold
      <4>1. x \in Int /\ y \in Int /\ x <= y
        BY <3>1
      <4> HIDE DEF x, y
      <4>2. x \div threshold \in Int /\ x \div threshold <= y \div threshold
        BY <3>1, <4>1, DivMonotone
      <4> QED
        BY <4>2 DEF x, y
    <3>3. (10 * threshold) \div threshold = 10
      BY <3>1, DivExact
    <3> QED
      BY <3>2, <3>3
  <2>3. LengthPenalty(len, threshold) = Max({3, part})
    BY <1>1, <2>1, Zenon DEF LengthPenalty
  <2> HIDE DEF part
  <2>4. Max({3, part}) = IF 3 >= part THEN 3 ELSE part
    BY <2>2, ExtremesOfTwo
  <2> QED
    BY <2>2, <2>3, <2>4 DEF part
<1>2. ASSUME NEW len \in Nat, ~ (len < threshold) PROVE LengthPenalty(len, threshold) = 10
  BY <1>2, Zenon DEF LengthPenalty
<1>3. CASE b < threshold
  <2> DEFINE x == (10 * a) \div threshold
             y == (10 * b) \div threshold
  <2>1. a < threshold
    BY <1>3
  <2>2. x \in Int /\ y \in Int /\ x <= y
    <3> DEFINE u == 10 * a
               v == 10 * b
    <3>1. u \in Int /\ v \in Int /\ u <= v /\ threshold \in Nat \ {0}
      BY <1>3
    <3> HIDE DEF u, v
    <3>2. u \div threshold \in Int /\ v \div threshold \in Int /\ u \div threshold <= v \div threshold
      BY <3>1, DivMonotone
    <3> QED
      BY <3>2 DEF u, v
  <2>3. LengthPenalty(a, threshold) = (IF 3 >= x THEN 3 ELSE x) /\ LengthPenalty(b, threshold) = (IF 3 >= y THEN 3 ELSE y)
    BY <1>1, <1>3, <2>1
  <2> HIDE DEF x, y
  <2> QED
    BY <2>1, <2>2, <2>3
<1>4. CASE ~ (b < threshold)
  <2>1. LengthPenalty(b, threshold) = 10
    BY <1>2, <1>4
  <2>2. CASE a < threshold
    <3> DEFINE x == (10 * a) \div threshold
    <3>1. LengthPenalty(a, threshold) = (IF 3 >= x THEN 3 ELSE x) /\ x \in Int /\ x <= 10
      BY <1>1, <2>2
    <3> HIDE DEF x
    <3> QED
      BY <2>1, <2>2, <3>1
  <2>3. CASE ~ (a < threshold)
    <3>1. LengthPenalty(a, threshold) = 10
      BY <1>2, <2>3
    <3> QED
      BY <2>1, <3>1
  <2> QED
    BY <2>2, <2>3
<1> QED
  BY <1>3, <1>4

\* A weighted sum of integers is one.
LEMMA WeightedSum ==
  ASSUME Whole \in Int, NEW x \in Int, NEW y \in Int, NEW w \in Int
  PROVE  x * w + y * (Whole - w) \in Int
OBVIOUS

\* Of contents that differ in length only the longer scores no less.
LEMMA HybridScoreHolds ==
  ASSUME Whole \in Int, NEW r, r.rows \in Seq(HybridRow), r.weight \in Int, r.threshold \in Nat,
         NEW out, out = [i \in DOMAIN r.rows |-> HybridScore(r.rows[i], r.weight, r.threshold)]
  PROVE  LengthIsNoPenalty(r, out)
<1> SUFFICES ASSUME NEW i \in DOMAIN r.rows, NEW j \in DOMAIN r.rows,
                    r.rows[j] = [r.rows[i] EXCEPT !.len = r.rows[j].len], r.rows[i].len <= r.rows[j].len
             PROVE  /\ Relevance(r.rows[i], r.weight) >= 0 => out[i] <= out[j]
                    /\ r.rows[i].len >= r.threshold => out[i] = out[j]
  BY Zenon DEF LengthIsNoPenalty
<1> DEFINE a == r.rows[i]
           b == r.rows[j]
           rel == Relevance(a, r.weight)
           p == LengthPenalty(a.len, r.threshold)
           q == LengthPenalty(b.len, r.threshold)
<1>1. a \in HybridRow /\ b \in HybridRow
  OBVIOUS
<1>2. /\ a.vec \in Int /\ a.bm25 \in Int /\ a.extra \in Int /\ a.len \in Nat /\ b.len \in Nat
      /\ b.vec = a.vec /\ b.bm25 = a.bm25 /\ b.extra = a.extra /\ a.len <= b.len
  <2>1. b = [a EXCEPT !.len = b.len] /\ a.len <= b.len
    OBVIOUS
  <2> HIDE DEF a, b
  <2> QED
    BY <1>1, <2>1 DEF HybridRow
<1>3. out[i] = rel * p + a.extra /\ out[j] = Relevance(b, r.weight) * q + b.extra
  BY DEF HybridScore
<1> HIDE DEF a, b
<1>4. Relevance(b, r.weight) = rel /\ rel \in Int
  <2> DEFINE x == a.vec
             y == a.bm25
             w == r.weight
  <2>1. rel = x * w + y * (Whole - w) /\ Relevance(b, w) = x * w + y * (Whole - w)
    BY <1>2, Zenon DEF Relevance
  <2>2. x \in Int /\ y \in Int /\ w \in Int
    BY <1>2
  <2> HIDE DEF x, y, w, rel
  <2>3. x * w + y * (Whole - w) \in Int
    BY <2>2, WeightedSum
  <2> QED
    BY <2>1, <2>3, Zenon DEF w
<1>5. p \in Nat /\ q \in Nat /\ p <= q /\ (a.len >= r.threshold => p = q)
  <2> DEFINE x == a.len
             y == b.len
             t == r.threshold
  <2>1. x \in Nat /\ y \in Nat /\ x <= y /\ t \in Nat
    BY <1>2
  <2>2. p = LengthPenalty(x, t) /\ q = LengthPenalty(y, t) /\ (a.len >= r.threshold <=> x >= t)
    OBVIOUS
  <2> HIDE DEF x, y, t, p, q
  <2>3. /\ LengthPenalty(x, t) \in Nat /\ LengthPenalty(y, t) \in Nat
        /\ LengthPenalty(x, t) <= LengthPenalty(y, t)
        /\ x >= t => LengthPenalty(x, t) = LengthPenalty(y, t)
    BY <2>1, PenaltyGrows
  <2> QED
    BY <2>2, <2>3
<1> HIDE DEF rel, p, q
<1>6. rel >= 0 => out[i] <= out[j]
  <2> SUFFICES ASSUME rel >= 0 PROVE out[i] <= out[j]
    OBVIOUS
  <2>1. rel \in Nat /\ p \in Int /\ q \in Int
    BY <1>4, <1>5
  <2>2. rel * p \in Int /\ rel * q \in Int /\ rel * p <= rel * q
    BY <1>5, <2>1, ProductGrows
  <2> DEFINE u == rel * p
             v == rel * q
  <2>3. out[i] = u + a.extra /\ out[j] = v + a.extra /\ u \in Int /\ v \in Int /\ u <= v
    BY <1>2, <1>3, <1>4, <2>2
  <2> HIDE DEF u, v
  <2> QED
    BY <1>2, <2>3
<1>7. a.len >= r.threshold => out[i] = out[j]
  BY <1>2, <1>3, <1>4, <1>5
<1> QED
  BY <1>6, <1>7 DEF rel, a

-----------------------------------------------------------------------------
(* The calls                                                               *)

Replied == request # NoRequest => request \in Requests /\ reply = Answer(request)

\* An order of 1 .. n is a permutation of it.
LEMMA OrderIs ==
  ASSUME NEW n \in Nat, NEW order, IsOrder(order, 1 .. n)
  PROVE  /\ order \in Seq(1 .. n) /\ Len(order) = n /\ DOMAIN order = 1 .. n
         /\ order \in [1 .. n -> 1 .. n] /\ Distinct(order)
<1>1. order \in Seq(1 .. n) /\ ToSet(order) = 1 .. n /\ Distinct(order)
  BY DEF IsOrder, IsInjective, Distinct
<1>2. Cardinality(ToSet(order)) = Len(order)
  BY <1>1, DistinctSize
<1>3. Cardinality(1 .. n) = n
  BY FS_Interval
<1>4. Len(order) = n
  BY <1>1, <1>2, <1>3
<1>5. order \in [1 .. n -> 1 .. n] /\ DOMAIN order = 1 .. n
  BY <1>1, <1>4
<1> QED
  BY <1>1, <1>4, <1>5

\* An order by falling relevance, as the lemmas about rank_hybrid have it.
LEMMA FallingFalls ==
  ASSUME NEW n \in Nat, NEW rel \in Seq(Int), Len(rel) = n, NEW order, IsFalling(order, rel)
  PROVE  Falls(order, n, rel)
<1>1. DOMAIN rel = 1 .. n
  OBVIOUS
<1>2. IsOrder(order, 1 .. n) /\ \A a, b \in DOMAIN order : a < b => rel[order[a]] >= rel[order[b]]
  BY <1>1, Zenon DEF IsFalling
<1>3. /\ order \in Seq(1 .. n) /\ Len(order) = n /\ DOMAIN order = 1 .. n /\ Distinct(order)
  BY <1>2, OrderIs
<1> QED
  BY <1>2, <1>3 DEF Falls

\* An order by id, as the lemmas about fusion have it.
LEMMA ByIdIs ==
  ASSUME NEW all \in Seq(FusionRow), NEW order, IsById(order, all)
  PROVE  ById(order, all)
<1> DEFINE n == Len(all)
<1>1. n \in Nat /\ DOMAIN all = 1 .. n
  OBVIOUS
<1> HIDE DEF n
<1>2. IsOrder(order, 1 .. n) /\ \A a, b \in DOMAIN order : a < b => all[order[a]].id <= all[order[b]].id
  BY <1>1, Zenon DEF IsById
<1>3. /\ DOMAIN order = 1 .. n /\ Distinct(order) /\ order \in [1 .. n -> 1 .. n]
  BY <1>1, <1>2, OrderIs
<1> QED
  BY <1>1, <1>2, <1>3, Zenon DEF ById, Distinct

\* An order by date, as the lemma about the bonus has it.
LEMMA ByDateIs ==
  ASSUME NEW dates, NEW order, IsByDate(order, dates)
  PROVE  ByDate(order, dates)
<1> DEFINE dated == {i \in DOMAIN dates : dates[i] # NaN}
<1>1. IsOrder(order, dated) /\ \A a, b \in DOMAIN order : a < b => dates[order[a]] <= dates[order[b]]
  BY Zenon DEF IsByDate
<1>2. dated \subseteq DOMAIN dates
  OBVIOUS
<1> HIDE DEF dated
<1>3. order \in Seq(dated) /\ ToSet(order) = dated /\ Distinct(order)
  BY <1>1, Zenon DEF IsOrder, IsInjective, Distinct
<1>4. order \in Seq(DOMAIN dates)
  BY <1>2, <1>3
<1> QED
  BY <1>1, <1>3, <1>4 DEF ByDate, dated

\* A greedy selection, as the property states it.
LEMMA PicksAre ==
  ASSUME NEW rel \in Seq(Score), NEW sim, NEW lambda, NEW k, NEW first \in Nat \ {0}, NEW out,
         MmrResult(out, k, first, rel, sim, lambda)
  PROVE  PicksAreBest(out, first, rel, sim, lambda) /\ Len(out) = Min({k, Len(rel)})
<1>1. /\ out \in Seq(1 .. Len(rel)) /\ Distinct(out) /\ Len(out) = Min({k, Len(rel)})
      /\ PickedBest(out, first, rel, sim, lambda)
  BY Zenon DEF MmrResult
<1>2. NoRepeats(out)
  BY <1>1, DistinctSize DEF NoRepeats
<1>3. DOMAIN rel = 1 .. Len(rel)
  OBVIOUS
<1> QED
  BY <1>1, <1>2, <1>3, Zenon DEF PicksAreBest, PickedBest

\* Cosines of all pairs.
LEMMA SquareIs ==
  ASSUME NaN \notin Int, Whole \in Int, NEW rel \in Seq(Score), NEW lambda \in Int, NEW sim,
         IsSquare(sim), Len(sim) = Len(rel)
  PROVE  AreRelevances(rel, sim, lambda)
<1> DEFINE n == Len(rel)
<1>1. n \in Nat /\ sim \in Seq(Seq(Score)) /\ Len(sim) = n
  BY DEF IsSquare, Cosines
<1> HIDE DEF n
<1>2. ASSUME NEW i \in 1 .. n, NEW j \in 1 .. n PROVE sim[i][j] \in Score
  <2>1. i \in DOMAIN sim /\ sim[i] \in Seq(Score)
    BY <1>1
  <2>2. Len(sim[i]) = n
    BY <1>1, <2>1 DEF IsSquare
  <2> DEFINE s == sim[i]
  <2> HIDE DEF s
  <2>3. s \in Seq(Score) /\ Len(s) = n
    BY <2>1, <2>2 DEF s
  <2>4. s[j] \in Score
    BY <1>1, <2>3
  <2> QED
    BY <2>4 DEF s
<1> QED
  BY <1>2 DEF AreRelevances, n

\* What is assumed of the constants.
LEMMA RankingConstants == NaN \notin Int /\ Whole \in Int /\ Unit \in Nat /\ Unit \in Int
BY LibraryAssumption, RankingAssumption

\* What is assumed of the arguments.
LEMMA RankingArguments == ASSUME NEW r \in Requests PROVE IsRankingCall(r)
BY LibraryAssumption

\* A good reply carries its value.
LEMMA GoodIs == \A v : Good(v).value = v /\ Done(v).value = v /\ Good(v) = Done(v)
BY DEF Good, Done

\* mmr_rerank is greedy.
LEMMA RerankIsGreedy ==
  ASSUME NEW r \in Requests, r.fn = "mmr_rerank", NEW out, Answer(r) = Done(out)
  PROVE  MmrIsGreedy(r, out)
<1> DEFINE Calls1 == [fn : {"mmr_rerank"}, rel : Seq(Score), sim : Cosines, lambda : Int, k : Nat, cut : Nat]
           n == Len(r.rel)
           G(cut) == MmrRerank(r.rel, r.sim, r.lambda, r.k, cut)
<1>1. r \in Calls1 /\ IsSquare(r.sim) /\ Len(r.sim) = n
  BY RankingArguments DEF IsRankingCall
<1>2. r.rel \in Seq(Score) /\ r.lambda \in Int /\ r.k \in Nat /\ n \in Nat
  BY <1>1
<1>3. AreRelevances(r.rel, r.sim, r.lambda)
  <2> DEFINE rel == r.rel
             sim == r.sim
             lambda == r.lambda
  <2>1. rel \in Seq(Score) /\ lambda \in Int /\ IsSquare(sim) /\ Len(sim) = Len(rel)
    BY <1>1, <1>2
  <2> HIDE DEF rel, sim, lambda
  <2>2. AreRelevances(rel, sim, lambda)
    BY <2>1, SquareIs, RankingConstants
  <2> QED
    BY <2>2 DEF rel, sim, lambda
<1>4. out = G(r.cut)
  <2>1. Answer(r) = Done(G(r.cut))
    BY DEF Answer
  <2> HIDE DEF G
  <2>2. Done(G(r.cut)).value = G(r.cut) /\ Done(out).value = out
    BY GoodIs
  <2> QED
    BY <2>1, <2>2
<1>5. MmrResult(out, r.k, 1, r.rel, r.sim, r.lambda) /\ \A cut : G(cut) = out
  BY <1>2, <1>3, <1>4, MmrRerankHolds
<1>6. PicksAreBest(out, 1, r.rel, r.sim, r.lambda) /\ Len(out) = Min({r.k, n})
  BY <1>2, <1>5, PicksAre
<1>7. ASSUME NEW cut \in 1 .. n PROVE Answer([r EXCEPT !.cut = cut]) = Done(out)
  <2> DEFINE q == [r EXCEPT !.cut = cut]
  <2>1. /\ q.fn = "mmr_rerank" /\ q.rel = r.rel /\ q.sim = r.sim /\ q.lambda = r.lambda
        /\ q.k = r.k /\ q.cut = cut
    BY <1>1
  <2> HIDE DEF q
  <2>2. Answer(q) = Done(MmrRerank(q.rel, q.sim, q.lambda, q.k, q.cut))
    BY <2>1 DEF Answer
  <2>3. Answer(q) = Done(G(cut))
    BY <2>1, <2>2
  <2> QED
    BY <1>5, <2>3 DEF q
<1> QED
  BY <1>6, <1>7 DEF MmrIsGreedy

\* mmr_rerank_scored, packed or not.
ScoredIs(r, out) ==
  /\ PicksAreBest(out, IF r.seed THEN 2 ELSE 1, r.rel, r.sim, r.lambda)
  /\ TiesGoToTheFirst(out, IF r.seed THEN 2 ELSE 1, r.rel, r.sim, r.lambda)
  /\ Len(out) = Min({r.k, Len(r.rel)})
  /\ r.seed /\ out # <<>> => out[1] = 1
  /\ \A cut : MmrScored(r.rel, r.sim, r.lambda, r.k, r.seed, cut) = Good(out)

\* mmr_rerank_scored on a call's arguments.
LEMMA ScoredHolds ==
  ASSUME NEW r, r.rel \in Seq(Score), IsSquare(r.sim), r.lambda \in Int, r.k \in Nat, r.seed \in BOOLEAN,
         NEW cut, NEW out, MmrScored(r.rel, r.sim, r.lambda, r.k, r.seed, cut) = Good(out)
  PROVE  ScoredIs(r, out)
<1> DEFINE rel == r.rel
           sim == r.sim
           lambda == r.lambda
           k == r.k
           seed == r.seed
           first == IF seed THEN 2 ELSE 1
<1>1. /\ rel \in Seq(Score) /\ IsSquare(sim) /\ lambda \in Int /\ k \in Nat /\ seed \in BOOLEAN
      /\ MmrScored(rel, sim, lambda, k, seed, cut) = Good(out)
  OBVIOUS
<1>2. ScoredIs(r, out) <=>
        /\ PicksAreBest(out, first, rel, sim, lambda) /\ TiesGoToTheFirst(out, first, rel, sim, lambda)
        /\ Len(out) = Min({k, Len(rel)}) /\ (seed /\ out # <<>> => out[1] = 1)
        /\ \A any : MmrScored(rel, sim, lambda, k, seed, any) = Good(out)
  BY Zenon DEF ScoredIs
<1> HIDE DEF rel, sim, lambda, k, seed, first
<1>3. Len(sim) = Len(rel)
  <2>1. Len(sim) # Len(rel) => MmrScored(rel, sim, lambda, k, seed, cut) = Fail
    BY Zenon DEF MmrScored
  <2>2. Fail.ok = FALSE /\ Good(out).ok = TRUE
    BY DEF Fail, Good
  <2> QED
    BY <1>1, <2>1, <2>2
<1>4. AreRelevances(rel, sim, lambda)
  BY <1>1, <1>3, SquareIs, RankingConstants
<1>5. /\ MmrScoredResult(Good(out), k, seed, rel, sim, lambda)
      /\ \A any : MmrScored(rel, sim, lambda, k, seed, any) = Good(out)
  BY <1>1, <1>3, <1>4, MmrScoredHolds
<1>6. /\ MmrResult(out, k, first, rel, sim, lambda) /\ TiesGoToTheFirst(out, first, rel, sim, lambda)
      /\ seed /\ out # <<>> => out[1] = 1
  BY <1>5, GoodIs, Zenon DEF MmrScoredResult, first
<1>7. first \in Nat \ {0}
  BY DEF first
<1>8. PicksAreBest(out, first, rel, sim, lambda) /\ Len(out) = Min({k, Len(rel)})
  BY <1>1, <1>6, <1>7, PicksAre
<1> QED
  BY <1>2, <1>5, <1>6, <1>8

\* mmr_rerank_scored is greedy.
LEMMA ScoredIsGreedy ==
  ASSUME NEW r \in Requests, r.fn = "mmr_scored", NEW out, Answer(r) = Done(out)
  PROVE  MmrIsGreedy(r, out)
<1> DEFINE Calls2 == [fn : {"mmr_scored"}, rel : Seq(Score), sim : Cosines, lambda : Int, k : Nat,
                      seed : BOOLEAN, cut : Nat]
           G(cut) == MmrScored(r.rel, r.sim, r.lambda, r.k, r.seed, cut)
<1>1. r \in Calls2 /\ IsSquare(r.sim)
  BY RankingArguments DEF IsRankingCall
<1>2. r.rel \in Seq(Score) /\ r.lambda \in Int /\ r.k \in Nat /\ r.seed \in BOOLEAN
  BY <1>1
<1>3. G(r.cut) = Good(out)
  <2>1. Answer(r) = G(r.cut)
    BY DEF Answer
  <2> HIDE DEF G
  <2> QED
    BY <2>1, GoodIs
<1>4. ScoredIs(r, out)
  BY <1>1, <1>2, <1>3, ScoredHolds
<1>5. ASSUME NEW cut \in 1 .. Len(r.rel) PROVE Answer([r EXCEPT !.cut = cut]) = Done(out)
  <2> DEFINE q == [r EXCEPT !.cut = cut]
  <2>1. /\ q.fn = "mmr_scored" /\ q.rel = r.rel /\ q.sim = r.sim /\ q.lambda = r.lambda
        /\ q.k = r.k /\ q.seed = r.seed /\ q.cut = cut
    BY <1>1
  <2> HIDE DEF q
  <2>2. Answer(q) = MmrScored(q.rel, q.sim, q.lambda, q.k, q.seed, q.cut)
    BY <2>1 DEF Answer
  <2>3. Answer(q) = G(cut)
    BY <2>1, <2>2
  <2>4. G(cut) = Good(out)
    BY <1>4 DEF ScoredIs
  <2> QED
    BY <2>3, <2>4, GoodIs DEF q
<1> QED
  BY <1>4, <1>5 DEF MmrIsGreedy, ScoredIs

\* Its packed form is greedy.
LEMMA PackedIsGreedy ==
  ASSUME NEW r \in Requests, r.fn = "mmr_packed", NEW out, Answer(r) = Done(out)
  PROVE  MmrIsGreedy(r, out)
<1>1. r.rel \in Seq(Score) /\ IsSquare(r.sim) /\ r.lambda \in Int /\ r.k \in Nat /\ r.seed \in BOOLEAN
  BY RankingArguments DEF IsRankingCall
<1> DEFINE s == MmrScored(r.rel, r.sim, r.lambda, r.k, r.seed, r.cut)
           P == PackedRows(r.bytes, r.dim) # Good(Len(r.rel))
<1>2. Answer(r) = IF P THEN Fail ELSE s
  BY DEF Answer, MmrScoredPacked
<1>3. s = Good(out)
  <2>1. Fail.ok = FALSE /\ Done(out).ok = TRUE
    BY DEF Fail, Done
  <2> HIDE DEF s, P
  <2> QED
    BY <1>2, <2>1, GoodIs
<1>4. ScoredIs(r, out)
  BY <1>1, <1>3, ScoredHolds
<1> QED
  BY <1>4 DEF MmrIsGreedy, ScoredIs

\* What a ranking call was answered is right.
LEMMA RequestIsRanked == Replied => RankingIsRight
<1> SUFFICES ASSUME request \in Requests, request # NoRequest, reply = Answer(request), reply.ok
             PROVE  RankingIsRight
  BY DEF Replied, RankingIsRight
<1> DEFINE r == request
           out == reply.value
<1>1. IsRankingCall(r)
  BY RankingArguments
<1>2. ASSUME NEW v, Answer(r) = Done(v) PROVE v = out /\ Answer(r) = Done(out)
  <2>1. Done(v).value = v
    BY GoodIs
  <2> QED
    BY <1>2, <2>1
<1>3. ASSUME r.fn \in {"mmr_scored", "mmr_packed"} PROVE Answer(r) = Done(out)
  <2> DEFINE s == MmrScored(r.rel, r.sim, r.lambda, r.k, r.seed, r.cut)
             P == PackedRows(r.bytes, r.dim) # Good(Len(r.rel))
  <2>1. Answer(r) = s \/ Answer(r) = Fail
    <3>1. CASE r.fn = "mmr_scored"
      BY <3>1 DEF Answer
    <3>2. CASE r.fn = "mmr_packed"
      BY <3>2 DEF Answer, MmrScoredPacked
    <3> QED
      BY <1>3, <3>1, <3>2
  <2>2. s = Fail \/ \E v : s = Good(v)
    BY Zenon DEF MmrScored
  <2>3. Answer(r) # Fail
    BY DEF Fail
  <2> HIDE DEF s
  <2>4. PICK v : Answer(r) = Good(v)
    BY <2>1, <2>2, <2>3
  <2>5. Answer(r) = Done(v)
    BY <2>4, GoodIs
  <2> QED
    BY <1>2, <2>5
<1>4. CASE r.fn \in {"mmr_rerank", "mmr_scored", "mmr_packed"}
  <2>1. Answer(r) = Done(out)
    <3>1. CASE r.fn = "mmr_rerank"
      <4> DEFINE v == MmrRerank(r.rel, r.sim, r.lambda, r.k, r.cut)
      <4>1. Answer(r) = Done(v)
        BY <3>1 DEF Answer
      <4> HIDE DEF v
      <4> QED
        BY <1>2, <4>1
    <3> QED
      BY <1>3, <1>4, <3>1
  <2>2. MmrIsGreedy(r, out)
    BY <1>4, <2>1, RerankIsGreedy, ScoredIsGreedy, PackedIsGreedy
  <2> QED
    BY <1>4, <2>2 DEF RankingIsRight
<1>5. CASE r.fn = "rank_hybrid"
  <2> DEFINE n == Len(r.rel)
             H == RankHybrid(r.rel, r.contents, r.sim, r.lambda, r.k, r.order, r.cut)
  <2>1. /\ r.rel \in Seq(Int) /\ r.contents \in Seq(Nat) /\ IsSquare(r.sim) /\ r.lambda \in Int /\ r.k \in Nat
        /\ IsFalling(r.order, r.rel)
    BY <1>1, <1>5 DEF IsRankingCall
  <2>2. Answer(r) = H /\ H # Fail
    <3>1. Answer(r) = H
      BY <1>5 DEF Answer
    <3>2. Answer(r) # Fail
      BY DEF Fail
    <3> QED
      BY <3>1, <3>2
  <2>3. Len(r.contents) = n /\ Len(r.sim) = n /\ \E v : H = Good(v)
    <3>1. H = Fail \/ (Len(r.contents) = n /\ Len(r.sim) = n /\ \E v : H = Good(v))
      BY Zenon DEF RankHybrid
    <3> QED
      BY <2>2, <3>1
  <2> HIDE DEF H
  <2>4. H = Good(out)
    <3>1. PICK v : H = Good(v)
      BY <2>3
    <3>2. Answer(r) = Done(v)
      BY <2>2, <3>1, GoodIs
    <3> QED
      BY <1>2, <2>2, <3>2, GoodIs
  <2>5. HybridHasNoCopies(r, out)
    <3> DEFINE rel == r.rel
               contents == r.contents
               sim == r.sim
               lambda == r.lambda
               k == r.k
               order == r.order
               cut == r.cut
    <3>1. /\ n \in Nat /\ rel \in Seq(Int) /\ Len(rel) = n /\ contents \in Seq(Nat) /\ Len(contents) = n
          /\ Len(sim) = n /\ IsSquare(sim) /\ lambda \in Int /\ k \in Nat /\ IsFalling(order, rel)
      BY <2>1, <2>3
    <3>2. sim \in Seq(Seq(Score))
      BY <3>1 DEF IsSquare, Cosines
    <3>3. /\ RankHybrid(rel, contents, sim, lambda, k, order, cut) = Good(out)
          /\ r.rel = rel /\ r.contents = contents /\ r.k = k
      BY <2>4 DEF H
    <3> HIDE DEF rel, contents, sim, lambda, k, order, cut, n, out, r
    <3>4. Falls(order, n, rel)
      BY <3>1, FallingFalls
    <3> QED
      BY <3>1, <3>2, <3>3, <3>4, RankingConstants, HybridHolds
  <2> QED
    BY <1>5, <2>5 DEF RankingIsRight
<1>6. CASE r.fn = "displacement"
  <2> DEFINE v == EnforceDisplacementGuard(r.rows, r.protected, r.margin)
             n == Len(r.rows)
  <2>1. r.rows \in Seq(Row) /\ r.protected \in Nat /\ r.margin \in Int /\ n \in Nat
    BY <1>1, <1>6 DEF IsRankingCall
  <2>2. Answer(r) = Done(v)
    BY <1>6 DEF Answer
  <2>3. out = v
    <3> HIDE DEF v, out
    <3> QED
      BY <1>2, <2>2
  <2> HIDE DEF r, out
  <2>4. GuardIsFair(r, out)
    BY <2>1, <2>3, RankingConstants, GuardHolds
  <2> QED
    BY <1>6, <2>4 DEF RankingIsRight, r, out
<1>7. CASE r.fn = "fuse"
  <2> DEFINE v == Fuse(r.fts, r.vector, r.wFts, r.wVector, r.order)
             all == Contributions(r.fts, r.vector, r.wFts, r.wVector)
  <2>1. /\ r.fts \in Seq(FusionRow) /\ r.vector \in Seq(FusionRow) /\ r.wFts \in Int /\ r.wVector \in Int
        /\ IsById(r.order, all)
    BY <1>1, <1>7 DEF IsRankingCall
  <2>2. Answer(r) = Done(v)
    BY <1>7 DEF Answer
  <2>3. out = v
    <3> HIDE DEF v, out
    <3> QED
      BY <1>2, <2>2
  <2> HIDE DEF r, out
  <2>4. all \in Seq(FusionRow)
    BY <2>1, RankingConstants, ContributionsType
  <2>5. ById(r.order, all)
    <3> DEFINE order == r.order
    <3>1. IsById(order, all)
      BY <2>1
    <3> HIDE DEF all, order
    <3>2. ById(order, all)
      BY <2>4, <3>1, ByIdIs
    <3> QED
      BY <3>2 DEF order
  <2>6. FusionIsRight(r, out)
    BY <2>1, <2>3, <2>5, RankingConstants, FusionHolds
  <2> QED
    BY <1>7, <2>6 DEF RankingIsRight, r, out
<1>8. CASE r.fn = "maxpool"
  <2> DEFINE C == CosineMaxpool(r.anchorDims, r.rows, r.dim)
  <2>1. Answer(r) = C
    BY <1>8 DEF Answer
  <2>2. C.ok /\ out = C.value
    BY <2>1
  <2> HIDE DEF r, out
  <2>3. PooledRowsAreApart(r, out)
    BY <2>2, PooledHolds
  <2> QED
    BY <1>8, <2>3 DEF RankingIsRight, r, out
<1>9. CASE r.fn = "hybrid"
  <2> DEFINE v == [i \in DOMAIN r.rows |-> HybridScore(r.rows[i], r.weight, r.threshold)]
  <2>1. r.rows \in Seq(HybridRow) /\ r.weight \in Int /\ r.threshold \in Nat
    BY <1>1, <1>9 DEF IsRankingCall
  <2>2. Answer(r) = HybridScoreBatch(r.rows, r.lengths, r.weight, r.threshold)
    BY <1>9 DEF Answer
  <2>3. Answer(r) = Fail \/ Answer(r) = Good(v)
    BY <2>2, Zenon DEF HybridScoreBatch
  <2>4. Answer(r) # Fail
    BY DEF Fail
  <2>5. out = v
    <3> HIDE DEF v, out
    <3>1. Answer(r) = Done(v)
      BY <2>3, <2>4, GoodIs
    <3> QED
      BY <1>2, <3>1
  <2> HIDE DEF r, out
  <2>6. LengthIsNoPenalty(r, out)
    BY <2>1, <2>5, RankingConstants, HybridScoreHolds
  <2> QED
    BY <1>9, <2>6 DEF RankingIsRight, r, out
<1>10. CASE r.fn = "recency"
  <2> DEFINE v == RecencyBonusRanks(r.dates, r.bias, r.order)
  <2>1. r.dates \in Seq(Score) /\ r.bias \in Int /\ IsByDate(r.order, r.dates)
    BY <1>1, <1>10 DEF IsRankingCall
  <2>2. Answer(r) = Done(v)
    BY <1>10 DEF Answer
  <2>3. out = v
    <3> HIDE DEF v, out
    <3> QED
      BY <1>2, <2>2
  <2> HIDE DEF r, out
  <2>4. ByDate(r.order, r.dates)
    BY <2>1, ByDateIs
  <2>5. BonusGrowsWithDate(r, out)
    BY <2>1, <2>3, <2>4, RankingConstants, RecencyHolds
  <2> QED
    BY <1>10, <2>5 DEF RankingIsRight, r, out
<1> QED
  BY <1>4, <1>5, <1>6, <1>7, <1>8, <1>9, <1>10 DEF RankingIsRight

\* Whatever is called: reranking takes the best candidate at every turn and as
\* many as asked for, whichever way rayon cuts them; rank_hybrid returns no
\* repeated content and never the less relevant copy; the displacement guard
\* loses no row, keeps the primaries' order and is idempotent; fusion has every
\* id once with its larger contribution, best first; and scores, bonuses and
\* penalties are monotone (m3-vector, m3-rank).
THEOREM EveryRankingIsRight == LibInit /\ [][LibNext]_libVars => []RankingIsRight
<1>1. LibInit => Replied
  BY DEF LibInit, Replied
<1>2. Replied /\ [LibNext]_libVars => Replied'
  <2> SUFFICES ASSUME Replied, [LibNext]_libVars PROVE Replied'
    OBVIOUS
  <2>1. ASSUME NEW r \in Requests, Ask(r) PROVE Replied'
    BY <2>1 DEF Ask, Replied
  <2>2. CASE UNCHANGED <<request, reply>>
    BY <2>2 DEF Replied
  <2> QED
    BY <2>1, <2>2 DEF LibNext, libVars
<1>3. Replied => RankingIsRight
  BY RequestIsRanked
<1> QED
  BY <1>1, <1>2, <1>3, PTL

-----------------------------------------------------------------------------
(* The entity graph: its queries' loops                                    *)

\* One edge, and one turn of the search.
EndsTurn(id, ends, e) == IF e[1] = id THEN <<e[2]>> \o ends ELSE ends
VisitTurn(g, most, st) == IF st.next > Len(st.found) THEN st ELSE Visit(g, st, most)

EndsFolds(f, s, id) ==
  \A T \in SUBSET DOMAIN s :
    f[T] = IF T = {} THEN <<>> ELSE EndsTurn(id, f[T \ {Max(T)}], s[Max(T)])
EndsOf(s, id) ==
  FoldLeft(LAMBDA ends, e : IF e[1] = id THEN <<e[2]>> \o ends ELSE ends, <<>>, s)
EndsUnfolds(s, id) == \E r : EndsFolds(r, s, id) /\ EndsOf(s, id) = r[DOMAIN s]

\* The ends of a node's edges, as the function of its fold.
LEMMA EndsUnfold ==
  ASSUME NEW s, NEW id, NEW V, NEW f \in [SUBSET DOMAIN s -> V], EndsFolds(f, s, id)
  PROVE  EndsUnfolds(s, id)
<1>1. f = [T \in SUBSET DOMAIN s |-> IF T = {} THEN <<>> ELSE EndsTurn(id, f[T \ {Max(T)}], s[Max(T)])]
  BY Zenon DEF EndsFolds
<1>2. PICK r : /\ r = [T \in SUBSET DOMAIN s |-> IF T = {} THEN <<>> ELSE EndsTurn(id, r[T \ {Max(T)}], s[Max(T)])]
               /\ FoldLeft(LAMBDA ends, e : IF e[1] = id THEN <<e[2]>> \o ends ELSE ends, <<>>, s) = r[DOMAIN s]
  BY <1>1, ZenonT(60) DEF FoldLeft, MapThenFoldSet, EndsTurn
<1>3. EndsFolds(r, s, id)
  BY <1>2, Zenon DEF EndsFolds
<1> QED
  BY <1>2, <1>3, Zenon DEF EndsUnfolds, EndsOf

\* It, turn by turn.
EndsRuns(h, s, id, V) ==
  /\ h[0] = <<>> /\ EndsOf(s, id) = h[Len(s)]
  /\ \A m \in 1 .. Len(s) : h[m - 1] \in V /\ h[m] \in V /\ h[m] = EndsTurn(id, h[m - 1], s[m])

\* There is such a run.
LEMMA EndsRun ==
  ASSUME NEW A, NEW s \in Seq(A), NEW id, NEW V, <<>> \in V,
         \A u \in V, x \in A : EndsTurn(id, u, x) \in V
  PROVE  \E h : EndsRuns(h, s, id, V)
<1> DEFINE n == Len(s)
           turn(u, m) == EndsTurn(id, u, s[m])
           next == [m \in 1 .. n |-> [u \in V |-> turn(u, m)]]
<1>1. n \in Nat /\ DOMAIN s = 1 .. n /\ \A m \in 1 .. n : s[m] \in A
  OBVIOUS
<1>2. \A m \in 1 .. n : \A u \in V : turn(u, m) \in V
  BY <1>1, Zenon
<1> HIDE DEF turn, n
<1>3. next \in [1 .. n -> [V -> V]]
  BY <1>2
<1> HIDE DEF next
<1>4. PICK f : IsLoop(f, n, V, <<>>, next)
  BY <1>1, <1>3, LoopExists
<1>5. EndsFolds(f, s, id)
  <2> SUFFICES ASSUME NEW T \in SUBSET (1 .. n), T # {} PROVE f[T] = turn(f[T \ {Max(T)}], Max(T))
    BY <1>1, <1>4 DEF EndsFolds, IsLoop, turn
  <2>1. Max(T) \in 1 .. n
    BY <1>1, LastPlace
  <2>2. f[T \ {Max(T)}] \in V /\ f[T] = next[Max(T)][f[T \ {Max(T)}]]
    BY <1>4 DEF IsLoop
  <2> QED
    BY <2>1, <2>2 DEF next
<1>6. PICK r : EndsFolds(r, s, id) /\ EndsOf(s, id) = r[1 .. n]
  <2>1. f \in [SUBSET DOMAIN s -> V]
    BY <1>1, <1>4 DEF IsLoop
  <2>2. EndsUnfolds(s, id)
    BY <1>5, <2>1, EndsUnfold
  <2> QED
    BY <1>1, <2>2, Zenon DEF EndsUnfolds
<1>7. Recursing(r, n, V, <<>>, next)
  <2>1. r[{}] = <<>>
    BY <1>6 DEF EndsFolds
  <2>2. ASSUME NEW T \in SUBSET (1 .. n), T # {}, r[T \ {Max(T)}] \in V
        PROVE  r[T] = next[Max(T)][r[T \ {Max(T)}]]
    <3>1. Max(T) \in 1 .. n
      BY <1>1, <2>2, LastPlace
    <3>2. r[T] = turn(r[T \ {Max(T)}], Max(T))
      BY <1>1, <1>6, <2>2 DEF EndsFolds, turn
    <3> QED
      BY <2>2, <3>1, <3>2 DEF next
  <2> QED
    BY <2>1, <2>2 DEF Recursing
<1>8. PICK h : IsTaken(h, n, V, <<>>, next) /\ h[n] = r[1 .. n]
  BY <1>1, <1>3, <1>7, TakenAlong, SMTT(30)
<1>9. \A m \in 1 .. n : h[m - 1] \in V /\ h[m] \in V /\ h[m] = turn(h[m - 1], m)
  BY <1>8 DEF IsTaken, next
<1>10. EndsRuns(h, s, id, V)
  BY <1>6, <1>8, <1>9, Zenon DEF EndsRuns, IsTaken, turn, n
<1> QED
  BY <1>10

JoinsFolds(f, s, st, old) ==
  \A T \in SUBSET DOMAIN s :
    f[T] = IF T = {} THEN old ELSE Join(st, f[T \ {Max(T)}], s[Max(T)])
JoinsOf(s, st, old) ==
  FoldLeft(LAMBDA found, id : Join(st, found, id), old, s)
JoinsUnfolds(s, st, old) == \E r : JoinsFolds(r, s, st, old) /\ JoinsOf(s, st, old) = r[DOMAIN s]

\* The neighbours joining, as the function of its fold.
LEMMA JoinsUnfold ==
  ASSUME NEW s, NEW st, NEW old, NEW V, NEW f \in [SUBSET DOMAIN s -> V], JoinsFolds(f, s, st, old)
  PROVE  JoinsUnfolds(s, st, old)
<1>1. f = [T \in SUBSET DOMAIN s |-> IF T = {} THEN old ELSE Join(st, f[T \ {Max(T)}], s[Max(T)])]
  BY Zenon DEF JoinsFolds
<1>2. PICK r : /\ r = [T \in SUBSET DOMAIN s |-> IF T = {} THEN old ELSE Join(st, r[T \ {Max(T)}], s[Max(T)])]
               /\ FoldLeft(LAMBDA found, id : Join(st, found, id), old, s) = r[DOMAIN s]
  BY <1>1, ZenonT(60) DEF FoldLeft, MapThenFoldSet
<1>3. JoinsFolds(r, s, st, old)
  BY <1>2, Zenon DEF JoinsFolds
<1> QED
  BY <1>2, <1>3, Zenon DEF JoinsUnfolds, JoinsOf

\* It, turn by turn.
JoinsRuns(h, s, st, old, V) ==
  /\ h[0] = old /\ JoinsOf(s, st, old) = h[Len(s)]
  /\ \A m \in 1 .. Len(s) : h[m - 1] \in V /\ h[m] \in V /\ h[m] = Join(st, h[m - 1], s[m])

\* There is such a run.
LEMMA JoinsRun ==
  ASSUME NEW A, NEW s \in Seq(A), NEW st, NEW old, NEW V, old \in V,
         \A u \in V, x \in A : Join(st, u, x) \in V
  PROVE  \E h : JoinsRuns(h, s, st, old, V)
<1> DEFINE n == Len(s)
           turn(u, m) == Join(st, u, s[m])
           next == [m \in 1 .. n |-> [u \in V |-> turn(u, m)]]
<1>1. n \in Nat /\ DOMAIN s = 1 .. n /\ \A m \in 1 .. n : s[m] \in A
  OBVIOUS
<1>2. \A m \in 1 .. n : \A u \in V : turn(u, m) \in V
  BY <1>1, Zenon
<1> HIDE DEF turn, n
<1>3. next \in [1 .. n -> [V -> V]]
  BY <1>2
<1> HIDE DEF next
<1>4. PICK f : IsLoop(f, n, V, old, next)
  BY <1>1, <1>3, LoopExists
<1>5. JoinsFolds(f, s, st, old)
  <2> SUFFICES ASSUME NEW T \in SUBSET (1 .. n), T # {} PROVE f[T] = turn(f[T \ {Max(T)}], Max(T))
    BY <1>1, <1>4 DEF JoinsFolds, IsLoop, turn
  <2>1. Max(T) \in 1 .. n
    BY <1>1, LastPlace
  <2>2. f[T \ {Max(T)}] \in V /\ f[T] = next[Max(T)][f[T \ {Max(T)}]]
    BY <1>4 DEF IsLoop
  <2> QED
    BY <2>1, <2>2 DEF next
<1>6. PICK r : JoinsFolds(r, s, st, old) /\ JoinsOf(s, st, old) = r[1 .. n]
  <2>1. f \in [SUBSET DOMAIN s -> V]
    BY <1>1, <1>4 DEF IsLoop
  <2>2. JoinsUnfolds(s, st, old)
    BY <1>5, <2>1, JoinsUnfold
  <2> QED
    BY <1>1, <2>2, Zenon DEF JoinsUnfolds
<1>7. Recursing(r, n, V, old, next)
  <2>1. r[{}] = old
    BY <1>6 DEF JoinsFolds
  <2>2. ASSUME NEW T \in SUBSET (1 .. n), T # {}, r[T \ {Max(T)}] \in V
        PROVE  r[T] = next[Max(T)][r[T \ {Max(T)}]]
    <3>1. Max(T) \in 1 .. n
      BY <1>1, <2>2, LastPlace
    <3>2. r[T] = turn(r[T \ {Max(T)}], Max(T))
      BY <1>1, <1>6, <2>2 DEF JoinsFolds, turn
    <3> QED
      BY <2>2, <3>1, <3>2 DEF next
  <2> QED
    BY <2>1, <2>2 DEF Recursing
<1>8. PICK h : IsTaken(h, n, V, old, next) /\ h[n] = r[1 .. n]
  BY <1>1, <1>3, <1>7, TakenAlong, SMTT(30)
<1>9. \A m \in 1 .. n : h[m - 1] \in V /\ h[m] \in V /\ h[m] = turn(h[m - 1], m)
  BY <1>8 DEF IsTaken, next
<1>10. JoinsRuns(h, s, st, old, V)
  BY <1>6, <1>8, <1>9, Zenon DEF JoinsRuns, IsTaken, turn, n
<1> QED
  BY <1>10

VisitsFolds(f, s, g, most, init) ==
  \A T \in SUBSET DOMAIN s :
    f[T] = IF T = {} THEN init ELSE VisitTurn(g, most, f[T \ {Max(T)}])
VisitsOf(s, g, most, init) ==
  FoldLeft(LAMBDA st, n : IF st.next > Len(st.found) THEN st ELSE Visit(g, st, most), init, s)
VisitsUnfolds(s, g, most, init) == \E r : VisitsFolds(r, s, g, most, init) /\ VisitsOf(s, g, most, init) = r[DOMAIN s]

\* The search, as the function of its fold.
LEMMA VisitsUnfold ==
  ASSUME NEW s, NEW g, NEW most, NEW init, NEW V, NEW f \in [SUBSET DOMAIN s -> V], VisitsFolds(f, s, g, most, init)
  PROVE  VisitsUnfolds(s, g, most, init)
<1>1. f = [T \in SUBSET DOMAIN s |-> IF T = {} THEN init ELSE VisitTurn(g, most, f[T \ {Max(T)}])]
  BY Zenon DEF VisitsFolds
<1>2. PICK r : /\ r = [T \in SUBSET DOMAIN s |-> IF T = {} THEN init ELSE VisitTurn(g, most, r[T \ {Max(T)}])]
               /\ FoldLeft(LAMBDA st, n : IF st.next > Len(st.found) THEN st ELSE Visit(g, st, most), init, s) = r[DOMAIN s]
  BY <1>1, ZenonT(60) DEF FoldLeft, MapThenFoldSet, VisitTurn
<1>3. VisitsFolds(r, s, g, most, init)
  BY <1>2, Zenon DEF VisitsFolds
<1> QED
  BY <1>2, <1>3, Zenon DEF VisitsUnfolds, VisitsOf

\* It, turn by turn.
VisitsRuns(h, s, g, most, init, V) ==
  /\ h[0] = init /\ VisitsOf(s, g, most, init) = h[Len(s)]
  /\ \A m \in 1 .. Len(s) : h[m - 1] \in V /\ h[m] \in V /\ h[m] = VisitTurn(g, most, h[m - 1])

\* There is such a run.
LEMMA VisitsRun ==
  ASSUME NEW A, NEW s \in Seq(A), NEW g, NEW most, NEW init, NEW V, init \in V,
         \A u \in V, x \in A : VisitTurn(g, most, u) \in V
  PROVE  \E h : VisitsRuns(h, s, g, most, init, V)
<1> DEFINE n == Len(s)
           turn(u, m) == VisitTurn(g, most, u)
           next == [m \in 1 .. n |-> [u \in V |-> turn(u, m)]]
<1>1. n \in Nat /\ DOMAIN s = 1 .. n /\ \A m \in 1 .. n : s[m] \in A
  OBVIOUS
<1>2. \A m \in 1 .. n : \A u \in V : turn(u, m) \in V
  BY <1>1, Zenon
<1> HIDE DEF turn, n
<1>3. next \in [1 .. n -> [V -> V]]
  BY <1>2
<1> HIDE DEF next
<1>4. PICK f : IsLoop(f, n, V, init, next)
  BY <1>1, <1>3, LoopExists
<1>5. VisitsFolds(f, s, g, most, init)
  <2> SUFFICES ASSUME NEW T \in SUBSET (1 .. n), T # {} PROVE f[T] = turn(f[T \ {Max(T)}], Max(T))
    BY <1>1, <1>4 DEF VisitsFolds, IsLoop, turn
  <2>1. Max(T) \in 1 .. n
    BY <1>1, LastPlace
  <2>2. f[T \ {Max(T)}] \in V /\ f[T] = next[Max(T)][f[T \ {Max(T)}]]
    BY <1>4 DEF IsLoop
  <2> QED
    BY <2>1, <2>2 DEF next
<1>6. PICK r : VisitsFolds(r, s, g, most, init) /\ VisitsOf(s, g, most, init) = r[1 .. n]
  <2>1. f \in [SUBSET DOMAIN s -> V]
    BY <1>1, <1>4 DEF IsLoop
  <2>2. VisitsUnfolds(s, g, most, init)
    BY <1>5, <2>1, VisitsUnfold
  <2> QED
    BY <1>1, <2>2, Zenon DEF VisitsUnfolds
<1>7. Recursing(r, n, V, init, next)
  <2>1. r[{}] = init
    BY <1>6 DEF VisitsFolds
  <2>2. ASSUME NEW T \in SUBSET (1 .. n), T # {}, r[T \ {Max(T)}] \in V
        PROVE  r[T] = next[Max(T)][r[T \ {Max(T)}]]
    <3>1. Max(T) \in 1 .. n
      BY <1>1, <2>2, LastPlace
    <3>2. r[T] = turn(r[T \ {Max(T)}], Max(T))
      BY <1>1, <1>6, <2>2 DEF VisitsFolds, turn
    <3> QED
      BY <2>2, <3>1, <3>2 DEF next
  <2> QED
    BY <2>1, <2>2 DEF Recursing
<1>8. PICK h : IsTaken(h, n, V, init, next) /\ h[n] = r[1 .. n]
  BY <1>1, <1>3, <1>7, TakenAlong, SMTT(30)
<1>9. \A m \in 1 .. n : h[m - 1] \in V /\ h[m] \in V /\ h[m] = turn(h[m - 1], m)
  BY <1>8 DEF IsTaken, next
<1>10. VisitsRuns(h, s, g, most, init, V)
  BY <1>6, <1>8, <1>9, Zenon DEF VisitsRuns, IsTaken, turn, n
<1> QED
  BY <1>10

-----------------------------------------------------------------------------
(* The graph, and one node's search                                        *)

\* A graph as add_node and add_edge build it: each node once, and edges
\* between nodes.
GraphOK(g) == /\ g \in [nodes : Seq(ToSet(g.nodes)), edges : Seq(ToSet(g.nodes) \X ToSet(g.nodes))]
              /\ Distinct(g.nodes)

\* A sequence of one set is one of any that holds it.
LEMMA SeqWiden ==
  ASSUME NEW A, NEW B, A \subseteq B, NEW s \in Seq(A)
  PROVE  s \in Seq(B)
OBVIOUS

\* A node may be added, and an edge with its ends.
LEMMA NodeKeepsGraph ==
  ASSUME NEW g, GraphOK(g), NEW id
  PROVE  /\ GraphOK(WithNode(g, id)) /\ ToSet(WithNode(g, id).nodes) = ToSet(g.nodes) \cup {id}
<1> DEFINE N == ToSet(g.nodes)
           M == N \cup {id}
<1>1. g.nodes \in Seq(N) /\ g.edges \in Seq(N \X N) /\ Distinct(g.nodes) /\ g = [nodes |-> g.nodes, edges |-> g.edges]
  BY DEF GraphOK
<1>2. CASE id \in N
  BY <1>2 DEF WithNode, Known
<1>3. CASE id \notin N
  <2> DEFINE new == Append(g.nodes, id)
  <2>1. WithNode(g, id) = [nodes |-> new, edges |-> g.edges]
    BY <1>1, <1>3 DEF WithNode, Known
  <2>2. g.nodes \in Seq(M) /\ g.edges \in Seq(M \X M) /\ id \in M
    <3>1. N \subseteq M /\ N \X N \subseteq M \X M
      OBVIOUS
    <3> HIDE DEF N, M
    <3>2. g.nodes \in Seq(M) /\ g.edges \in Seq(M \X M)
      BY <1>1, <3>1, SeqWiden
    <3> QED
      BY <3>2 DEF M
  <2>3. new \in Seq(M) /\ ToSet(new) = M /\ Distinct(new)
    <3> HIDE DEF M
    <3>1. new \in Seq(M) /\ ToSet(new) = N \cup {id} /\ Distinct(new)
      BY <1>1, <1>3, <2>2, DistinctAppend
    <3> QED
      BY <3>1 DEF M
  <2> HIDE DEF new, N
  <2>4. WithNode(g, id).nodes = new /\ WithNode(g, id).edges = g.edges
    BY <2>1
  <2> QED
    BY <2>1, <2>2, <2>3, <2>4 DEF GraphOK, N
<1> QED
  BY <1>2, <1>3

\* An edge may be added, and its ends with it.
LEMMA EdgeKeepsGraph ==
  ASSUME NEW g, GraphOK(g), NEW from, NEW to
  PROVE  GraphOK(WithEdge(g, from, to))
<1> DEFINE h == WithNode(WithNode(g, from), to)
           N == ToSet(h.nodes)
           e == <<from, to>>
           new == Append(h.edges, e)
<1>1. GraphOK(WithNode(g, from)) /\ from \in ToSet(WithNode(g, from).nodes)
  <2>1. ToSet(WithNode(g, from).nodes) = ToSet(g.nodes) \cup {from}
    BY NodeKeepsGraph
  <2> QED
    BY <2>1, NodeKeepsGraph
<1>2. GraphOK(h) /\ N = ToSet(WithNode(g, from).nodes) \cup {to}
  BY <1>1, NodeKeepsGraph
<1>3. WithEdge(g, from, to) = [h EXCEPT !.edges = new]
  BY Zenon DEF WithEdge
<1> HIDE DEF h
<1>4. e \in N \X N /\ h.edges \in Seq(N \X N) /\ h \in [nodes : Seq(N), edges : Seq(N \X N)] /\ Distinct(h.nodes)
  <2>1. from \in N /\ to \in N
    BY <1>1, <1>2
  <2> QED
    BY <1>2, <2>1 DEF GraphOK
<1>5. new \in Seq(N \X N)
  <2> HIDE DEF e, N
  <2> QED
    BY <1>4, AppendProperties
<1> HIDE DEF new
<1>6. WithEdge(g, from, to).nodes = h.nodes /\ WithEdge(g, from, to) \in [nodes : Seq(N), edges : Seq(N \X N)]
  <2> HIDE DEF N
  <2> QED
    BY <1>3, <1>4, <1>5
<1> QED
  BY <1>4, <1>6 DEF GraphOK

\* The empty graph is one.
LEMMA NoGraphIsOne == GraphOK(NoGraph)
BY DEF GraphOK, NoGraph, Distinct

\* The ends among the first m edges.
EndsSoFar(u, m, s, id, N) ==
  /\ u \in Seq(N)
  /\ \A y : (\E l \in 1 .. Len(u) : u[l] = y) <=> \E i \in 1 .. m : s[i] = <<id, y>>

\* One more edge.
LEMMA EndsTurnHolds ==
  ASSUME NEW N, NEW s \in Seq(N \X N), NEW id, NEW m \in 1 .. Len(s), NEW u, EndsSoFar(u, m - 1, s, id, N),
         NEW new, new = EndsTurn(id, u, s[m])
  PROVE  EndsSoFar(new, m, s, id, N)
<1> DEFINE a == s[m][1]
           b == s[m][2]
<1>1. s[m] = <<a, b>> /\ b \in N
  <2>1. s[m] \in N \X N
    OBVIOUS
  <2> DEFINE x == s[m]
  <2>2. x \in N \X N => x = <<x[1], x[2]>> /\ x[2] \in N
    <3> HIDE DEF x
    <3> QED
      OBVIOUS
  <2> QED
    BY <2>1, <2>2 DEF x
<1>2. /\ u \in Seq(N) /\ Len(u) \in Nat
      /\ \A y : (\E l \in 1 .. Len(u) : u[l] = y) <=> \E i \in 1 .. m - 1 : s[i] = <<id, y>>
  <2>1. /\ u \in Seq(N)
        /\ \A y : (\E l \in 1 .. Len(u) : u[l] = y) <=> \E i \in 1 .. m - 1 : s[i] = <<id, y>>
    BY Zenon DEF EndsSoFar
  <2>2. Len(u) \in Nat
    BY <2>1, LenProperties
  <2> QED
    BY <2>1, <2>2, Zenon
<1>3. m \in 1 .. m /\ \A i \in 1 .. m : i # m => i \in 1 .. m - 1
  OBVIOUS
<1>4. \A i \in 1 .. m - 1 : i \in 1 .. m
  OBVIOUS
<1>5. new = IF a = id THEN <<b>> \o u ELSE u
  BY DEF EndsTurn
<1> HIDE DEF a, b
<1>6. CASE a = id
  <2>1. /\ new \in Seq(N) /\ Len(new) = Len(u) + 1 /\ new[1] = b
        /\ \A l \in 1 .. Len(u) : new[l + 1] = u[l]
    <3> DEFINE t == <<b>>
    <3>1. t \in Seq(N) /\ Len(t) = 1 /\ t[1] = b
      BY <1>1
    <3> HIDE DEF t
    <3>2. /\ t \o u \in Seq(N) /\ Len(t \o u) = 1 + Len(u)
          /\ \A l \in 1 .. 1 + Len(u) : (t \o u)[l] = IF l <= 1 THEN t[l] ELSE u[l - 1]
      <4>1. /\ t \o u \in Seq(N) /\ Len(t \o u) = Len(t) + Len(u)
            /\ \A l \in 1 .. Len(t) + Len(u) : (t \o u)[l] = IF l <= Len(t) THEN t[l] ELSE u[l - Len(t)]
        BY <1>2, <3>1, ConcatProperties
      <4> QED
        BY <3>1, <4>1
    <3>3. new = t \o u
      BY <1>5, <1>6 DEF t
    <3>4. 1 \in 1 .. 1 + Len(u) /\ 1 + Len(u) = Len(u) + 1
      BY <1>2
    <3>5. ASSUME NEW l \in 1 .. Len(u) PROVE new[l + 1] = u[l]
      <4>1. l + 1 \in 1 .. 1 + Len(u) /\ ~ (l + 1 <= 1) /\ (l + 1) - 1 = l
        BY <1>2
      <4> QED
        BY <3>2, <3>3, <4>1
    <3> QED
      BY <3>1, <3>2, <3>3, <3>4, <3>5
  <2>2. ASSUME NEW y
        PROVE  (\E l \in 1 .. Len(new) : new[l] = y) <=> (y = b \/ \E l \in 1 .. Len(u) : u[l] = y)
    <3>1. ASSUME NEW l \in 1 .. Len(new), new[l] = y PROVE y = b \/ \E k \in 1 .. Len(u) : u[k] = y
      <4>1. CASE l = 1
        BY <2>1, <3>1, <4>1
      <4>2. CASE l # 1
        <5>1. l - 1 \in 1 .. Len(u) /\ (l - 1) + 1 = l
          BY <1>2, <2>1, <4>2
        <5>2. new[l] = u[l - 1]
          BY <2>1, <5>1
        <5> QED
          BY <3>1, <5>1, <5>2
      <4> QED
        BY <4>1, <4>2
    <3>2. 1 \in 1 .. Len(new) /\ \A l \in 1 .. Len(u) : l + 1 \in 1 .. Len(new)
      BY <1>2, <2>1
    <3> QED
      BY <2>1, <3>1, <3>2
  <2>3. ASSUME NEW y PROVE (y = b \/ \E i \in 1 .. m - 1 : s[i] = <<id, y>>) <=> \E i \in 1 .. m : s[i] = <<id, y>>
    <3>1. s[m] = <<id, y>> <=> y = b
      BY <1>1, <1>6
    <3> QED
      BY <1>3, <1>4, <3>1
  <2> QED
    BY <1>2, <2>1, <2>2, <2>3 DEF EndsSoFar
<1>7. CASE a # id
  <2>1. \A y : s[m] # <<id, y>>
    BY <1>1, <1>7
  <2>2. \A y : (\E i \in 1 .. m - 1 : s[i] = <<id, y>>) <=> \E i \in 1 .. m : s[i] = <<id, y>>
    BY <1>3, <1>4, <2>1
  <2> QED
    BY <1>2, <1>5, <1>7, <2>2 DEF EndsSoFar
<1> QED
  BY <1>6, <1>7

AreEnds(ends, id, E, N) ==
  ends \in Seq(N) /\ \A y : (\E l \in 1 .. Len(ends) : ends[l] = y) <=> <<id, y>> \in E

\* The ends of a node's edges are the nodes it has an edge to.
LEMMA TargetsAre ==
  ASSUME NEW N, NEW g, g.edges \in Seq(N \X N), NEW id, NEW ends, ends = Targets(g, id)
  PROVE  AreEnds(ends, id, ToSet(g.edges), N)
<1> DEFINE s == g.edges
           V == Seq(N)
<1>1. <<>> \in V /\ s \in Seq(N \X N) /\ Len(s) \in Nat /\ ToSet(s) = {s[i] : i \in 1 .. Len(s)}
  BY DEF ToSet
<1>2. \A u \in V, x \in N \X N : EndsTurn(id, u, x) \in V
  BY DEF EndsTurn
<1>3. ends = EndsOf(s, id)
  BY Zenon DEF Targets, EndsOf
<1> HIDE DEF s, V
<1>4. PICK h : EndsRuns(h, s, id, V)
  BY <1>1, <1>2, EndsRun
<1> DEFINE P == {m \in 0 .. Len(s) : EndsSoFar(h[m], m, s, id, N)}
<1>5. 0 \in P
  <2>1. h[0] = <<>>
    BY <1>4 DEF EndsRuns
  <2>2. EndsSoFar(<<>>, 0, s, id, N)
    <3>1. \A y : ~ (\E l \in 1 .. Len(<<>>) : <<>>[l] = y) /\ ~ \E i \in 1 .. 0 : s[i] = <<id, y>>
      OBVIOUS
    <3> QED
      BY <1>1, <3>1 DEF EndsSoFar, V
  <2>3. 0 \in 0 .. Len(s)
    BY <1>1
  <2> QED
    BY <2>1, <2>2, <2>3
<1>6. ASSUME NEW m \in 1 .. Len(s), m - 1 \in P PROVE m \in P
  <2> DEFINE u == h[m - 1]
             new == h[m]
  <2>1. new = EndsTurn(id, u, s[m]) /\ EndsSoFar(u, m - 1, s, id, N) /\ m \in 0 .. Len(s)
    BY <1>1, <1>4, <1>6 DEF EndsRuns
  <2> HIDE DEF u, new
  <2>2. EndsSoFar(new, m, s, id, N)
    BY <1>1, <2>1, EndsTurnHolds
  <2> QED
    BY <2>1, <2>2 DEF new
<1>7. Len(s) \in P
  <2> HIDE DEF P
  <2> QED
    BY <1>1, <1>5, <1>6, PrefixInduction
<1>8. EndsSoFar(ends, Len(s), s, id, N)
  BY <1>3, <1>4, <1>7 DEF EndsRuns
<1>9. \A y : (\E i \in 1 .. Len(s) : s[i] = <<id, y>>) <=> <<id, y>> \in ToSet(s)
  BY <1>1
<1> QED
  BY <1>8, <1>9, Zenon DEF EndsSoFar, AreEnds, s

----------------------------------------------------------------------------

NodesFound(N) == [id : N, from : Nat, dist : Nat]
OneEach(f) == \A i, k \in 1 .. Len(f) : f[i].id = f[k].id => i = k

\* The first m of some nodes joined those found before.
JoinedTo(new, old, m, s, from, dist, N) ==
  /\ new \in Seq(NodesFound(N)) /\ Len(old) <= Len(new) /\ OneEach(new)
  /\ \A i \in 1 .. Len(old) : new[i] = old[i]
  /\ \A i \in 1 .. Len(new) :
       i > Len(old) => new[i].from = from /\ new[i].dist = dist /\ \E l \in 1 .. m : new[i].id = s[l]
  /\ \A l \in 1 .. m : \E i \in 1 .. Len(new) : new[i].id = s[l]

\* One more joins.
LEMMA JoinKeeps ==
  ASSUME NEW N, NEW s \in Seq(N), NEW st, NEW from \in Nat, st.next = from, NEW dist \in Nat,
         st.found[from].dist + 1 = dist, NEW old \in Seq(NodesFound(N)),
         NEW m \in 1 .. Len(s), NEW u, JoinedTo(u, old, m - 1, s, from, dist, N),
         NEW new, new = Join(st, u, s[m])
  PROVE  JoinedTo(new, old, m, s, from, dist, N)
<1> DEFINE n == Len(u)
           x == Found(s[m], from, dist)
<1>1. /\ u \in Seq(NodesFound(N)) /\ Len(old) <= n /\ OneEach(u)
      /\ \A i \in 1 .. Len(old) : u[i] = old[i]
      /\ \A i \in 1 .. n : i > Len(old) => u[i].from = from /\ u[i].dist = dist /\ \E l \in 1 .. m - 1 : u[i].id = s[l]
      /\ \A l \in 1 .. m - 1 : \E i \in 1 .. n : u[i].id = s[l]
  BY DEF JoinedTo
<1>2. n \in Nat /\ DOMAIN u = 1 .. n /\ Len(old) \in Nat /\ s[m] \in N
  BY <1>1
<1>3. m \in 1 .. m /\ (\A i \in 1 .. m : i # m => i \in 1 .. m - 1) /\ \A i \in 1 .. m - 1 : i \in 1 .. m
  OBVIOUS
<1>4. new = IF \E i \in 1 .. n : u[i].id = s[m] THEN u ELSE Append(u, x)
  BY <1>2 DEF Join, Seen
<1>5. CASE \E i \in 1 .. n : u[i].id = s[m]
  <2>1. new = u
    BY <1>4, <1>5
  <2>2. \A l \in 1 .. m : \E i \in 1 .. n : u[i].id = s[l]
    BY <1>1, <1>3, <1>5
  <2>3. \A i \in 1 .. n : i > Len(old) => u[i].from = from /\ u[i].dist = dist /\ \E l \in 1 .. m : u[i].id = s[l]
    BY <1>1, <1>3
  <2> QED
    BY <1>1, <2>1, <2>2, <2>3 DEF JoinedTo
<1>6. CASE ~ \E i \in 1 .. n : u[i].id = s[m]
  <2>1. new = Append(u, x)
    BY <1>4, <1>6
  <2>2. x \in NodesFound(N) /\ x.id = s[m] /\ x.from = from /\ x.dist = dist
    BY <1>2 DEF Found, NodesFound
  <2> HIDE DEF x
  <2>3. /\ new \in Seq(NodesFound(N)) /\ Len(new) = n + 1 /\ new[n + 1] = x
        /\ \A i \in 1 .. n : new[i] = u[i]
    BY <1>1, <2>1, <2>2, AppendProperties
  <2>4. \A i \in 1 .. n + 1 : i # n + 1 => i \in 1 .. n
    BY <1>2
  <2>5. \A i \in 1 .. n : new[i].id # s[m] /\ i \in 1 .. n + 1
    BY <1>2, <1>6, <2>3
  <2>6. OneEach(new)
    <3> SUFFICES ASSUME NEW i \in 1 .. n + 1, NEW k \in 1 .. n + 1, new[i].id = new[k].id PROVE i = k
      BY <2>3 DEF OneEach
    <3>1. CASE i = n + 1
      BY <2>2, <2>3, <2>4, <2>5, <3>1
    <3>2. CASE k = n + 1
      BY <2>2, <2>3, <2>4, <2>5, <3>2
    <3>3. CASE i # n + 1 /\ k # n + 1
      <4>1. i \in 1 .. n /\ k \in 1 .. n
        BY <2>4, <3>3
      <4>2. u[i].id = u[k].id
        BY <2>3, <4>1
      <4> QED
        BY <1>1, <4>1, <4>2 DEF OneEach
    <3> QED
      BY <3>1, <3>2, <3>3
  <2>7. ASSUME NEW i \in 1 .. n + 1, i > Len(old)
        PROVE  new[i].from = from /\ new[i].dist = dist /\ \E l \in 1 .. m : new[i].id = s[l]
    <3>1. CASE i = n + 1
      BY <1>3, <2>2, <2>3, <3>1
    <3>2. CASE i # n + 1
      <4>1. i \in 1 .. n /\ new[i] = u[i]
        BY <2>3, <2>4, <3>2
      <4>2. u[i].from = from /\ u[i].dist = dist /\ \E l \in 1 .. m - 1 : u[i].id = s[l]
        BY <1>1, <2>7, <4>1
      <4> QED
        BY <1>3, <4>1, <4>2
    <3> QED
      BY <3>1, <3>2
  <2>8. ASSUME NEW l \in 1 .. m PROVE \E i \in 1 .. n + 1 : new[i].id = s[l]
    <3>1. CASE l = m
      <4>1. n + 1 \in 1 .. n + 1
        BY <1>2
      <4> QED
        BY <2>2, <2>3, <3>1, <4>1
    <3>2. CASE l # m
      <4>1. PICK i \in 1 .. n : u[i].id = s[l]
        BY <1>1, <1>3, <3>2
      <4> QED
        BY <2>3, <2>5, <4>1
    <3> QED
      BY <3>1, <3>2
  <2>9. Len(old) <= Len(new) /\ \A i \in 1 .. Len(old) : new[i] = old[i]
    <3>1. \A i \in 1 .. Len(old) : i \in 1 .. n
      BY <1>1, <1>2
    <3> QED
      BY <1>1, <1>2, <2>3, <3>1
  <2> QED
    BY <2>3, <2>6, <2>7, <2>8, <2>9 DEF JoinedTo
<1> QED
  BY <1>5, <1>6

\* All of them join.
LEMMA JoinsHold ==
  ASSUME NEW N, NEW s \in Seq(N), NEW st, NEW from \in Nat, st.next = from, NEW dist \in Nat,
         st.found[from].dist + 1 = dist, NEW old \in Seq(NodesFound(N)), OneEach(old),
         NEW new, new = JoinsOf(s, st, old)
  PROVE  JoinedTo(new, old, Len(s), s, from, dist, N)
<1> DEFINE V == Seq(NodesFound(N))
<1>1. \A u \in V, x \in N : Join(st, u, x) \in V
  <2> SUFFICES ASSUME NEW u \in V, NEW x \in N PROVE Join(st, u, x) \in V
    OBVIOUS
  <2>1. Found(x, from, dist) \in NodesFound(N)
    BY DEF Found, NodesFound
  <2>2. Join(st, u, x) = u \/ Join(st, u, x) = Append(u, Found(x, from, dist))
    BY DEF Join
  <2> DEFINE R == NodesFound(N)
             f == Found(x, from, dist)
  <2>3. f \in R /\ u \in Seq(R) /\ V = Seq(R)
    BY <2>1
  <2> HIDE DEF R, f, V
  <2>4. Append(u, f) \in Seq(R)
    BY <2>3, AppendProperties
  <2> QED
    BY <2>2, <2>3, <2>4, Zenon DEF f
<1>2. old \in V
  OBVIOUS
<1> HIDE DEF V
<1>3. PICK h : JoinsRuns(h, s, st, old, V)
  BY <1>1, <1>2, JoinsRun
<1> DEFINE P == {m \in 0 .. Len(s) : JoinedTo(h[m], old, m, s, from, dist, N)}
<1>4. Len(s) \in Nat /\ 0 \in P
  <2>1. h[0] = old /\ Len(s) \in Nat /\ Len(old) \in Nat
    BY <1>3 DEF JoinsRuns
  <2>2. \A i \in 1 .. Len(old) : ~ (i > Len(old))
    BY <2>1
  <2>3. JoinedTo(old, old, 0, s, from, dist, N)
    BY <2>1, <2>2 DEF JoinedTo
  <2> QED
    BY <2>1, <2>3
<1>5. ASSUME NEW m \in 1 .. Len(s), m - 1 \in P PROVE m \in P
  <2> DEFINE u == h[m - 1]
             v == h[m]
  <2>1. v = Join(st, u, s[m]) /\ JoinedTo(u, old, m - 1, s, from, dist, N) /\ m \in 0 .. Len(s)
    BY <1>3, <1>4, <1>5 DEF JoinsRuns
  <2> HIDE DEF u, v
  <2>2. JoinedTo(v, old, m, s, from, dist, N)
    BY <2>1, JoinKeeps
  <2> QED
    BY <2>1, <2>2 DEF v
<1>6. Len(s) \in P
  <2> HIDE DEF P
  <2> QED
    BY <1>4, <1>5, PrefixInduction
<1> QED
  BY <1>3, <1>6 DEF JoinsRuns

\* The parts of what holds all through a search: where it began, that each
\* node was found from an earlier one along an edge, nearest first and none too
\* far, that the queue spans two distances, and that the ends of what was
\* visited are found.
IsBegun(f, start, N) ==
  f \in Seq(NodesFound(N)) /\ Len(f) >= 1 /\ f[1] = Found(start, 0, 0) /\ OneEach(f)
IsReached(f, E) ==
  \A i \in 1 .. Len(f) : i > 1 =>
    /\ f[i].from \in 1 .. Len(f) /\ f[i].from < i /\ f[i].dist = f[f[i].from].dist + 1
    /\ <<f[f[i].from].id, f[i].id>> \in E
IsNearFirst(f, most) ==
  /\ \A i, k \in 1 .. Len(f) : i <= k => f[i].dist <= f[k].dist
  /\ \A i \in 1 .. Len(f) : f[i].dist <= most
IsNarrow(f, next) == next <= Len(f) => f[Len(f)].dist <= f[next].dist + 1
IsClosed(f, upto, E, most) ==
  \A i \in 1 .. upto : f[i].dist < most =>
    \A y : <<f[i].id, y>> \in E => \E k \in 1 .. Len(f) : f[k].id = y /\ f[k].dist <= f[i].dist + 1

Searching(g, start, most, st) ==
  /\ IsBegun(st.found, start, ToSet(g.nodes)) /\ IsReached(st.found, ToSet(g.edges))
  /\ st.next \in 1 .. Len(st.found) + 1 /\ IsNearFirst(st.found, most) /\ IsNarrow(st.found, st.next)
  /\ IsClosed(st.found, st.next - 1, ToSet(g.edges), most)

\* A place no earlier than those before.
LEMMA EarlierPlaces ==
  ASSUME NEW n \in Nat, NEW next \in 1 .. n
  PROVE  /\ next + 1 \in 1 .. n + 1 /\ next - 1 \in Nat /\ (next + 1) - 1 = next
         /\ \A i \in 1 .. next : i # next => i \in 1 .. next - 1
         /\ \A i \in 1 .. next : i \in 1 .. n
OBVIOUS

\* What is found has an id, a place it was found from and a distance.
LEMMA FoundParts ==
  ASSUME NEW N, NEW f \in Seq(NodesFound(N))
  PROVE  /\ Len(f) \in Nat /\ DOMAIN f = 1 .. Len(f)
         /\ \A i \in 1 .. Len(f) : f[i].id \in N /\ f[i].from \in Nat /\ f[i].dist \in Nat
<1>1. \A i \in 1 .. Len(f) : f[i] \in NodesFound(N)
  BY ElementOfSeq
<1>2. \A x \in NodesFound(N) : x.id \in N /\ x.from \in Nat /\ x.dist \in Nat
  BY DEF NodesFound
<1>3. Len(f) \in Nat /\ DOMAIN f = 1 .. Len(f)
  BY LenProperties
<1> QED
  BY <1>1, <1>2, <1>3, Zenon

\* A node as far off as one may go is left.
LEMMA LeavingKeepsSearch ==
  ASSUME NEW g, NEW start, NEW most \in Nat, NEW st, Searching(g, start, most, st), st.next <= Len(st.found),
         st.found[st.next].dist = most, NEW new, new = Visit(g, st, most)
  PROVE  Searching(g, start, most, new) /\ new.next = st.next + 1
<1> DEFINE f == st.found
           n == Len(f)
           next == st.next
           N == ToSet(g.nodes)
           E == ToSet(g.edges)
<1>1. /\ IsBegun(f, start, N) /\ IsReached(f, E) /\ next \in 1 .. n + 1
      /\ IsNearFirst(f, most) /\ IsClosed(f, next - 1, E, most)
  BY Zenon DEF Searching
<1>2. new = [next |-> next + 1, found |-> f]
  BY DEF Visit
<1>3. f \in Seq(NodesFound(N)) /\ n \in Nat /\ next \in 1 .. n
  <2>1. f \in Seq(NodesFound(N))
    BY <1>1 DEF IsBegun
  <2>2. n \in Nat
    BY <2>1, LenProperties
  <2>3. next <= n
    OBVIOUS
  <2> HIDE DEF n, next
  <2> QED
    BY <1>1, <2>1, <2>2, <2>3
<1>4. f[next].dist = most
  OBVIOUS
<1> HIDE DEF f, n, next
<1>5. new.next = next + 1 /\ new.found = f
  BY <1>2
<1>6. /\ next + 1 \in 1 .. n + 1 /\ (next + 1) - 1 = next
      /\ \A i \in 1 .. next : (i # next => i \in 1 .. next - 1) /\ i \in 1 .. n
  BY <1>3, EarlierPlaces
<1>7. IsNarrow(f, next + 1)
  <2> SUFFICES ASSUME next + 1 <= n PROVE f[n].dist <= f[next + 1].dist + 1
    BY DEF IsNarrow, n
  <2>1. n \in 1 .. n /\ next + 1 \in 1 .. n /\ next <= next + 1
    BY <1>3
  <2>2. f[n].dist <= most /\ f[next].dist <= f[next + 1].dist
    BY <1>1, <1>3, <2>1 DEF IsNearFirst, n
  <2>3. f[n].dist \in Nat /\ f[next + 1].dist \in Nat
    BY <1>3, <2>1, FoundParts DEF n
  <2> QED
    BY <1>4, <2>2, <2>3
<1>8. IsClosed(f, next, E, most)
  <2> SUFFICES ASSUME NEW i \in 1 .. next, f[i].dist < most, NEW y, <<f[i].id, y>> \in E
               PROVE  \E k \in 1 .. Len(f) : f[k].id = y /\ f[k].dist <= f[i].dist + 1
    BY DEF IsClosed
  <2>1. i # next
    BY <1>4
  <2>2. i \in 1 .. next - 1
    BY <1>6, <2>1
  <2> QED
    BY <1>1, <2>2 DEF IsClosed
<1> QED
  BY <1>1, <1>5, <1>6, <1>7, <1>8 DEF Searching, n, next, f

\* The ends of the next node join, one farther off than it.
LEMMA JoiningKeepsSearch ==
  ASSUME NEW N, NEW E, NEW start, NEW most \in Nat, NEW f, NEW next,
         IsBegun(f, start, N), IsReached(f, E), IsNearFirst(f, most), IsNarrow(f, next),
         IsClosed(f, next - 1, E, most), next \in 1 .. Len(f), f[next].dist # most,
         NEW s, AreEnds(s, f[next].id, E, N),
         NEW new, JoinedTo(new, f, Len(s), s, next, f[next].dist + 1, N)
  PROVE  /\ IsBegun(new, start, N) /\ IsReached(new, E) /\ IsNearFirst(new, most) /\ IsNarrow(new, next + 1)
         /\ IsClosed(new, next, E, most) /\ next + 1 \in 1 .. Len(new) + 1
<1> DEFINE n == Len(f)
           m == Len(new)
           d == f[next].dist
<1>1. /\ f \in Seq(NodesFound(N)) /\ n \in Nat /\ n >= 1 /\ next \in 1 .. n /\ f[1] = Found(start, 0, 0)
      /\ \A i \in 1 .. n : f[i].dist \in Nat /\ f[i].from \in Nat
  <2>1. f \in Seq(NodesFound(N)) /\ n >= 1 /\ f[1] = Found(start, 0, 0)
    BY Zenon DEF IsBegun
  <2>2. n \in Nat /\ \A i \in 1 .. n : f[i].dist \in Nat /\ f[i].from \in Nat
    BY <2>1, FoundParts
  <2> QED
    BY <2>1, <2>2
<1>2. /\ new \in Seq(NodesFound(N)) /\ n <= m /\ OneEach(new)
      /\ \A i \in 1 .. n : new[i] = f[i]
      /\ \A i \in 1 .. m : i > n => new[i].from = next /\ new[i].dist = d + 1 /\ \E l \in 1 .. Len(s) : new[i].id = s[l]
      /\ \A l \in 1 .. Len(s) : \E i \in 1 .. m : new[i].id = s[l]
  BY Zenon DEF JoinedTo
<1>3. /\ m \in Nat /\ m >= 1 /\ d \in Nat /\ (\A i \in 1 .. m : ~ (i > n) => i \in 1 .. n)
      /\ (\A i \in 1 .. n : i \in 1 .. m) /\ \A i \in 1 .. m : new[i].dist \in Nat
  <2>1. m \in Nat /\ \A i \in 1 .. m : new[i].dist \in Nat
    BY <1>2, FoundParts
  <2>2. d \in Nat
    BY <1>1
  <2> HIDE DEF n, m, d
  <2> QED
    BY <1>1, <1>2, <2>1, <2>2
<1>4. /\ (\A i, k \in 1 .. n : i <= k => f[i].dist <= f[k].dist) /\ \A i \in 1 .. n : f[i].dist <= most
  BY DEF IsNearFirst
<1>5. d <= most /\ d # most /\ f[n].dist <= d + 1 /\ n \in 1 .. n
  BY <1>1, <1>4 DEF IsNarrow
<1>6. \A y : (\E l \in 1 .. Len(s) : s[l] = y) <=> <<f[next].id, y>> \in E
  BY Zenon DEF AreEnds
<1>7. \A i \in 1 .. n : i > 1 =>
        /\ f[i].from \in 1 .. n /\ f[i].from < i /\ f[i].dist = f[f[i].from].dist + 1
        /\ <<f[f[i].from].id, f[i].id>> \in E
  BY Zenon DEF IsReached
<1>8. \A i \in 1 .. next - 1 : f[i].dist < most =>
        \A y : <<f[i].id, y>> \in E => \E k \in 1 .. n : f[k].id = y /\ f[k].dist <= f[i].dist + 1
  BY Zenon DEF IsClosed
<1> HIDE DEF n, m, d
<1>9. f[next].dist = d
  BY DEF d
<1>10. \A i \in 1 .. m : new[i].dist <= d + 1 /\ (i > n => new[i].dist = d + 1)
  <2> SUFFICES ASSUME NEW i \in 1 .. m PROVE new[i].dist <= d + 1 /\ (i > n => new[i].dist = d + 1)
    OBVIOUS
  <2>1. CASE i > n
    <3>1. new[i].dist = d + 1
      BY <1>2, <2>1
    <3> QED
      BY <1>3, <3>1
  <2>2. CASE ~ (i > n)
    <3>1. i \in 1 .. n /\ i <= n
      BY <1>1, <1>3, <2>2
    <3>2. new[i] = f[i] /\ f[i].dist <= f[n].dist /\ f[i].dist \in Nat /\ f[n].dist \in Nat
      BY <1>1, <1>2, <1>4, <1>5, <3>1
    <3> QED
      BY <1>3, <1>5, <2>2, <3>2
  <2> QED
    BY <2>1, <2>2
<1>11. IsBegun(new, start, N)
  <2>1. 1 \in 1 .. n
    BY <1>1
  <2> QED
    BY <1>1, <1>2, <1>3, <2>1 DEF IsBegun, m
<1>12. IsReached(new, E)
  <2> SUFFICES ASSUME NEW i \in 1 .. m, i > 1
               PROVE  /\ new[i].from \in 1 .. m /\ new[i].from < i /\ new[i].dist = new[new[i].from].dist + 1
                      /\ <<new[new[i].from].id, new[i].id>> \in E
    BY Zenon DEF IsReached, m
  <2>1. CASE i > n
    <3>1. new[i].from = next /\ new[i].dist = d + 1 /\ \E l \in 1 .. Len(s) : new[i].id = s[l]
      BY <1>2, <2>1
    <3>2. new[next] = f[next] /\ next \in 1 .. m /\ next < i
      BY <1>1, <1>2, <1>3, <2>1
    <3>3. <<f[next].id, new[i].id>> \in E
      BY <1>6, <3>1
    <3> QED
      BY <1>9, <3>1, <3>2, <3>3
  <2>2. CASE ~ (i > n)
    <3>1. i \in 1 .. n /\ new[i] = f[i]
      BY <1>2, <1>3, <2>2
    <3>2. /\ f[i].from \in 1 .. n /\ f[i].from < i /\ f[i].dist = f[f[i].from].dist + 1
          /\ <<f[f[i].from].id, f[i].id>> \in E
      BY <1>7, <3>1
    <3>3. new[f[i].from] = f[f[i].from] /\ f[i].from \in 1 .. m
      BY <1>2, <1>3, <3>2
    <3> QED
      BY <3>1, <3>2, <3>3
  <2> QED
    BY <2>1, <2>2
<1>13. IsNearFirst(new, most)
  <2>1. ASSUME NEW i \in 1 .. m, NEW k \in 1 .. m, i <= k PROVE new[i].dist <= new[k].dist
    <3>1. CASE k > n
      BY <1>10, <3>1
    <3>2. CASE ~ (k > n)
      <4>1. k \in 1 .. n /\ i \in 1 .. n
        BY <1>1, <1>3, <2>1, <3>2
      <4> QED
        BY <1>2, <1>4, <2>1, <4>1
    <3> QED
      BY <3>1, <3>2
  <2>2. ASSUME NEW i \in 1 .. m PROVE new[i].dist <= most
    <3>1. new[i].dist <= d + 1 /\ new[i].dist \in Nat
      BY <1>3, <1>10
    <3> QED
      BY <1>3, <1>5, <3>1
  <2> QED
    BY <2>1, <2>2 DEF IsNearFirst, m
<1>14. IsNarrow(new, next + 1)
  <2> SUFFICES ASSUME next + 1 <= m PROVE new[m].dist <= new[next + 1].dist + 1
    BY DEF IsNarrow, m
  <2>1. next \in 1 .. m /\ next + 1 \in 1 .. m /\ m \in 1 .. m /\ next <= next + 1
    BY <1>1, <1>3
  <2>2. new[next].dist <= new[next + 1].dist /\ new[next] = f[next] /\ new[m].dist <= d + 1
    BY <1>1, <1>2, <1>10, <1>13, <2>1 DEF IsNearFirst, m
  <2>3. new[m].dist \in Nat /\ new[next + 1].dist \in Nat
    BY <1>3, <2>1
  <2> QED
    BY <1>3, <1>9, <2>2, <2>3
<1>15. IsClosed(new, next, E, most)
  <2> SUFFICES ASSUME NEW i \in 1 .. next, new[i].dist < most, NEW y, <<new[i].id, y>> \in E
               PROVE  \E k \in 1 .. m : new[k].id = y /\ new[k].dist <= new[i].dist + 1
    BY Zenon DEF IsClosed, m
  <2>1. i \in 1 .. n /\ (i # next => i \in 1 .. next - 1)
    BY <1>1
  <2>2. new[i] = f[i]
    BY <1>2, <2>1
  <2>3. CASE i = next
    <3>1. PICK l \in 1 .. Len(s) : s[l] = y
      BY <1>6, <2>2, <2>3
    <3>2. PICK k \in 1 .. m : new[k].id = s[l]
      BY <1>2
    <3>3. new[k].dist <= d + 1
      BY <1>10
    <3> QED
      BY <1>9, <2>2, <2>3, <3>1, <3>2, <3>3
  <2>4. CASE i # next
    <3>1. i \in 1 .. next - 1 /\ f[i].dist < most /\ <<f[i].id, y>> \in E
      BY <2>1, <2>2, <2>4
    <3>2. PICK k \in 1 .. n : f[k].id = y /\ f[k].dist <= f[i].dist + 1
      BY <1>8, <3>1
    <3>3. new[k] = f[k] /\ k \in 1 .. m
      BY <1>2, <1>3
    <3> QED
      BY <2>2, <3>2, <3>3
  <2> QED
    BY <2>3, <2>4
<1>16. next + 1 \in 1 .. Len(new) + 1
  BY <1>1, <1>2, <1>3 DEF m
<1> QED
  BY <1>11, <1>12, <1>13, <1>14, <1>15, <1>16

\* A turn of the search.
LEMMA VisitKeepsSearch ==
  ASSUME NEW g, GraphOK(g), NEW start, NEW most \in Nat, NEW st, Searching(g, start, most, st),
         st.next <= Len(st.found), NEW new, new = Visit(g, st, most)
  PROVE  Searching(g, start, most, new) /\ new.next = st.next + 1
<1> DEFINE f == st.found
           next == st.next
           N == ToSet(g.nodes)
           E == ToSet(g.edges)
           s == Targets(g, f[next].id)
           found == JoinsOf(s, st, f)
<1>1. CASE f[next].dist = most
  BY <1>1, LeavingKeepsSearch
<1>2. CASE f[next].dist # most
  <2>1. /\ IsBegun(f, start, N) /\ IsReached(f, E) /\ next \in 1 .. Len(f) + 1
        /\ IsNearFirst(f, most) /\ IsNarrow(f, next) /\ IsClosed(f, next - 1, E, most) /\ next <= Len(f)
    BY Zenon DEF Searching
  <2>2. f \in Seq(NodesFound(N)) /\ OneEach(f)
    BY <2>1 DEF IsBegun
  <2>3. Len(f) \in Nat
    BY <2>2, LenProperties
  <2> HIDE DEF f, next
  <2>4. next \in 1 .. Len(f) /\ next \in Nat
    BY <2>1, <2>3
  <2>5. f[next].dist \in Nat /\ f[next].id \in N /\ f[next].dist + 1 \in Nat
    <3>1. f[next] \in NodesFound(N)
      BY <2>2, <2>4, ElementOfSeq
    <3> QED
      BY <3>1 DEF NodesFound
  <2>6. AreEnds(s, f[next].id, E, N) /\ s \in Seq(N)
    <3>1. g.edges \in Seq(N \X N)
      BY DEF GraphOK
    <3> DEFINE id == f[next].id
    <3>2. s = Targets(g, id) /\ E = ToSet(g.edges)
      OBVIOUS
    <3> HIDE DEF N, s, id, E
    <3>3. AreEnds(s, id, E, N)
      BY <3>1, <3>2, TargetsAre
    <3> QED
      BY <3>3, Zenon DEF id, AreEnds
  <2>7. new = [next |-> next + 1, found |-> found]
    <3>1. found = FoldLeft(LAMBDA u, id : Join(st, u, id), f, s)
      BY Zenon DEF JoinsOf
    <3> HIDE DEF found
    <3>2. new = [next |-> next + 1, found |-> FoldLeft(LAMBDA u, id : Join(st, u, id), f, s)]
      BY <1>2, Zenon DEF Visit, f, next, s
    <3> QED
      BY <3>1, <3>2
  <2>8. JoinedTo(found, f, Len(s), s, next, f[next].dist + 1, N)
    <3>1. st.next = next /\ st.found[next].dist + 1 = f[next].dist + 1
      BY DEF f, next
    <3> HIDE DEF s, N
    <3> QED
      BY <2>2, <2>4, <2>5, <2>6, <3>1, JoinsHold
  <2> HIDE DEF s, found, N, E
  <2>9. /\ IsBegun(found, start, N) /\ IsReached(found, E) /\ IsNearFirst(found, most) /\ IsNarrow(found, next + 1)
        /\ IsClosed(found, next, E, most) /\ next + 1 \in 1 .. Len(found) + 1
    BY <1>2, <2>1, <2>4, <2>6, <2>8, JoiningKeepsSearch
  <2>10. new.next = next + 1 /\ new.found = found /\ (next + 1) - 1 = next
    BY <2>4, <2>7
  <2> QED
    BY <2>9, <2>10 DEF Searching, N, E, next
<1> QED
  BY <1>1, <1>2

\* What a search leaves: all that it says of the way, to the end of the queue.
IsSearch(f, g, start, most) ==
  /\ IsBegun(f, start, ToSet(g.nodes)) /\ IsReached(f, ToSet(g.edges)) /\ IsNearFirst(f, most)
  /\ IsClosed(f, Len(f), ToSet(g.edges), most)

\* No more are found than there are nodes.
LEMMA FoundAreNodes ==
  ASSUME NEW g, GraphOK(g), NEW f \in Seq(NodesFound(ToSet(g.nodes))), OneEach(f)
  PROVE  Len(f) <= Len(g.nodes) /\ Len(g.nodes) \in Nat
<1> DEFINE N == ToSet(g.nodes)
           n == Len(f)
           ids == [i \in 1 .. n |-> f[i].id]
<1>1. g.nodes \in Seq(N) /\ Distinct(g.nodes)
  BY DEF GraphOK
<1>2. IsFiniteSet(N) /\ Cardinality(N) = Len(g.nodes)
  BY <1>1, DistinctSize
<1>3. n \in Nat /\ \A i \in 1 .. n : f[i].id \in N
  BY FoundParts
<1> HIDE DEF N, n
<1>4. ids \in Injection(1 .. n, N)
  <2>1. ids \in [1 .. n -> N]
    BY <1>3
  <2>2. \A i, k \in 1 .. n : ids[i] = ids[k] => i = k
    BY DEF OneEach, n
  <2> HIDE DEF ids
  <2> QED
    BY <2>1, <2>2, Zenon DEF Injection, IsInjective
<1>5. IsFiniteSet(1 .. n) /\ Cardinality(1 .. n) = n
  <2>1. IsFiniteSet(1 .. n) /\ Cardinality(1 .. n) = IF 1 > n THEN 0 ELSE n - 1 + 1
    <3>1. 1 \in Int /\ n \in Int
      BY <1>3
    <3> QED
      BY <3>1, FS_Interval, Zenon
  <2> QED
    BY <1>3, <2>1
<1>6. Cardinality(1 .. n) <= Cardinality(N)
  <2>1. Injection(1 .. n, N) # {}
    BY <1>4
  <2> QED
    BY <1>2, <1>4, <1>5, FS_Injection
<1>7. Len(g.nodes) \in Nat
  BY <1>1, LenProperties
<1> QED
  BY <1>2, <1>5, <1>6, <1>7 DEF n

\* The search begins.
LEMMA SearchBegins ==
  ASSUME NEW g, NEW start \in ToSet(g.nodes), NEW most \in Nat,
         NEW init, init = [next |-> 1, found |-> <<Found(start, 0, 0)>>]
  PROVE  Searching(g, start, most, init)
<1> DEFINE x == Found(start, 0, 0)
           f == <<x>>
           N == ToSet(g.nodes)
<1>1. x \in NodesFound(N) /\ x.dist = 0
  BY DEF Found, NodesFound
<1>2. init.next = 1 /\ init.found = f
  OBVIOUS
<1> HIDE DEF x
<1>3. f \in Seq(NodesFound(N)) /\ Len(f) = 1 /\ f[1] = x
  BY <1>1
<1> HIDE DEF f
<1>4. 1 .. 1 = {1} /\ 1 - 1 = 0 /\ 1 .. 0 = {} /\ 1 >= 1 /\ 1 \in 1 .. 1 + 1 /\ ~ (1 > 1)
  OBVIOUS
<1>5. IsBegun(f, start, N)
  BY <1>3, <1>4 DEF IsBegun, OneEach, x
<1>6. IsReached(f, ToSet(g.edges))
  BY <1>3, <1>4 DEF IsReached
<1>7. IsNearFirst(f, most) /\ IsNarrow(f, 1)
  BY <1>1, <1>3, <1>4 DEF IsNearFirst, IsNarrow
<1>8. IsClosed(f, 0, ToSet(g.edges), most)
  BY <1>4 DEF IsClosed
<1> QED
  BY <1>2, <1>3, <1>4, <1>5, <1>6, <1>7, <1>8 DEF Searching

\* The search ends, since every turn visits a node.
LEMMA BfsIs ==
  ASSUME NEW g, GraphOK(g), NEW start \in ToSet(g.nodes), NEW most \in Nat, NEW f, f = Bfs(g, start, most)
  PROVE  IsSearch(f, g, start, most)
<1> DEFINE s == g.nodes
           N == ToSet(g.nodes)
           init == [next |-> 1, found |-> <<Found(start, 0, 0)>>]
           States == [next : Nat, found : Seq(NodesFound(N))]
           V == {st \in States : Searching(g, start, most, st)}
           len == Len(s)
<1>1. \A st : Searching(g, start, most, st) =>
        st.found \in Seq(NodesFound(N)) /\ OneEach(st.found) /\ Len(st.found) \in Nat /\ st.next \in 1 .. Len(st.found) + 1
  <2> SUFFICES ASSUME NEW st, Searching(g, start, most, st)
               PROVE  st.found \in Seq(NodesFound(N)) /\ OneEach(st.found) /\ Len(st.found) \in Nat
                      /\ st.next \in 1 .. Len(st.found) + 1
    OBVIOUS
  <2>1. st.found \in Seq(NodesFound(N)) /\ OneEach(st.found) /\ st.next \in 1 .. Len(st.found) + 1
    BY DEF Searching, IsBegun
  <2> QED
    BY <2>1, LenProperties
<1>2. init \in V
  <2>1. Searching(g, start, most, init)
    BY SearchBegins
  <2>2. init.next = 1 /\ init.found \in Seq(NodesFound(N)) /\ init = [next |-> init.next, found |-> init.found]
    BY <1>1, <2>1
  <2> HIDE DEF init
  <2> QED
    BY <2>1, <2>2
<1>3. ASSUME NEW u \in V
      PROVE  /\ VisitTurn(g, most, u) \in V
             /\ u.next <= Len(u.found) => VisitTurn(g, most, u).next = u.next + 1
  <2>1. CASE u.next > Len(u.found)
    <3>1. VisitTurn(g, most, u) = u
      BY <2>1 DEF VisitTurn
    <3>2. Len(u.found) \in Nat /\ u.next \in Int
      BY <1>1
    <3> QED
      BY <2>1, <3>1, <3>2
  <2>2. CASE ~ (u.next > Len(u.found))
    <3> DEFINE new == Visit(g, u, most)
    <3>1. VisitTurn(g, most, u) = new
      BY <2>2 DEF VisitTurn
    <3>2. u.next <= Len(u.found) /\ Searching(g, start, most, u) /\ u.next \in Nat
      <4>1. Searching(g, start, most, u) /\ Len(u.found) \in Nat /\ u.next \in Nat
        BY <1>1
      <4> QED
        BY <2>2, <4>1
    <3>3. new = [next |-> new.next, found |-> new.found]
      BY DEF Visit
    <3>6. new = Visit(g, u, most)
      OBVIOUS
    <3> HIDE DEF new
    <3>4. Searching(g, start, most, new) /\ new.next = u.next + 1
      <4> HIDE DEF V, States, N, init, s
      <4> QED
        BY <3>2, <3>6, VisitKeepsSearch
    <3>5. new.found \in Seq(NodesFound(N)) /\ new.next \in Nat
      BY <1>1, <3>2, <3>4
    <3> QED
      BY <3>1, <3>3, <3>4, <3>5
  <2> QED
    BY <2>1, <2>2
<1>4. f = VisitsOf(s, g, most, init).found
  BY Zenon DEF Bfs, VisitsOf
<1>5. s \in Seq(N) /\ len \in Nat
  <2>1. s \in Seq(N)
    BY DEF GraphOK
  <2> QED
    BY <2>1, LenProperties
<1> HIDE DEF s, init
<1>6. PICK h : VisitsRuns(h, s, g, most, init, V)
  <2>1. \A u \in V, x \in N : VisitTurn(g, most, u) \in V
    BY <1>3
  <2> HIDE DEF V, N
  <2> QED
    BY <1>2, <1>5, <2>1, VisitsRun
<1>7. /\ h[0] = init /\ VisitsOf(s, g, most, init) = h[len]
      /\ \A m \in 1 .. len : h[m - 1] \in V /\ h[m] \in V /\ h[m] = VisitTurn(g, most, h[m - 1])
  BY <1>6, Zenon DEF VisitsRuns
<1> HIDE DEF len
<1> DEFINE P == {m \in 0 .. len : h[m] \in V /\ (h[m].next >= m + 1 \/ h[m].next > Len(h[m].found))}
<1>8. 0 \in P
  <2>1. init.next = 1
    BY DEF init
  <2> HIDE DEF V
  <2> QED
    BY <1>2, <1>5, <1>7, <2>1
<1>9. ASSUME NEW m \in 1 .. len, m - 1 \in P PROVE m \in P
  <2> DEFINE u == h[m - 1]
             v == h[m]
  <2>1. u \in V /\ v \in V /\ v = VisitTurn(g, most, u) /\ (u.next >= (m - 1) + 1 \/ u.next > Len(u.found)) /\ m \in 0 .. len
    BY <1>5, <1>7, <1>9
  <2>2. Len(u.found) \in Nat /\ u.next \in Nat
    BY <1>1, <2>1
  <2>3. (~ (u.next > Len(u.found)) => v.next = u.next + 1) /\ (u.next > Len(u.found) => v = u)
    <3>1. ~ (u.next > Len(u.found)) => u.next <= Len(u.found)
      BY <2>2
    <3> HIDE DEF u, v, V
    <3>2. u.next > Len(u.found) => v = u
      BY <2>1 DEF VisitTurn
    <3> QED
      BY <1>3, <2>1, <3>1, <3>2
  <2> HIDE DEF V, u, v
  <2>4. v.next >= m + 1 \/ v.next > Len(v.found)
    <3>1. CASE u.next > Len(u.found)
      BY <2>3, <3>1
    <3>2. CASE ~ (u.next > Len(u.found))
      BY <1>5, <2>1, <2>2, <2>3, <3>2
    <3> QED
      BY <3>1, <3>2
  <2> QED
    BY <2>1, <2>4 DEF v
<1>10. len \in P
  <2> HIDE DEF P
  <2> QED
    BY <1>5, <1>8, <1>9, PrefixInduction
<1> DEFINE st == h[len]
<1>11. st \in V /\ (st.next >= len + 1 \/ st.next > Len(st.found)) /\ f = st.found
  BY <1>4, <1>7, <1>10
<1>12. Searching(g, start, most, st)
  BY <1>11
<1> HIDE DEF st, V, P
<1>13. st.next - 1 = Len(f)
  <2>1. f \in Seq(NodesFound(N)) /\ OneEach(f) /\ Len(f) \in Nat /\ st.next \in 1 .. Len(f) + 1
    BY <1>1, <1>11, <1>12
  <2>2. Len(f) <= len /\ len \in Nat
    BY <2>1, FoundAreNodes DEF len, s
  <2> QED
    BY <1>11, <2>1, <2>2
<1> QED
  BY <1>11, <1>12, <1>13 DEF Searching, IsSearch

-----------------------------------------------------------------------------
(* Distances                                                               *)

\* One edge farther.
Wider(B, E) == B \cup {e[2] : e \in {x \in E : x[1] \in B}}
Widens(b, most, from, E) == \A h \in 0 .. most : b[h] = IF h = 0 THEN {from} ELSE Wider(b[h - 1], E)

\* The balls, if there are such.
LEMMA BallUnfolds ==
  ASSUME NEW g, NEW from, NEW most, NEW V, NEW f \in [0 .. most -> V], Widens(f, most, from, ToSet(g.edges))
  PROVE  Widens(Ball(g, from, most), most, from, ToSet(g.edges))
<1> DEFINE E == ToSet(g.edges)
<1>1. f = [h \in 0 .. most |-> IF h = 0 THEN {from} ELSE f[h - 1] \cup {e[2] : e \in {x \in E : x[1] \in f[h - 1]}}]
  BY Zenon DEF Widens, Wider
<1> HIDE DEF E
<1>2. PICK b : /\ b = [h \in 0 .. most |-> IF h = 0 THEN {from}
                                          ELSE b[h - 1] \cup {e[2] : e \in {x \in E : x[1] \in b[h - 1]}}]
               /\ Ball(g, from, most) = b
  BY <1>1, ZenonT(60) DEF Ball, E
<1>3. Widens(b, most, from, E)
  BY <1>2, Zenon DEF Widens, Wider
<1> QED
  BY <1>2, <1>3, Zenon DEF E

\* The balls grow edge by edge.
LEMMA BallWidens ==
  ASSUME NEW g, NEW N, ToSet(g.edges) \subseteq N \X N, NEW from \in N, NEW most \in Nat
  PROVE  Widens(Ball(g, from, most), most, from, ToSet(g.edges))
<1> DEFINE E == ToSet(g.edges)
           D == 0 .. most
           V == SUBSET N
           size == [h \in D |-> h]
           next == [h \in D \ {0} |-> h - 1]
           base == [h \in {0} |-> {from}]
           step == [h \in D \ {0} |-> [B \in V |-> Wider(B, E)]]
<1>1. \A B \in V : Wider(B, E) \in V
  BY DEF Wider
<1>2. /\ size \in [D -> 0 .. most] /\ {0} \in SUBSET D /\ next \in [D \ {0} -> D]
      /\ \A x \in D \ {0} : size[next[x]] < size[x]
  OBVIOUS
<1>3. base \in [{0} -> V]
  OBVIOUS
<1> HIDE DEF V, E, size
<1>4. step \in [D \ {0} -> [V -> V]]
  BY <1>1
<1> HIDE DEF base, step, next, D
<1>5. PICK f : IsChase(f, D, {0}, next, V, base, step)
  BY <1>2, <1>3, <1>4, ChaseExists
<1>6. f \in [D -> V] /\ \A x \in D : f[x] = IF x \in {0} THEN base[x] ELSE step[x][f[next[x]]]
  BY <1>5 DEF IsChase
<1>7. ASSUME NEW h \in D PROVE f[h] = IF h = 0 THEN {from} ELSE Wider(f[h - 1], E)
  <2>1. CASE h = 0
    BY <1>6, <2>1 DEF base
  <2>2. CASE h # 0
    <3>1. h \in D \ {0} /\ next[h] = h - 1 /\ next[h] \in D
      BY <1>2, <2>2 DEF next
    <3>2. f[next[h]] \in V /\ f[h] = step[h][f[next[h]]]
      BY <1>6, <2>2, <3>1
    <3> QED
      BY <2>2, <3>1, <3>2 DEF step
  <2> QED
    BY <2>1, <2>2
<1>8. Widens(f, most, from, E)
  BY <1>7 DEF Widens, D
<1> QED
  BY <1>6, <1>8, BallUnfolds DEF D, E

\* What a search finds within a distance.
FoundWithin(f, h) == {f[i].id : i \in {k \in 1 .. Len(f) : f[k].dist <= h}}

\* A search finds what is in the ball.
LEMMA BallIsFound ==
  ASSUME NEW g, GraphOK(g), NEW start \in ToSet(g.nodes), NEW most \in Nat, NEW f, IsSearch(f, g, start, most)
  PROVE  \A h \in 0 .. most : Ball(g, start, most)[h] = FoundWithin(f, h)
<1> DEFINE N == ToSet(g.nodes)
           E == ToSet(g.edges)
           b == Ball(g, start, most)
           n == Len(f)
           P == {h \in 0 .. most : b[h] = FoundWithin(f, h)}
<1>1. /\ f \in Seq(NodesFound(N)) /\ n >= 1 /\ f[1] = Found(start, 0, 0)
      /\ IsReached(f, E) /\ IsNearFirst(f, most) /\ IsClosed(f, n, E, most)
  BY DEF IsSearch, IsBegun
<1>2. n \in Nat /\ \A i \in 1 .. n : f[i].id \in N /\ f[i].dist \in Nat
  BY <1>1, FoundParts
<1>3. E \subseteq N \X N
  <2>1. g.edges \in Seq(N \X N)
    BY DEF GraphOK
  <2>2. \A i \in DOMAIN g.edges : g.edges[i] \in N \X N
    BY <2>1, ElementOfSeq
  <2> HIDE DEF N
  <2> QED
    BY <2>2, Zenon DEF ToSet
<1>4. Widens(b, most, start, E)
  <2> HIDE DEF N
  <2> QED
    BY <1>3, BallWidens DEF N
<1> HIDE DEF b, E, N, n
<1>5. 0 \in 0 .. most /\ b[0] = {start} /\ \A h \in 1 .. most : b[h] = Wider(b[h - 1], E)
  <2>1. 0 \in 0 .. most /\ \A h \in 1 .. most : h \in 0 .. most /\ h # 0
    OBVIOUS
  <2> QED
    BY <1>4, <2>1 DEF Widens
<1>6. \A i \in 1 .. n : i > 1 =>
        f[i].from \in 1 .. n /\ f[i].dist = f[f[i].from].dist + 1 /\ <<f[f[i].from].id, f[i].id>> \in E
  BY <1>1 DEF IsReached, n
<1>7. 0 \in P
  <2>1. 1 \in 1 .. n /\ f[1].dist = 0 /\ f[1].id = start
    BY <1>1, <1>2 DEF Found
  <2>2. ASSUME NEW i \in 1 .. n, f[i].dist <= 0 PROVE f[i].id = start
    <3>1. CASE i > 1
      <4>1. f[i].from \in 1 .. n /\ f[i].dist = f[f[i].from].dist + 1
        BY <1>6, <3>1
      <4>2. f[f[i].from].dist \in Nat
        BY <1>2, <4>1
      <4> QED
        BY <2>2, <4>1, <4>2
    <3>2. CASE ~ (i > 1)
      <4>1. i = 1
        BY <1>2, <3>2
      <4> QED
        BY <2>1, <4>1
    <3> QED
      BY <3>1, <3>2
  <2>3. FoundWithin(f, 0) = {start}
    <3>1. \A i \in {k \in 1 .. n : f[k].dist <= 0} : f[i].id = start
      BY <2>2
    <3>2. 1 \in {k \in 1 .. n : f[k].dist <= 0}
      BY <2>1
    <3> QED
      BY <2>1, <3>1, <3>2 DEF FoundWithin, n
  <2> QED
    BY <1>5, <2>3
<1>8. ASSUME NEW h \in 1 .. most, h - 1 \in P PROVE h \in P
  <2>1. b[h] = Wider(FoundWithin(f, h - 1), E)
    BY <1>5, <1>8
  <2>2. h \in 0 .. most /\ h - 1 < most /\ h - 1 <= h /\ h - 1 \in Nat /\ (h - 1) + 1 = h /\ h \in Nat
    OBVIOUS
  <2>3. ASSUME NEW i \in 1 .. n, f[i].dist <= h PROVE f[i].id \in Wider(FoundWithin(f, h - 1), E)
    <3>1. CASE f[i].dist <= h - 1
      BY <3>1 DEF Wider, FoundWithin, n
    <3>2. CASE ~ (f[i].dist <= h - 1)
      <4>1. i > 1
        <5> SUFFICES ASSUME ~ (i > 1) PROVE FALSE
          OBVIOUS
        <5>1. i = 1 /\ f[1].dist = 0
          BY <1>1, <1>2 DEF Found
        <5> QED
          BY <2>2, <3>2, <5>1
      <4> DEFINE k == f[i].from
      <4>2. k \in 1 .. n /\ f[i].dist = f[k].dist + 1 /\ <<f[k].id, f[i].id>> \in E
        BY <1>6, <4>1
      <4> HIDE DEF k
      <4>3. f[k].dist <= h - 1
        <5>1. f[i].dist \in Nat /\ f[k].dist \in Nat
          BY <1>2, <4>2
        <5> QED
          BY <2>2, <2>3, <4>2, <5>1
      <4>4. f[k].id \in FoundWithin(f, h - 1)
        BY <4>2, <4>3 DEF FoundWithin, n
      <4> DEFINE e == <<f[k].id, f[i].id>>
      <4>5. e[1] = f[k].id /\ e[2] = f[i].id /\ e \in E
        BY <4>2
      <4> HIDE DEF e
      <4> QED
        BY <4>4, <4>5 DEF Wider
    <3> QED
      BY <3>1, <3>2
  <2>4. ASSUME NEW y \in Wider(FoundWithin(f, h - 1), E) PROVE y \in FoundWithin(f, h)
    <3>1. CASE y \in FoundWithin(f, h - 1)
      <4>1. PICK i \in 1 .. n : f[i].dist <= h - 1 /\ f[i].id = y
        BY <3>1 DEF FoundWithin, n
      <4>2. f[i].dist <= h
        BY <1>2, <2>2, <4>1
      <4> QED
        BY <4>1, <4>2 DEF FoundWithin, n
    <3>2. CASE y \notin FoundWithin(f, h - 1)
      <4>1. PICK e \in E : e[1] \in FoundWithin(f, h - 1) /\ e[2] = y
        BY <3>2 DEF Wider
      <4>2. PICK i \in 1 .. n : f[i].dist <= h - 1 /\ f[i].id = e[1]
        BY <4>1 DEF FoundWithin, n
      <4>3. <<f[i].id, y>> \in E
        <5>1. e \in N \X N
          BY <1>3
        <5>2. e = <<e[1], e[2]>>
          BY <5>1
        <5> QED
          BY <4>1, <4>2, <5>2
      <4>4. f[i].dist < most /\ f[i].dist \in Nat
        BY <1>2, <2>2, <4>2
      <4>5. PICK k \in 1 .. n : f[k].id = y /\ f[k].dist <= f[i].dist + 1
        BY <1>1, <4>3, <4>4 DEF IsClosed, n
      <4>6. f[k].dist <= h
        <5>1. f[k].dist \in Nat
          BY <1>2
        <5> QED
          BY <2>2, <4>2, <4>4, <4>5, <5>1
      <4> QED
        BY <4>5, <4>6 DEF FoundWithin, n
    <3> QED
      BY <3>1, <3>2
  <2>5. FoundWithin(f, h) \subseteq Wider(FoundWithin(f, h - 1), E)
    BY <2>3 DEF FoundWithin, n
  <2> QED
    BY <2>1, <2>2, <2>4, <2>5
<1>9. \A h \in 0 .. most : h \in P
  <2> HIDE DEF P
  <2> QED
    BY <1>7, <1>8, UpTo
<1> QED
  BY <1>9 DEF b

DistancesTo(f, to) == {f[i].dist : i \in {k \in 1 .. Len(f) : f[k].id = to}}

\* The distance of what is found is the fewest edges to it, and no number of
\* edges leads to the rest.
LEMMA HopsAre ==
  ASSUME NEW g, GraphOK(g), NEW start \in ToSet(g.nodes), NEW most \in Nat, NEW f, IsSearch(f, g, start, most), NEW to
  PROVE  Hops(g, start, to, most) = DistancesTo(f, to)
<1> DEFINE n == Len(f)
           b == Ball(g, start, most)
           H == {h \in 0 .. most : to \in b[h] /\ (h > 0 => to \notin b[h - 1])}
<1>1. f \in Seq(NodesFound(ToSet(g.nodes))) /\ IsNearFirst(f, most) /\ OneEach(f)
  BY DEF IsSearch, IsBegun
<1>2. n \in Nat /\ \A i \in 1 .. n : f[i].dist \in Nat
  BY <1>1, FoundParts
<1>3. \A h \in 0 .. most : b[h] = FoundWithin(f, h)
  BY BallIsFound
<1>4. Hops(g, start, to, most) = H
  BY Zenon DEF Hops
<1> HIDE DEF b
<1>5. \A h \in 0 .. most : to \in b[h] <=> \E i \in 1 .. n : f[i].id = to /\ f[i].dist <= h
  BY <1>3 DEF FoundWithin
<1> HIDE DEF n
<1>6. ASSUME NEW h \in H PROVE h \in {f[i].dist : i \in {k \in 1 .. n : f[k].id = to}}
  <2>1. PICK i \in 1 .. n : f[i].id = to /\ f[i].dist <= h
    BY <1>5
  <2>2. f[i].dist = h
    <3> SUFFICES ASSUME f[i].dist # h PROVE FALSE
      OBVIOUS
    <3>1. h > 0 /\ h - 1 \in 0 .. most /\ f[i].dist <= h - 1
      BY <1>2, <2>1
    <3>2. to \in b[h - 1]
      BY <1>5, <2>1, <3>1
    <3> QED
      BY <3>1, <3>2
  <2> QED
    BY <2>1, <2>2
<1>7. ASSUME NEW i \in 1 .. n, f[i].id = to PROVE f[i].dist \in H
  <2> DEFINE h == f[i].dist
  <2>1. h \in 0 .. most
    <3>1. h \in Nat /\ h <= most
      BY <1>1, <1>2 DEF IsNearFirst, n
    <3> HIDE DEF h
    <3> QED
      BY <3>1
  <2>2. to \in b[h]
    <3>1. h <= f[i].dist /\ f[i].dist <= h
      BY <2>1
    <3> QED
      BY <1>5, <1>7, <2>1, <3>1
  <2>3. ASSUME h > 0, to \in b[h - 1] PROVE FALSE
    <3>1. h - 1 \in 0 .. most
      BY <2>1, <2>3
    <3>2. PICK k \in 1 .. n : f[k].id = to /\ f[k].dist <= h - 1
      BY <1>5, <2>3, <3>1
    <3>3. k = i
      BY <1>1, <1>7, <3>2 DEF OneEach, n
    <3>4. ~ (f[i].dist <= h - 1)
      BY <2>1
    <3> QED
      BY <3>2, <3>3, <3>4
  <2> QED
    BY <2>1, <2>2, <2>3
<1> QED
  BY <1>4, <1>6, <1>7 DEF n, DistancesTo

-----------------------------------------------------------------------------
(* Paths                                                                   *)

\* The way back to each node found.
Backs(b, f) == \A i \in 0 .. Len(f) : b[i] = IF i = 0 THEN <<>> ELSE Append(b[f[i].from], f[i].id)

\* The path of a query, if there are ways back.
PathOf(g, from, to, b, f) ==
  IF ~Known(g, from) \/ ~Known(g, to) \/ ~Seen(f, to) THEN {}
  ELSE {b[CHOOSE i \in DOMAIN f : f[i].id = to]}

\* The ways back, as the function shortest_path computes.
LEMMA PathUnfolds ==
  ASSUME NEW g, NEW from, NEW to, NEW f, f = Bfs(g, from, Len(g.nodes)), NEW V, NEW w \in [0 .. Len(f) -> V], Backs(w, f)
  PROVE  \E b : Backs(b, f) /\ ShortestPath(g, from, to) = PathOf(g, from, to, b, f)
<1>1. w = [i \in 0 .. Len(f) |-> IF i = 0 THEN <<>> ELSE Append(w[f[i].from], f[i].id)]
  BY Zenon DEF Backs
<1>2. PICK b : /\ b = [i \in 0 .. Len(f) |-> IF i = 0 THEN <<>> ELSE Append(b[f[i].from], f[i].id)]
               /\ ShortestPath(g, from, to) = PathOf(g, from, to, b, f)
  BY <1>1, ZenonT(60) DEF ShortestPath, PathOf
<1>3. Backs(b, f)
  BY <1>2, Zenon DEF Backs
<1> QED
  BY <1>2, <1>3, Zenon

\* There is a way back from every node found.
LEMMA BacksExist ==
  ASSUME NEW N, NEW E, NEW start, NEW f, IsBegun(f, start, N), IsReached(f, E)
  PROVE  \E w \in [0 .. Len(f) -> Seq(N)] : Backs(w, f)
<1> DEFINE n == Len(f)
           D == 0 .. n
           V == Seq(N)
           size == [i \in D |-> i]
           next == [i \in D \ {0} |-> f[i].from]
           base == [i \in {0} |-> <<>>]
           step == [i \in D \ {0} |-> [p \in V |-> Append(p, f[i].id)]]
<1>1. /\ f \in Seq(NodesFound(N)) /\ n >= 1 /\ f[1] = Found(start, 0, 0)
  BY DEF IsBegun
<1>2. n \in Nat /\ \A i \in 1 .. n : f[i].id \in N /\ f[i].from \in Nat
  BY <1>1, FoundParts
<1>3. \A i \in 1 .. n : i > 1 => f[i].from \in 1 .. n /\ f[i].from < i
  BY DEF IsReached
<1>4. f[1].from = 0
  BY <1>1 DEF Found
<1> HIDE DEF n
<1>5. \A i \in D \ {0} : i \in 1 .. n /\ f[i].from \in D /\ f[i].from < i
  <2> SUFFICES ASSUME NEW i \in D \ {0} PROVE i \in 1 .. n /\ f[i].from \in D /\ f[i].from < i
    OBVIOUS
  <2>1. i \in 1 .. n
    BY <1>2
  <2>2. CASE i = 1
    BY <1>2, <1>4, <2>1, <2>2
  <2>3. CASE i # 1
    <3>1. i > 1
      BY <2>1, <2>3
    <3>2. f[i].from \in 1 .. n /\ f[i].from < i
      BY <1>3, <2>1, <3>1
    <3> QED
      BY <1>2, <2>1, <3>2
  <2> QED
    BY <2>2, <2>3
<1>6. size \in [D -> 0 .. n] /\ {0} \in SUBSET D /\ next \in [D \ {0} -> D] /\ \A x \in D \ {0} : size[next[x]] < size[x]
  <2>1. next \in [D \ {0} -> D]
    BY <1>5
  <2>2. \A x \in D \ {0} : next[x] = f[x].from /\ next[x] \in D /\ x \in D
    BY <1>5
  <2>3. \A x \in D \ {0} : size[next[x]] = next[x] /\ size[x] = x
    <3> HIDE DEF D, next
    <3> QED
      BY <2>2
  <2> HIDE DEF next
  <2>4. \A x \in D \ {0} : size[next[x]] < size[x]
    <3> HIDE DEF size, D
    <3> QED
      BY <1>5, <2>2, <2>3
  <2>5. size \in [D -> 0 .. n] /\ {0} \in SUBSET D
    BY <1>2
  <2> QED
    BY <2>1, <2>4, <2>5
<1>7. base \in [{0} -> V]
  <2>1. <<>> \in V
    OBVIOUS
  <2> HIDE DEF V
  <2> QED
    BY <2>1
<1>8. step \in [D \ {0} -> [V -> V]]
  <2>1. \A i \in D \ {0} : \A p \in V : Append(p, f[i].id) \in V
    <3> SUFFICES ASSUME NEW i \in D \ {0}, NEW p \in V PROVE Append(p, f[i].id) \in V
      OBVIOUS
    <3>1. f[i].id \in N
      BY <1>2, <1>5
    <3> QED
      BY <3>1, AppendProperties
  <2> HIDE DEF V, D
  <2> QED
    BY <2>1
<1> HIDE DEF base, step, next, size, V
<1>9. D = 0 .. n
  OBVIOUS
<1> HIDE DEF D
<1>10. PICK w : IsChase(w, D, {0}, next, V, base, step)
  BY <1>2, <1>6, <1>7, <1>8, ChaseExists
<1>11. w \in [D -> V] /\ \A x \in D : w[x] = IF x \in {0} THEN base[x] ELSE step[x][w[next[x]]]
  BY <1>10 DEF IsChase
<1>12. ASSUME NEW i \in D PROVE w[i] = IF i = 0 THEN <<>> ELSE Append(w[f[i].from], f[i].id)
  <2>1. CASE i = 0
    BY <1>11, <2>1 DEF base
  <2>2. CASE i # 0
    <3>1. i \in D \ {0} /\ next[i] = f[i].from /\ next[i] \in D
      BY <1>6, <2>2 DEF next
    <3>2. w[next[i]] \in V /\ w[i] = step[i][w[next[i]]]
      BY <1>11, <2>2, <3>1
    <3>3. step[i][w[next[i]]] = Append(w[next[i]], f[i].id)
      BY <3>1, <3>2 DEF step
    <3> QED
      BY <2>2, <3>1, <3>2, <3>3
  <2> QED
    BY <2>1, <2>2
<1>13. Backs(w, f)
  BY <1>9, <1>12, Zenon DEF Backs, n
<1>14. w \in [0 .. Len(f) -> Seq(N)]
  BY <1>9, <1>11 DEF n, V
<1> QED
  BY <1>13, <1>14

\* A way from the start along edges.
IsWay(p, x, start, N, E) ==
  /\ p \in Seq(N) /\ Len(p) = x.dist + 1 /\ p[1] = start /\ p[Len(p)] = x.id
  /\ \A k \in 1 .. Len(p) - 1 : <<p[k], p[k + 1]>> \in E

\* One more edge.
LEMMA WayGrows ==
  ASSUME NEW N, NEW E, NEW start, NEW x, x.dist \in Nat, NEW p, IsWay(p, x, start, N, E),
         NEW y, y.id \in N, y.dist = x.dist + 1, <<x.id, y.id>> \in E
  PROVE  IsWay(Append(p, y.id), y, start, N, E)
<1> DEFINE q == Append(p, y.id)
           n == Len(p)
<1>1. /\ p \in Seq(N) /\ n = x.dist + 1 /\ p[1] = start /\ p[n] = x.id
      /\ \A k \in 1 .. n - 1 : <<p[k], p[k + 1]>> \in E
  BY Zenon DEF IsWay
<1>2. /\ q \in Seq(N) /\ Len(q) = n + 1 /\ q[n + 1] = y.id
      /\ \A k \in 1 .. n : q[k] = p[k]
  BY <1>1, AppendProperties
<1>3. n \in Nat /\ n >= 1
  BY <1>1
<1> HIDE DEF q, n
<1>4. q[1] = start
  BY <1>1, <1>2, <1>3
<1>5. ASSUME NEW k \in 1 .. Len(q) - 1 PROVE <<q[k], q[k + 1]>> \in E
  <2>1. k \in 1 .. n
    BY <1>2, <1>3
  <2>2. CASE k = n
    BY <1>1, <1>2, <2>1, <2>2
  <2>3. CASE k # n
    <3>1. k \in 1 .. n - 1 /\ k + 1 \in 1 .. n
      BY <1>3, <2>1, <2>3
    <3> QED
      BY <1>1, <1>2, <2>1, <3>1
  <2> QED
    BY <2>2, <2>3
<1>6. Len(q) = y.dist + 1 /\ q[Len(q)] = y.id
  BY <1>1, <1>2, <1>3
<1> QED
  BY <1>2, <1>4, <1>5, <1>6 DEF IsWay, q

\* The way back is a path of as many edges as the distance.
LEMMA WaysHold ==
  ASSUME NEW N, NEW E, NEW start \in N, NEW f, IsBegun(f, start, N), IsReached(f, E), NEW b, Backs(b, f)
  PROVE  \A i \in 1 .. Len(f) : IsWay(b[i], f[i], start, N, E)
<1> DEFINE n == Len(f)
           P == {m \in 0 .. n : \A i \in 1 .. m : IsWay(b[i], f[i], start, N, E)}
<1>1. f \in Seq(NodesFound(N)) /\ n >= 1 /\ f[1] = Found(start, 0, 0)
  BY DEF IsBegun
<1>2. n \in Nat /\ \A i \in 1 .. n : f[i].id \in N /\ f[i].dist \in Nat
  BY <1>1, FoundParts
<1>3. \A i \in 1 .. n : i > 1 =>
        f[i].from \in 1 .. n /\ f[i].from < i /\ f[i].dist = f[f[i].from].dist + 1 /\ <<f[f[i].from].id, f[i].id>> \in E
  BY DEF IsReached
<1>4. b[0] = <<>> /\ \A i \in 1 .. n : b[i] = Append(b[f[i].from], f[i].id)
  <2>1. 0 \in 0 .. n /\ \A i \in 1 .. n : i \in 0 .. n /\ i # 0
    BY <1>2
  <2> QED
    BY <2>1, Zenon DEF Backs
<1> HIDE DEF n
<1>5. 0 \in P
  BY <1>2
<1>6. ASSUME NEW m \in 1 .. n, m - 1 \in P PROVE m \in P
  <2>1. IsWay(b[m], f[m], start, N, E)
    <3>1. CASE m = 1
      <4>1. f[1].from = 0 /\ f[1].dist = 0 /\ f[1].id = start
        BY <1>1 DEF Found
      <4>2. b[1] = Append(<<>>, start)
        BY <1>4, <3>1, <4>1
      <4> DEFINE p == Append(<<>>, start)
      <4>3. p \in Seq(N) /\ Len(p) = 1 /\ p[1] = start
        OBVIOUS
      <4> HIDE DEF p
      <4>4. \A k \in 1 .. Len(p) - 1 : FALSE
        BY <4>3
      <4>5. IsWay(p, f[1], start, N, E)
        BY <4>1, <4>3, <4>4 DEF IsWay
      <4> QED
        BY <3>1, <4>2, <4>5 DEF p
    <3>2. CASE m # 1
      <4> DEFINE k == f[m].from
      <4>1. m > 1
        BY <3>2
      <4>2. k \in 1 .. n /\ k < m /\ f[m].dist = f[k].dist + 1 /\ <<f[k].id, f[m].id>> \in E
        BY <1>3, <4>1
      <4>3. b[m] = Append(b[k], f[m].id) /\ f[m].id \in N
        BY <1>2, <1>4
      <4> HIDE DEF k
      <4>4. k \in 1 .. m - 1
        BY <4>2
      <4>5. IsWay(b[k], f[k], start, N, E) /\ f[k].dist \in Nat
        BY <1>2, <1>6, <4>2, <4>4
      <4> QED
        BY <4>2, <4>3, <4>5, WayGrows
    <3> QED
      BY <3>1, <3>2
  <2>2. m \in 0 .. n /\ \A i \in 1 .. m : i # m => i \in 1 .. m - 1
    BY <1>2
  <2> QED
    BY <1>6, <2>1, <2>2
<1>7. n \in P
  <2> HIDE DEF P
  <2> QED
    BY <1>2, <1>5, <1>6, PrefixInduction
<1> QED
  BY <1>7 DEF n

\* What the search promises of a path to a node.
PathIsShortest(g, start, id) ==
  /\ \A p \in ShortestPath(g, start, id) :
       IsPath(g, p) /\ p[1] = start /\ Last(p) = id /\ Len(p) - 1 \in Hops(g, start, id, Len(g.nodes))
  /\ ShortestPath(g, start, id) = {} <=> Hops(g, start, id, Len(g.nodes)) = {}

\* A path is one, as short as can be, and there is one if there can be one.
LEMMA PathsHold ==
  ASSUME NEW g, GraphOK(g), NEW start \in ToSet(g.nodes), NEW id \in ToSet(g.nodes)
  PROVE  PathIsShortest(g, start, id)
<1> DEFINE N == ToSet(g.nodes)
           E == ToSet(g.edges)
           len == Len(g.nodes)
           f == Bfs(g, start, len)
           n == Len(f)
           K == {k \in 1 .. n : f[k].id = id}
           H == Hops(g, start, id, len)
           S == ShortestPath(g, start, id)
<1>1. len \in Nat /\ f = Bfs(g, start, len)
  <2>1. g.nodes \in Seq(N)
    BY DEF GraphOK
  <2> QED
    BY <2>1, LenProperties
<1> HIDE DEF f, len
<1>2. IsSearch(f, g, start, len)
  BY <1>1, BfsIs
<1>3. IsBegun(f, start, N) /\ IsReached(f, E) /\ f \in Seq(NodesFound(N))
  BY <1>2 DEF IsSearch, IsBegun
<1>4. n \in Nat /\ DOMAIN f = 1 .. n /\ \A i \in 1 .. n : f[i].dist \in Nat
  BY <1>3, FoundParts
<1> HIDE DEF n, H, S
<1>5. H = {f[i].dist : i \in K}
  <2>1. Hops(g, start, id, len) = DistancesTo(f, id)
    BY <1>1, <1>2, HopsAre
  <2> QED
    BY <2>1, Zenon DEF H, n, DistancesTo
<1>6. PICK b : Backs(b, f) /\ S = PathOf(g, start, id, b, f)
  <2>1. PICK w \in [0 .. Len(f) -> Seq(N)] : Backs(w, f)
    BY <1>3, BacksExist
  <2> DEFINE V == Seq(N)
  <2>2. w \in [0 .. Len(f) -> V]
    OBVIOUS
  <2> HIDE DEF V
  <2> QED
    BY <1>1, <2>1, <2>2, PathUnfolds DEF S, len
<1>7. \A i \in 1 .. n : IsWay(b[i], f[i], start, N, E)
  <2> HIDE DEF N, E
  <2> QED
    BY <1>3, <1>6, WaysHold DEF N, n
<1>8. Seen(f, id) <=> K # {}
  BY <1>4 DEF Seen
<1>9. CASE K = {}
  <2>1. S = {} /\ H = {}
    BY <1>5, <1>6, <1>8, <1>9 DEF PathOf
  <2> QED
    BY <2>1 DEF PathIsShortest, S, H, len
<1>10. CASE K # {}
  <2> DEFINE i == CHOOSE k \in DOMAIN f : f[k].id = id
  <2>1. i \in 1 .. n /\ f[i].id = id
    BY <1>4, <1>10
  <2>2. S = {b[i]}
    BY <1>6, <1>8, <1>10 DEF PathOf, Known
  <2> HIDE DEF i
  <2> DEFINE p == b[i]
  <2>3. /\ p \in Seq(N) /\ Len(p) = f[i].dist + 1 /\ p[1] = start /\ p[Len(p)] = id
        /\ \A k \in 1 .. Len(p) - 1 : <<p[k], p[k + 1]>> \in E
    BY <1>7, <2>1 DEF IsWay
  <2> HIDE DEF p
  <2>4. IsPath(g, p) /\ Last(p) = id
    BY <2>3 DEF IsPath, Last
  <2>5. Len(p) - 1 = f[i].dist
    <3>1. f[i].dist \in Nat
      BY <1>4, <2>1
    <3> QED
      BY <2>3, <3>1
  <2>6. Len(p) - 1 \in H /\ H # {}
    BY <1>5, <2>1, <2>5
  <2>7. S = {p}
    BY <2>2 DEF p
  <2> QED
    BY <2>3, <2>4, <2>6, <2>7 DEF PathIsShortest, S, H, len
<1> QED
  BY <1>9, <1>10

\* What is near is what the search found.
LEMMA NearIs ==
  ASSUME NEW g, GraphOK(g), NEW start \in ToSet(g.nodes), NEW most \in Nat
  PROVE  \E f : /\ IsSearch(f, g, start, most)
                /\ NeighborsWithin(g, start, most) = [i \in 1 .. Len(f) |-> <<f[i].id, f[i].dist>>]
<1> DEFINE f == Bfs(g, start, most)
<1>1. NeighborsWithin(g, start, most) = [i \in DOMAIN f |-> <<f[i].id, f[i].dist>>]
  BY Zenon DEF NeighborsWithin, Known
<1>2. f = Bfs(g, start, most)
  OBVIOUS
<1> HIDE DEF f
<1>3. IsSearch(f, g, start, most)
  BY <1>2, BfsIs
<1>4. f \in Seq(NodesFound(ToSet(g.nodes)))
  BY <1>3 DEF IsSearch, IsBegun
<1>5. DOMAIN f = 1 .. Len(f)
  BY <1>4, FoundParts
<1> QED
  BY <1>1, <1>3, <1>5

\* neighbors_within lists what is near, each node once with its distance,
\* nearest first, and shortest_path finds a shortest path.
LEMMA SearchesHold ==
  ASSUME NEW g, GraphOK(g), NEW start \in ToSet(g.nodes), NEW most \in Nat
  PROVE  SearchIsShortest(g, start, most)
<1> DEFINE N == ToSet(g.nodes)
           near == NeighborsWithin(g, start, most)
<1>1. PICK f : IsSearch(f, g, start, most) /\ near = [i \in 1 .. Len(f) |-> <<f[i].id, f[i].dist>>]
  BY NearIs
<1> HIDE DEF near
<1> DEFINE n == Len(f)
           A == N \X Nat
           T == UNION {{<<id, h>> : h \in Hops(g, start, id, most)} : id \in N}
<1>2. f \in Seq(NodesFound(N)) /\ OneEach(f) /\ IsNearFirst(f, most)
  BY <1>1 DEF IsSearch, IsBegun
<1>3. n \in Nat /\ \A i \in 1 .. n : f[i].id \in N /\ f[i].dist \in Nat
  BY <1>2, FoundParts
<1>11. \A id : Hops(g, start, id, most) = DistancesTo(f, id)
  BY <1>1, HopsAre
<1> HIDE DEF n, N
<1>4. near = [i \in 1 .. n |-> <<f[i].id, f[i].dist>>]
  BY <1>1 DEF n
<1>5. near \in Seq(A) /\ Len(near) = n /\ DOMAIN near = 1 .. n
  <2>1. near \in [1 .. n -> A]
    BY <1>3, <1>4
  <2> HIDE DEF A
  <2> QED
    BY <1>3, <2>1
<1>6. \A i \in 1 .. n : near[i] = <<f[i].id, f[i].dist>> /\ near[i][1] = f[i].id /\ near[i][2] = f[i].dist
  BY <1>4
<1>7. ToSet(near) = T
  <2>1. ASSUME NEW i \in 1 .. n PROVE near[i] \in T
    <3> DEFINE id == f[i].id
               W == {<<id, h>> : h \in Hops(g, start, id, most)}
    <3>1. Hops(g, start, id, most) = {f[j].dist : j \in {k \in 1 .. n : f[k].id = id}}
      BY <1>11, Zenon DEF n, DistancesTo
    <3>2. f[i].dist \in Hops(g, start, id, most)
      BY <3>1
    <3>3. near[i] \in W
      BY <1>6, <3>2
    <3>4. id \in N
      BY <1>3
    <3> HIDE DEF id
    <3> QED
      BY <3>3, <3>4, Zenon
  <2>2. ASSUME NEW x \in T PROVE \E i \in 1 .. n : near[i] = x
    <3>4. PICK id \in N : x \in {<<id, h>> : h \in Hops(g, start, id, most)}
      OBVIOUS
    <3>1. PICK h \in Hops(g, start, id, most) : x = <<id, h>>
      BY <3>4
    <3>2. h \in {f[i].dist : i \in {k \in 1 .. n : f[k].id = id}}
      BY <1>11, Zenon DEF n, DistancesTo
    <3>3. PICK i \in 1 .. n : f[i].id = id /\ f[i].dist = h
      BY <3>2
    <3> QED
      BY <1>6, <3>1, <3>3
  <2> HIDE DEF T
  <2>3. ToSet(near) = {near[i] : i \in 1 .. n}
    BY <1>5 DEF ToSet
  <2> QED
    BY <2>1, <2>2, <2>3
<1>8. Len(near) = Cardinality(ToSet(near))
  <2>1. Distinct(near)
    <3> SUFFICES ASSUME NEW i \in 1 .. n, NEW k \in 1 .. n, near[i] = near[k] PROVE i = k
      BY <1>5 DEF Distinct
    <3>1. f[i].id = f[k].id
      <4>1. near[i][1] = near[k][1]
        OBVIOUS
      <4> QED
        BY <1>6, <4>1
    <3> QED
      BY <1>2, <3>1 DEF OneEach, n
  <2> HIDE DEF A
  <2> QED
    BY <1>5, <2>1, DistinctSize
<1>9. \A i, k \in DOMAIN near : i < k => near[i][2] <= near[k][2]
  <2> SUFFICES ASSUME NEW i \in 1 .. n, NEW k \in 1 .. n, i < k PROVE near[i][2] <= near[k][2]
    BY <1>5
  <2>1. i <= k
    OBVIOUS
  <2>2. f[i].dist <= f[k].dist
    BY <1>2, <2>1 DEF IsNearFirst, n
  <2> QED
    BY <1>6, <2>2
<1>10. \A id \in N : PathIsShortest(g, start, id)
  BY PathsHold DEF N
<1> QED
  BY <1>7, <1>8, <1>9, <1>10, Zenon DEF SearchIsShortest, PathIsShortest, near, N

-----------------------------------------------------------------------------
(* Expanding seeds                                                         *)

EmitsFolds(f, s, seeds, limit, out) ==
  \A T \in SUBSET DOMAIN s :
    f[T] = IF T = {} THEN out ELSE Emit(seeds, limit, f[T \ {Max(T)}], s[Max(T)])
EmitsOf(s, seeds, limit, out) ==
  FoldLeft(LAMBDA o, near : Emit(seeds, limit, o, near), out, s)
EmitsUnfolds(s, seeds, limit, out) == \E r : EmitsFolds(r, s, seeds, limit, out) /\ EmitsOf(s, seeds, limit, out) = r[DOMAIN s]

\* The emitting of what is near one seed, as the function of its fold.
LEMMA EmitsUnfold ==
  ASSUME NEW s, NEW seeds, NEW limit, NEW out, NEW V, NEW f \in [SUBSET DOMAIN s -> V], EmitsFolds(f, s, seeds, limit, out)
  PROVE  EmitsUnfolds(s, seeds, limit, out)
<1>1. f = [T \in SUBSET DOMAIN s |-> IF T = {} THEN out ELSE Emit(seeds, limit, f[T \ {Max(T)}], s[Max(T)])]
  BY Zenon DEF EmitsFolds
<1>2. PICK r : /\ r = [T \in SUBSET DOMAIN s |-> IF T = {} THEN out ELSE Emit(seeds, limit, r[T \ {Max(T)}], s[Max(T)])]
               /\ FoldLeft(LAMBDA o, near : Emit(seeds, limit, o, near), out, s) = r[DOMAIN s]
  BY <1>1, ZenonT(60) DEF FoldLeft, MapThenFoldSet
<1>3. EmitsFolds(r, s, seeds, limit, out)
  BY <1>2, Zenon DEF EmitsFolds
<1> QED
  BY <1>2, <1>3, Zenon DEF EmitsUnfolds, EmitsOf

\* It, turn by turn.
EmitsRuns(h, s, seeds, limit, out, V) ==
  /\ h[0] = out /\ EmitsOf(s, seeds, limit, out) = h[Len(s)]
  /\ \A m \in 1 .. Len(s) : h[m - 1] \in V /\ h[m] \in V /\ h[m] = Emit(seeds, limit, h[m - 1], s[m])

\* There is such a run.
LEMMA EmitsRun ==
  ASSUME NEW A, NEW s \in Seq(A), NEW seeds, NEW limit, NEW out, NEW V, out \in V,
         \A u \in V, x \in A : Emit(seeds, limit, u, x) \in V
  PROVE  \E h : EmitsRuns(h, s, seeds, limit, out, V)
<1> DEFINE n == Len(s)
           turn(u, m) == Emit(seeds, limit, u, s[m])
           next == [m \in 1 .. n |-> [u \in V |-> turn(u, m)]]
<1>1. n \in Nat /\ DOMAIN s = 1 .. n /\ \A m \in 1 .. n : s[m] \in A
  OBVIOUS
<1>2. \A m \in 1 .. n : \A u \in V : turn(u, m) \in V
  BY <1>1, Zenon
<1> HIDE DEF turn, n
<1>3. next \in [1 .. n -> [V -> V]]
  BY <1>2
<1> HIDE DEF next
<1>4. PICK f : IsLoop(f, n, V, out, next)
  BY <1>1, <1>3, LoopExists
<1>5. EmitsFolds(f, s, seeds, limit, out)
  <2> SUFFICES ASSUME NEW T \in SUBSET (1 .. n), T # {} PROVE f[T] = turn(f[T \ {Max(T)}], Max(T))
    BY <1>1, <1>4 DEF EmitsFolds, IsLoop, turn
  <2>1. Max(T) \in 1 .. n
    BY <1>1, LastPlace
  <2>2. f[T \ {Max(T)}] \in V /\ f[T] = next[Max(T)][f[T \ {Max(T)}]]
    BY <1>4 DEF IsLoop
  <2> QED
    BY <2>1, <2>2 DEF next
<1>6. PICK r : EmitsFolds(r, s, seeds, limit, out) /\ EmitsOf(s, seeds, limit, out) = r[1 .. n]
  <2>1. f \in [SUBSET DOMAIN s -> V]
    BY <1>1, <1>4 DEF IsLoop
  <2>2. EmitsUnfolds(s, seeds, limit, out)
    BY <1>5, <2>1, EmitsUnfold
  <2> QED
    BY <1>1, <2>2, Zenon DEF EmitsUnfolds
<1>7. Recursing(r, n, V, out, next)
  <2>1. r[{}] = out
    BY <1>6 DEF EmitsFolds
  <2>2. ASSUME NEW T \in SUBSET (1 .. n), T # {}, r[T \ {Max(T)}] \in V
        PROVE  r[T] = next[Max(T)][r[T \ {Max(T)}]]
    <3>1. Max(T) \in 1 .. n
      BY <1>1, <2>2, LastPlace
    <3>2. r[T] = turn(r[T \ {Max(T)}], Max(T))
      BY <1>1, <1>6, <2>2 DEF EmitsFolds, turn
    <3> QED
      BY <2>2, <3>1, <3>2 DEF next
  <2> QED
    BY <2>1, <2>2 DEF Recursing
<1>8. PICK h : IsTaken(h, n, V, out, next) /\ h[n] = r[1 .. n]
  BY <1>1, <1>3, <1>7, TakenAlong, SMTT(30)
<1>9. \A m \in 1 .. n : h[m - 1] \in V /\ h[m] \in V /\ h[m] = turn(h[m - 1], m)
  BY <1>8 DEF IsTaken, next
<1>10. EmitsRuns(h, s, seeds, limit, out, V)
  BY <1>6, <1>8, <1>9, Zenon DEF EmitsRuns, IsTaken, turn, n
<1> QED
  BY <1>10

ExpandsFolds(f, s, g, seeds, most, limit) ==
  \A T \in SUBSET DOMAIN s :
    f[T] = IF T = {} THEN <<>> ELSE EmitAll(g, seeds, most, limit, f[T \ {Max(T)}], s[Max(T)])
ExpandsOf(s, g, seeds, most, limit) ==
  FoldLeft(LAMBDA out, seed : EmitAll(g, seeds, most, limit, out, seed), <<>>, s)
ExpandsUnfolds(s, g, seeds, most, limit) == \E r : ExpandsFolds(r, s, g, seeds, most, limit) /\ ExpandsOf(s, g, seeds, most, limit) = r[DOMAIN s]

\* The expansion, as the function of its fold.
LEMMA ExpandsUnfold ==
  ASSUME NEW s, NEW g, NEW seeds, NEW most, NEW limit, NEW V, NEW f \in [SUBSET DOMAIN s -> V], ExpandsFolds(f, s, g, seeds, most, limit)
  PROVE  ExpandsUnfolds(s, g, seeds, most, limit)
<1>1. f = [T \in SUBSET DOMAIN s |-> IF T = {} THEN <<>> ELSE EmitAll(g, seeds, most, limit, f[T \ {Max(T)}], s[Max(T)])]
  BY Zenon DEF ExpandsFolds
<1>2. PICK r : /\ r = [T \in SUBSET DOMAIN s |-> IF T = {} THEN <<>> ELSE EmitAll(g, seeds, most, limit, r[T \ {Max(T)}], s[Max(T)])]
               /\ FoldLeft(LAMBDA out, seed : EmitAll(g, seeds, most, limit, out, seed), <<>>, s) = r[DOMAIN s]
  BY <1>1, ZenonT(60) DEF FoldLeft, MapThenFoldSet
<1>3. ExpandsFolds(r, s, g, seeds, most, limit)
  BY <1>2, Zenon DEF ExpandsFolds
<1> QED
  BY <1>2, <1>3, Zenon DEF ExpandsUnfolds, ExpandsOf

\* It, turn by turn.
ExpandsRuns(h, s, g, seeds, most, limit, V) ==
  /\ h[0] = <<>> /\ ExpandsOf(s, g, seeds, most, limit) = h[Len(s)]
  /\ \A m \in 1 .. Len(s) : h[m - 1] \in V /\ h[m] \in V /\ h[m] = EmitAll(g, seeds, most, limit, h[m - 1], s[m])

\* There is such a run.
LEMMA ExpandsRun ==
  ASSUME NEW A, NEW s \in Seq(A), NEW g, NEW seeds, NEW most, NEW limit, NEW V, <<>> \in V,
         \A u \in V, x \in A : EmitAll(g, seeds, most, limit, u, x) \in V
  PROVE  \E h : ExpandsRuns(h, s, g, seeds, most, limit, V)
<1> DEFINE n == Len(s)
           turn(u, m) == EmitAll(g, seeds, most, limit, u, s[m])
           next == [m \in 1 .. n |-> [u \in V |-> turn(u, m)]]
<1>1. n \in Nat /\ DOMAIN s = 1 .. n /\ \A m \in 1 .. n : s[m] \in A
  OBVIOUS
<1>2. \A m \in 1 .. n : \A u \in V : turn(u, m) \in V
  BY <1>1, Zenon
<1> HIDE DEF turn, n
<1>3. next \in [1 .. n -> [V -> V]]
  BY <1>2
<1> HIDE DEF next
<1>4. PICK f : IsLoop(f, n, V, <<>>, next)
  BY <1>1, <1>3, LoopExists
<1>5. ExpandsFolds(f, s, g, seeds, most, limit)
  <2> SUFFICES ASSUME NEW T \in SUBSET (1 .. n), T # {} PROVE f[T] = turn(f[T \ {Max(T)}], Max(T))
    BY <1>1, <1>4 DEF ExpandsFolds, IsLoop, turn
  <2>1. Max(T) \in 1 .. n
    BY <1>1, LastPlace
  <2>2. f[T \ {Max(T)}] \in V /\ f[T] = next[Max(T)][f[T \ {Max(T)}]]
    BY <1>4 DEF IsLoop
  <2> QED
    BY <2>1, <2>2 DEF next
<1>6. PICK r : ExpandsFolds(r, s, g, seeds, most, limit) /\ ExpandsOf(s, g, seeds, most, limit) = r[1 .. n]
  <2>1. f \in [SUBSET DOMAIN s -> V]
    BY <1>1, <1>4 DEF IsLoop
  <2>2. ExpandsUnfolds(s, g, seeds, most, limit)
    BY <1>5, <2>1, ExpandsUnfold
  <2> QED
    BY <1>1, <2>2, Zenon DEF ExpandsUnfolds
<1>7. Recursing(r, n, V, <<>>, next)
  <2>1. r[{}] = <<>>
    BY <1>6 DEF ExpandsFolds
  <2>2. ASSUME NEW T \in SUBSET (1 .. n), T # {}, r[T \ {Max(T)}] \in V
        PROVE  r[T] = next[Max(T)][r[T \ {Max(T)}]]
    <3>1. Max(T) \in 1 .. n
      BY <1>1, <2>2, LastPlace
    <3>2. r[T] = turn(r[T \ {Max(T)}], Max(T))
      BY <1>1, <1>6, <2>2 DEF ExpandsFolds, turn
    <3> QED
      BY <2>2, <3>1, <3>2 DEF next
  <2> QED
    BY <2>1, <2>2 DEF Recursing
<1>8. PICK h : IsTaken(h, n, V, <<>>, next) /\ h[n] = r[1 .. n]
  BY <1>1, <1>3, <1>7, TakenAlong, SMTT(30)
<1>9. \A m \in 1 .. n : h[m - 1] \in V /\ h[m] \in V /\ h[m] = turn(h[m - 1], m)
  BY <1>8 DEF IsTaken, next
<1>10. ExpandsRuns(h, s, g, seeds, most, limit, V)
  BY <1>6, <1>8, <1>9, Zenon DEF ExpandsRuns, IsTaken, turn, n
<1> QED
  BY <1>10

\* What is emitted when S is what was near so far.
Emitted(out, S, seeds, limit, N) ==
  /\ out \in Seq(N) /\ Distinct(out) /\ Len(out) <= limit /\ ToSet(out) \subseteq S \ ToSet(seeds)
  /\ Len(out) < limit => S \ ToSet(seeds) \subseteq ToSet(out)

\* One more is near.
LEMMA EmitKeeps ==
  ASSUME NEW N, NEW seeds, NEW limit \in Nat, NEW S, NEW out, Emitted(out, S, seeds, limit, N),
         NEW x, x[1] \in N, NEW new, new = Emit(seeds, limit, out, x)
  PROVE  Emitted(new, S \cup {x[1]}, seeds, limit, N)
<1> DEFINE y == x[1]
           Q == ToSet(seeds)
<1>1. /\ out \in Seq(N) /\ Distinct(out) /\ Len(out) <= limit /\ ToSet(out) \subseteq S \ Q
      /\ Len(out) < limit => S \ Q \subseteq ToSet(out)
  BY Zenon DEF Emitted
<1>2. Len(out) \in Nat /\ y \in N
  BY <1>1, LenProperties
<1>3. new = IF Len(out) >= limit \/ y \in Q \/ y \in ToSet(out) THEN out ELSE Append(out, y)
  BY DEF Emit
<1> HIDE DEF y, Q
<1>4. CASE Len(out) >= limit \/ y \in Q \/ y \in ToSet(out)
  <2>1. new = out
    BY <1>3, <1>4
  <2>2. ToSet(out) \subseteq (S \cup {y}) \ Q
    BY <1>1
  <2>3. Len(out) < limit => (S \cup {y}) \ Q \subseteq ToSet(out)
    <3>1. Len(out) < limit => ~ (Len(out) >= limit)
      BY <1>2
    <3> QED
      BY <1>1, <1>4, <3>1
  <2> QED
    BY <1>1, <2>1, <2>2, <2>3, Zenon DEF Emitted, y, Q
<1>5. CASE ~ (Len(out) >= limit \/ y \in Q \/ y \in ToSet(out))
  <2>1. new = Append(out, y)
    BY <1>3, <1>5
  <2>2. /\ new \in Seq(N) /\ Len(new) = Len(out) + 1
    BY <1>1, <1>2, <2>1, AppendProperties
  <2>3. ToSet(new) = ToSet(out) \cup {y} /\ Distinct(new)
    BY <1>1, <1>2, <1>5, <2>1, DistinctAppend
  <2>4. Len(new) <= limit /\ Len(out) < limit
    BY <1>2, <1>5, <2>2
  <2>5. S \ Q \subseteq ToSet(out)
    BY <1>1, <2>4
  <2>6. ToSet(new) \subseteq (S \cup {y}) \ Q /\ (S \cup {y}) \ Q \subseteq ToSet(new)
    BY <1>1, <1>5, <2>3, <2>5
  <2> QED
    BY <2>2, <2>3, <2>4, <2>6, Zenon DEF Emitted, y, Q
<1> QED
  BY <1>4, <1>5

\* All that is near one seed.
LEMMA EmitsHold ==
  ASSUME NEW N, NEW s \in Seq(N \X Nat), NEW seeds, NEW limit \in Nat, NEW S, NEW out, Emitted(out, S, seeds, limit, N),
         NEW new, new = EmitsOf(s, seeds, limit, out)
  PROVE  Emitted(new, S \cup {x[1] : x \in ToSet(s)}, seeds, limit, N)
<1> DEFINE V == Seq(N)
           A == N \X Nat
           Near(m) == S \cup {s[l][1] : l \in 1 .. m}
<1>1. out \in V
  BY DEF Emitted
<1>2. \A x \in A : x[1] \in N
  OBVIOUS
<1>3. \A u \in V, x \in A : Emit(seeds, limit, u, x) \in V
  <2> SUFFICES ASSUME NEW u \in V, NEW x \in A PROVE Emit(seeds, limit, u, x) \in V
    OBVIOUS
  <2> HIDE DEF A
  <2>1. Emit(seeds, limit, u, x) = u \/ Emit(seeds, limit, u, x) = Append(u, x[1])
    BY DEF Emit
  <2> QED
    BY <1>2, <2>1, AppendProperties
<1>4. s \in Seq(A)
  OBVIOUS
<1> HIDE DEF V, A
<1>5. PICK h : EmitsRuns(h, s, seeds, limit, out, V)
  BY <1>1, <1>3, <1>4, EmitsRun
<1>6. /\ h[0] = out /\ new = h[Len(s)]
      /\ \A m \in 1 .. Len(s) : h[m] = Emit(seeds, limit, h[m - 1], s[m])
  BY <1>5, Zenon DEF EmitsRuns
<1>7. Len(s) \in Nat /\ DOMAIN s = 1 .. Len(s) /\ \A m \in 1 .. Len(s) : s[m][1] \in N
  <2>1. Len(s) \in Nat /\ DOMAIN s = 1 .. Len(s)
    BY <1>4, LenProperties
  <2>2. \A m \in 1 .. Len(s) : s[m] \in A
    BY <1>4, ElementOfSeq
  <2> QED
    BY <1>2, <2>1, <2>2
<1> DEFINE P == {m \in 0 .. Len(s) : Emitted(h[m], Near(m), seeds, limit, N)}
<1>8. 0 \in P
  <2>1. Near(0) = S /\ 0 \in 0 .. Len(s)
    BY <1>7
  <2> HIDE DEF Near
  <2> QED
    BY <1>6, <2>1
<1>9. ASSUME NEW m \in 1 .. Len(s), m - 1 \in P PROVE m \in P
  <2> DEFINE T == Near(m - 1)
             u == h[m - 1]
             x == s[m]
  <2>1. Near(m) = T \cup {x[1]}
    <3>1. m \in 1 .. m /\ (\A l \in 1 .. m : l # m => l \in 1 .. m - 1) /\ \A l \in 1 .. m - 1 : l \in 1 .. m
      OBVIOUS
    <3> QED
      BY <3>1
  <2>2. Emitted(u, T, seeds, limit, N) /\ m \in 0 .. Len(s) /\ h[m] = Emit(seeds, limit, u, x) /\ x[1] \in N
    BY <1>6, <1>7, <1>9
  <2> HIDE DEF T, u, x, Near
  <2>3. Emitted(h[m], T \cup {x[1]}, seeds, limit, N)
    BY <2>2, EmitKeeps
  <2> QED
    BY <2>1, <2>2, <2>3
<1>10. Len(s) \in P
  <2> HIDE DEF P
  <2> QED
    BY <1>7, <1>8, <1>9, PrefixInduction
<1>11. Near(Len(s)) = S \cup {x[1] : x \in ToSet(s)}
  BY <1>7 DEF ToSet
<1> QED
  BY <1>6, <1>10, <1>11

\* What is near the first m seeds.
NearSeeds(g, s, most, m) == UNION {{x[1] : x \in ToSet(NeighborsWithin(g, s[l], most))} : l \in 1 .. m}

\* What is near is nodes with distances.
LEMMA NearType ==
  ASSUME NEW g, GraphOK(g), NEW seed, NEW most \in Nat
  PROVE  NeighborsWithin(g, seed, most) \in Seq(ToSet(g.nodes) \X Nat)
<1> DEFINE N == ToSet(g.nodes)
           near == NeighborsWithin(g, seed, most)
<1>1. CASE seed \in N
  <2>1. PICK f : IsSearch(f, g, seed, most) /\ near = [i \in 1 .. Len(f) |-> <<f[i].id, f[i].dist>>]
    BY <1>1, NearIs
  <2>2. f \in Seq(NodesFound(N))
    BY <2>1 DEF IsSearch, IsBegun
  <2>3. Len(f) \in Nat /\ \A i \in 1 .. Len(f) : f[i].id \in N /\ f[i].dist \in Nat
    BY <2>2, FoundParts
  <2> HIDE DEF N, near
  <2>4. near \in [1 .. Len(f) -> N \X Nat]
    BY <2>1, <2>3
  <2> DEFINE A == N \X Nat
  <2> HIDE DEF A
  <2>5. near \in Seq(A)
    <3>1. near \in [1 .. Len(f) -> A]
      BY <2>4 DEF A
    <3> QED
      BY <2>3, <3>1
  <2> QED
    BY <2>5 DEF A, N, near
<1>2. CASE seed \notin N
  BY <1>2 DEF NeighborsWithin, Known
<1> QED
  BY <1>1, <1>2

\* The expansion: what is near all the seeds, up to the limit.
LEMMA ExpandHolds ==
  ASSUME NEW g, GraphOK(g), NEW Q, NEW seeds \in Seq(Q), NEW most \in Nat, NEW limit \in Nat,
         NEW out, out = Expand(g, seeds, most, limit)
  PROVE  Emitted(out, NearSeeds(g, seeds, most, Len(seeds)), seeds, limit, ToSet(g.nodes))
<1> DEFINE N == ToSet(g.nodes)
           V == {u \in Seq(N) : TRUE}
           W(seed) == NeighborsWithin(g, seed, most)
<1>1. \A u, seed : EmitAll(g, seeds, most, limit, u, seed) = EmitsOf(W(seed), seeds, limit, u)
  BY Zenon DEF EmitAll, EmitsOf
<1>2. \A seed : W(seed) \in Seq(N \X Nat)
  BY NearType
<1> HIDE DEF N, W
<1>3. ASSUME NEW u, NEW S, Emitted(u, S, seeds, limit, N), NEW seed
      PROVE  Emitted(EmitAll(g, seeds, most, limit, u, seed), S \cup {x[1] : x \in ToSet(W(seed))}, seeds, limit, N)
  <2> DEFINE new == EmitsOf(W(seed), seeds, limit, u)
             near == W(seed)
  <2>1. near \in Seq(N \X Nat) /\ new = EmitsOf(near, seeds, limit, u)
    BY <1>2
  <2> HIDE DEF new, near
  <2>2. Emitted(new, S \cup {x[1] : x \in ToSet(near)}, seeds, limit, N)
    BY <1>3, <2>1, EmitsHold
  <2> QED
    BY <1>1, <2>2 DEF new, near
<1> DEFINE States == {u \in Seq(N) : \E S : Emitted(u, S, seeds, limit, N)}
<1>4. \A u \in States, seed \in Q : EmitAll(g, seeds, most, limit, u, seed) \in States
  <2> SUFFICES ASSUME NEW u \in States, NEW seed PROVE EmitAll(g, seeds, most, limit, u, seed) \in States
    OBVIOUS
  <2>1. PICK S : Emitted(u, S, seeds, limit, N)
    OBVIOUS
  <2> DEFINE new == EmitAll(g, seeds, most, limit, u, seed)
             T == S \cup {x[1] : x \in ToSet(W(seed))}
  <2>2. Emitted(new, T, seeds, limit, N)
    BY <1>3, <2>1
  <2> HIDE DEF new, T
  <2>3. new \in Seq(N)
    BY <2>2 DEF Emitted
  <2> QED
    BY <2>2, <2>3 DEF new
<1>5. Emitted(<<>>, {}, seeds, limit, N)
  <2>1. Len(<<>>) = 0 /\ <<>> \in Seq(N) /\ DOMAIN <<>> = {} /\ 0 <= limit
    OBVIOUS
  <2>2. ToSet(<<>>) = {} /\ Distinct(<<>>)
    BY <2>1 DEF ToSet, Distinct
  <2> QED
    BY <2>1, <2>2 DEF Emitted
<1>6. <<>> \in States
  BY <1>5
<1> HIDE DEF States
<1>7. PICK h : ExpandsRuns(h, seeds, g, seeds, most, limit, States)
  BY <1>4, <1>6, ExpandsRun
<1>8. out = ExpandsOf(seeds, g, seeds, most, limit)
  BY Zenon DEF Expand, ExpandsOf
<1>9. /\ h[0] = <<>> /\ out = h[Len(seeds)]
      /\ \A m \in 1 .. Len(seeds) : h[m] = EmitAll(g, seeds, most, limit, h[m - 1], seeds[m])
  BY <1>7, <1>8, Zenon DEF ExpandsRuns
<1> DEFINE P == {m \in 0 .. Len(seeds) : Emitted(h[m], NearSeeds(g, seeds, most, m), seeds, limit, N)}
<1>10. Len(seeds) \in Nat /\ 0 \in P
  <2>1. NearSeeds(g, seeds, most, 0) = {}
    <3>1. 1 .. 0 = {}
      OBVIOUS
    <3> QED
      BY <3>1 DEF NearSeeds
  <2>2. Len(seeds) \in Nat /\ 0 \in 0 .. Len(seeds)
    OBVIOUS
  <2> QED
    BY <1>5, <1>9, <2>1, <2>2
<1>11. ASSUME NEW m \in 1 .. Len(seeds), m - 1 \in P PROVE m \in P
  <2> DEFINE S == NearSeeds(g, seeds, most, m - 1)
             u == h[m - 1]
             seed == seeds[m]
             one == {x[1] : x \in ToSet(W(seed))}
  <2>1. NearSeeds(g, seeds, most, m) = S \cup one
    <3> DEFINE R(l) == {x[1] : x \in ToSet(NeighborsWithin(g, seeds[l], most))}
    <3>1. one = R(m)
      BY DEF W
    <3>2. NearSeeds(g, seeds, most, m) = UNION {R(l) : l \in 1 .. m} /\ S = UNION {R(l) : l \in 1 .. m - 1}
      BY DEF NearSeeds
    <3> HIDE DEF R, one, S
    <3>3. 1 .. m = (1 .. m - 1) \cup {m}
      OBVIOUS
    <3>4. UNION {R(l) : l \in 1 .. m} = (UNION {R(l) : l \in 1 .. m - 1}) \cup R(m)
      BY <3>3
    <3> QED
      BY <3>1, <3>2, <3>4
  <2>2. Emitted(u, S, seeds, limit, N) /\ m \in 0 .. Len(seeds) /\ h[m] = EmitAll(g, seeds, most, limit, u, seed)
    BY <1>9, <1>11
  <2>3. Emitted(EmitAll(g, seeds, most, limit, u, seed), S \cup one, seeds, limit, N)
    <3> HIDE DEF u, S, seed
    <3> QED
      BY <1>3, <2>2
  <2> HIDE DEF u, S, seed, one
  <2> QED
    BY <2>1, <2>2, <2>3
<1>12. Len(seeds) \in P
  <2> HIDE DEF P
  <2> QED
    BY <1>10, <1>11, PrefixInduction
<1> QED
  BY <1>9, <1>12 DEF N

\* expand lists nothing twice and no seed, and with room to spare all that is near.
LEMMA ExpansionsHold ==
  ASSUME NEW g, GraphOK(g), NEW Q, NEW seeds \in Seq(Q), NEW most \in Nat, NEW limit \in Nat
  PROVE  ExpandIsComplete(g, seeds, most, limit)
<1> DEFINE N == ToSet(g.nodes)
           out == Expand(g, seeds, most, limit)
           near == UNION {{n[1] : n \in ToSet(NeighborsWithin(g, s, most))} : s \in ToSet(seeds)}
           S == NearSeeds(g, seeds, most, Len(seeds))
           R == near \ ToSet(seeds)
<1>1. near = S
  <2> DEFINE B(s) == {n[1] : n \in ToSet(NeighborsWithin(g, s, most))}
  <2>1. near = UNION {B(s) : s \in ToSet(seeds)} /\ S = UNION {B(seeds[l]) : l \in 1 .. Len(seeds)}
    BY DEF NearSeeds
  <2>2. ToSet(seeds) = {seeds[l] : l \in 1 .. Len(seeds)}
    <3>1. DOMAIN seeds = 1 .. Len(seeds)
      OBVIOUS
    <3> QED
      BY <3>1 DEF ToSet
  <2> HIDE DEF B, near, S
  <2> QED
    BY <2>1, <2>2
<1>2. Emitted(out, S, seeds, limit, N)
  <2>1. out = Expand(g, seeds, most, limit)
    OBVIOUS
  <2> HIDE DEF out
  <2> QED
    BY <2>1, ExpandHolds
<1>3. R \subseteq N
  <2>1. ASSUME NEW l \in ToSet(seeds), NEW x \in ToSet(NeighborsWithin(g, l, most)) PROVE x[1] \in N
    <3> DEFINE w == NeighborsWithin(g, l, most)
               A == N \X Nat
    <3>1. w \in Seq(A)
      BY NearType
    <3>2. \A a \in A : a[1] \in N
      OBVIOUS
    <3> HIDE DEF A, w
    <3>3. PICK i \in DOMAIN w : x = w[i]
      BY <2>1 DEF ToSet, w
    <3>4. x \in A
      BY <3>1, <3>3, ElementOfSeq
    <3> QED
      BY <3>2, <3>4
  <2> QED
    BY <2>1
<1>4. IsFiniteSet(R)
  <2>1. g.nodes \in Seq(N)
    BY DEF GraphOK
  <2>2. IsFiniteSet(N)
    BY <2>1, DistinctSize
  <2> HIDE DEF R, N
  <2> QED
    BY <1>3, <2>2, FS_Subset
<1> HIDE DEF N, out, near, S
<1>5. /\ out \in Seq(N) /\ Distinct(out) /\ Len(out) <= limit /\ ToSet(out) \subseteq R
      /\ Len(out) < limit => R \subseteq ToSet(out)
  BY <1>1, <1>2 DEF Emitted
<1> HIDE DEF R
<1>6. Len(out) \in Nat /\ Cardinality(ToSet(out)) = Len(out)
  BY <1>5, DistinctSize, LenProperties
<1>7. Cardinality(R) \in Nat /\ Len(out) <= Cardinality(R)
  BY <1>4, <1>5, <1>6, FS_Subset, FS_CardinalityType
<1>8. Len(out) = Min({limit, Cardinality(R)})
  <2>1. Min({limit, Cardinality(R)}) = IF limit <= Cardinality(R) THEN limit ELSE Cardinality(R)
    <3>1. limit \in Int /\ Cardinality(R) \in Int
      BY <1>7
    <3> HIDE DEF R
    <3> QED
      BY <3>1, ExtremesOfTwo
  <2>2. CASE Len(out) < limit
    <3>1. Len(out) = Cardinality(R)
      <4>1. R = ToSet(out)
        BY <1>5, <2>2
      <4> QED
        BY <1>6, <4>1
    <3> QED
      BY <1>6, <2>1, <2>2, <3>1
  <2>3. CASE ~ (Len(out) < limit)
    BY <1>5, <1>6, <1>7, <2>1, <2>3
  <2> QED
    BY <2>2, <2>3
<1> QED
  BY <1>5, <1>6, <1>8, Zenon DEF ExpandIsComplete, out, near, R

-----------------------------------------------------------------------------
(* The directory walk: its loops                                           *)

LeadsFolds(f, s, t, root) ==
  \A T \in SUBSET DOMAIN s :
    f[T] = IF T = {} THEN {root} ELSE DirsBelow(t, f[T \ {Max(T)}], s[Max(T)])
LeadsOf(s, t, root) ==
  FoldLeft(LAMBDA dirs, name : DirsBelow(t, dirs, name), {root}, s)
LeadsUnfolds(s, t, root) == \E r : LeadsFolds(r, s, t, root) /\ LeadsOf(s, t, root) = r[DOMAIN s]

\* The directory at a path, as the function of its fold.
LEMMA LeadsUnfold ==
  ASSUME NEW s, NEW t, NEW root, NEW V, NEW f \in [SUBSET DOMAIN s -> V], LeadsFolds(f, s, t, root)
  PROVE  LeadsUnfolds(s, t, root)
<1>1. f = [T \in SUBSET DOMAIN s |-> IF T = {} THEN {root} ELSE DirsBelow(t, f[T \ {Max(T)}], s[Max(T)])]
  BY Zenon DEF LeadsFolds
<1>2. PICK r : /\ r = [T \in SUBSET DOMAIN s |-> IF T = {} THEN {root} ELSE DirsBelow(t, r[T \ {Max(T)}], s[Max(T)])]
               /\ FoldLeft(LAMBDA dirs, name : DirsBelow(t, dirs, name), {root}, s) = r[DOMAIN s]
  BY <1>1, ZenonT(60) DEF FoldLeft, MapThenFoldSet
<1>3. LeadsFolds(r, s, t, root)
  BY <1>2, Zenon DEF LeadsFolds
<1> QED
  BY <1>2, <1>3, Zenon DEF LeadsUnfolds, LeadsOf

\* It, turn by turn.
LeadsRuns(h, s, t, root, V) ==
  /\ h[0] = {root} /\ LeadsOf(s, t, root) = h[Len(s)]
  /\ \A m \in 1 .. Len(s) : h[m - 1] \in V /\ h[m] \in V /\ h[m] = DirsBelow(t, h[m - 1], s[m])

\* There is such a run.
LEMMA LeadsRun ==
  ASSUME NEW A, NEW s \in Seq(A), NEW t, NEW root, NEW V, {root} \in V,
         \A u \in V, x \in A : DirsBelow(t, u, x) \in V
  PROVE  \E h : LeadsRuns(h, s, t, root, V)
<1> DEFINE n == Len(s)
           turn(u, m) == DirsBelow(t, u, s[m])
           next == [m \in 1 .. n |-> [u \in V |-> turn(u, m)]]
<1>1. n \in Nat /\ DOMAIN s = 1 .. n /\ \A m \in 1 .. n : s[m] \in A
  OBVIOUS
<1>2. \A m \in 1 .. n : \A u \in V : turn(u, m) \in V
  BY <1>1, Zenon
<1> HIDE DEF turn, n
<1>3. next \in [1 .. n -> [V -> V]]
  BY <1>2
<1> HIDE DEF next
<1>4. PICK f : IsLoop(f, n, V, {root}, next)
  BY <1>1, <1>3, LoopExists
<1>5. LeadsFolds(f, s, t, root)
  <2> SUFFICES ASSUME NEW T \in SUBSET (1 .. n), T # {} PROVE f[T] = turn(f[T \ {Max(T)}], Max(T))
    BY <1>1, <1>4 DEF LeadsFolds, IsLoop, turn
  <2>1. Max(T) \in 1 .. n
    BY <1>1, LastPlace
  <2>2. f[T \ {Max(T)}] \in V /\ f[T] = next[Max(T)][f[T \ {Max(T)}]]
    BY <1>4 DEF IsLoop
  <2> QED
    BY <2>1, <2>2 DEF next
<1>6. PICK r : LeadsFolds(r, s, t, root) /\ LeadsOf(s, t, root) = r[1 .. n]
  <2>1. f \in [SUBSET DOMAIN s -> V]
    BY <1>1, <1>4 DEF IsLoop
  <2>2. LeadsUnfolds(s, t, root)
    BY <1>5, <2>1, LeadsUnfold
  <2> QED
    BY <1>1, <2>2, Zenon DEF LeadsUnfolds
<1>7. Recursing(r, n, V, {root}, next)
  <2>1. r[{}] = {root}
    BY <1>6 DEF LeadsFolds
  <2>2. ASSUME NEW T \in SUBSET (1 .. n), T # {}, r[T \ {Max(T)}] \in V
        PROVE  r[T] = next[Max(T)][r[T \ {Max(T)}]]
    <3>1. Max(T) \in 1 .. n
      BY <1>1, <2>2, LastPlace
    <3>2. r[T] = turn(r[T \ {Max(T)}], Max(T))
      BY <1>1, <1>6, <2>2 DEF LeadsFolds, turn
    <3> QED
      BY <2>2, <3>1, <3>2 DEF next
  <2> QED
    BY <2>1, <2>2 DEF Recursing
<1>8. PICK h : IsTaken(h, n, V, {root}, next) /\ h[n] = r[1 .. n]
  BY <1>1, <1>3, <1>7, TakenAlong, SMTT(30)
<1>9. \A m \in 1 .. n : h[m - 1] \in V /\ h[m] \in V /\ h[m] = turn(h[m - 1], m)
  BY <1>8 DEF IsTaken, next
<1>10. LeadsRuns(h, s, t, root, V)
  BY <1>6, <1>8, <1>9, Zenon DEF LeadsRuns, IsTaken, turn, n
<1> QED
  BY <1>10

ListsFolds(f, s, walk, t, o, c) ==
  \A T \in SUBSET DOMAIN s :
    f[T] = IF T = {} THEN c.w ELSE WalkEntry(walk, t, o, c, f[T \ {Max(T)}], s[Max(T)])
ListsOf(s, walk, t, o, c) ==
  FoldLeft(LAMBDA w, e : WalkEntry(walk, t, o, c, w, e), c.w, s)
ListsUnfolds(s, walk, t, o, c) == \E r : ListsFolds(r, s, walk, t, o, c) /\ ListsOf(s, walk, t, o, c) = r[DOMAIN s]

\* The entries of a directory, listed, as the function of its fold.
LEMMA ListsUnfold ==
  ASSUME NEW s, NEW walk, NEW t, NEW o, NEW c, NEW V, NEW f \in [SUBSET DOMAIN s -> V], ListsFolds(f, s, walk, t, o, c)
  PROVE  ListsUnfolds(s, walk, t, o, c)
<1>1. f = [T \in SUBSET DOMAIN s |-> IF T = {} THEN c.w ELSE WalkEntry(walk, t, o, c, f[T \ {Max(T)}], s[Max(T)])]
  BY Zenon DEF ListsFolds
<1>2. PICK r : /\ r = [T \in SUBSET DOMAIN s |-> IF T = {} THEN c.w ELSE WalkEntry(walk, t, o, c, r[T \ {Max(T)}], s[Max(T)])]
               /\ FoldLeft(LAMBDA w, e : WalkEntry(walk, t, o, c, w, e), c.w, s) = r[DOMAIN s]
  BY <1>1, ZenonT(60) DEF FoldLeft, MapThenFoldSet
<1>3. ListsFolds(r, s, walk, t, o, c)
  BY <1>2, Zenon DEF ListsFolds
<1> QED
  BY <1>2, <1>3, Zenon DEF ListsUnfolds, ListsOf

\* It, turn by turn.
ListsRuns(h, s, walk, t, o, c, V) ==
  /\ h[0] = c.w /\ ListsOf(s, walk, t, o, c) = h[Len(s)]
  /\ \A m \in 1 .. Len(s) : h[m - 1] \in V /\ h[m] \in V /\ h[m] = WalkEntry(walk, t, o, c, h[m - 1], s[m])

\* There is such a run.
LEMMA ListsRun ==
  ASSUME NEW A, NEW s \in Seq(A), NEW walk, NEW t, NEW o, NEW c, NEW V, c.w \in V,
         \A u \in V, x \in A : WalkEntry(walk, t, o, c, u, x) \in V
  PROVE  \E h : ListsRuns(h, s, walk, t, o, c, V)
<1> DEFINE n == Len(s)
           turn(u, m) == WalkEntry(walk, t, o, c, u, s[m])
           next == [m \in 1 .. n |-> [u \in V |-> turn(u, m)]]
<1>1. n \in Nat /\ DOMAIN s = 1 .. n /\ \A m \in 1 .. n : s[m] \in A
  OBVIOUS
<1>2. \A m \in 1 .. n : \A u \in V : turn(u, m) \in V
  BY <1>1, Zenon
<1> HIDE DEF turn, n
<1>3. next \in [1 .. n -> [V -> V]]
  BY <1>2
<1> HIDE DEF next
<1>4. PICK f : IsLoop(f, n, V, c.w, next)
  BY <1>1, <1>3, LoopExists
<1>5. ListsFolds(f, s, walk, t, o, c)
  <2> SUFFICES ASSUME NEW T \in SUBSET (1 .. n), T # {} PROVE f[T] = turn(f[T \ {Max(T)}], Max(T))
    BY <1>1, <1>4 DEF ListsFolds, IsLoop, turn
  <2>1. Max(T) \in 1 .. n
    BY <1>1, LastPlace
  <2>2. f[T \ {Max(T)}] \in V /\ f[T] = next[Max(T)][f[T \ {Max(T)}]]
    BY <1>4 DEF IsLoop
  <2> QED
    BY <2>1, <2>2 DEF next
<1>6. PICK r : ListsFolds(r, s, walk, t, o, c) /\ ListsOf(s, walk, t, o, c) = r[1 .. n]
  <2>1. f \in [SUBSET DOMAIN s -> V]
    BY <1>1, <1>4 DEF IsLoop
  <2>2. ListsUnfolds(s, walk, t, o, c)
    BY <1>5, <2>1, ListsUnfold
  <2> QED
    BY <1>1, <2>2, Zenon DEF ListsUnfolds
<1>7. Recursing(r, n, V, c.w, next)
  <2>1. r[{}] = c.w
    BY <1>6 DEF ListsFolds
  <2>2. ASSUME NEW T \in SUBSET (1 .. n), T # {}, r[T \ {Max(T)}] \in V
        PROVE  r[T] = next[Max(T)][r[T \ {Max(T)}]]
    <3>1. Max(T) \in 1 .. n
      BY <1>1, <2>2, LastPlace
    <3>2. r[T] = turn(r[T \ {Max(T)}], Max(T))
      BY <1>1, <1>6, <2>2 DEF ListsFolds, turn
    <3> QED
      BY <2>2, <3>1, <3>2 DEF next
  <2> QED
    BY <2>1, <2>2 DEF Recursing
<1>8. PICK h : IsTaken(h, n, V, c.w, next) /\ h[n] = r[1 .. n]
  <2> DEFINE base == c.w
  <2>1. base \in V /\ Recursing(r, n, V, base, next) /\ n \in Nat
    BY <1>1, <1>7
  <2> HIDE DEF base
  <2>2. \E h : IsTaken(h, n, V, base, next) /\ h[n] = r[1 .. n]
    BY <1>3, <2>1, TakenAlong, SMTT(30)
  <2> QED
    BY <2>2 DEF base
<1>9. \A m \in 1 .. n : h[m - 1] \in V /\ h[m] \in V /\ h[m] = turn(h[m - 1], m)
  BY <1>8 DEF IsTaken, next
<1>10. ListsRuns(h, s, walk, t, o, c, V)
  BY <1>6, <1>8, <1>9, Zenon DEF ListsRuns, IsTaken, turn, n
<1> QED
  BY <1>10

\* The directory at a path one longer is below that at the path.
LEMMA LeadsOn ==
  ASSUME NEW t, NEW root \in DOMAIN t.listing
  PROVE  /\ DirsAt(t, root, <<>>) = {root}
         /\ \A p \in Seq(Basenames), x \in Basenames :
              /\ DirsAt(t, root, p) \subseteq DOMAIN t.listing
              /\ DirsAt(t, root, Append(p, x)) = DirsBelow(t, DirsAt(t, root, p), x)
<1> DEFINE V == SUBSET DOMAIN t.listing
<1>1. \A p : DirsAt(t, root, p) = LeadsOf(p, t, root)
  BY Zenon DEF DirsAt, LeadsOf
<1>2. {root} \in V /\ \A u \in V : \A x : DirsBelow(t, u, x) \in V
  BY DEF DirsBelow
<1> HIDE DEF V
<1>3. ASSUME NEW p \in Seq(Basenames) PROVE \E h : LeadsRuns(h, p, t, root, V)
  BY <1>2, LeadsRun
<1>4. DirsAt(t, root, <<>>) = {root}
  <2>1. <<>> \in Seq(Basenames) /\ Len(<<>>) = 0
    OBVIOUS
  <2>2. PICK h : LeadsRuns(h, <<>>, t, root, V)
    BY <1>3, <2>1, Zenon
  <2> QED
    BY <1>1, <2>1, <2>2, Zenon DEF LeadsRuns
<1>5. ASSUME NEW p \in Seq(Basenames), NEW x \in Basenames
      PROVE  DirsAt(t, root, p) \in V /\ DirsAt(t, root, Append(p, x)) = DirsBelow(t, DirsAt(t, root, p), x)
  <2> DEFINE q == Append(p, x)
             n == Len(p)
  <2>1. /\ q \in Seq(Basenames) /\ n \in Nat /\ Len(q) = n + 1 /\ q[n + 1] = x
        /\ \A m \in 1 .. n : q[m] = p[m] /\ m \in 1 .. n + 1
    OBVIOUS
  <2>2. PICK h : LeadsRuns(h, p, t, root, V)
    BY <1>3
  <2>3. PICK k : LeadsRuns(k, q, t, root, V)
    BY <1>3, <2>1
  <2> HIDE DEF q, n
  <2>4. h[0] = {root} /\ LeadsOf(p, t, root) = h[n] /\ \A m \in 1 .. n : h[m] = DirsBelow(t, h[m - 1], p[m])
    BY <2>2, Zenon DEF LeadsRuns, n
  <2>5. /\ k[0] = {root} /\ LeadsOf(q, t, root) = k[n + 1]
        /\ \A m \in 1 .. n + 1 : k[m - 1] \in V /\ k[m] = DirsBelow(t, k[m - 1], q[m])
    <3>1. /\ k[0] = {root} /\ LeadsOf(q, t, root) = k[Len(q)]
          /\ \A m \in 1 .. Len(q) : k[m - 1] \in V /\ k[m] = DirsBelow(t, k[m - 1], q[m])
      BY <2>3, Zenon DEF LeadsRuns
    <3> QED
      BY <2>1, <3>1
  <2> DEFINE P == {m \in 0 .. n : h[m] = k[m]}
  <2>6. 0 \in P
    <3>1. h[0] = k[0]
      BY <2>4, <2>5, Zenon
    <3>2. 0 \in 0 .. n
      BY <2>1
    <3> QED
      BY <3>1, <3>2
  <2>7. ASSUME NEW m \in 1 .. n, m - 1 \in P PROVE m \in P
    <3>1. h[m - 1] = k[m - 1] /\ m \in 0 .. n /\ m \in 1 .. n + 1
      BY <2>1, <2>7
    <3> QED
      BY <2>1, <2>4, <2>5, <3>1
  <2>8. n \in P
    <3> HIDE DEF P
    <3> QED
      BY <2>1, <2>6, <2>7, PrefixInduction
  <2>9. n + 1 \in 1 .. n + 1 /\ (n + 1) - 1 = n
    BY <2>1
  <2>10. k[n] \in V /\ k[n + 1] = DirsBelow(t, k[n], x)
    BY <2>1, <2>5, <2>9
  <2> QED
    BY <1>1, <2>4, <2>5, <2>8, <2>10 DEF q
<1> QED
  BY <1>4, <1>5 DEF V

-----------------------------------------------------------------------------
(* One entry of a directory                                                *)

\* What a directory may list.
Items(t) == {e \in [name : Basenames, kind : {"file", "dir", "gone", "bad", "link"},
                    target : DOMAIN t.listing \cup {FileTarget, NoTarget}] :
               /\ e.kind = "dir" => e.target \in DOMAIN t.listing
               /\ e.kind = "file" => e.target = FileTarget}

\* The entries of a directory of the tree, no two of one name.
LEMMA ListingIs ==
  ASSUME NEW t, IsTree(t), NEW dir \in DOMAIN t.listing
  PROVE  /\ t.listing[dir] \in Seq(Items(t)) /\ Len(t.listing[dir]) \in Nat
         /\ DOMAIN t.listing[dir] = 1 .. Len(t.listing[dir])
         /\ \A i \in 1 .. Len(t.listing[dir]) : t.listing[dir][i] \in Items(t)
         /\ \A i, j \in 1 .. Len(t.listing[dir]) : t.listing[dir][i].name = t.listing[dir][j].name => i = j
<1> DEFINE s == t.listing[dir]
           D == DOMAIN t.listing
           All == [name : Basenames, kind : {"file", "dir", "gone", "bad", "link"}, target : D \cup {FileTarget, NoTarget}]
<1>1. s \in Seq(All)
  <2>1. t.listing \in [D -> Seq(All)]
    BY Zenon DEF IsTree
  <2> HIDE DEF All
  <2> QED
    BY <2>1
<1>2. \A i, j \in DOMAIN s : /\ s[i].name = s[j].name => i = j
                             /\ s[i].kind = "dir" => s[i].target \in D
                             /\ s[i].kind = "file" => s[i].target = FileTarget
  BY Zenon DEF IsTree
<1>3. Len(s) \in Nat /\ DOMAIN s = 1 .. Len(s) /\ \A i \in 1 .. Len(s) : s[i] \in All
  <2> HIDE DEF All, s
  <2> QED
    BY <1>1, LenProperties, ElementOfSeq
<1>4. \A i \in 1 .. Len(s) : s[i] \in Items(t)
  <2> HIDE DEF s
  <2> QED
    BY <1>2, <1>3 DEF Items
<1>5. s \in Seq(Items(t))
  <2> HIDE DEF s, All
  <2>1. s = [i \in 1 .. Len(s) |-> s[i]]
    BY <1>1
  <2>2. s \in [1 .. Len(s) -> Items(t)]
    BY <1>4, <2>1
  <2> QED
    BY <1>3, <2>2
<1> QED
  BY <1>2, <1>3, <1>4, <1>5

\* What a sweep is made of.
LEMMA SweepParts ==
  ASSUME NEW t, NEW w \in Sweeps(t)
  PROVE  /\ w.entries \in Seq([path : Seq(Basenames), isDir : BOOLEAN])
         /\ w.errors \in Seq(Seq(Basenames) \X Reasons) /\ w.visited \subseteq DOMAIN t.listing
         /\ Len(w.entries) \in Nat /\ DOMAIN w.entries = 1 .. Len(w.entries)
         /\ Len(w.errors) \in Nat /\ DOMAIN w.errors = 1 .. Len(w.errors)
         /\ \A x \in ToSet(w.entries) : x.path \in Seq(Basenames) /\ x.isDir \in BOOLEAN
<1> DEFINE E == [path : Seq(Basenames), isDir : BOOLEAN]
           R == Seq(Basenames) \X Reasons
<1>1. w.entries \in Seq(E) /\ w.errors \in Seq(R) /\ w.visited \subseteq DOMAIN t.listing
  <2> HIDE DEF E, R
  <2>1. w \in [entries : Seq(E), errors : Seq(R), visited : SUBSET DOMAIN t.listing]
    BY Zenon DEF Sweeps, E, R
  <2> QED
    BY <2>1
<1>2. \A x \in E : x.path \in Seq(Basenames) /\ x.isDir \in BOOLEAN
  <2> DEFINE S == Seq(Basenames)
  <2> HIDE DEF S
  <2>1. \A x \in [path : S, isDir : BOOLEAN] : x.path \in S /\ x.isDir \in BOOLEAN
    OBVIOUS
  <2> QED
    BY <2>1 DEF S
<1>3. /\ Len(w.entries) \in Nat /\ DOMAIN w.entries = 1 .. Len(w.entries)
      /\ Len(w.errors) \in Nat /\ DOMAIN w.errors = 1 .. Len(w.errors)
  <2> HIDE DEF E, R
  <2> QED
    BY <1>1, LenProperties
<1>4. \A i \in 1 .. Len(w.entries) : w.entries[i] \in E
  <2> HIDE DEF E
  <2> QED
    BY <1>1, ElementOfSeq
<1>5. \A x \in ToSet(w.entries) : x \in E
  <2> HIDE DEF E
  <2> QED
    BY <1>3, <1>4 DEF ToSet
<1> HIDE DEF E
<1>6. \A x \in ToSet(w.entries) : x.path \in Seq(Basenames) /\ x.isDir \in BOOLEAN
  BY <1>2, <1>5, Zenon
<1> QED
  BY <1>1, <1>3, <1>6, Zenon DEF E

\* An error recorded, an entry listed, a directory marked as walked.
IsRecorded(w, new, path) ==
  new.entries = w.entries /\ new.visited = w.visited /\ Erred(new) = Erred(w) \cup {path}
IsListed(w, new, path, isDir) ==
  new.entries = Append(w.entries, Entry(path, isDir)) /\ new.visited = w.visited /\ new.errors = w.errors
DirVisited(w, dir) == [w EXCEPT !.visited = w.visited \cup {dir}]
IsVisited(w, new, dir) ==
  new.entries = w.entries /\ new.errors = w.errors /\ new.visited = w.visited \cup {dir}

\* An error recorded leaves a sweep.
LEMMA RecordedIs ==
  ASSUME NEW t, NEW w \in Sweeps(t), NEW path \in Seq(Basenames), NEW why \in Reasons,
         NEW new, new = Recorded(w, path, why)
  PROVE  new \in Sweeps(t) /\ IsRecorded(w, new, path)
<1> DEFINE R == Seq(Basenames) \X Reasons
           x == <<path, why>>
           E == Seq([path : Seq(Basenames), isDir : BOOLEAN])
<1>1. w.errors \in Seq(R) /\ x \in R /\ x[1] = path
  BY SweepParts
<1>2. Len(w.errors) \in Nat /\ DOMAIN w.errors = 1 .. Len(w.errors)
  BY SweepParts
<1> HIDE DEF R, x, E
<1>3. /\ Append(w.errors, x) \in Seq(R) /\ DOMAIN Append(w.errors, x) = 1 .. Len(w.errors) + 1
      /\ Append(w.errors, x)[Len(w.errors) + 1] = x
      /\ \A j \in 1 .. Len(w.errors) : Append(w.errors, x)[j] = w.errors[j]
  BY <1>1, <1>2, AppendProperties
<1>4. w \in [entries : E, errors : Seq(R), visited : SUBSET DOMAIN t.listing]
  BY Zenon DEF Sweeps, E, R
<1>5. new = [w EXCEPT !.errors = Append(w.errors, x)]
  BY DEF Recorded, x
<1>6. /\ new \in [entries : E, errors : Seq(R), visited : SUBSET DOMAIN t.listing]
      /\ new.entries = w.entries /\ new.visited = w.visited /\ new.errors = Append(w.errors, x)
  BY <1>3, <1>4, <1>5
<1>7. Erred(new) = Erred(w) \cup {path}
  <2>1. 1 .. Len(w.errors) + 1 = (1 .. Len(w.errors)) \cup {Len(w.errors) + 1}
    BY <1>2
  <2> QED
    BY <1>1, <1>2, <1>3, <1>6, <2>1 DEF Erred
<1> QED
  BY <1>6, <1>7, Zenon DEF Sweeps, E, R, IsRecorded

\* So does an entry listed.
LEMMA ListedIs ==
  ASSUME NEW t, NEW w \in Sweeps(t), NEW path \in Seq(Basenames), NEW isDir \in BOOLEAN,
         NEW new, new = Listed(w, path, isDir)
  PROVE  new \in Sweeps(t) /\ IsListed(w, new, path, isDir)
<1> DEFINE E == [path : Seq(Basenames), isDir : BOOLEAN]
           x == Entry(path, isDir)
           R == Seq(Seq(Basenames) \X Reasons)
<1>1. x \in E
  <2> DEFINE S == Seq(Basenames)
  <2> HIDE DEF S
  <2>1. \A p \in S : Entry(p, isDir) \in [path : S, isDir : BOOLEAN]
    BY DEF Entry
  <2> QED
    BY <2>1 DEF S
<1>2. w.entries \in Seq(E)
  BY SweepParts
<1> HIDE DEF E, x, R
<1>3. Append(w.entries, x) \in Seq(E)
  BY <1>1, <1>2, AppendProperties
<1>4. w \in [entries : Seq(E), errors : R, visited : SUBSET DOMAIN t.listing]
  BY Zenon DEF Sweeps, E, R
<1>5. new = [w EXCEPT !.entries = Append(w.entries, x)]
  BY DEF Listed, x
<1>6. /\ new \in [entries : Seq(E), errors : R, visited : SUBSET DOMAIN t.listing]
      /\ new.entries = Append(w.entries, x) /\ new.visited = w.visited /\ new.errors = w.errors
  BY <1>3, <1>4, <1>5
<1> QED
  BY <1>6, Zenon DEF Sweeps, E, R, x, IsListed

\* So does a directory marked as walked.
LEMMA DirVisitedIs ==
  ASSUME NEW t, NEW w \in Sweeps(t), NEW dir \in DOMAIN t.listing, NEW new, new = DirVisited(w, dir)
  PROVE  new \in Sweeps(t) /\ IsVisited(w, new, dir)
<1> DEFINE E == Seq([path : Seq(Basenames), isDir : BOOLEAN])
           R == Seq(Seq(Basenames) \X Reasons)
<1> HIDE DEF E, R
<1>1. w \in [entries : E, errors : R, visited : SUBSET DOMAIN t.listing]
  BY Zenon DEF Sweeps, E, R
<1>2. /\ new \in [entries : E, errors : R, visited : SUBSET DOMAIN t.listing]
      /\ new.entries = w.entries /\ new.errors = w.errors /\ new.visited = w.visited \cup {dir}
  BY <1>1 DEF DirVisited
<1> QED
  BY <1>2, Zenon DEF Sweeps, E, R, IsVisited

\* What one entry e of the directory of call c does to a sweep w: it is passed
\* over, or listed, perhaps with an error, or recurse is called for it.
Here(c, e) == Append(c.path, e.name)
Opened(o, c, w, e) == WalkCall(DirVisited(Listed(w, Here(c, e), TRUE), e.target), Here(c, e), c.depth + 1, e.target)

PassedOver(o, c, w, e, new) ==
  \/ e.kind = "link" /\ ~ o.follow /\ new = w
  \/ IsDirectory(o, e) /\ e.name \in o.ignores /\ new = w
  \/ e.kind = "bad" /\ new = Recorded(w, <<>>, "listing")
  \/ /\ e.kind = "gone" \/ Follows(o, e, NoTarget)
     /\ \E why \in {"metadata", "broken"} : new = Recorded(w, Here(c, e), why)
DirListed(o, c, w, e, new) ==
  /\ IsDirectory(o, e) /\ e.name \notin o.ignores
  /\ LET seen == Listed(w, Here(c, e), TRUE)
     IN  \/ TooDeep(o, c.depth + 1) /\ new = seen
         \/ /\ ~ TooDeep(o, c.depth + 1)
            /\ \E why \in {"ceiling", "resolve", "alias"} : new = Recorded(seen, Here(c, e), why)
Recursed(walk, o, c, w, e, new) ==
  /\ IsDirectory(o, e) /\ e.name \notin o.ignores
  /\ ~ TooDeep(o, c.depth + 1) /\ c.depth + 1 <= MaxWalkDepth /\ (o.follow => e.target \notin w.visited)
  /\ new = walk[Opened(o, c, w, e)]

\* There is no other outcome.
LEMMA EntryIs ==
  ASSUME NEW t, IsTree(t), NEW o, IsWalk(o), NEW c, c.depth \in Nat, NEW w, NEW e \in Items(t), NEW walk,
         NEW new, new = WalkEntry(walk, t, o, c, w, e)
  PROVE  \/ PassedOver(o, c, w, e, new)
         \/ IsFile(o, e) /\ new = Listed(w, Here(c, e), FALSE)
         \/ DirListed(o, c, w, e, new)
         \/ Recursed(walk, o, c, w, e, new)
<1> DEFINE here == Here(c, e)
           depth == c.depth + 1
           seen == Listed(w, here, TRUE)
<1>1. /\ e.kind \in {"file", "dir", "gone", "bad", "link"}
      /\ e.kind = "dir" => e.target \in DOMAIN t.listing
      /\ e.kind = "file" => e.target = FileTarget
  BY DEF Items
<1>2. FileTarget # NoTarget /\ FileTarget \notin DOMAIN t.listing /\ NoTarget \notin DOMAIN t.listing
  BY DEF IsTree
<1>3. o.follow \in BOOLEAN
  BY DEF IsWalk
<1>4. seen.visited = w.visited
  BY DEF Listed
<1>5. Opened(o, c, w, e) = WalkCall([seen EXCEPT !.visited = @ \cup {e.target}], here, depth, e.target)
  BY DEF Opened, DirVisited
<1>6. depth \in Nat /\ MaxWalkDepth \in Nat
  BY WalkAssumption
<1>7. new = CASE e.kind = "bad"                  -> Recorded(w, <<>>, "listing")
              [] e.kind = "gone"                 -> Recorded(w, here, "metadata")
              [] e.kind = "link" /\ ~o.follow    -> w
              [] Follows(o, e, NoTarget)      -> Recorded(w, here, "broken")
              [] IsFile(o, e)                       -> Listed(w, here, FALSE)
              [] OTHER ->
                   IF e.name \in o.ignores THEN w
                   ELSE IF TooDeep(o, depth) THEN seen
                   ELSE IF depth > MaxWalkDepth THEN Recorded(seen, here, "ceiling")
                   ELSE IF o.follow /\ here \in t.unresolvable THEN Recorded(seen, here, "resolve")
                   ELSE IF AlreadyWalked(o, seen, e.target) THEN Recorded(seen, here, "alias")
                   ELSE walk[Opened(o, c, w, e)]
  BY <1>5, Zenon DEF WalkEntry, Here
<1> HIDE DEF here, depth
<1>8. CASE e.kind \in {"bad", "gone"}
  <2>1. ~ Follows(o, e, NoTarget) /\ ~ IsFile(o, e) /\ e.kind # "link"
    BY <1>8 DEF Follows, IsFile
  <2> QED
    BY <1>7, <1>8, <2>1 DEF PassedOver, here
<1>9. CASE e.kind = "link" /\ (~ o.follow \/ e.target = NoTarget)
  <2>1. ~ IsFile(o, e) /\ (o.follow => Follows(o, e, NoTarget)) /\ (~ o.follow => ~ Follows(o, e, NoTarget))
    BY <1>2, <1>9 DEF Follows, IsFile
  <2> QED
    BY <1>7, <1>9, <2>1 DEF PassedOver, here
<1>10. CASE IsFile(o, e)
  <2>1. e.kind \notin {"bad", "gone"} /\ ~ (e.kind = "link" /\ ~o.follow) /\ ~ Follows(o, e, NoTarget)
    BY <1>1, <1>2, <1>10 DEF IsFile, Follows
  <2> QED
    BY <1>7, <1>10, <2>1 DEF here
<1>11. CASE e.kind \notin {"bad", "gone"} /\ ~ IsFile(o, e) /\ ~ (e.kind = "link" /\ (~ o.follow \/ e.target = NoTarget))
  <2>1. IsDirectory(o, e) /\ ~ Follows(o, e, NoTarget)
    BY <1>1, <1>2, <1>11 DEF IsDirectory, IsFile, Follows
  <2>2. new = IF e.name \in o.ignores THEN w
              ELSE IF TooDeep(o, depth) THEN seen
              ELSE IF depth > MaxWalkDepth THEN Recorded(seen, here, "ceiling")
              ELSE IF o.follow /\ here \in t.unresolvable THEN Recorded(seen, here, "resolve")
              ELSE IF AlreadyWalked(o, seen, e.target) THEN Recorded(seen, here, "alias")
              ELSE walk[Opened(o, c, w, e)]
    BY <1>7, <1>11, <2>1
  <2> HIDE DEF seen
  <2>3. CASE e.name \in o.ignores
    <3>1. new = w
      BY <2>2, <2>3
    <3> QED
      BY <2>1, <2>3, <3>1, Zenon DEF PassedOver
  <2>4. CASE e.name \notin o.ignores /\ TooDeep(o, depth)
    BY <2>1, <2>2, <2>4, Zenon DEF DirListed, depth, seen, here
  <2>5. CASE e.name \notin o.ignores /\ ~ TooDeep(o, depth) /\ depth > MaxWalkDepth
    <3>1. new = Recorded(seen, here, "ceiling")
      BY <2>2, <2>5
    <3> QED
      BY <2>1, <2>5, <3>1 DEF DirListed, depth, seen, here
  <2> DEFINE lost == o.follow /\ here \in t.unresolvable
  <2>6. CASE e.name \notin o.ignores /\ ~ TooDeep(o, depth) /\ ~ (depth > MaxWalkDepth) /\ lost
    <3>1. new = Recorded(seen, here, "resolve")
      BY <2>2, <2>6
    <3> QED
      BY <2>1, <2>6, <3>1 DEF DirListed, depth, seen, here
  <2>7. CASE e.name \notin o.ignores /\ ~ TooDeep(o, depth) /\ ~ (depth > MaxWalkDepth) /\ ~ lost /\ AlreadyWalked(o, seen, e.target)
    <3>1. new = Recorded(seen, here, "alias")
      BY <2>2, <2>7
    <3> QED
      BY <2>1, <2>7, <3>1 DEF DirListed, depth, seen, here
  <2>8. CASE e.name \notin o.ignores /\ ~ TooDeep(o, depth) /\ ~ (depth > MaxWalkDepth) /\ ~ lost /\ ~ AlreadyWalked(o, seen, e.target)
    <3>1. new = walk[Opened(o, c, w, e)] /\ depth <= MaxWalkDepth
      BY <1>6, <2>2, <2>8
    <3>2. o.follow => e.target \notin w.visited
      BY <1>4, <2>8 DEF AlreadyWalked
    <3> QED
      BY <2>1, <2>8, <3>1, <3>2, Zenon DEF Recursed, depth
  <2> HIDE DEF lost
  <2> QED
    BY <2>3, <2>4, <2>5, <2>6, <2>7, <2>8, Zenon
<1> QED
  BY <1>8, <1>9, <1>10, <1>11, Zenon

\* A directory that is opened is one of the tree's, and the call for it is one.
LEMMA OpenedIs ==
  ASSUME NEW t, IsTree(t), NEW o, NEW c \in WalkCalls(t), NEW w \in Sweeps(t), NEW e \in Items(t), IsDirectory(o, e)
  PROVE  /\ e.target \in DOMAIN t.listing /\ Here(c, e) \in Seq(Basenames)
         /\ Opened(o, c, w, e) \in WalkCalls(t)
<1> DEFINE P == Seq(Basenames)
           v == Listed(w, Here(c, e), TRUE)
           u == DirVisited(v, e.target)
           S == Sweeps(t)
           here == Here(c, e)
           D == DOMAIN t.listing
<1>1. e.target \in D
  BY DEF IsDirectory, Items
<1>2. c.path \in P /\ c.depth \in Nat
  <2> HIDE DEF P
  <2> QED
    BY DEF WalkCalls, P
<1>3. e.name \in Basenames
  BY DEF Items
<1>4. here \in P
  BY <1>2, <1>3 DEF Here
<1> HIDE DEF P, here
<1>5. v \in S
  BY <1>4, ListedIs DEF P, here
<1>6. u \in S
  <2> HIDE DEF v
  <2> QED
    BY <1>1, <1>5, DirVisitedIs
<1> DEFINE x == Opened(o, c, w, e)
<1>7. x = [w |-> u, path |-> here, depth |-> c.depth + 1, dir |-> e.target]
  BY DEF Opened, WalkCall, here
<1> HIDE DEF x, u, S, D
<1>8. x \in [w : S, path : P, depth : Nat, dir : D]
  BY <1>1, <1>2, <1>4, <1>6, <1>7
<1> QED
  BY <1>1, <1>4, <1>8, Zenon DEF x, u, S, D, P, here, WalkCalls

\* An entry leaves a sweep a sweep.
LEMMA EntryKeepsType ==
  ASSUME NEW t, IsTree(t), NEW o, IsWalk(o), NEW c \in WalkCalls(t), NEW w \in Sweeps(t), NEW e \in Items(t),
         NEW walk, \A x \in WalkCalls(t) : walk[x] \in Sweeps(t)
  PROVE  WalkEntry(walk, t, o, c, w, e) \in Sweeps(t)
<1> DEFINE new == WalkEntry(walk, t, o, c, w, e)
           here == Here(c, e)
<1>1. c.path \in Seq(Basenames) /\ c.depth \in Nat
  <2> DEFINE P == Seq(Basenames)
  <2> HIDE DEF P
  <2>1. c.path \in P /\ c.depth \in Nat
    BY DEF WalkCalls, P
  <2> QED
    BY <2>1 DEF P
<1>2. here \in Seq(Basenames) /\ <<>> \in Seq(Basenames)
  <2>1. e.name \in Basenames
    BY DEF Items
  <2> QED
    BY <1>1, <2>1 DEF Here
<1>3. {"listing", "metadata", "broken", "ceiling", "resolve", "alias"} \subseteq Reasons
  BY DEF Reasons
<1>4. /\ \A u \in Sweeps(t), why \in Reasons : \A at \in Seq(Basenames) : Recorded(u, at, why) \in Sweeps(t)
      /\ \A isDir \in BOOLEAN : Listed(w, here, isDir) \in Sweeps(t)
  BY <1>2, RecordedIs, ListedIs
<1>5. \/ PassedOver(o, c, w, e, new)
      \/ new = Listed(w, here, FALSE)
      \/ DirListed(o, c, w, e, new)
      \/ Recursed(walk, o, c, w, e, new)
  <2>1. new = WalkEntry(walk, t, o, c, w, e)
    OBVIOUS
  <2> HIDE DEF new
  <2> QED
    BY <1>1, <2>1, EntryIs
<1> SUFFICES new \in Sweeps(t)
  OBVIOUS
<1> HIDE DEF new
<1>6. CASE PassedOver(o, c, w, e, new)
  BY <1>2, <1>3, <1>4, <1>6 DEF PassedOver
<1>7. CASE new = Listed(w, here, FALSE)
  BY <1>4, <1>7
<1>8. CASE DirListed(o, c, w, e, new)
  BY <1>2, <1>3, <1>4, <1>8 DEF DirListed
<1>9. CASE Recursed(walk, o, c, w, e, new)
  <2>1. IsDirectory(o, e) /\ new = walk[Opened(o, c, w, e)]
    BY <1>9 DEF Recursed
  <2>2. Opened(o, c, w, e) \in WalkCalls(t)
    BY <2>1, OpenedIs
  <2> QED
    BY <2>1, <2>2
<1> QED
  BY <1>5, <1>6, <1>7, <1>8, <1>9, Zenon

-----------------------------------------------------------------------------
(* The recursion                                                           *)

\* What a call of recurse computes, with walk for recurse itself.
WalkBody(t, o, walk, c) == IF c.dir \in t.unreadable THEN Recorded(c.w, c.path, "unreadable")
                           ELSE ListsOf(t.listing[c.dir], walk, t, o, c)

\* What a call is made of.
LEMMA CallParts ==
  ASSUME NEW t, NEW c \in WalkCalls(t)
  PROVE  c.w \in Sweeps(t) /\ c.path \in Seq(Basenames) /\ c.depth \in Nat /\ c.dir \in DOMAIN t.listing
<1> DEFINE P == Seq(Basenames)
           S == Sweeps(t)
<1> HIDE DEF P, S
<1>1. c \in [w : S, path : P, depth : Nat, dir : DOMAIN t.listing]
  BY Zenon DEF WalkCalls, P, S
<1> QED
  BY <1>1 DEF P, S

\* Its result is a sweep.
LEMMA BodyType ==
  ASSUME NEW t, IsTree(t), NEW o, IsWalk(o), NEW c \in WalkCalls(t),
         NEW walk, \A x \in WalkCalls(t) : walk[x] \in Sweeps(t)
  PROVE  WalkBody(t, o, walk, c) \in Sweeps(t)
<1>1. c.w \in Sweeps(t) /\ c.path \in Seq(Basenames) /\ c.depth \in Nat /\ c.dir \in DOMAIN t.listing
  BY CallParts
<1>2. CASE c.dir \in t.unreadable
  <2>1. "unreadable" \in Reasons
    BY DEF Reasons
  <2>2. Recorded(c.w, c.path, "unreadable") \in Sweeps(t)
    BY <1>1, <2>1, RecordedIs
  <2> QED
    BY <1>2, <2>2 DEF WalkBody
<1>3. CASE c.dir \notin t.unreadable
  <2> DEFINE s == t.listing[c.dir]
             V == Sweeps(t)
             A == Items(t)
  <2>1. s \in Seq(A) /\ Len(s) \in Nat
    BY <1>1, ListingIs
  <2>2. c.w \in V /\ \A u \in V, e \in A : WalkEntry(walk, t, o, c, u, e) \in V
    BY <1>1, EntryKeepsType
  <2> HIDE DEF s, V, A
  <2>3. PICK h : ListsRuns(h, s, walk, t, o, c, V)
    BY <2>1, <2>2, ListsRun
  <2>4. h[0] = c.w /\ ListsOf(s, walk, t, o, c) = h[Len(s)] /\ \A m \in 1 .. Len(s) : h[m] \in V
    BY <2>3, Zenon DEF ListsRuns
  <2>5. ListsOf(s, walk, t, o, c) \in V
    <3>1. Len(s) = 0 \/ Len(s) \in 1 .. Len(s)
      BY <2>1
    <3> QED
      BY <2>2, <2>4, <3>1
  <2> QED
    BY <1>3, <2>5 DEF WalkBody, s, V
<1> QED
  BY <1>2, <1>3

\* f and g are the same for the calls from a depth on.
SameFrom(t, f, g, n) == \A x \in WalkCalls(t) : x.depth >= n => f[x] = g[x]

\* An entry, and a call, need recurse one level down only, and not at all at
\* the ceiling.
LEMMA EntryLocal ==
  ASSUME NEW t, IsTree(t), NEW o, IsWalk(o), NEW c \in WalkCalls(t), NEW w \in Sweeps(t), NEW e \in Items(t),
         NEW f, NEW g, c.depth >= MaxWalkDepth \/ SameFrom(t, f, g, c.depth + 1)
  PROVE  WalkEntry(f, t, o, c, w, e) = WalkEntry(g, t, o, c, w, e)
<1> DEFINE x == Opened(o, c, w, e)
           here == Here(c, e)
           depth == c.depth + 1
           seen == Listed(w, here, TRUE)
<1>1. c.depth \in Nat /\ depth \in Nat /\ MaxWalkDepth \in Nat
  BY CallParts, WalkAssumption
<1>2. x = WalkCall([seen EXCEPT !.visited = @ \cup {e.target}], here, depth, e.target)
  BY DEF Opened, DirVisited
<1> HIDE DEF x
<1>3. CASE f[x] = g[x]
  BY <1>2, <1>3, Zenon DEF WalkEntry, Here
<1>4. CASE f[x] # g[x]
  <2>1. ~ IsDirectory(o, e) \/ depth > MaxWalkDepth
    <3> SUFFICES ASSUME IsDirectory(o, e) PROVE c.depth >= MaxWalkDepth
      BY <1>1
    <3>1. x \in WalkCalls(t) /\ x.depth = c.depth + 1
      <4>1. x \in WalkCalls(t)
        BY OpenedIs DEF x
      <4>2. x.depth = c.depth + 1
        BY DEF x, Opened, WalkCall
      <4> QED
        BY <4>1, <4>2
    <3>2. ~ SameFrom(t, f, g, c.depth + 1)
      BY <1>1, <1>4, <3>1 DEF SameFrom
    <3> QED
      BY <3>2
  <2>2. CASE depth > MaxWalkDepth
    <3>1. \A walk : WalkEntry(walk, t, o, c, w, e) =
            CASE e.kind = "bad"                  -> Recorded(w, <<>>, "listing")
              [] e.kind = "gone"                 -> Recorded(w, here, "metadata")
              [] e.kind = "link" /\ ~o.follow    -> w
              [] Follows(o, e, NoTarget)      -> Recorded(w, here, "broken")
              [] IsFile(o, e)                       -> Listed(w, here, FALSE)
              [] OTHER -> IF e.name \in o.ignores THEN w
                          ELSE IF TooDeep(o, depth) THEN seen ELSE Recorded(seen, here, "ceiling")
      BY <2>2, Zenon DEF WalkEntry, Here
    <3> QED
      BY <3>1, Zenon
  <2>3. CASE ~ IsDirectory(o, e)
    <3> DEFINE Taken(y) == CASE e.kind = "bad"                  -> Recorded(w, <<>>, "listing")
                             [] e.kind = "gone"                 -> Recorded(w, here, "metadata")
                             [] e.kind = "link" /\ ~o.follow    -> w
                             [] Follows(o, e, NoTarget)      -> Recorded(w, here, "broken")
                             [] IsFile(o, e)                       -> Listed(w, here, FALSE)
                             [] OTHER -> y
               Out(walk) == IF e.name \in o.ignores THEN w
                            ELSE IF TooDeep(o, depth) THEN seen
                            ELSE IF depth > MaxWalkDepth THEN Recorded(seen, here, "ceiling")
                            ELSE IF o.follow /\ here \in t.unresolvable THEN Recorded(seen, here, "resolve")
                            ELSE IF AlreadyWalked(o, seen, e.target) THEN Recorded(seen, here, "alias")
                            ELSE walk[x]
    <3>1. /\ e.kind \in {"file", "dir", "gone", "bad", "link"}
          /\ e.kind = "file" => e.target = FileTarget
      BY DEF Items
    <3>2. FileTarget # NoTarget
      BY DEF IsTree
    <3>3. \/ e.kind = "bad" \/ e.kind = "gone" \/ (e.kind = "link" /\ ~o.follow)
          \/ Follows(o, e, NoTarget) \/ IsFile(o, e)
      BY <2>3, <3>1, <3>2 DEF IsDirectory, IsFile, Follows
    <3>4. \A walk : WalkEntry(walk, t, o, c, w, e) = Taken(Out(walk))
      BY <1>2, Zenon DEF WalkEntry, Here
    <3> HIDE DEF Out, here
    <3>5. \A y, z : Taken(y) = Taken(z)
      <4>1. CASE e.kind \in {"bad", "gone"}
        <5>1. e.kind # "link" /\ ~ Follows(o, e, NoTarget) /\ ~ IsFile(o, e)
          BY <4>1 DEF Follows, IsFile
        <5>2. \A y : Taken(y) = IF e.kind = "bad" THEN Recorded(w, <<>>, "listing") ELSE Recorded(w, here, "metadata")
          BY <4>1, <5>1
        <5> QED
          BY <5>2, Zenon
      <4>2. CASE e.kind = "link" /\ ~o.follow
        <5>1. ~ Follows(o, e, NoTarget) /\ ~ IsFile(o, e)
          BY <4>2 DEF Follows, IsFile
        <5>2. \A y : Taken(y) = w
          BY <4>2, <5>1
        <5> QED
          BY <5>2, Zenon
      <4>3. CASE Follows(o, e, NoTarget)
        <5>1. e.kind = "link" /\ o.follow /\ ~ IsFile(o, e)
          BY <3>2, <4>3 DEF Follows, IsFile
        <5>2. \A y : Taken(y) = Recorded(w, here, "broken")
          BY <4>3, <5>1
        <5> QED
          BY <5>2, Zenon
      <4>4. CASE IsFile(o, e)
        <5>1. e.kind \notin {"bad", "gone"} /\ ~ (e.kind = "link" /\ ~o.follow) /\ ~ Follows(o, e, NoTarget)
          BY <3>2, <4>4 DEF Follows, IsFile
        <5>2. \A y : Taken(y) = Listed(w, here, FALSE)
          BY <4>4, <5>1
        <5> QED
          BY <5>2, Zenon
      <4> QED
        BY <3>3, <4>1, <4>2, <4>3, <4>4
    <3> HIDE DEF Taken
    <3> QED
      BY <3>4, <3>5, Zenon
  <2> QED
    BY <2>1, <2>2, <2>3
<1> QED
  BY <1>3, <1>4

\* So does the whole of a call.
LEMMA BodyLocal ==
  ASSUME NEW t, IsTree(t), NEW o, IsWalk(o), NEW c \in WalkCalls(t),
         NEW f, \A x \in WalkCalls(t) : f[x] \in Sweeps(t),
         NEW g, c.depth >= MaxWalkDepth \/ SameFrom(t, f, g, c.depth + 1)
  PROVE  WalkBody(t, o, f, c) = WalkBody(t, o, g, c)
<1> DEFINE s == t.listing[c.dir]
           V == Sweeps(t)
           A == Items(t)
<1>1. c.w \in V /\ c.dir \in DOMAIN t.listing
  BY CallParts
<1>2. s \in Seq(A) /\ Len(s) \in Nat /\ \A m \in 1 .. Len(s) : s[m] \in A
  BY <1>1, ListingIs
<1>3. \A u \in V, e \in A : WalkEntry(f, t, o, c, u, e) \in V
  BY EntryKeepsType
<1>4. \A u \in V, e \in A : WalkEntry(f, t, o, c, u, e) = WalkEntry(g, t, o, c, u, e)
  BY EntryLocal
<1>5. \A u \in V, e \in A : WalkEntry(g, t, o, c, u, e) \in V
  BY <1>3, <1>4
<1> HIDE DEF s, V, A
<1>6. PICK h : ListsRuns(h, s, f, t, o, c, V)
  BY <1>1, <1>2, <1>3, ListsRun
<1>7. PICK k : ListsRuns(k, s, g, t, o, c, V)
  BY <1>1, <1>2, <1>5, ListsRun
<1>8. /\ h[0] = c.w /\ ListsOf(s, f, t, o, c) = h[Len(s)]
      /\ \A m \in 1 .. Len(s) : h[m - 1] \in V /\ h[m] = WalkEntry(f, t, o, c, h[m - 1], s[m])
  BY <1>6, Zenon DEF ListsRuns
<1>9. /\ k[0] = c.w /\ ListsOf(s, g, t, o, c) = k[Len(s)]
      /\ \A m \in 1 .. Len(s) : k[m] = WalkEntry(g, t, o, c, k[m - 1], s[m])
  BY <1>7, Zenon DEF ListsRuns
<1> DEFINE P == {m \in 0 .. Len(s) : h[m] = k[m]}
<1>10. 0 \in P
  <2>1. h[0] = k[0]
    BY <1>8, <1>9
  <2> QED
    BY <1>2, <2>1
<1>11. ASSUME NEW m \in 1 .. Len(s), m - 1 \in P PROVE m \in P
  <2>1. h[m - 1] = k[m - 1] /\ m \in 0 .. Len(s)
    BY <1>2, <1>11
  <2>2. h[m] = k[m]
    BY <1>2, <1>4, <1>8, <1>9, <2>1
  <2> QED
    BY <2>1, <2>2
<1>12. Len(s) \in P
  <2> HIDE DEF P
  <2> QED
    BY <1>2, <1>10, <1>11, PrefixInduction
<1> QED
  BY <1>8, <1>9, <1>12, Zenon DEF WalkBody, s

\* recurse, as a function of its calls.
IsRecurse(f, t, o) == \A c \in WalkCalls(t) : f[c] \in Sweeps(t) /\ f[c] = WalkBody(t, o, f, c)

\* There is such a function, found from the ceiling up.
LEMMA RecurseExists ==
  ASSUME NEW t, IsTree(t), NEW o, IsWalk(o)
  PROVE  \E f \in [WalkCalls(t) -> Sweeps(t)] : IsRecurse(f, t, o)
<1> DEFINE C == WalkCalls(t)
           V == Sweeps(t)
           Right(f, n) == \A c \in C : c.depth + n >= MaxWalkDepth => f[c] = WalkBody(t, o, f, c)
           P == {n \in Nat : \E f \in [C -> V] : Right(f, n)}
<1>1. \A c \in C : c.depth \in Nat /\ c.w \in V
  BY CallParts
<1>2. ASSUME NEW f \in [C -> V] PROVE [c \in C |-> WalkBody(t, o, f, c)] \in [C -> V]
  BY <1>2, BodyType
<1>3. ASSUME NEW f \in [C -> V], NEW g, NEW c \in C, c.depth >= MaxWalkDepth \/ SameFrom(t, f, g, c.depth + 1)
      PROVE  WalkBody(t, o, f, c) = WalkBody(t, o, g, c)
  BY <1>3, BodyLocal
<1>4. MaxWalkDepth \in Nat
  BY WalkAssumption
<1>5. 0 \in P
  <2> DEFINE f == [c \in C |-> c.w]
             g == [c \in C |-> WalkBody(t, o, f, c)]
  <2>1. f \in [C -> V] /\ g \in [C -> V] /\ \A c \in C : g[c] = WalkBody(t, o, f, c)
    BY <1>1, <1>2
  <2> HIDE DEF C, V, f, g
  <2>2. ASSUME NEW c \in C, c.depth + 0 >= MaxWalkDepth PROVE g[c] = WalkBody(t, o, g, c)
    <3>1. c.depth >= MaxWalkDepth
      BY <1>1, <2>2
    <3> QED
      BY <1>3, <2>1, <3>1
  <2> QED
    BY <2>1, <2>2
<1>6. ASSUME NEW n \in Nat, n \in P PROVE n + 1 \in P
  <2>1. PICK f \in [C -> V] : Right(f, n)
    BY <1>6
  <2> DEFINE g == [c \in C |-> WalkBody(t, o, f, c)]
  <2>2. g \in [C -> V] /\ \A c \in C : g[c] = WalkBody(t, o, f, c)
    BY <1>2
  <2>3. \A c \in C : c.depth + n >= MaxWalkDepth => f[c] = g[c]
    BY <2>1, <2>2
  <2> HIDE DEF g
  <2>4. ASSUME NEW c \in C, c.depth + (n + 1) >= MaxWalkDepth PROVE g[c] = WalkBody(t, o, g, c)
    <3>1. c.depth + 1 \in Nat /\ \A x \in C : x.depth >= c.depth + 1 => x.depth + n >= MaxWalkDepth
      BY <1>1, <1>4, <2>4
    <3>2. SameFrom(t, f, g, c.depth + 1)
      BY <2>3, <3>1 DEF SameFrom
    <3> HIDE DEF C, V
    <3> QED
      BY <1>3, <2>2, <3>2
  <2> QED
    BY <2>2, <2>4
<1>7. MaxWalkDepth \in P
  <2> HIDE DEF P
  <2> QED
    BY <1>4, <1>5, <1>6, NatSetInduction
<1>8. PICK f \in [C -> V] : Right(f, MaxWalkDepth)
  BY <1>7
<1>9. \A c \in C : c.depth + MaxWalkDepth >= MaxWalkDepth
  BY <1>1, <1>4
<1> QED
  BY <1>8, <1>9 DEF IsRecurse

\* fs_walk is such a recurse, called for the root.
LEMMA WalkIs ==
  ASSUME NEW t, IsTree(t), NEW o, IsWalk(o), NEW from
  PROVE  \E f : IsRecurse(f, t, o) /\ WalkDir(t, o, from) = f[WalkCall(NoWalk(t, from), <<>>, 0, from)]
<1> DEFINE Walker(f) == f = [c \in WalkCalls(t) |->
                               IF c.dir \in t.unreadable THEN Recorded(c.w, c.path, "unreadable")
                               ELSE FoldLeft(LAMBDA w, e : WalkEntry(f, t, o, c, w, e), c.w, t.listing[c.dir])]
<1>1. PICK f \in [WalkCalls(t) -> Sweeps(t)] : IsRecurse(f, t, o)
  BY RecurseExists
<1>2. \A g, c : WalkBody(t, o, g, c) = IF c.dir \in t.unreadable THEN Recorded(c.w, c.path, "unreadable")
                               ELSE FoldLeft(LAMBDA w, e : WalkEntry(g, t, o, c, w, e), c.w, t.listing[c.dir])
  BY Zenon DEF WalkBody, ListsOf
<1>3. f = [c \in WalkCalls(t) |-> WalkBody(t, o, f, c)]
  BY <1>1 DEF IsRecurse
<1>4. Walker(f)
  BY <1>2, <1>3, Zenon
<1>5. PICK g : Walker(g) /\ WalkDir(t, o, from) = g[WalkCall(NoWalk(t, from), <<>>, 0, from)]
  BY <1>4, ZenonT(60) DEF WalkDir
<1>6. \A c \in WalkCalls(t) : g[c] = WalkBody(t, o, g, c) /\ f[c] = WalkBody(t, o, f, c) /\ c.depth \in Nat
  <2>1. g = [c \in WalkCalls(t) |->
               IF c.dir \in t.unreadable THEN Recorded(c.w, c.path, "unreadable")
               ELSE FoldLeft(LAMBDA w, e : WalkEntry(g, t, o, c, w, e), c.w, t.listing[c.dir])]
    BY <1>5, Zenon
  <2>2. \A c \in WalkCalls(t) : g[c] = IF c.dir \in t.unreadable THEN Recorded(c.w, c.path, "unreadable")
               ELSE FoldLeft(LAMBDA w, e : WalkEntry(g, t, o, c, w, e), c.w, t.listing[c.dir])
    BY <2>1, Zenon
  <2>3. ASSUME NEW c \in WalkCalls(t) PROVE g[c] = WalkBody(t, o, g, c)
    <3>1. WalkBody(t, o, g, c) = IF c.dir \in t.unreadable THEN Recorded(c.w, c.path, "unreadable")
               ELSE FoldLeft(LAMBDA w, e : WalkEntry(g, t, o, c, w, e), c.w, t.listing[c.dir])
      BY Zenon DEF WalkBody, ListsOf
    <3>2. g[c] = IF c.dir \in t.unreadable THEN Recorded(c.w, c.path, "unreadable")
               ELSE FoldLeft(LAMBDA w, e : WalkEntry(g, t, o, c, w, e), c.w, t.listing[c.dir])
      BY <2>2, Zenon
    <3> QED
      BY <3>1, <3>2, Zenon
  <2> QED
    BY <1>1, <2>3, CallParts DEF IsRecurse
<1>7. \A c \in WalkCalls(t) : f[c] \in Sweeps(t)
  BY <1>1 DEF IsRecurse
<1> DEFINE C == WalkCalls(t)
           P == {n \in Nat : \A c \in C : c.depth + n >= MaxWalkDepth => f[c] = g[c]}
<1>8. MaxWalkDepth \in Nat
  BY WalkAssumption
<1>9. ASSUME NEW c \in C, c.depth >= MaxWalkDepth \/ SameFrom(t, f, g, c.depth + 1)
      PROVE  f[c] = g[c]
  <2>1. WalkBody(t, o, f, c) = WalkBody(t, o, g, c)
    BY <1>7, <1>9, BodyLocal
  <2> QED
    BY <1>6, <2>1
<1>10. 0 \in P
  <2>1. \A c \in C : c.depth + 0 >= MaxWalkDepth => c.depth >= MaxWalkDepth
    BY <1>6, <1>8
  <2> QED
    BY <1>9, <2>1
<1>11. ASSUME NEW n \in Nat, n \in P PROVE n + 1 \in P
  <2>1. ASSUME NEW c \in C, c.depth + (n + 1) >= MaxWalkDepth PROVE f[c] = g[c]
    <3>1. c.depth + 1 \in Nat /\ \A x \in C : x.depth >= c.depth + 1 => x.depth + n >= MaxWalkDepth
      BY <1>6, <1>8, <2>1
    <3>2. SameFrom(t, f, g, c.depth + 1)
      BY <1>11, <3>1 DEF SameFrom
    <3> QED
      BY <1>9, <3>2
  <2> QED
    BY <2>1
<1>12. MaxWalkDepth \in P
  <2> HIDE DEF P
  <2> QED
    BY <1>8, <1>10, <1>11, NatSetInduction
<1>13. \A c \in C : f[c] = g[c]
  <2>1. \A c \in C : c.depth + MaxWalkDepth >= MaxWalkDepth
    BY <1>6, <1>8
  <2> QED
    BY <1>12, <2>1
<1>14. IsRecurse(g, t, o)
  BY <1>6, <1>7, <1>13 DEF IsRecurse
<1> QED
  BY <1>5, <1>14

-----------------------------------------------------------------------------
(* A sweep while it goes on                                                *)

\* A path that goes on from another.
Under(path, p) == Len(p) > Len(path) /\ \A i \in 1 .. Len(path) : p[i] = path[i]

\* One name more.
OneOn(path, x) == Append(path, x)

\* It makes a path.
LEMMA OneOnType ==
  ASSUME NEW A, NEW path \in Seq(A), NEW x \in A
  PROVE  OneOn(path, x) \in Seq(A)
  BY DEF OneOn

\* It is one longer, and goes on from the path it was added to.
LEMMA OneFurther ==
  ASSUME NEW A, NEW path \in Seq(A), NEW x \in A, NEW here \in Seq(A), here = OneOn(path, x)
  PROVE  /\ Len(here) = Len(path) + 1 /\ Len(path) \in Nat
         /\ here[Len(path) + 1] = x /\ \A i \in 1 .. Len(path) : here[i] = path[i]
         /\ Front(here) = path /\ Under(path, here) /\ here # path
<1>1. /\ Len(here) = Len(path) + 1 /\ Len(path) \in Nat
      /\ here[Len(path) + 1] = x /\ \A i \in 1 .. Len(path) : here[i] = path[i]
  <2>1. Len(path) \in Nat /\ Len(Append(path, x)) = Len(path) + 1
        /\ Append(path, x)[Len(path) + 1] = x /\ \A i \in 1 .. Len(path) : Append(path, x)[i] = path[i]
    OBVIOUS
  <2> QED
    BY <2>1, Zenon DEF OneOn
<1>2. Front(here) = path
  <2> DEFINE f == SubSeq(here, 1, Len(path))
  <2>1. f \in Seq(A) /\ Len(f) = Len(path) /\ \A i \in 1 .. Len(path) : f[i] = here[i]
    BY <1>1
  <2>2. Front(here) = f
    BY <1>1 DEF Front
  <2> HIDE DEF f
  <2>3. f = path
    <3>1. \A i \in 1 .. Len(f) : f[i] = path[i]
      BY <1>1, <2>1
    <3> QED
      BY <2>1, <3>1, SeqEqual
  <2> QED
    BY <2>2, <2>3
<1>3. Under(path, here) /\ here # path
  <2>1. Len(here) > Len(path)
    BY <1>1
  <2> QED
    BY <1>1, <2>1 DEF Under
<1> QED
  BY <1>1, <1>2, <1>3

\* What goes on from a path one longer goes on from the path, through that name.
LEMMA FurtherUnder ==
  ASSUME NEW A, NEW path \in Seq(A), NEW x \in A, NEW here \in Seq(A), here = OneOn(path, x),
         NEW p \in Seq(A), Under(here, p)
  PROVE  Under(path, p) /\ p[Len(path) + 1] = x /\ p # here
<1>1. Len(here) = Len(path) + 1 /\ Len(path) \in Nat
      /\ here[Len(path) + 1] = x /\ \A i \in 1 .. Len(path) : here[i] = path[i]
  BY OneFurther
<1>2. Len(p) \in Nat
  OBVIOUS
<1>3. Len(p) > Len(here) /\ \A i \in 1 .. Len(here) : p[i] = here[i]
  BY DEF Under
<1>4. \A i \in 1 .. Len(path) : i \in 1 .. Len(here)
  BY <1>1
<1>5. Len(path) + 1 \in 1 .. Len(here)
  BY <1>1
<1>6. \A i \in 1 .. Len(path) : p[i] = path[i]
  BY <1>1, <1>3, <1>4
<1>7. Len(p) > Len(path) /\ p[Len(path) + 1] = x /\ Len(p) > Len(here)
  BY <1>1, <1>2, <1>3, <1>5
<1>8. p # here
  BY <1>1, <1>2, <1>7
<1> QED
  BY <1>6, <1>7, <1>8 DEF Under

\* The directories that are listed, and those of which something is.
DirPaths(w) == {e.path : e \in {x \in ToSet(w.entries) : x.isDir}}
Desc(w) == {Front(p) : p \in Paths(w.entries)}
DistinctPaths(w) == \A i, j \in DOMAIN w.entries : w.entries[i].path = w.entries[j].path => i = j

\* One entry more.
EntryAdded(w, new, path, here, isDir) ==
  /\ ToSet(new.entries) = ToSet(w.entries) \cup {Entry(here, isDir)}
  /\ Paths(new.entries) = Paths(w.entries) \cup {here}
  /\ Desc(new) = Desc(w) \cup {path}
  /\ \A p \in DirPaths(new) : p \in DirPaths(w) \/ (p = here /\ isDir)
  /\ here \notin Paths(w.entries) /\ DistinctPaths(w) => DistinctPaths(new)

\* An entry listed adds its path and its directory, and no path twice if it is new.
LEMMA OneMore ==
  ASSUME NEW t, NEW w \in Sweeps(t), NEW new \in Sweeps(t), NEW path \in Seq(Basenames), NEW x \in Basenames, NEW isDir \in BOOLEAN,
         NEW here \in Seq(Basenames), here = OneOn(path, x), new.entries = Append(w.entries, Entry(here, isDir))
  PROVE  EntryAdded(w, new, path, here, isDir)
<1> DEFINE y == Entry(here, isDir)
           n == Len(w.entries)
           E == [path : Seq(Basenames), isDir : BOOLEAN]
<1>1. /\ w.entries \in Seq(E) /\ n \in Nat /\ DOMAIN w.entries = 1 .. n
      /\ here \in Seq(Basenames) /\ Front(here) = path
  <2>1. w.entries \in Seq(E) /\ n \in Nat /\ DOMAIN w.entries = 1 .. n
    BY SweepParts
  <2>2. Front(here) = path
    BY OneFurther
  <2> QED
    BY <2>1, <2>2
<1>2. y \in E /\ y.path = here /\ y.isDir = isDir
  <2> DEFINE S == Seq(Basenames)
  <2>1. here \in S
    BY <1>1
  <2> HIDE DEF S
  <2>2. y \in [path : S, isDir : BOOLEAN] /\ y.path = here /\ y.isDir = isDir
    BY <2>1 DEF Entry
  <2> QED
    BY <2>2 DEF S
<1>3. y = Entry(here, isDir)
  OBVIOUS
<1> HIDE DEF y, E, n
<1>4. ToSet(new.entries) = ToSet(w.entries) \cup {y}
  BY <1>1, <1>2, <1>3, DistinctAppend
<1>5. /\ DOMAIN new.entries = 1 .. n + 1 /\ new.entries[n + 1] = y
      /\ \A i \in 1 .. n : new.entries[i] = w.entries[i]
  BY <1>1, <1>2, <1>3, AppendProperties DEF n
<1>6. 1 .. n + 1 = (1 .. n) \cup {n + 1}
  BY <1>1
<1>7. Paths(new.entries) = Paths(w.entries) \cup {here}
  <2> DEFINE at(i) == new.entries[i].path
  <2>1. Paths(new.entries) = {at(i) : i \in (1 .. n) \cup {n + 1}}
    BY <1>5, <1>6 DEF Paths
  <2>2. Paths(w.entries) = {w.entries[i].path : i \in 1 .. n}
    BY <1>1 DEF Paths
  <2>3. Paths(w.entries) = {at(i) : i \in 1 .. n}
    BY <1>5, <2>2
  <2>4. at(n + 1) = here
    BY <1>2, <1>5
  <2> HIDE DEF at
  <2> QED
    BY <2>1, <2>3, <2>4
<1>8. Desc(new) = Desc(w) \cup {path}
  BY <1>1, <1>7 DEF Desc
<1>9. \A p \in DirPaths(new) : p \in DirPaths(w) \/ (p = here /\ isDir)
  BY <1>2, <1>4 DEF DirPaths
<1>10. ASSUME here \notin Paths(w.entries), DistinctPaths(w) PROVE DistinctPaths(new)
  <2>1. \A i \in 1 .. n : w.entries[i].path # here
    BY <1>1, <1>10 DEF Paths
  <2>2. \A i, j \in 1 .. n : w.entries[i].path = w.entries[j].path => i = j
    BY <1>1, <1>10 DEF DistinctPaths
  <2>3. ASSUME NEW i \in (1 .. n) \cup {n + 1}, NEW j \in (1 .. n) \cup {n + 1}, new.entries[i].path = new.entries[j].path
        PROVE  i = j
    <3>1. \A k \in 1 .. n : new.entries[k].path = w.entries[k].path /\ new.entries[k].path # here
      BY <1>5, <2>1
    <3>2. new.entries[n + 1].path = here
      BY <1>2, <1>5
    <3>3. CASE i \in 1 .. n /\ j \in 1 .. n
      BY <2>2, <2>3, <3>1, <3>3
    <3>4. CASE i = n + 1 /\ j = n + 1
      BY <3>4
    <3>5. ~ (i \in 1 .. n /\ j = n + 1) /\ ~ (i = n + 1 /\ j \in 1 .. n)
      BY <2>3, <3>1, <3>2
    <3> QED
      BY <3>3, <3>4, <3>5
  <2> QED
    BY <1>5, <1>6, <2>3 DEF DistinctPaths
<1> QED
  BY <1>3, <1>4, <1>7, <1>8, <1>9, <1>10, Zenon DEF EntryAdded

\* A sweep where the paths of open are being walked.
InPlace(o, w, p) ==
  /\ \A i \in 1 .. (Len(p) - 1) : p[i] \notin o.ignores
  /\ o.maxDepth # Unbounded => Len(p) <= o.maxDepth + 1
  /\ Len(p) > 1 => Entry(Front(p), TRUE) \in ToSet(w.entries)
Homes(t, root, w, S) ==
  \A a \in S : /\ DirsAt(t, root, a) \subseteq w.visited
               /\ \A b \in S : DirsAt(t, root, a) = DirsAt(t, root, b) => a = b
\* A root that does not resolve is not marked as walked.
Lost(t) == {<<>>} \cap t.unresolvable
Sweeping(t, o, root, w, open) ==
  /\ w \in Sweeps(t) /\ DistinctPaths(w)
  /\ \A p \in Paths(w.entries) : InPlace(o, w, p)
  /\ \A p \in DirPaths(w) : p \in open \/ Accounted(t, o, root, w, p)
  /\ o.follow => Homes(t, root, w, (Desc(w) \cup open) \ Lost(t))

\* What is told stays told, and what is accounted for stays so.
LEMMA ToldStays ==
  ASSUME NEW w, NEW v, ToSet(w.entries) \subseteq ToSet(v.entries), Erred(w) \subseteq Erred(v), NEW o, NEW path, NEW e,
         Told(o, w, path, e)
  PROVE  Told(o, v, path, e)
<1> DEFINE here == Append(path, e.name)
<1>1. \A x : /\ x \in ToSet(w.entries) => x \in ToSet(v.entries)
             /\ x \in Erred(w) => x \in Erred(v)
  OBVIOUS
<1>2. \/ e.kind = "bad" /\ <<>> \in Erred(w)
      \/ (e.kind = "gone" \/ Follows(o, e, NoTarget)) /\ here \in Erred(w)
      \/ e.kind = "link" /\ ~o.follow
      \/ IsFile(o, e) /\ Entry(here, FALSE) \in ToSet(w.entries)
      \/ IsDirectory(o, e) /\ (e.name \in o.ignores \/ Entry(here, TRUE) \in ToSet(w.entries))
  BY Zenon DEF Told
<1>3. \/ e.kind = "bad" /\ <<>> \in Erred(v)
      \/ (e.kind = "gone" \/ Follows(o, e, NoTarget)) /\ here \in Erred(v)
      \/ e.kind = "link" /\ ~o.follow
      \/ IsFile(o, e) /\ Entry(here, FALSE) \in ToSet(v.entries)
      \/ IsDirectory(o, e) /\ (e.name \in o.ignores \/ Entry(here, TRUE) \in ToSet(v.entries))
  BY <1>1, <1>2, Zenon
<1> QED
  BY <1>3, Zenon DEF Told

\* A directory told of whole stays so.
LEMMA AccountedStays ==
  ASSUME NEW w, NEW v, ToSet(w.entries) \subseteq ToSet(v.entries), Erred(w) \subseteq Erred(v),
         NEW t, NEW o, NEW root, NEW p, Accounted(t, o, root, w, p)
  PROVE  Accounted(t, o, root, v, p)
<1>1. \A e : Told(o, w, p, e) => Told(o, v, p, e)
  BY ToldStays
<1>2. p \in Erred(w) => p \in Erred(v)
  OBVIOUS
<1> QED
  BY <1>1, <1>2, Zenon DEF Accounted

\* An error more, nothing listed.
LEMMA ErrorKeeps ==
  ASSUME NEW t, NEW o, NEW root, NEW w, NEW open, Sweeping(t, o, root, w, open),
         NEW new \in Sweeps(t), new.entries = w.entries, new.visited = w.visited, Erred(w) \subseteq Erred(new)
  PROVE  Sweeping(t, o, root, new, open)
<1>1. /\ DistinctPaths(new) = DistinctPaths(w) /\ Paths(new.entries) = Paths(w.entries)
      /\ Desc(new) = Desc(w) /\ DirPaths(new) = DirPaths(w)
  BY Zenon DEF DistinctPaths, Desc, DirPaths
<1>2. \A p \in Paths(new.entries) : InPlace(o, new, p)
  BY <1>1, Zenon DEF Sweeping, InPlace
<1>3. \A p : Accounted(t, o, root, w, p) => Accounted(t, o, root, new, p)
  BY AccountedStays
<1>4. \A S : Homes(t, root, w, S) => Homes(t, root, new, S)
  BY Zenon DEF Homes
<1> QED
  BY <1>1, <1>2, <1>3, <1>4, Zenon DEF Sweeping

\* An entry more, of a directory that is being walked; perhaps one that is about to be.
LEMMA ListKeeps ==
  ASSUME NEW t, NEW o, NEW root, NEW w, NEW open, Sweeping(t, o, root, w, open),
         NEW path \in Seq(Basenames), path \in open, NEW x \in Basenames, NEW isDir \in BOOLEAN,
         NEW here \in Seq(Basenames), here = OneOn(path, x),
         here \notin Paths(w.entries),
         \A i \in 1 .. Len(path) : path[i] \notin o.ignores,
         o.maxDepth # Unbounded => Len(path) <= o.maxDepth, IsWalk(o),
         path # <<>> => Entry(path, TRUE) \in ToSet(w.entries),
         NEW new \in Sweeps(t), new.entries = Append(w.entries, Entry(here, isDir)),
         w.visited \subseteq new.visited, Erred(w) \subseteq Erred(new),
         NEW also \in SUBSET {here}, isDir => here \in also \/ Accounted(t, o, root, new, here),
         o.follow /\ here \in also => /\ DirsAt(t, root, here) \cap w.visited = {} /\ DirsAt(t, root, here) # {}
                                      /\ DirsAt(t, root, here) \subseteq new.visited
  PROVE  Sweeping(t, o, root, new, open \cup also)
<1>1. /\ w \in Sweeps(t) /\ DistinctPaths(w)
      /\ \A p \in Paths(w.entries) : InPlace(o, w, p)
      /\ \A p \in DirPaths(w) : p \in open \/ Accounted(t, o, root, w, p)
      /\ o.follow => Homes(t, root, w, (Desc(w) \cup open) \ Lost(t))
  BY Zenon DEF Sweeping
<1>2. /\ ToSet(new.entries) = ToSet(w.entries) \cup {Entry(here, isDir)}
      /\ Paths(new.entries) = Paths(w.entries) \cup {here}
      /\ Desc(new) = Desc(w) \cup {path}
      /\ \A p \in DirPaths(new) : p \in DirPaths(w) \/ (p = here /\ isDir)
      /\ DistinctPaths(new)
  <2>1. EntryAdded(w, new, path, here, isDir)
    BY <1>1, OneMore
  <2> QED
    BY <1>1, <2>1, Zenon DEF EntryAdded
<1>3. /\ Len(here) = Len(path) + 1 /\ Len(path) \in Nat /\ Front(here) = path
      /\ \A i \in 1 .. Len(path) : here[i] = path[i]
  BY OneFurther
<1>4. o.maxDepth # Unbounded => o.maxDepth \in Nat
  BY DEF IsWalk
<1>5. \A p \in Paths(w.entries) : InPlace(o, new, p)
  BY <1>1, <1>2 DEF InPlace
<1>6. InPlace(o, new, here)
  <2>1. \A i \in 1 .. Len(here) - 1 : here[i] \notin o.ignores
    BY <1>3
  <2>2. o.maxDepth # Unbounded => Len(here) <= o.maxDepth + 1
    BY <1>3, <1>4
  <2>3. Len(here) > 1 => Entry(Front(here), TRUE) \in ToSet(new.entries)
    <3>1. Len(here) > 1 => path # <<>>
      BY <1>3
    <3> QED
      BY <1>2, <1>3, <3>1
  <2> QED
    BY <2>1, <2>2, <2>3, Zenon DEF InPlace
<1>7. \A p : Accounted(t, o, root, w, p) => Accounted(t, o, root, new, p)
  <2>1. ToSet(w.entries) \subseteq ToSet(new.entries)
    BY <1>2
  <2> QED
    BY <2>1, AccountedStays
<1>8. \A p \in DirPaths(new) : p \in open \cup also \/ Accounted(t, o, root, new, p)
  BY <1>1, <1>2, <1>7
<1>9. ASSUME o.follow PROVE Homes(t, root, new, (Desc(new) \cup (open \cup also)) \ Lost(t))
  <2> DEFINE S == (Desc(w) \cup open) \ Lost(t)
             more == also \ Lost(t)
  <2>1. /\ \A a \in S : DirsAt(t, root, a) \subseteq w.visited
        /\ \A a, b \in S : DirsAt(t, root, a) = DirsAt(t, root, b) => a = b
    BY <1>1, <1>9 DEF Homes
  <2>2. (Desc(new) \cup (open \cup also)) \ Lost(t) = S \cup more
    BY <1>2
  <2>3. more \subseteq also /\ \A a \in more : a = here
    OBVIOUS
  <2> HIDE DEF S, more
  <2>4. \A a \in more, b \in S : DirsAt(t, root, a) # DirsAt(t, root, b)
    BY <1>9, <2>1, <2>3
  <2>5. \A a \in S \cup more : DirsAt(t, root, a) \subseteq new.visited
    BY <1>9, <2>1, <2>3
  <2>6. ASSUME NEW a \in S \cup more, NEW b \in S \cup more, DirsAt(t, root, a) = DirsAt(t, root, b) PROVE a = b
    BY <2>1, <2>3, <2>4, <2>6
  <2> QED
    BY <2>2, <2>5, <2>6, Zenon DEF Homes
<1> QED
  BY <1>2, <1>5, <1>6, <1>8, <1>9 DEF Sweeping

\* A path that has been walked is settled.
LEMMA SettledCloses ==
  ASSUME NEW t, NEW o, NEW root, NEW w, NEW open, NEW here, Sweeping(t, o, root, w, open \cup {here}),
         Accounted(t, o, root, w, here)
  PROVE  Sweeping(t, o, root, w, open)
<1>1. o.follow => Homes(t, root, w, (Desc(w) \cup open) \ Lost(t))
  <2>1. o.follow => Homes(t, root, w, (Desc(w) \cup (open \cup {here})) \ Lost(t))
    BY Zenon DEF Sweeping
  <2>2. (Desc(w) \cup open) \ Lost(t) \subseteq (Desc(w) \cup (open \cup {here})) \ Lost(t)
    OBVIOUS
  <2> QED
    BY <2>1, <2>2, Zenon DEF Homes
<1>2. \A p \in DirPaths(w) : p \in open \/ Accounted(t, o, root, w, p)
  <2>1. \A p \in DirPaths(w) : p \in open \cup {here} \/ Accounted(t, o, root, w, p)
    BY Zenon DEF Sweeping
  <2> QED
    BY <2>1
<1> QED
  BY <1>1, <1>2, Zenon DEF Sweeping

-----------------------------------------------------------------------------
(* A directory being walked                                                *)

\* The directory at the path of an entry.
IsBelow(t, dir, e) == DirsBelow(t, {dir}, e.name) = {e.target}

\* Names differ, so only that entry has its path.
LEMMA BelowIs ==
  ASSUME NEW t, IsTree(t), NEW dir \in DOMAIN t.listing, NEW i \in 1 .. Len(t.listing[dir]), NEW e, e = t.listing[dir][i],
         e.target \in DOMAIN t.listing
  PROVE  IsBelow(t, dir, e)
<1> DEFINE s == t.listing[dir]
           D == DOMAIN t.listing
<1>1. /\ DOMAIN s = 1 .. Len(s)
      /\ \A l, j \in 1 .. Len(s) : s[l].name = s[j].name => l = j
  BY ListingIs
<1>2. UNION {ToSet(t.listing[d]) : d \in {dir}} = ToSet(s)
  OBVIOUS
<1> DEFINE N == {x \in ToSet(s) : x.name = e.name}
<1>3. DirsBelow(t, {dir}, e.name) = {x.target : x \in N} \cap D
  BY <1>2, Zenon DEF DirsBelow
<1>4. e = s[i] /\ i \in DOMAIN s
  BY <1>1
<1> HIDE DEF s, D
<1>5. N = {e}
  <2>1. e \in N
    BY <1>4 DEF ToSet
  <2>2. ASSUME NEW x \in N PROVE x = e
    <3>1. PICK j \in DOMAIN s : x = s[j] /\ s[j].name = e.name
      BY <2>2 DEF ToSet
    <3> QED
      BY <1>1, <1>4, <3>1
  <2> QED
    BY <2>1, <2>2
<1> HIDE DEF N
<1>6. {x.target : x \in N} \cap D = {e.target}
  BY <1>5 DEF D
<1> QED
  BY <1>3, <1>6, Zenon DEF IsBelow

\* The paths of what is listed.
LEMMA PathsOf ==
  ASSUME NEW s
  PROVE  Paths(s) = {x.path : x \in ToSet(s)}
  BY DEF Paths, ToSet

\* A call of recurse, and what it leaves, when the paths of open are being walked.
Called(t, o, root, c, open) ==
  /\ Sweeping(t, o, root, c.w, open) /\ c.path \in open
  /\ DirsAt(t, root, c.path) = {c.dir} /\ Len(c.path) = c.depth
  /\ \A i \in 1 .. Len(c.path) : c.path[i] \notin o.ignores
  /\ o.maxDepth # Unbounded => Len(c.path) <= o.maxDepth
  /\ c.path # <<>> => Entry(c.path, TRUE) \in ToSet(c.w.entries)
  /\ c.dir \in t.unreadable => c.path # <<>>
  /\ \A p \in Paths(c.w.entries) : ~ Under(c.path, p)
Grown(w, v, path) ==
  /\ ToSet(w.entries) \subseteq ToSet(v.entries) /\ Erred(w) \subseteq Erred(v)
  /\ \A p \in Paths(v.entries) : p \in Paths(w.entries) \/ Under(path, p)
Swept(t, o, root, c, v, open) ==
  Sweeping(t, o, root, v, open) /\ Accounted(t, o, root, v, c.path) /\ Grown(c.w, v, c.path)

\* After m entries of its directory.
Names(t, c, m) == {t.listing[c.dir][l].name : l \in 1 .. m}
InDir(t, o, root, c, v, m, open) ==
  /\ Sweeping(t, o, root, v, open) /\ Grown(c.w, v, c.path)
  /\ \A p \in Paths(v.entries) : Under(c.path, p) => p[Len(c.path) + 1] \in Names(t, c, m)
  /\ \A l \in 1 .. m : Told(o, v, c.path, t.listing[c.dir][l])

\* What was told of is, and so is one entry more.
LEMMA ToldGrows ==
  ASSUME NEW t, NEW o, NEW c, NEW m \in Nat \ {0}, NEW v, NEW new,
         ToSet(v.entries) \subseteq ToSet(new.entries), Erred(v) \subseteq Erred(new),
         \A l \in 1 .. m - 1 : Told(o, v, c.path, t.listing[c.dir][l]), Told(o, new, c.path, t.listing[c.dir][m])
  PROVE  \A l \in 1 .. m : Told(o, new, c.path, t.listing[c.dir][l])
<1>1. \A path, e : Told(o, v, path, e) => Told(o, new, path, e)
  BY ToldStays
<1>2. ASSUME NEW l \in 1 .. m PROVE Told(o, new, c.path, t.listing[c.dir][l])
  <2>1. l = m \/ l \in 1 .. m - 1
    OBVIOUS
  <2>2. CASE l = m
    BY <2>2
  <2>3. CASE l \in 1 .. m - 1
    BY <1>1, <2>3, Zenon
  <2> QED
    BY <2>1, <2>2, <2>3
<1> QED
  BY <1>2

\* One entry more has one name more.
LEMMA NamesGrow ==
  ASSUME NEW t, NEW c, NEW m \in Nat \ {0}
  PROVE  Names(t, c, m) = Names(t, c, m - 1) \cup {t.listing[c.dir][m].name}
<1> DEFINE at(l) == t.listing[c.dir][l].name
<1>1. 1 .. m = (1 .. m - 1) \cup {m}
  OBVIOUS
<1>2. Names(t, c, m) = {at(l) : l \in 1 .. m} /\ Names(t, c, m - 1) = {at(l) : l \in 1 .. m - 1}
  BY DEF Names
<1> HIDE DEF at
<1>3. Names(t, c, m) = Names(t, c, m - 1) \cup {at(m)}
  BY <1>1, <1>2
<1> QED
  BY <1>3 DEF at

\* What is known of the next entry of a directory.
NextEntry(t, o, root, c, v, m, e, here) ==
  /\ e \in Items(t) /\ e = t.listing[c.dir][m] /\ here = Here(c, e) /\ here = OneOn(c.path, e.name) /\ e.name \in Basenames
  /\ here \in Seq(Basenames) /\ here \notin Paths(v.entries)
  /\ \A p \in Seq(Basenames) : Under(here, p) => p \notin Paths(v.entries)
  /\ c.path # <<>> => Entry(c.path, TRUE) \in ToSet(v.entries)
  /\ e.target \in DOMAIN t.listing => DirsAt(t, root, here) = {e.target}

\* Its path is new, and so is every path under it.
LEMMA NextEntryIs ==
  ASSUME NEW t, IsTree(t), NEW o, NEW root \in DOMAIN t.listing, NEW c \in WalkCalls(t), NEW open, Called(t, o, root, c, open),
         NEW m \in 1 .. Len(t.listing[c.dir]), NEW v, InDir(t, o, root, c, v, m - 1, open)
  PROVE  \E e, here : NextEntry(t, o, root, c, v, m, e, here)
<1> DEFINE s == t.listing[c.dir]
           e == s[m]
           here == OneOn(c.path, e.name)
<1>1. c.path \in Seq(Basenames) /\ c.dir \in DOMAIN t.listing
  BY CallParts
<1>2. /\ Len(s) \in Nat /\ \A i \in 1 .. Len(s) : s[i] \in Items(t)
      /\ \A i, j \in 1 .. Len(s) : s[i].name = s[j].name => i = j
  BY <1>1, ListingIs
<1>3. e \in Items(t) /\ e.name \in Basenames
  <2>1. e \in Items(t)
    BY <1>2
  <2> QED
    BY <2>1 DEF Items
<1>4. here = Here(c, e)
  BY DEF Here, OneOn
<1>5. here \in Seq(Basenames)
  BY <1>1, <1>3, OneOnType
<1>6. e = t.listing[c.dir][m] /\ here = OneOn(c.path, e.name)
  OBVIOUS
<1>7. e.name \notin Names(t, c, m - 1)
  <2> SUFFICES ASSUME NEW l \in 1 .. m - 1, e.name = s[l].name PROVE FALSE
    BY DEF Names
  <2>1. l \in 1 .. Len(s) /\ l # m
    BY <1>2
  <2> QED
    BY <1>2, <2>1
<1>8. DirsAt(t, root, c.path) = {c.dir}
  BY Zenon DEF Called
<1>9. ASSUME e.target \in DOMAIN t.listing PROVE DirsAt(t, root, here) = {e.target}
  <2>1. DirsAt(t, root, here) = DirsBelow(t, {c.dir}, e.name)
    <3>1. DirsAt(t, root, Append(c.path, e.name)) = DirsBelow(t, DirsAt(t, root, c.path), e.name)
      <4> DEFINE x == e.name
      <4>1. x \in Basenames
        BY <1>3
      <4> HIDE DEF x
      <4>2. DirsAt(t, root, Append(c.path, x)) = DirsBelow(t, DirsAt(t, root, c.path), x)
        BY <1>1, <4>1, LeadsOn
      <4> QED
        BY <4>2 DEF x
    <3> QED
      BY <1>8, <3>1, Zenon DEF OneOn
  <2>2. DirsBelow(t, {c.dir}, e.name) = {e.target}
    <3> DEFINE dir == c.dir
    <3>1. e = t.listing[dir][m] /\ dir \in DOMAIN t.listing /\ m \in 1 .. Len(t.listing[dir]) /\ e.target \in DOMAIN t.listing
      BY <1>1, <1>9
    <3> HIDE DEF e, dir, s
    <3>2. IsBelow(t, dir, e)
      BY <3>1, BelowIs
    <3> QED
      BY <3>2, Zenon DEF dir, IsBelow
  <2> QED
    BY <2>1, <2>2
<1> HIDE DEF here, e, s
<1>10. here[Len(c.path) + 1] = e.name /\ Under(c.path, here)
  BY <1>1, <1>3, <1>5, <1>6, OneFurther
<1>11. \A p \in Paths(v.entries) : Under(c.path, p) => p[Len(c.path) + 1] \in Names(t, c, m - 1)
  BY Zenon DEF InDir
<1>12. here \notin Paths(v.entries)
  BY <1>7, <1>10, <1>11
<1>13. ASSUME NEW p \in Seq(Basenames), Under(here, p) PROVE p \notin Paths(v.entries)
  <2> DEFINE path == c.path
             x == e.name
  <2>1. path \in Seq(Basenames) /\ x \in Basenames /\ here = OneOn(path, x)
    BY <1>1, <1>3, <1>6
  <2> HIDE DEF path, x
  <2>2. Under(path, p) /\ p[Len(path) + 1] = x
    BY <1>5, <1>13, <2>1, FurtherUnder
  <2>3. Under(c.path, p) /\ p[Len(c.path) + 1] = e.name
    BY <2>2 DEF path, x
  <2> QED
    BY <1>7, <1>11, <2>3
<1>14. c.path # <<>> => Entry(c.path, TRUE) \in ToSet(v.entries)
  <2>1. c.path # <<>> => Entry(c.path, TRUE) \in ToSet(c.w.entries)
    BY Zenon DEF Called
  <2>2. ToSet(c.w.entries) \subseteq ToSet(v.entries)
    BY Zenon DEF InDir, Grown
  <2> QED
    BY <2>1, <2>2
<1>15. NextEntry(t, o, root, c, v, m, e, here)
  BY <1>3, <1>4, <1>5, <1>6, <1>9, <1>12, <1>13, <1>14, Zenon DEF NextEntry
<1> QED
  BY <1>15

\* It is passed over.
LEMMA PassKeeps ==
  ASSUME NEW t, NEW o, NEW root, NEW c, NEW open, NEW v, NEW m \in Nat \ {0}, InDir(t, o, root, c, v, m - 1, open),
         NEW new, new.entries = v.entries, Erred(v) \subseteq Erred(new),
         Sweeping(t, o, root, new, open), Told(o, new, c.path, t.listing[c.dir][m])
  PROVE  InDir(t, o, root, c, new, m, open)
<1>1. Grown(c.w, new, c.path)
  <2>1. Erred(c.w) \subseteq Erred(v)
    BY Zenon DEF InDir, Grown
  <2>2. Erred(c.w) \subseteq Erred(new)
    BY <2>1
  <2> QED
    BY <2>2, Zenon DEF InDir, Grown
<1>2. \A p \in Paths(new.entries) : Under(c.path, p) => p[Len(c.path) + 1] \in Names(t, c, m)
  <2>1. \A p \in Paths(new.entries) : Under(c.path, p) => p[Len(c.path) + 1] \in Names(t, c, m - 1)
    BY Zenon DEF InDir
  <2> QED
    BY <2>1, NamesGrow
<1>3. \A l \in 1 .. m : Told(o, new, c.path, t.listing[c.dir][l])
  <2>1. \A l \in 1 .. m - 1 : Told(o, v, c.path, t.listing[c.dir][l])
    BY Zenon DEF InDir
  <2> QED
    BY <2>1, ToldGrows
<1> QED
  BY <1>1, <1>2, <1>3, Zenon DEF InDir

\* It is listed, and what is below it with it.
LEMMA ListingKeeps ==
  ASSUME NEW t, NEW o, NEW root, NEW c \in WalkCalls(t), NEW open, NEW v \in Sweeps(t), NEW m \in Nat \ {0},
         InDir(t, o, root, c, v, m - 1, open),
         NEW e, NEW here, NextEntry(t, o, root, c, v, m, e, here), NEW isDir \in BOOLEAN,
         isDir => IsDirectory(o, e), ~ isDir => IsFile(o, e),
         NEW seen \in Sweeps(t), seen.entries = Append(v.entries, Entry(here, isDir)), Erred(v) \subseteq Erred(seen),
         NEW new \in Sweeps(t), Grown(seen, new, here), Sweeping(t, o, root, new, open)
  PROVE  InDir(t, o, root, c, new, m, open)
<1>1. /\ e = t.listing[c.dir][m] /\ here = OneOn(c.path, e.name) /\ e.name \in Basenames /\ here \in Seq(Basenames)
  BY Zenon DEF NextEntry
<1>2. c.path \in Seq(Basenames)
  BY CallParts
<1>3. EntryAdded(v, seen, c.path, here, isDir)
  BY <1>1, <1>2, OneMore
<1>4. here[Len(c.path) + 1] = e.name /\ Under(c.path, here) /\ Front(here) = c.path
  BY <1>1, <1>2, OneFurther
<1>5. ToSet(seen.entries) = ToSet(v.entries) \cup {Entry(here, isDir)} /\ Paths(seen.entries) = Paths(v.entries) \cup {here}
  BY <1>3, Zenon DEF EntryAdded
<1>6. /\ ToSet(seen.entries) \subseteq ToSet(new.entries) /\ Erred(seen) \subseteq Erred(new)
      /\ \A p \in Paths(new.entries) : p \in Paths(seen.entries) \/ Under(here, p)
  BY Zenon DEF Grown
<1>7. /\ ToSet(c.w.entries) \subseteq ToSet(v.entries) /\ Erred(c.w) \subseteq Erred(v)
      /\ \A p \in Paths(v.entries) : p \in Paths(c.w.entries) \/ Under(c.path, p)
      /\ \A p \in Paths(v.entries) : Under(c.path, p) => p[Len(c.path) + 1] \in Names(t, c, m - 1)
  BY Zenon DEF InDir, Grown
<1>8. \A p \in Paths(new.entries) : p \in Seq(Basenames)
  <2>1. \A y \in ToSet(new.entries) : y.path \in Seq(Basenames)
    BY SweepParts
  <2> QED
    BY <2>1, PathsOf
<1>9. ASSUME NEW p \in Paths(new.entries)
      PROVE  p \in Paths(v.entries) \/ (Under(c.path, p) /\ p[Len(c.path) + 1] = e.name)
  <2>1. CASE Under(here, p)
    <3> DEFINE path == c.path
               x == e.name
    <3>1. path \in Seq(Basenames) /\ x \in Basenames /\ here = OneOn(path, x) /\ p \in Seq(Basenames)
      BY <1>1, <1>2, <1>8
    <3> HIDE DEF path, x
    <3>2. Under(path, p) /\ p[Len(path) + 1] = x
      BY <1>1, <2>1, <3>1, FurtherUnder
    <3> QED
      BY <3>2 DEF path, x
  <2>2. CASE p \in Paths(v.entries) \/ p = here
    BY <1>4, <2>2
  <2> QED
    BY <1>5, <1>6, <2>1, <2>2
<1>10. Grown(c.w, new, c.path)
  <2>1. ToSet(c.w.entries) \subseteq ToSet(new.entries) /\ Erred(c.w) \subseteq Erred(new)
    BY <1>5, <1>6, <1>7
  <2>2. \A p \in Paths(new.entries) : p \in Paths(c.w.entries) \/ Under(c.path, p)
    BY <1>7, <1>9
  <2> QED
    BY <2>1, <2>2, Zenon DEF Grown
<1>11. \A p \in Paths(new.entries) : Under(c.path, p) => p[Len(c.path) + 1] \in Names(t, c, m)
  <2>1. Names(t, c, m) = Names(t, c, m - 1) \cup {e.name}
    <3>1. Names(t, c, m) = Names(t, c, m - 1) \cup {t.listing[c.dir][m].name}
      BY NamesGrow
    <3> QED
      BY <1>1, <3>1, Zenon
  <2> QED
    BY <1>7, <1>9, <2>1
<1>12. \A l \in 1 .. m : Told(o, new, c.path, t.listing[c.dir][l])
  <2>1. Entry(here, isDir) \in ToSet(new.entries) /\ ToSet(v.entries) \subseteq ToSet(new.entries) /\ Erred(v) \subseteq Erred(new)
    BY <1>5, <1>6
  <2>2. Entry(Append(c.path, e.name), isDir) \in ToSet(new.entries)
    BY <1>1, <2>1, Zenon DEF OneOn
  <2>3. Told(o, new, c.path, e)
    <3>1. CASE isDir = TRUE
      BY <2>2, <3>1, Zenon DEF Told
    <3>2. CASE isDir = FALSE
      BY <2>2, <3>2, Zenon DEF Told
    <3> QED
      BY <3>1, <3>2
  <2>4. \A l \in 1 .. m - 1 : Told(o, v, c.path, t.listing[c.dir][l])
    BY Zenon DEF InDir
  <2>5. Told(o, new, c.path, t.listing[c.dir][m])
    BY <1>1, <2>3, Zenon
  <2> QED
    BY <2>1, <2>4, <2>5, ToldGrows
<1> QED
  BY <1>10, <1>11, <1>12, Zenon DEF InDir

\* What is listed next is listed in its place.
LEMMA NextListed ==
  ASSUME NEW t, NEW o, IsWalk(o), NEW root, NEW c \in WalkCalls(t), NEW open, Called(t, o, root, c, open),
         NEW m, NEW v, InDir(t, o, root, c, v, m - 1, open),
         NEW e, NEW here, NextEntry(t, o, root, c, v, m, e, here), NEW isDir \in BOOLEAN,
         NEW new \in Sweeps(t), new.entries = Append(v.entries, Entry(here, isDir)),
         v.visited \subseteq new.visited, Erred(v) \subseteq Erred(new),
         NEW also \in SUBSET {here}, isDir => here \in also \/ Accounted(t, o, root, new, here),
         o.follow /\ here \in also => /\ DirsAt(t, root, here) \cap v.visited = {} /\ DirsAt(t, root, here) # {}
                                      /\ DirsAt(t, root, here) \subseteq new.visited
  PROVE  Sweeping(t, o, root, new, open \cup also)
<1> DEFINE path == c.path
           x == e.name
<1>1. /\ here = OneOn(path, x) /\ x \in Basenames /\ here \in Seq(Basenames) /\ here \notin Paths(v.entries)
      /\ path # <<>> => Entry(path, TRUE) \in ToSet(v.entries)
  BY Zenon DEF NextEntry
<1>2. /\ path \in open /\ \A i \in 1 .. Len(path) : path[i] \notin o.ignores
      /\ o.maxDepth # Unbounded => Len(path) <= o.maxDepth
  BY Zenon DEF Called
<1>3. path \in Seq(Basenames)
  BY CallParts
<1>4. Sweeping(t, o, root, v, open)
  BY Zenon DEF InDir
<1> HIDE DEF path, x
<1> QED
  BY <1>1, <1>2, <1>3, <1>4, ListKeeps

\* Nothing is added.
LEMMA GrownSame ==
  ASSUME NEW w, NEW new, new.entries = w.entries, Erred(w) \subseteq Erred(new), NEW path
  PROVE  Grown(w, new, path)
  BY DEF Grown

\* The calls one level down.
ChildrenSwept(t, o, root, f, depth) ==
  \A x \in WalkCalls(t) : \A S : Called(t, o, root, x, S) /\ x.depth = depth /\ depth <= MaxWalkDepth
                                   => Swept(t, o, root, x, f[x], S)

\* A directory below is walked.
LEMMA ChildKeeps ==
  ASSUME NEW t, IsTree(t), NEW o, IsWalk(o), NEW root, NEW c \in WalkCalls(t), NEW open, Called(t, o, root, c, open),
         NEW f, ChildrenSwept(t, o, root, f, c.depth + 1), NEW m \in Nat \ {0}, NEW v \in Sweeps(t), InDir(t, o, root, c, v, m - 1, open),
         NEW e, NEW here, NextEntry(t, o, root, c, v, m, e, here), NEW new \in Sweeps(t), Recursed(f, o, c, v, e, new)
  PROVE  InDir(t, o, root, c, new, m, open)
<1> DEFINE seen == Listed(v, here, TRUE)
           w == DirVisited(seen, e.target)
           x == Opened(o, c, v, e)
           path == c.path
<1>1. /\ e \in Items(t) /\ here = Here(c, e) /\ here = OneOn(path, e.name) /\ e.name \in Basenames
      /\ here \in Seq(Basenames) /\ here \notin Paths(v.entries)
      /\ \A p \in Seq(Basenames) : Under(here, p) => p \notin Paths(v.entries)
      /\ e.target \in DOMAIN t.listing => DirsAt(t, root, here) = {e.target}
  BY Zenon DEF NextEntry
<1>2. /\ IsDirectory(o, e) /\ e.name \notin o.ignores /\ ~ TooDeep(o, c.depth + 1) /\ c.depth + 1 <= MaxWalkDepth
      /\ o.follow => e.target \notin v.visited
      /\ new = f[x]
  BY Zenon DEF Recursed
<1>3. path \in Seq(Basenames) /\ c.depth \in Nat
  BY CallParts
<1>4. e.target \in DOMAIN t.listing /\ x \in WalkCalls(t)
  BY <1>1, <1>2, OpenedIs
<1>5. x.w = w /\ x.path = here /\ x.depth = c.depth + 1 /\ x.dir = e.target
  BY <1>1 DEF Opened, WalkCall
<1>6. seen \in Sweeps(t) /\ seen.entries = Append(v.entries, Entry(here, TRUE)) /\ seen.visited = v.visited /\ seen.errors = v.errors
  <2>1. seen \in Sweeps(t) /\ IsListed(v, seen, here, TRUE)
    BY <1>1, ListedIs
  <2> QED
    BY <2>1, Zenon DEF IsListed
<1>7. /\ w \in Sweeps(t) /\ w.entries = Append(v.entries, Entry(here, TRUE))
      /\ w.visited = v.visited \cup {e.target} /\ Erred(w) = Erred(v)
  <2>1. w \in Sweeps(t) /\ w.entries = seen.entries /\ w.errors = seen.errors /\ w.visited = seen.visited \cup {e.target}
    <3> DEFINE dir == e.target
    <3>1. w = DirVisited(seen, dir) /\ dir \in DOMAIN t.listing
      BY <1>4
    <3> HIDE DEF seen, w, dir
    <3>2. w \in Sweeps(t) /\ IsVisited(seen, w, dir)
      BY <1>6, <3>1, DirVisitedIs
    <3> QED
      BY <3>2, Zenon DEF dir, IsVisited
  <2> QED
    BY <1>6, <2>1 DEF Erred
<1> HIDE DEF seen, w, x, path
<1>8. Sweeping(t, o, root, w, open \cup {here})
  <2> DEFINE also == {here}
  <2>1. also \in SUBSET {here} /\ here \in also
    OBVIOUS
  <2>2. v.visited \subseteq w.visited /\ Erred(v) \subseteq Erred(w)
    BY <1>7
  <2>3. o.follow => /\ DirsAt(t, root, here) \cap v.visited = {} /\ DirsAt(t, root, here) # {}
                    /\ DirsAt(t, root, here) \subseteq w.visited
    BY <1>1, <1>2, <1>4, <1>7
  <2> HIDE DEF also
  <2>4. Sweeping(t, o, root, w, open \cup also)
    BY <1>7, <2>1, <2>2, <2>3, NextListed
  <2> QED
    BY <2>4 DEF also
<1>9. EntryAdded(v, w, path, here, TRUE)
  BY <1>1, <1>3, <1>7, OneMore
<1>10. Called(t, o, root, x, open \cup {here})
  <2>1. Len(here) = Len(path) + 1 /\ Len(path) \in Nat /\ here[Len(path) + 1] = e.name
        /\ \A i \in 1 .. Len(path) : here[i] = path[i]
    <3> DEFINE y == e.name
    <3>1. here = OneOn(path, y) /\ y \in Basenames
      BY <1>1
    <3> HIDE DEF y
    <3>2. Len(here) = Len(path) + 1 /\ Len(path) \in Nat
      BY <1>1, <1>3, <3>1, OneFurther
    <3>3. here[Len(path) + 1] = y
      BY <1>1, <1>3, <3>1, OneFurther
    <3>4. \A i \in 1 .. Len(path) : here[i] = path[i]
      BY <1>1, <1>3, <3>1, OneFurther
    <3> QED
      BY <3>2, <3>3, <3>4 DEF y
  <2>2. /\ Len(path) = c.depth /\ \A i \in 1 .. Len(path) : path[i] \notin o.ignores
    BY Zenon DEF Called, path
  <2>3. Len(here) = x.depth
    BY <1>5, <2>1, <2>2
  <2>4. \A i \in 1 .. Len(here) : here[i] \notin o.ignores
    <3>1. 1 .. Len(here) = (1 .. Len(path)) \cup {Len(path) + 1}
      BY <2>1
    <3> QED
      BY <1>2, <2>1, <2>2, <3>1
  <2>5. o.maxDepth # Unbounded => Len(here) <= o.maxDepth
    <3>1. o.maxDepth # Unbounded => o.maxDepth \in Nat
      BY DEF IsWalk
    <3> QED
      BY <1>2, <1>3, <2>1, <2>2, <3>1 DEF TooDeep
  <2>6. Entry(here, TRUE) \in ToSet(w.entries) /\ Paths(w.entries) = Paths(v.entries) \cup {here}
    BY <1>9 DEF EntryAdded
  <2>7. ASSUME NEW p \in Paths(w.entries) PROVE ~ Under(here, p)
    <3>1. ~ Under(here, here)
      BY <2>1 DEF Under
    <3>2. p \in Seq(Basenames)
      <4>1. \A y \in ToSet(w.entries) : y.path \in Seq(Basenames)
        BY <1>7, SweepParts
      <4> QED
        BY <4>1, PathsOf
    <3> QED
      BY <1>1, <2>6, <3>1, <3>2
  <2>8. DirsAt(t, root, here) = {x.dir}
    BY <1>1, <1>4, <1>5
  <2>9. here \in open \cup {here}
    OBVIOUS
  <2>10. here # <<>>
    BY <2>1
  <2> QED
    BY <1>5, <1>8, <2>3, <2>4, <2>5, <2>6, <2>7, <2>8, <2>9, <2>10, Zenon DEF Called
<1>11. Swept(t, o, root, x, new, open \cup {here})
  <2>1. x.depth = c.depth + 1 /\ c.depth + 1 <= MaxWalkDepth
    BY <1>2, <1>5
  <2> QED
    BY <1>2, <1>4, <1>10, <2>1, Zenon DEF ChildrenSwept
<1>12. Sweeping(t, o, root, new, open \cup {here}) /\ Accounted(t, o, root, new, here) /\ Grown(w, new, here)
  BY <1>5, <1>11, Zenon DEF Swept
<1>13. Sweeping(t, o, root, new, open)
  BY <1>12, SettledCloses
<1>14. Erred(v) \subseteq Erred(w)
  BY <1>7
<1> QED
  BY <1>2, <1>7, <1>12, <1>13, <1>14, ListingKeeps

\* One entry of a directory.
LEMMA EntryKeeps ==
  ASSUME NEW t, IsTree(t), NEW o, IsWalk(o), NEW root \in DOMAIN t.listing, NEW c \in WalkCalls(t), NEW open, Called(t, o, root, c, open),
         NEW f, \A x \in WalkCalls(t) : f[x] \in Sweeps(t), ChildrenSwept(t, o, root, f, c.depth + 1),
         NEW m \in 1 .. Len(t.listing[c.dir]), NEW v, InDir(t, o, root, c, v, m - 1, open),
         NEW new, new = WalkEntry(f, t, o, c, v, t.listing[c.dir][m])
  PROVE  InDir(t, o, root, c, new, m, open)
<1>1. c.path \in Seq(Basenames) /\ c.depth \in Nat /\ c.dir \in DOMAIN t.listing
  BY CallParts
<1>2. m \in Nat \ {0}
  BY <1>1, ListingIs
<1>3. Sweeping(t, o, root, v, open) /\ v \in Sweeps(t)
  BY Zenon DEF InDir, Sweeping
<1>4. PICK e, here : NextEntry(t, o, root, c, v, m, e, here)
  BY NextEntryIs
<1>5. /\ e \in Items(t) /\ e = t.listing[c.dir][m] /\ here = Here(c, e) /\ here \in Seq(Basenames)
      /\ e.target \in DOMAIN t.listing => DirsAt(t, root, here) = {e.target}
  BY <1>4, Zenon DEF NextEntry
<1>6. new = WalkEntry(f, t, o, c, v, e)
  BY <1>5
<1>7. new \in Sweeps(t)
  BY <1>3, <1>5, <1>6, EntryKeepsType
<1>8. \/ PassedOver(o, c, v, e, new)
      \/ IsFile(o, e) /\ new = Listed(v, here, FALSE)
      \/ DirListed(o, c, v, e, new)
      \/ Recursed(f, o, c, v, e, new)
  BY <1>1, <1>5, <1>6, EntryIs
<1>9. CASE PassedOver(o, c, v, e, new)
  <2>1. /\ new.entries = v.entries /\ new.visited = v.visited /\ Erred(v) \subseteq Erred(new)
        /\ Told(o, new, c.path, e)
    <3>1. here = Append(c.path, e.name)
      BY <1>5 DEF Here
    <3>2. <<>> \in Seq(Basenames) /\ {"listing", "metadata", "broken"} \subseteq Reasons
      BY DEF Reasons
    <3>3. ASSUME NEW at \in Seq(Basenames), NEW why \in Reasons, new = Recorded(v, at, why)
          PROVE  new.entries = v.entries /\ new.visited = v.visited /\ Erred(v) \subseteq Erred(new) /\ at \in Erred(new)
      <4>1. IsRecorded(v, new, at)
        BY <1>3, <3>3, RecordedIs
      <4> QED
        BY <4>1 DEF IsRecorded
    <3>4. CASE new = v /\ ((e.kind = "link" /\ ~ o.follow) \/ (IsDirectory(o, e) /\ e.name \in o.ignores))
      <4>1. Told(o, new, c.path, e)
        BY <3>4, Zenon DEF Told
      <4> QED
        BY <3>4, <4>1
    <3>5. CASE e.kind = "bad" /\ new = Recorded(v, <<>>, "listing")
      <4> DEFINE at == <<>>
                 why == "listing"
      <4>1. at \in Seq(Basenames) /\ why \in Reasons /\ new = Recorded(v, at, why)
        BY <3>2, <3>5
      <4> HIDE DEF at, why
      <4>2. new.entries = v.entries /\ new.visited = v.visited /\ Erred(v) \subseteq Erred(new) /\ at \in Erred(new)
        BY <3>3, <4>1
      <4>3. Told(o, new, c.path, e)
        BY <3>5, <4>2, Zenon DEF Told, at
      <4> QED
        BY <4>2, <4>3
    <3>6. CASE /\ e.kind = "gone" \/ Follows(o, e, NoTarget)
               /\ \E why \in {"metadata", "broken"} : new = Recorded(v, here, why)
      <4>1. PICK why \in Reasons : new = Recorded(v, here, why)
        BY <3>2, <3>6
      <4>2. new.entries = v.entries /\ new.visited = v.visited /\ Erred(v) \subseteq Erred(new) /\ here \in Erred(new)
        BY <1>5, <3>3, <4>1
      <4>3. Told(o, new, c.path, e)
        BY <3>1, <3>6, <4>2, Zenon DEF Told
      <4> QED
        BY <4>2, <4>3
    <3> QED
      BY <1>5, <1>9, <3>4, <3>5, <3>6, Zenon DEF PassedOver
  <2>2. Told(o, new, c.path, t.listing[c.dir][m])
    BY <1>5, <2>1, Zenon
  <2>3. Sweeping(t, o, root, new, open)
    BY <1>3, <1>7, <2>1, ErrorKeeps
  <2> QED
    BY <1>2, <2>1, <2>2, <2>3, PassKeeps
<1>10. CASE IsFile(o, e) /\ new = Listed(v, here, FALSE)
  <2>1. new.entries = Append(v.entries, Entry(here, FALSE)) /\ new.visited = v.visited /\ new.errors = v.errors
    <3>1. IsListed(v, new, here, FALSE)
      BY <1>3, <1>5, <1>10, ListedIs
    <3> QED
      BY <3>1, Zenon DEF IsListed
  <2>2. Sweeping(t, o, root, new, open)
    <3> DEFINE also == {}
               isDir == FALSE
    <3>1. also \in SUBSET {here} /\ here \notin also /\ isDir \in BOOLEAN /\ ~ isDir
      OBVIOUS
    <3>2. v.visited \subseteq new.visited /\ Erred(v) \subseteq Erred(new) /\ new.entries = Append(v.entries, Entry(here, isDir))
      BY <2>1 DEF Erred
    <3> HIDE DEF also, isDir
    <3>3. Sweeping(t, o, root, new, open \cup also)
      BY <1>4, <1>7, <3>1, <3>2, NextListed
    <3> QED
      BY <3>3 DEF also
  <2>3. Grown(new, new, here)
    BY GrownSame
  <2>4. Erred(v) \subseteq Erred(new)
    BY <2>1 DEF Erred
  <2> DEFINE isDir == FALSE
  <2>5. isDir \in BOOLEAN /\ (isDir => IsDirectory(o, e)) /\ (~ isDir => IsFile(o, e)) /\ new.entries = Append(v.entries, Entry(here, isDir))
    BY <1>10, <2>1
  <2> HIDE DEF isDir
  <2> QED
    BY <1>2, <1>3, <1>4, <1>7, <2>2, <2>3, <2>4, <2>5, ListingKeeps
<1>11. CASE DirListed(o, c, v, e, new)
  <2> DEFINE seen == Listed(v, here, TRUE)
  <2>1. seen \in Sweeps(t) /\ seen.entries = Append(v.entries, Entry(here, TRUE)) /\ seen.visited = v.visited /\ seen.errors = v.errors
    <3>1. seen \in Sweeps(t) /\ IsListed(v, seen, here, TRUE)
      BY <1>3, <1>5, ListedIs
    <3> QED
      BY <3>1, Zenon DEF IsListed
  <2>2. Len(here) = c.depth + 1
    <3>1. Len(c.path) = c.depth
      BY Zenon DEF Called
    <3>2. e.name \in Basenames /\ here = OneOn(c.path, e.name)
      BY <1>4, Zenon DEF NextEntry
    <3> DEFINE x == e.name
    <3> HIDE DEF x
    <3>3. Len(here) = Len(c.path) + 1
      BY <1>1, <1>5, <3>2, OneFurther DEF x
    <3> QED
      BY <3>1, <3>3
  <2>6. here # <<>>
    BY <1>1, <2>2
  <2>3. /\ new.entries = Append(v.entries, Entry(here, TRUE)) /\ new.visited = v.visited /\ Erred(v) \subseteq Erred(new)
        /\ Accounted(t, o, root, new, here)
    <3>1. CASE TooDeep(o, c.depth + 1) /\ new = seen
      <4>1. Accounted(t, o, root, new, here)
        BY <2>2, <2>6, <3>1, Zenon DEF Accounted
      <4> QED
        BY <2>1, <3>1, <4>1 DEF Erred
    <3>2. CASE \E why \in {"ceiling", "resolve", "alias"} : new = Recorded(seen, here, why)
      <4>1. PICK why \in Reasons : new = Recorded(seen, here, why)
        BY <3>2 DEF Reasons
      <4> HIDE DEF seen
      <4>2. new.entries = seen.entries /\ new.visited = seen.visited /\ Erred(new) = Erred(seen) \cup {here}
        <5>1. IsRecorded(seen, new, here)
          BY <1>5, <2>1, <4>1, RecordedIs
        <5> QED
          BY <5>1, Zenon DEF IsRecorded
      <4>3. Erred(seen) = Erred(v)
        BY <2>1 DEF Erred
      <4>4. Accounted(t, o, root, new, here)
        <5>1. here \in Erred(new)
          BY <4>2
        <5> QED
          BY <2>6, <5>1, Zenon DEF Accounted
      <4> QED
        BY <2>1, <4>2, <4>3, <4>4
    <3> QED
      BY <1>5, <1>11, <3>1, <3>2, Zenon DEF DirListed
  <2>4. Sweeping(t, o, root, new, open)
    <3> DEFINE also == {}
               isDir == TRUE
    <3>1. also \in SUBSET {here} /\ here \notin also /\ isDir \in BOOLEAN
      OBVIOUS
    <3>2. v.visited \subseteq new.visited /\ new.entries = Append(v.entries, Entry(here, isDir))
      BY <2>3
    <3> HIDE DEF also, isDir, seen
    <3>3. Sweeping(t, o, root, new, open \cup also)
      BY <1>4, <1>7, <2>3, <3>1, <3>2, NextListed
    <3> QED
      BY <3>3 DEF also
  <2>5. Grown(new, new, here)
    BY GrownSame
  <2> DEFINE isDir == TRUE
  <2>7. isDir \in BOOLEAN /\ (isDir => IsDirectory(o, e)) /\ (~ isDir => IsFile(o, e)) /\ new.entries = Append(v.entries, Entry(here, isDir))
    BY <1>11, <2>3 DEF DirListed
  <2> HIDE DEF isDir, seen
  <2> QED
    BY <1>2, <1>3, <1>4, <1>7, <2>3, <2>4, <2>5, <2>7, ListingKeeps
<1>12. CASE Recursed(f, o, c, v, e, new)
  BY <1>2, <1>3, <1>4, <1>7, <1>12, ChildKeeps
<1> QED
  BY <1>8, <1>9, <1>10, <1>11, <1>12

\* A call that may be made leaves a sweep in which its directory is walked, when
\* the calls one level down do.
LEMMA CallKeeps ==
  ASSUME NEW t, IsTree(t), NEW o, IsWalk(o), NEW root \in DOMAIN t.listing, NEW f, IsRecurse(f, t, o),
         NEW c \in WalkCalls(t), NEW open, Called(t, o, root, c, open), ChildrenSwept(t, o, root, f, c.depth + 1)
  PROVE  Swept(t, o, root, c, f[c], open)
<1>1. c.w \in Sweeps(t) /\ c.path \in Seq(Basenames) /\ c.depth \in Nat /\ c.dir \in DOMAIN t.listing
  BY CallParts
<1>2. f[c] = WalkBody(t, o, f, c) /\ \A x \in WalkCalls(t) : f[x] \in Sweeps(t)
  BY DEF IsRecurse
<1>3. Sweeping(t, o, root, c.w, open) /\ DirsAt(t, root, c.path) = {c.dir} /\ \A p \in Paths(c.w.entries) : ~ Under(c.path, p)
  BY Zenon DEF Called
<1>4. CASE c.dir \in t.unreadable
  <2> DEFINE new == Recorded(c.w, c.path, "unreadable")
             w == c.w
             path == c.path
  <2>1. f[c] = new
    BY <1>2, <1>4, Zenon DEF WalkBody
  <2>2. new \in Sweeps(t) /\ IsRecorded(w, new, path)
    <3> DEFINE why == "unreadable"
    <3>1. why \in Reasons /\ new = Recorded(w, path, why)
      BY DEF Reasons
    <3> HIDE DEF new, w, path, why
    <3> QED
      BY <1>1, <3>1, RecordedIs DEF w, path
  <2> HIDE DEF new
  <2>3. new.entries = w.entries /\ new.visited = w.visited /\ Erred(new) = Erred(w) \cup {path}
    BY <2>2, Zenon DEF IsRecorded
  <2>4. Sweeping(t, o, root, new, open)
    <3> HIDE DEF w, path
    <3>1. Erred(w) \subseteq Erred(new)
      BY <2>3
    <3>2. Sweeping(t, o, root, w, open)
      BY <1>3 DEF w
    <3> QED
      BY <2>2, <2>3, <3>1, <3>2, ErrorKeeps
  <2>5. Accounted(t, o, root, new, path)
    <3>1. path # <<>>
      BY <1>4, Zenon DEF Called
    <3>2. path \in Erred(new)
      BY <2>3
    <3> QED
      BY <3>1, <3>2, Zenon DEF Accounted
  <2>6. Grown(w, new, path)
    <3>1. Erred(w) \subseteq Erred(new)
      BY <2>3
    <3> QED
      BY <2>3, <3>1, GrownSame
  <2> QED
    BY <2>1, <2>4, <2>5, <2>6, Zenon DEF Swept
<1>5. CASE c.dir \notin t.unreadable
  <2> DEFINE s == t.listing[c.dir]
             V == Sweeps(t)
             A == Items(t)
  <2>1. s \in Seq(A) /\ Len(s) \in Nat
    BY <1>1, ListingIs
  <2>2. c.w \in V /\ \A u \in V, e \in A : WalkEntry(f, t, o, c, u, e) \in V
    BY <1>1, <1>2, EntryKeepsType
  <2> HIDE DEF V, A
  <2>3. PICK h : ListsRuns(h, s, f, t, o, c, V)
    <3> HIDE DEF s
    <3> QED
      BY <2>1, <2>2, ListsRun
  <2>4. /\ h[0] = c.w /\ ListsOf(s, f, t, o, c) = h[Len(s)]
        /\ \A m \in 1 .. Len(s) : h[m] = WalkEntry(f, t, o, c, h[m - 1], s[m])
    BY <2>3, Zenon DEF ListsRuns
  <2>5. f[c] = h[Len(s)]
    BY <1>2, <1>5, <2>4, Zenon DEF WalkBody
  <2> DEFINE P == {m \in 0 .. Len(s) : InDir(t, o, root, c, h[m], m, open)}
  <2>6. 0 \in P
    <3>1. \A p \in Paths(c.w.entries) : Under(c.path, p) => p[Len(c.path) + 1] \in Names(t, c, 0)
      BY <1>3
    <3>2. 0 \in 0 .. Len(s) /\ \A l \in 1 .. 0 : FALSE
      BY <2>1
    <3>3. Grown(c.w, c.w, c.path)
      BY GrownSame
    <3> HIDE DEF s
    <3>4. InDir(t, o, root, c, c.w, 0, open)
      BY <1>3, <3>1, <3>2, <3>3, Zenon DEF InDir
    <3> QED
      BY <2>4, <3>2, <3>4
  <2>7. ASSUME NEW m \in 1 .. Len(s), m - 1 \in P PROVE m \in P
    <3> DEFINE v == h[m - 1]
               new == h[m]
    <3>1. InDir(t, o, root, c, v, m - 1, open) /\ m \in 0 .. Len(s)
      BY <2>1, <2>7
    <3>2. new = WalkEntry(f, t, o, c, v, t.listing[c.dir][m])
      BY <2>4
    <3> HIDE DEF v, new
    <3>3. InDir(t, o, root, c, new, m, open)
      BY <1>2, <3>1, <3>2, EntryKeeps
    <3> QED
      BY <3>1, <3>3 DEF new
  <2>8. Len(s) \in P
    <3> HIDE DEF P, s
    <3> QED
      BY <2>1, <2>6, <2>7, PrefixInduction
  <2> DEFINE new == h[Len(s)]
  <2>9. InDir(t, o, root, c, new, Len(s), open)
    BY <2>8
  <2>10. Sweeping(t, o, root, new, open) /\ Grown(c.w, new, c.path)
         /\ \A l \in 1 .. Len(s) : Told(o, new, c.path, s[l])
    BY <2>9, Zenon DEF InDir
  <2>11. Accounted(t, o, root, new, c.path)
    <3>1. DOMAIN s = 1 .. Len(s)
      BY <1>1, ListingIs
    <3> DEFINE T(e) == Told(o, new, c.path, e)
    <3>2. \A l \in 1 .. Len(s) : T(s[l])
      BY <2>10
    <3> HIDE DEF s, T
    <3>3. \A e \in ToSet(s) : T(e)
      BY <3>1, <3>2 DEF ToSet
    <3>4. c.dir \in DirsAt(t, root, c.path)
      BY <1>3
    <3> QED
      BY <3>3, <3>4, Zenon DEF Accounted, T, s
  <2> QED
    BY <2>5, <2>10, <2>11, Zenon DEF Swept
<1> QED
  BY <1>4, <1>5

\* So every call that may be made does, by induction on how far it is from the ceiling.
LEMMA CallsKeep ==
  ASSUME NEW t, IsTree(t), NEW o, IsWalk(o), NEW root \in DOMAIN t.listing, NEW f, IsRecurse(f, t, o),
         NEW c \in WalkCalls(t), NEW open, Called(t, o, root, c, open)
  PROVE  Swept(t, o, root, c, f[c], open)
<1> DEFINE C == WalkCalls(t)
           Right(x) == \A S : Called(t, o, root, x, S) => Swept(t, o, root, x, f[x], S)
           P == {n \in Nat : \A x \in C : x.depth + n >= MaxWalkDepth => Right(x)}
<1>1. MaxWalkDepth \in Nat /\ \A x \in C : x.depth \in Nat
  BY WalkAssumption, CallParts
<1>2. ASSUME NEW x \in C, ChildrenSwept(t, o, root, f, x.depth + 1) PROVE Right(x)
  BY <1>2, CallKeeps
<1> HIDE DEF C
<1>3. 0 \in P
  <2>1. ASSUME NEW x \in C, x.depth + 0 >= MaxWalkDepth PROVE Right(x)
    <3>1. ~ (x.depth + 1 <= MaxWalkDepth)
      BY <1>1, <2>1
    <3>2. ChildrenSwept(t, o, root, f, x.depth + 1)
      BY <3>1, Zenon DEF ChildrenSwept
    <3> QED
      BY <1>2, <3>2
  <2> HIDE DEF Right
  <2> QED
    BY <2>1
<1>4. ASSUME NEW n \in Nat, n \in P PROVE n + 1 \in P
  <2>1. ASSUME NEW x \in C, x.depth + (n + 1) >= MaxWalkDepth PROVE Right(x)
    <3>1. ASSUME NEW y \in C, y.depth = x.depth + 1 PROVE Right(y)
      <4>1. y.depth + n >= MaxWalkDepth
        BY <1>1, <2>1, <3>1
      <4> HIDE DEF Right
      <4> QED
        BY <1>4, <4>1
    <3>2. ChildrenSwept(t, o, root, f, x.depth + 1)
      BY <3>1, Zenon DEF ChildrenSwept, C
    <3> QED
      BY <1>2, <3>2
  <2> HIDE DEF Right
  <2> QED
    BY <2>1
<1>5. MaxWalkDepth \in P
  <2> HIDE DEF P
  <2> QED
    BY <1>1, <1>3, <1>4, NatSetInduction
<1>6. Right(c)
  <2>1. c \in C /\ c.depth + MaxWalkDepth >= MaxWalkDepth
    BY <1>1 DEF C
  <2> HIDE DEF Right
  <2> QED
    BY <1>5, <2>1
<1> QED
  BY <1>6

-----------------------------------------------------------------------------
(* The whole sweep                                                         *)

\* The sweep of a tree from a directory that can be read.
LEMMA RootIsCalled ==
  ASSUME NEW t, NEW o, IsWalk(o), NEW root \in DOMAIN t.listing, root \notin t.unreadable,
         NEW c, c = WalkCall(NoWalk(t, root), <<>>, 0, root)
  PROVE  c \in WalkCalls(t) /\ Called(t, o, root, c, {<<>>})
<1> DEFINE w == NoWalk(t, root)
           S == Sweeps(t)
           P == Seq(Basenames)
           E == Seq([path : P, isDir : BOOLEAN])
           R == Seq(P \X Reasons)
<1>1. w.entries = <<>> /\ w.visited = (IF <<>> \in t.unresolvable THEN {} ELSE {root}) /\ ToSet(w.entries) = {}
  BY DEF NoWalk, ToSet
<1>2. w \in S
  <2>1. <<>> \in E /\ <<>> \in R
    OBVIOUS
  <2> HIDE DEF P, E, R
  <2>2. w \in [entries : E, errors : R, visited : SUBSET DOMAIN t.listing]
    BY <2>1 DEF NoWalk
  <2> QED
    BY <2>2, Zenon DEF Sweeps, E, R, P
<1>3. <<>> \in P /\ Len(<<>>) = 0
  OBVIOUS
<1>4. DirsAt(t, root, <<>>) = {root}
  BY LeadsOn
<1> HIDE DEF w, S, P
<1>5. c = [w |-> w, path |-> <<>>, depth |-> 0, dir |-> root]
  BY DEF WalkCall, w
<1>6. c \in WalkCalls(t) /\ c.w = w /\ c.path = <<>> /\ c.depth = 0 /\ c.dir = root
  <2>1. c \in [w : S, path : P, depth : Nat, dir : DOMAIN t.listing]
    BY <1>2, <1>3, <1>5
  <2> QED
    BY <1>5, <2>1 DEF WalkCalls, S, P
<1>7. Paths(w.entries) = {} /\ DistinctPaths(w)
  BY <1>1 DEF Paths, DistinctPaths
<1>8. Sweeping(t, o, root, w, {<<>>})
  <2>1. Desc(w) = {} /\ DirPaths(w) = {}
    BY <1>1, <1>7 DEF Desc, DirPaths
  <2>2. Homes(t, root, w, (Desc(w) \cup {<<>>}) \ Lost(t))
    BY <1>1, <1>4, <2>1 DEF Homes, Lost
  <2> QED
    BY <1>2, <1>7, <2>1, <2>2 DEF Sweeping, S
<1>9. o.maxDepth # Unbounded => 0 <= o.maxDepth
  BY DEF IsWalk
<1>10. \A i \in 1 .. Len(c.path) : c.path[i] \notin o.ignores
  BY <1>3, <1>6
<1>11. c.path \in {<<>>} /\ Len(c.path) = c.depth /\ \A p \in Paths(c.w.entries) : ~ Under(c.path, p)
  BY <1>3, <1>6, <1>7
<1>12. o.maxDepth # Unbounded => Len(c.path) <= o.maxDepth
  BY <1>3, <1>6, <1>9
<1>13. Sweeping(t, o, root, c.w, {<<>>}) /\ DirsAt(t, root, c.path) = {c.dir} /\ c.dir \notin t.unreadable
  BY <1>4, <1>6, <1>8
<1>14. Called(t, o, root, c, {<<>>})
  BY <1>6, <1>10, <1>11, <1>12, <1>13, Zenon DEF Called
<1> QED
  BY <1>6, <1>14

\* It is complete.
LEMMA SweepsAreComplete ==
  ASSUME NEW t, IsTree(t), NEW o, IsWalk(o), NEW root \in DOMAIN t.listing
  PROVE  SweepIsComplete(t, o, root)
<1> DEFINE w == WalkDir(t, o, root)
           c == WalkCall(NoWalk(t, root), <<>>, 0, root)
<1>1. CASE root \in t.unreadable
  BY <1>1 DEF SweepIsComplete, WalkTree
<1>2. CASE root \notin t.unreadable
  <2>1. WalkTree(t, o, root).ok = TRUE /\ WalkTree(t, o, root).value = w
    BY <1>2 DEF WalkTree
  <2>2. PICK f : IsRecurse(f, t, o) /\ w = f[c]
    BY WalkIs
  <2>3. c \in WalkCalls(t) /\ Called(t, o, root, c, {<<>>}) /\ c.path = <<>>
    BY <1>2, RootIsCalled DEF WalkCall
  <2> HIDE DEF w, c
  <2>4. Swept(t, o, root, c, w, {<<>>})
    BY <2>2, <2>3, CallsKeep
  <2>5. Sweeping(t, o, root, w, {})
    <3> DEFINE here == <<>>
               open == {}
    <3>1. Sweeping(t, o, root, w, open \cup {here}) /\ Accounted(t, o, root, w, here)
      <4>1. open \cup {here} = {<<>>}
        OBVIOUS
      <4> QED
        BY <2>3, <2>4, <4>1, Zenon DEF Swept
    <3> HIDE DEF here, open
    <3>2. Sweeping(t, o, root, w, open)
      BY <3>1, SettledCloses
    <3> QED
      BY <3>2 DEF open
  <2>6. /\ w \in Sweeps(t) /\ DistinctPaths(w)
        /\ \A p \in Paths(w.entries) : InPlace(o, w, p)
        /\ \A p \in DirPaths(w) : p \in {} \/ Accounted(t, o, root, w, p)
        /\ o.follow => Homes(t, root, w, (Desc(w) \cup {}) \ Lost(t))
    BY <2>5, Zenon DEF Sweeping
  <2>7. Cardinality(Paths(w.entries)) = Len(w.entries)
    <3> DEFINE n == Len(w.entries)
               A == Seq(Basenames)
               ps == [i \in 1 .. n |-> w.entries[i].path]
    <3>1. n \in Nat /\ DOMAIN w.entries = 1 .. n
      BY <2>6, SweepParts
    <3>2. \A x \in ToSet(w.entries) : x.path \in A
      BY <2>6, SweepParts
    <3> HIDE DEF A, n
    <3>3. \A i \in 1 .. n : w.entries[i].path \in A
      BY <3>1, <3>2 DEF ToSet
    <3>4. ps \in Seq(A) /\ Len(ps) = n /\ DOMAIN ps = 1 .. n
      <4>1. ps \in [1 .. n -> A]
        BY <3>3
      <4> QED
        BY <3>1, <4>1
    <3>5. ToSet(ps) = Paths(w.entries)
      BY <3>1, <3>4 DEF ToSet, Paths
    <3>6. Distinct(ps)
      BY <2>6, <3>1, <3>4 DEF Distinct, DistinctPaths
    <3> HIDE DEF ps
    <3> QED
      BY <3>4, <3>5, <3>6, DistinctSize DEF n
  <2>8. ASSUME NEW p \in {<<>>} \cup DirPaths(w) PROVE Accounted(t, o, root, w, p)
    <3>1. Accounted(t, o, root, w, <<>>)
      BY <2>3, <2>4, Zenon DEF Swept
    <3>2. p = <<>> \/ p \in DirPaths(w)
      BY <2>8
    <3>3. p \in DirPaths(w) => Accounted(t, o, root, w, p)
      BY <2>6
    <3> QED
      BY <3>1, <3>2, <3>3, Zenon
  <2>9. o.follow => \A p, q \in Desc(w) \ ({<<>>} \cap t.unresolvable) : DirsAt(t, root, p) = DirsAt(t, root, q) => p = q
    BY <2>6 DEF Homes, Lost
  <2>10. \A p \in Paths(w.entries) :
           /\ \A i \in 1..(Len(p) - 1) : p[i] \notin o.ignores
           /\ o.maxDepth # Unbounded => Len(p) <= o.maxDepth + 1
           /\ Len(p) > 1 => Entry(Front(p), TRUE) \in ToSet(w.entries)
    BY <2>6, Zenon DEF InPlace
  <2> QED
    BY <2>1, <2>7, <2>8, <2>9, <2>10, Zenon DEF SweepIsComplete, Desc, DirPaths
<1> QED
  BY <1>1, <1>2

-----------------------------------------------------------------------------
(* Whatever is called                                                      *)

\* The graph is one that add_node and add_edge built, and the request is one of
\* those made.
Traversed == GraphOK(graph) /\ (request = NoRequest \/ request \in Requests)

\* Then what it is asked is answered right.
LEMMA TraversedIsRight == Traversed => TraversalsAreRight
<1> SUFFICES ASSUME Traversed PROVE TraversalsAreRight
  OBVIOUS
<1>1. GraphOK(graph) /\ (request = NoRequest \/ request \in Requests)
  BY DEF Traversed
<1>2. Distances \subseteq Nat /\ Limits \subseteq Nat
  BY LibraryAssumption
<1>3. ASSUME NEW start \in ToSet(graph.nodes), NEW most \in Distances
      PROVE  /\ SearchIsShortest(graph, start, most)
             /\ \A other \in Ids, limit \in Limits : ExpandIsComplete(graph, <<start, other>>, most, limit)
  <2>1. most \in Nat
    BY <1>2
  <2>2. SearchIsShortest(graph, start, most)
    BY <1>1, <2>1, SearchesHold
  <2>3. ASSUME NEW other \in Ids, NEW limit \in Limits PROVE ExpandIsComplete(graph, <<start, other>>, most, limit)
    <3> DEFINE Q == ToSet(graph.nodes) \cup Ids
               seeds == <<start, other>>
    <3>1. start \in Q /\ other \in Q
      OBVIOUS
    <3> HIDE DEF Q
    <3>2. seeds \in Seq(Q) /\ limit \in Nat
      BY <1>2, <3>1
    <3> HIDE DEF seeds
    <3>3. ExpandIsComplete(graph, seeds, most, limit)
      BY <1>1, <2>1, <3>2, ExpansionsHold
    <3> QED
      BY <3>3 DEF seeds
  <2> QED
    BY <2>2, <2>3
<1>4. ASSUME request # NoRequest, request.fn = "fs_walk"
      PROVE  SweepIsComplete(request.tree, request.options, request.root)
  <2> DEFINE t == request.tree
             o == request.options
             root == request.root
  <2>1. IsTree(t) /\ IsWalk(o) /\ root \in DOMAIN t.listing
    BY <1>1, <1>4, LibraryAssumption
  <2> HIDE DEF t, o, root
  <2>2. SweepIsComplete(t, o, root)
    BY <2>1, SweepsAreComplete
  <2> QED
    BY <2>2 DEF t, o, root
<1> QED
  BY <1>3, <1>4, Zenon DEF TraversalsAreRight

\* Whatever graph is built and whatever it is asked: neighbors_within and
\* shortest_path find shortest ways and all there is within the distance, expand
\* lists nothing twice and no seed, and a sweep of any tree lists every path once,
\* in its place, tells of every entry of the root and of every directory it lists,
\* unless a depth or an error below the root says why not, and, following links,
\* goes through no directory twice but a root that does not resolve.
THEOREM EveryTraversalIsRight == LibInit /\ [][LibNext]_libVars => []TraversalsAreRight
<1>1. LibInit => Traversed
  BY NoGraphIsOne DEF LibInit, Traversed
<1>2. Traversed /\ [LibNext]_libVars => Traversed'
  <2> SUFFICES ASSUME Traversed, [LibNext]_libVars PROVE Traversed'
    OBVIOUS
  <2>1. GraphOK(graph')
    <3>1. ASSUME NEW id \in Ids, AddNode(id) PROVE GraphOK(graph')
      BY <3>1, NodeKeepsGraph DEF AddNode, Traversed
    <3>2. ASSUME NEW from, NEW to, AddEdge(from, to) PROVE GraphOK(graph')
      BY <3>2, EdgeKeepsGraph DEF AddEdge, Traversed
    <3>3. CASE UNCHANGED graph
      BY <3>3 DEF Traversed
    <3> QED
      BY <3>1, <3>2, <3>3 DEF LibNext, GraphCall, libVars
  <2>2. request' = NoRequest \/ request' \in Requests
    <3>1. ASSUME NEW r \in Requests, Ask(r) PROVE request' \in Requests
      BY <3>1 DEF Ask
    <3>2. CASE UNCHANGED request
      BY <3>2 DEF Traversed
    <3> QED
      BY <3>1, <3>2 DEF LibNext, libVars
  <2> QED
    BY <2>1, <2>2, Zenon DEF Traversed
<1> QED
  BY <1>1, <1>2, TraversedIsRight, PTL

=============================================================================
