----------------------------- MODULE FoldLemmas -----------------------------
(***************************************************************************)
(* What the folds of the community modules compute, for every finite set   *)
(* and every sequence: sums over functions, and loops over sequences.      *)
(*                                                                         *)
(* A fold is a recursive function on the subsets of its set.  Induction is *)
(* by sets here: a set of naturals with 0 and with n + 1 for each n has    *)
(* all of them, since what it lacks would have a least element.            *)
(***************************************************************************)
EXTENDS SequencesExt, FiniteSetTheorems, SequenceTheorems, FunctionTheorems,
        TLAPS

----------------------------------------------------------------------------
(* Induction. *)

\* A set of naturals that is not empty has a least element.
LEMMA LeastNatural ==
  ASSUME NEW S, S \subseteq Nat, S # {}
  PROVE  \E n \in S : \A m \in S : n <= m
<1> DEFINE Less == OpToRel(<, Nat)
<1>1. \A x, y \in Nat : <<x, y>> \in Less <=> x < y
  BY DEF OpToRel
<1>2. IsWellFoundedOn(Less, Nat)
  BY NatLessThanWellFounded
<1> HIDE DEF Less
<1>3. PICK n \in S : \A m \in S : ~ (<<m, n>> \in Less)
  BY <1>2, WFMin
<1>4. ASSUME NEW m \in S PROVE n <= m
  <2>1. m \in Nat /\ n \in Nat /\ ~ (m < n)
    BY <1>1, <1>3
  <2> QED
    BY <2>1
<1> QED
  BY <1>4

\* Induction on the naturals, of the property of being in P.
LEMMA NatSetInduction ==
  ASSUME NEW P, 0 \in P, \A n \in Nat : n \in P => n + 1 \in P
  PROVE  Nat \subseteq P
<1> SUFFICES ASSUME Nat \ P # {} PROVE FALSE
  OBVIOUS
<1>1. PICK n \in Nat \ P : \A m \in Nat \ P : n <= m
  <2>1. Nat \ P \subseteq Nat
    OBVIOUS
  <2> QED
    BY <2>1, LeastNatural
<1>2. n # 0 /\ n - 1 \in Nat
  BY <1>1
<1>3. n - 1 \in P
  BY <1>1, <1>2
<1>4. (n - 1) + 1 \in P
  BY <1>2, <1>3
<1> QED
  BY <1>1, <1>4

\* A set of naturals that is not empty and has an upper bound has a greatest
\* element.
LEMMA GreatestNatural ==
  ASSUME NEW S, S \subseteq Nat, S # {}, NEW n \in Nat, \A m \in S : m <= n
  PROVE  Max(S) \in S /\ \A m \in S : Max(S) >= m
<1> DEFINE Gaps == {n - m : m \in S}
<1>1. Gaps \subseteq Nat /\ Gaps # {}
  <2>1. \A m \in S : n - m \in Nat
    <3>1. \A m \in S : m \in Nat /\ m <= n
      OBVIOUS
    <3> QED
      BY <3>1
  <2> QED
    BY <2>1
<1>2. PICK g \in Gaps : \A h \in Gaps : g <= h
  BY <1>1, LeastNatural
<1>3. PICK x \in S : g = n - x
  OBVIOUS
<1>4. \A m \in S : x >= m
  <2> SUFFICES ASSUME NEW m \in S PROVE x >= m
    OBVIOUS
  <2>1. n - m \in Gaps /\ m \in Nat /\ x \in Nat
    OBVIOUS
  <2>2. n - x <= n - m
    BY <1>2, <1>3, <2>1
  <2> QED
    BY <2>1, <2>2
<1> QED
  BY <1>4 DEF Max

\* A nonempty finite set of naturals has a greatest element.
LEMMA GreatestOfFinite ==
  ASSUME NEW S, S \subseteq Nat, S # {}, IsFiniteSet(S)
  PROVE  Max(S) \in S /\ \A m \in S : Max(S) >= m
<1> DEFINE Bounded(T) == \E b \in Nat : \A m \in T : m <= b
           Sized == {n \in Nat : \A T \in SUBSET Nat :
                       IsFiniteSet(T) /\ Cardinality(T) = n => Bounded(T)}
<1>1. 0 \in Sized
  <2> SUFFICES ASSUME NEW T \in SUBSET Nat, IsFiniteSet(T), Cardinality(T) = 0
               PROVE  Bounded(T)
    OBVIOUS
  <2>1. T = {}
    BY FS_EmptySet
  <2> QED
    BY <2>1
<1>2. ASSUME NEW n \in Nat, n \in Sized PROVE n + 1 \in Sized
  <2> SUFFICES ASSUME NEW T \in SUBSET Nat, IsFiniteSet(T), Cardinality(T) = n + 1
               PROVE  Bounded(T)
    OBVIOUS
  <2>1. PICK x : x \in T
    <3>1. n + 1 # 0
      OBVIOUS
    <3> QED
      BY <3>1, FS_EmptySet
  <2>2. IsFiniteSet(T \ {x}) /\ Cardinality(T \ {x}) = n
    <3>1. Cardinality(T \ {x}) = (n + 1) - 1 /\ IsFiniteSet(T \ {x})
      BY <2>1, FS_RemoveElement, Zenon
    <3> QED
      BY <3>1
  <2>3. PICK b \in Nat : \A m \in T \ {x} : m <= b
    BY <1>2, <2>2
  <2>4. b + x \in Nat /\ \A m \in T : m <= b + x
    <3>1. \A m \in T : m \in Nat
      OBVIOUS
    <3>2. x \in Nat
      BY <2>1
    <3> QED
      BY <2>3, <3>1, <3>2
  <2> QED
    BY <2>4
<1>3. Nat \subseteq Sized
  <2> HIDE DEF Sized
  <2> QED
    BY <1>1, <1>2, NatSetInduction
<1>4. Cardinality(S) \in Nat
  BY FS_CardinalityType
<1>5. PICK b \in Nat : \A m \in S : m <= b
  BY <1>3, <1>4
<1> QED
  BY <1>5, GreatestNatural

\* Induction on the subsets of a finite set, of the property of being in P.
LEMMA SubsetInduction ==
  ASSUME NEW S, IsFiniteSet(S), NEW P, {} \in P,
         \A s \in SUBSET S : s # {} => \E x \in s : s \ {x} \in P => s \in P
  PROVE  SUBSET S \subseteq P
<1> DEFINE Sized == {n \in Nat : \A s \in SUBSET S : Cardinality(s) = n => s \in P}
<1>1. \A s \in SUBSET S : IsFiniteSet(s) /\ Cardinality(s) \in Nat
  BY FS_Subset, FS_CardinalityType
<1>2. 0 \in Sized
  BY <1>1, FS_EmptySet
<1>3. ASSUME NEW n \in Nat, n \in Sized PROVE n + 1 \in Sized
  <2> SUFFICES ASSUME NEW s \in SUBSET S, Cardinality(s) = n + 1 PROVE s \in P
    OBVIOUS
  <2>1. s # {}
    <3>1. n + 1 # 0
      OBVIOUS
    <3> QED
      BY <3>1, FS_EmptySet
  <2>2. PICK x \in s : s \ {x} \in P => s \in P
    BY <2>1
  <2>3. Cardinality(s \ {x}) = n
    <3>1. Cardinality(s \ {x}) = (n + 1) - 1
      BY <1>1, <2>2, FS_RemoveElement, Zenon
    <3> QED
      BY <3>1
  <2>4. s \ {x} \in P
    BY <1>3, <2>3
  <2> QED
    BY <2>2, <2>4
<1>4. Nat \subseteq Sized
  <2> HIDE DEF Sized
  <2> QED
    BY <1>2, <1>3, NatSetInduction
<1> QED
  BY <1>1, <1>4

----------------------------------------------------------------------------
(* Folds. *)

\* pick says which element of a set comes last, step what it does to the result
\* of the others, a member of V.
Picks(pick, S) == \A s \in SUBSET S : s # {} => pick[s] \in s

IsFold(f, S, pick, V, base, step) ==
  /\ f \in [SUBSET S -> V]
  /\ \A s \in SUBSET S : f[s] = IF s = {} THEN base ELSE step[pick[s]][f[s \ {pick[s]}]]

\* A fold is well defined.
LEMMA FoldExists ==
  ASSUME NEW S, IsFiniteSet(S), NEW pick, Picks(pick, S),
         NEW V, NEW base \in V, NEW step, step \in [S -> [V -> V]]
  PROVE  \E f : IsFold(f, S, pick, V, base, step)
<1>0. \A s \in SUBSET S : s # {} => pick[s] \in s
  BY DEF Picks
<1> DEFINE Upto(n) == {s \in SUBSET S : Cardinality(s) <= n}
           Result(f, s) == IF s = {} THEN base ELSE step[pick[s]][f[s \ {pick[s]}]]
           Folds(n, f) == f \in [Upto(n) -> V] /\ \A s \in Upto(n) : f[s] = Result(f, s)
           Sized == {n \in Nat : \E f : Folds(n, f)}
<1>1. \A s \in SUBSET S : IsFiniteSet(s) /\ Cardinality(s) \in Nat
  BY FS_Subset, FS_CardinalityType
<1>2. 0 \in Sized
  <2>1. \A s \in Upto(0) : s = {}
    BY <1>1, FS_EmptySet
  <2>2. Folds(0, [s \in Upto(0) |-> base])
    BY <2>1
  <2> QED
    BY <2>2
<1>3. ASSUME NEW n \in Nat, n \in Sized PROVE n + 1 \in Sized
  <2>1. PICK f : Folds(n, f)
    BY <1>3
  <2> DEFINE g == [s \in Upto(n + 1) |-> Result(f, s)]
  <2>2. \A s \in Upto(n) : s \in Upto(n + 1) /\ g[s] = f[s]
    <3>1. \A s \in Upto(n) : s \in Upto(n + 1)
      BY <1>1
    <3> QED
      BY <2>1, <3>1
  <2>3. \A s \in Upto(n + 1) : s # {} => pick[s] \in s /\ s \ {pick[s]} \in Upto(n)
    <3> SUFFICES ASSUME NEW s \in Upto(n + 1), s # {}
                 PROVE  pick[s] \in s /\ s \ {pick[s]} \in Upto(n)
      OBVIOUS
    <3>1. pick[s] \in s
      BY <1>0
    <3>2. Cardinality(s \ {pick[s]}) = Cardinality(s) - 1
      <4>1. IsFiniteSet(s)
        BY <1>1
      <4>2. ASSUME NEW x \in s PROVE Cardinality(s \ {x}) = Cardinality(s) - 1
        BY <4>1, FS_RemoveElement
      <4> QED
        BY <3>1, <4>2
    <3>3. Cardinality(s) \in Nat /\ Cardinality(s) <= n + 1
      BY <1>1
    <3>4. Cardinality(s) - 1 <= n
      BY <3>3
    <3> QED
      BY <3>1, <3>2, <3>4
  <2>4. ASSUME NEW s \in Upto(n + 1)
        PROVE  Result(f, s) \in V /\ Result(g, s) = Result(f, s)
    <3>1. CASE s = {}
      BY <3>1
    <3>2. CASE s # {}
      <4> DEFINE r == s \ {pick[s]}
      <4>1. pick[s] \in S /\ r \in Upto(n)
        BY <2>3, <3>2
      <4>2. f[r] \in V /\ g[r] = f[r]
        BY <2>1, <2>2, <4>1
      <4>3. Result(f, s) = step[pick[s]][f[r]] /\ Result(g, s) = step[pick[s]][g[r]]
        BY <3>2
      <4>4. step[pick[s]][f[r]] \in V
        <5> HIDE DEF r, g
        <5> QED
          BY <4>1, <4>2
      <4> HIDE DEF Result, r, g
      <4> QED
        BY <4>2, <4>3, <4>4
    <3> QED
      BY <3>1, <3>2
  <2>5. Folds(n + 1, g)
    BY <2>4
  <2> HIDE DEF g, Folds
  <2> QED
    BY <2>5
<1>4. Nat \subseteq Sized
  <2> HIDE DEF Sized
  <2> QED
    BY <1>2, <1>3, NatSetInduction
<1>5. Cardinality(S) \in Nat
  BY FS_CardinalityType
<1>6. PICK f : Folds(Cardinality(S), f)
  BY <1>4, <1>5
<1>7. Upto(Cardinality(S)) = SUBSET S
  BY FS_Subset
<1> QED
  BY <1>6, <1>7 DEF IsFold

----------------------------------------------------------------------------
(* Sums. *)

\* What a sum counts: w[x] units for each x.
Units(w, S) == UNION {{x} \X (1 .. w[x]) : x \in S}

\* An element adds its units.
LEMMA UnitsOfElement ==
  ASSUME NEW w, NEW S, NEW x \in S, w[x] \in Nat, IsFiniteSet(Units(w, S \ {x}))
  PROVE  /\ IsFiniteSet(Units(w, S))
         /\ Cardinality(Units(w, S)) = w[x] + Cardinality(Units(w, S \ {x}))
<1> DEFINE here == {x} \X (1 .. w[x])
           rest == Units(w, S \ {x})
<1>1. Units(w, S) = here \cup rest /\ here \cap rest = {}
  BY DEF Units
<1>2. IsFiniteSet(here) /\ Cardinality(here) = w[x]
  <2>1. IsFiniteSet(1 .. w[x]) /\ Cardinality(1 .. w[x]) = w[x]
    <3>1. /\ IsFiniteSet(1 .. w[x])
          /\ Cardinality(1 .. w[x]) = IF 1 > w[x] THEN 0 ELSE w[x] - 1 + 1
      <4>1. 1 \in Int /\ w[x] \in Int
        OBVIOUS
      <4> QED
        BY <4>1, FS_Interval, Zenon
    <3> QED
      BY <3>1
  <2>2. IsFiniteSet({x}) /\ Cardinality({x}) = 1
    BY FS_Singleton
  <2>3. IsFiniteSet(here) /\ Cardinality(here) = Cardinality({x}) * Cardinality(1 .. w[x])
    BY <2>1, <2>2, FS_Product, Zenon
  <2> QED
    BY <2>1, <2>2, <2>3
<1>3. IsFiniteSet(here \cup rest)
      /\ Cardinality(here \cup rest) = Cardinality(here) + Cardinality(rest) - Cardinality({})
  <2> HIDE DEF here, rest
  <2> QED
    <3>1. IsFiniteSet(rest)
      BY DEF rest
    <3> QED
      BY <1>1, <1>2, <3>1, FS_Union
<1>4. Cardinality(rest) \in Nat /\ Cardinality({}) = 0
  BY FS_EmptySet, FS_CardinalityType
<1> HIDE DEF here, rest
<1> QED
  BY <1>1, <1>2, <1>3, <1>4 DEF rest

\* The sum of a function over a finite set is the number of its units.
LEMMA SumIsCount ==
  ASSUME NEW S, IsFiniteSet(S), NEW w, \A x \in S : w[x] \in Nat
  PROVE  /\ IsFiniteSet(Units(w, S))
         /\ SumFunctionOnSet(w, S) = Cardinality(Units(w, S))
<1> DEFINE Finite == {s \in SUBSET S : IsFiniteSet(Units(w, s))}
           g == [s \in SUBSET S |-> Cardinality(Units(w, s))]
<1>1. SUBSET S \subseteq Finite
  <2>1. {} \in Finite
    BY FS_EmptySet DEF Units
  <2>2. ASSUME NEW s \in SUBSET S, s # {}
        PROVE  \E x \in s : s \ {x} \in Finite => s \in Finite
    <3>1. PICK x : x \in s
      BY <2>2
    <3>2. s \ {x} \in Finite => s \in Finite
      BY <3>1, UnitsOfElement
    <3> QED
      BY <3>1, <3>2
  <2> HIDE DEF Finite
  <2> QED
    BY <2>1, <2>2, SubsetInduction
<1>2. \A s \in SUBSET S : g[s] = IF s = {} THEN 0
                                 ELSE w[CHOOSE x \in s : TRUE] + g[s \ {CHOOSE x \in s : TRUE}]
  <2> SUFFICES ASSUME NEW s \in SUBSET S
               PROVE  g[s] = IF s = {} THEN 0
                             ELSE w[CHOOSE x \in s : TRUE] + g[s \ {CHOOSE x \in s : TRUE}]
    OBVIOUS
  <2>1. CASE s = {}
    BY <2>1, FS_EmptySet DEF Units
  <2>2. CASE s # {}
    <3> DEFINE x == CHOOSE x \in s : TRUE
    <3>1. x \in s
      BY <2>2
    <3> HIDE DEF x
    <3>2. Cardinality(Units(w, s)) = w[x] + Cardinality(Units(w, s \ {x}))
      <4>1. IsFiniteSet(Units(w, s \ {x})) /\ w[x] \in Nat
        BY <1>1, <3>1
      <4> QED
        BY <3>1, <4>1, UnitsOfElement
    <3>3. g[s] = w[x] + g[s \ {x}]
      BY <3>2
    <3> QED
      BY <2>2, <3>3 DEF x
  <2> QED
    BY <2>1, <2>2
<1>3. g = [s \in SUBSET S |-> IF s = {} THEN 0
                              ELSE w[CHOOSE x \in s : TRUE] + g[s \ {CHOOSE x \in s : TRUE}]]
  <2> HIDE DEF g
  <2>1. DOMAIN g = SUBSET S
    BY DEF g
  <2> QED
    BY <1>2, <2>1 DEF g
<1>4. \E f : /\ f = [s \in SUBSET S |-> IF s = {} THEN 0
                       ELSE w[CHOOSE x \in s : TRUE] + f[s \ {CHOOSE x \in s : TRUE}]]
             /\ SumFunctionOnSet(w, S) = f[S]
  <2> HIDE DEF g
  <2> QED
    BY <1>3, Zenon DEF SumFunctionOnSet, FoldFunctionOnSet, MapThenFoldSet
<1>5. PICK f : /\ f = [s \in SUBSET S |-> IF s = {} THEN 0
                         ELSE w[CHOOSE x \in s : TRUE] + f[s \ {CHOOSE x \in s : TRUE}]]
               /\ SumFunctionOnSet(w, S) = f[S]
  BY <1>4
<1> DEFINE Same == {s \in SUBSET S : f[s] = g[s]}
<1>6. SUBSET S \subseteq Same
  <2>1. {} \in Same
    BY <1>2, <1>5
  <2>2. ASSUME NEW s \in SUBSET S, s # {}
        PROVE  \E x \in s : s \ {x} \in Same => s \in Same
    <3> DEFINE x == CHOOSE x \in s : TRUE
    <3>1. x \in s
      BY <2>2
    <3>2. f[s] = w[x] + f[s \ {x}] /\ g[s] = w[x] + g[s \ {x}]
      BY <1>2, <1>5, <2>2
    <3> HIDE DEF x, g
    <3>3. s \ {x} \in Same => s \in Same
      BY <3>2
    <3> QED
      BY <3>1, <3>3
  <2> HIDE DEF Same
  <2> QED
    BY <2>1, <2>2, SubsetInduction
<1>7. f[S] = g[S]
  BY <1>6
<1> QED
  BY <1>1, <1>5, <1>7

\* A sum is a natural number, and nothing for no elements.
LEMMA SumType ==
  ASSUME NEW S, IsFiniteSet(S), NEW w, \A x \in S : w[x] \in Nat
  PROVE  SumFunctionOnSet(w, S) \in Nat
BY SumIsCount, FS_CardinalityType

\* The sum over no element is 0.
LEMMA SumEmpty == ASSUME NEW w PROVE SumFunctionOnSet(w, {}) = 0
<1>1. Units(w, {}) = {}
  BY DEF Units
<1> QED
  BY <1>1, SumIsCount, FS_EmptySet

\* A sum may start with any element.
LEMMA SumOfElement ==
  ASSUME NEW S, IsFiniteSet(S), NEW w, \A x \in S : w[x] \in Nat, NEW x \in S
  PROVE  SumFunctionOnSet(w, S) = w[x] + SumFunctionOnSet(w, S \ {x})
<1>1. IsFiniteSet(S \ {x})
  BY FS_RemoveElement
<1>2. /\ IsFiniteSet(Units(w, S \ {x}))
      /\ SumFunctionOnSet(w, S \ {x}) = Cardinality(Units(w, S \ {x}))
  BY <1>1, SumIsCount
<1>3. SumFunctionOnSet(w, S) = Cardinality(Units(w, S)) /\ w[x] \in Nat
  BY SumIsCount
<1>4. Cardinality(Units(w, S)) = w[x] + Cardinality(Units(w, S \ {x}))
  BY <1>2, <1>3, UnitsOfElement
<1> QED
  BY <1>2, <1>3, <1>4

\* The sum depends on the function's values on the set.
LEMMA SumSame ==
  ASSUME NEW S, IsFiniteSet(S), NEW w, NEW v, \A x \in S : w[x] \in Nat /\ v[x] = w[x]
  PROVE  SumFunctionOnSet(v, S) = SumFunctionOnSet(w, S)
<1>1. Units(v, S) = Units(w, S)
  BY DEF Units
<1> QED
  BY <1>1, SumIsCount

\* Changing one value changes the sum by as much.
LEMMA SumChange ==
  ASSUME NEW S, IsFiniteSet(S), NEW w, NEW v, NEW x \in S,
         \A y \in S : w[y] \in Nat /\ v[y] \in Nat,
         \A y \in S \ {x} : v[y] = w[y]
  PROVE  SumFunctionOnSet(v, S) = SumFunctionOnSet(w, S) - w[x] + v[x]
<1>1. IsFiniteSet(S \ {x})
  BY FS_RemoveElement
<1>2. SumFunctionOnSet(v, S \ {x}) = SumFunctionOnSet(w, S \ {x})
  BY <1>1, SumSame
<1>3. SumFunctionOnSet(w, S \ {x}) \in Nat
  BY <1>1, SumType
<1>4. /\ SumFunctionOnSet(w, S) = w[x] + SumFunctionOnSet(w, S \ {x})
      /\ SumFunctionOnSet(v, S) = v[x] + SumFunctionOnSet(v, S \ {x})
  BY SumOfElement
<1>5. w[x] \in Nat /\ v[x] \in Nat
  OBVIOUS
<1> QED
  BY <1>2, <1>3, <1>4, <1>5

\* The parts of a set have the sum of the set.
LEMMA SumOfParts ==
  ASSUME NEW S, NEW T, IsFiniteSet(S), IsFiniteSet(T), S \cap T = {},
         NEW w, \A x \in S \cup T : w[x] \in Nat
  PROVE  SumFunctionOnSet(w, S \cup T) = SumFunctionOnSet(w, S) + SumFunctionOnSet(w, T)
<1>1. Units(w, S \cup T) = Units(w, S) \cup Units(w, T)
  BY DEF Units
<1>2. Units(w, S) \cap Units(w, T) = {}
  BY DEF Units
<1>3. IsFiniteSet(S \cup T)
  BY FS_Union
<1>4. /\ IsFiniteSet(Units(w, S)) /\ IsFiniteSet(Units(w, T))
      /\ SumFunctionOnSet(w, S) = Cardinality(Units(w, S))
      /\ SumFunctionOnSet(w, T) = Cardinality(Units(w, T))
      /\ SumFunctionOnSet(w, S \cup T) = Cardinality(Units(w, S \cup T))
  BY <1>3, SumIsCount
<1>5. Cardinality(Units(w, S) \cup Units(w, T)) =
        Cardinality(Units(w, S)) + Cardinality(Units(w, T)) - Cardinality({})
  BY <1>2, <1>4, FS_Union
<1>6. /\ Cardinality({}) = 0
      /\ Cardinality(Units(w, S)) \in Nat /\ Cardinality(Units(w, T)) \in Nat
  BY <1>4, FS_EmptySet, FS_CardinalityType
<1>7. \A a, b, c, z : a \in Nat /\ b \in Nat /\ z = 0 /\ c = a + b - z => c = a + b
  OBVIOUS
<1>8. Cardinality(Units(w, S \cup T)) = Cardinality(Units(w, S)) + Cardinality(Units(w, T))
  BY <1>1, <1>5, <1>6, <1>7, Zenon
<1> QED
  BY <1>4, <1>8

\* A part has no more than the whole.
LEMMA SumOfPart ==
  ASSUME NEW S, IsFiniteSet(S), NEW T \in SUBSET S, NEW w, \A x \in S : w[x] \in Nat
  PROVE  SumFunctionOnSet(w, T) <= SumFunctionOnSet(w, S)
<1>1. IsFiniteSet(T)
  BY FS_Subset
<1>2. Units(w, T) \in SUBSET Units(w, S)
  BY DEF Units
<1> QED
  BY <1>1, <1>2, SumIsCount, FS_Subset

----------------------------------------------------------------------------
(* Sequences. *)

\* No element is in the sequence twice.
Distinct(s) == \A i, k \in DOMAIN s : s[i] = s[k] => i = k

\* The places of a sequence are as many as its elements, if no two are equal.
LEMMA DistinctSize ==
  ASSUME NEW A, NEW s \in Seq(A)
  PROVE  /\ IsFiniteSet(ToSet(s)) /\ IsFiniteSet(DOMAIN s)
         /\ Distinct(s) => Cardinality(ToSet(s)) = Len(s)
<1>1. DOMAIN s = 1 .. Len(s) /\ Len(s) \in Nat
  OBVIOUS
<1>2. IsFiniteSet(DOMAIN s) /\ Cardinality(DOMAIN s) = Len(s)
  <2>1. /\ IsFiniteSet(1 .. Len(s))
        /\ Cardinality(1 .. Len(s)) = IF 1 > Len(s) THEN 0 ELSE Len(s) - 1 + 1
    <3>1. 1 \in Int /\ Len(s) \in Int
      BY <1>1
    <3> QED
      BY <3>1, FS_Interval, Zenon
  <2> QED
    BY <1>1, <2>1
<1>3. s \in Surjection(DOMAIN s, ToSet(s))
  BY <1>1 DEF Surjection, ToSet
<1>4. Distinct(s) => s \in Injection(DOMAIN s, ToSet(s))
  BY <1>1 DEF Injection, IsInjective, ToSet, Distinct
<1> QED
  BY <1>2, <1>3, <1>4, FS_Surjection

\* The sum along a sequence of different elements is the sum over them.
LEMMA SumAlong ==
  ASSUME NEW A, NEW s \in Seq(A), Distinct(s), NEW w \in [A -> Nat]
  PROVE  SumFunction([i \in DOMAIN s |-> w[s[i]]]) = SumFunctionOnSet(w, ToSet(s))
<1> DEFINE v == [i \in DOMAIN s |-> w[s[i]]]
           name == [u \in Units(v, DOMAIN s) |-> <<s[u[1]], u[2]>>]
<1>1. \A i \in DOMAIN s : s[i] \in A /\ v[i] \in Nat /\ v[i] = w[s[i]]
  OBVIOUS
<1>2. \A x \in ToSet(s) : x \in A /\ w[x] \in Nat
  BY DEF ToSet
<1>3. \A u : u \in Units(v, DOMAIN s) <=>
               \E i \in DOMAIN s : \E n \in 1 .. v[i] : u = <<i, n>>
  <2> HIDE DEF v
  <2> QED
    BY DEF Units
<1>4. \A u : u \in Units(w, ToSet(s)) <=>
               \E i \in DOMAIN s : \E n \in 1 .. w[s[i]] : u = <<s[i], n>>
  BY DEF Units, ToSet
<1>5. name \in [Units(v, DOMAIN s) -> Units(w, ToSet(s))]
  <2> SUFFICES ASSUME NEW u \in Units(v, DOMAIN s)
               PROVE  <<s[u[1]], u[2]>> \in Units(w, ToSet(s))
    OBVIOUS
  <2>1. PICK i \in DOMAIN s : \E n \in 1 .. v[i] : u = <<i, n>>
    BY <1>3
  <2>2. PICK n \in 1 .. v[i] : u = <<i, n>>
    BY <2>1
  <2>3. n \in 1 .. w[s[i]] /\ u[1] = i /\ u[2] = n
    BY <1>1, <2>2
  <2> QED
    BY <1>4, <2>3
<1>6. ASSUME NEW a \in Units(v, DOMAIN s), NEW b \in Units(v, DOMAIN s), name[a] = name[b]
      PROVE  a = b
  <2>1. PICK i \in DOMAIN s : \E n \in 1 .. v[i] : a = <<i, n>>
    BY <1>3
  <2>2. PICK k \in DOMAIN s : \E n \in 1 .. v[k] : b = <<k, n>>
    BY <1>3
  <2>3. s[a[1]] = s[b[1]] /\ a[2] = b[2]
    BY <1>6
  <2>4. a = <<i, a[2]>> /\ b = <<k, b[2]>> /\ a[1] = i /\ b[1] = k
    BY <2>1, <2>2
  <2> QED
    BY <2>3, <2>4 DEF Distinct
<1>7. \A t \in Units(w, ToSet(s)) : \E u \in Units(v, DOMAIN s) : name[u] = t
  <2> SUFFICES ASSUME NEW t \in Units(w, ToSet(s))
               PROVE  \E u \in Units(v, DOMAIN s) : name[u] = t
    OBVIOUS
  <2>1. PICK i \in DOMAIN s : \E n \in 1 .. w[s[i]] : t = <<s[i], n>>
    BY <1>4
  <2>2. PICK n \in 1 .. w[s[i]] : t = <<s[i], n>>
    BY <2>1
  <2>3. <<i, n>> \in Units(v, DOMAIN s)
    BY <1>1, <1>3, <2>2
  <2> QED
    BY <2>2, <2>3
<1> HIDE DEF v, name
<1>8. ExistsBijection(Units(v, DOMAIN s), Units(w, ToSet(s)))
  BY <1>5, <1>6, <1>7, Fun_IsBij DEF ExistsBijection
<1>9. IsFiniteSet(DOMAIN s) /\ IsFiniteSet(ToSet(s)) /\ DOMAIN v = DOMAIN s
  BY DistinctSize DEF v
<1>10. IsFiniteSet(Units(v, DOMAIN s)) /\ SumFunctionOnSet(v, DOMAIN s) = Cardinality(Units(v, DOMAIN s))
  BY <1>1, <1>9, SumIsCount
<1>11. SumFunctionOnSet(w, ToSet(s)) = Cardinality(Units(w, ToSet(s)))
  BY <1>2, <1>9, SumIsCount
<1>12. Cardinality(Units(v, DOMAIN s)) = Cardinality(Units(w, ToSet(s)))
  BY <1>8, <1>10, FS_Bijection
<1>13. SumFunction(v) = SumFunctionOnSet(w, ToSet(s))
  BY <1>9, <1>10, <1>11, <1>12 DEF SumFunction
<1> QED
  BY <1>13 DEF v

\* A loop that leaves some elements out.
Leaving(s, L) == FoldLeft(LAMBDA kept, j : IF j \in L THEN kept ELSE Append(kept, j), <<>>, s)

\* The recursion of the fold, once some function satisfies it.
Recurs(f, s, L) ==
  \A T \in SUBSET DOMAIN s :
    f[T] = IF T = {} THEN <<>>
           ELSE IF s[Max(T)] \in L THEN f[T \ {Max(T)}]
                ELSE Append(f[T \ {Max(T)}], s[Max(T)])

\* A function that satisfies the recursion shows that the fold does.
LEMMA LeavingUnfolds ==
  ASSUME NEW s, NEW L, NEW V, NEW f \in [SUBSET DOMAIN s -> V], Recurs(f, s, L)
  PROVE  \E g : Recurs(g, s, L) /\ Leaving(s, L) = g[DOMAIN s]
<1>1. f = [T \in SUBSET DOMAIN s |-> IF T = {} THEN <<>>
             ELSE IF s[Max(T)] \in L THEN f[T \ {Max(T)}]
                  ELSE Append(f[T \ {Max(T)}], s[Max(T)])]
  BY DEF Recurs
<1>2. PICK g : /\ g = [T \in SUBSET DOMAIN s |-> IF T = {} THEN <<>>
                         ELSE IF s[Max(T)] \in L THEN g[T \ {Max(T)}]
                              ELSE Append(g[T \ {Max(T)}], s[Max(T)])]
               /\ Leaving(s, L) = g[DOMAIN s]
  BY <1>1, ZenonT(60) DEF Leaving, FoldLeft, MapThenFoldSet
<1>3. Recurs(g, s, L)
  BY <1>2 DEF Recurs
<1> QED
  BY <1>2, <1>3

\* The loop, element by element.
LEMMA LeavingSteps ==
  ASSUME NEW A, NEW s \in Seq(A), NEW L
  PROVE  \E h : /\ h[0] = <<>>
                /\ \A n \in 1 .. Len(s) :
                     h[n] = IF s[n] \in L THEN h[n - 1] ELSE Append(h[n - 1], s[n])
                /\ Leaving(s, L) = h[Len(s)]
<1> DEFINE D == DOMAIN s
           next == [i \in D |-> [kept \in Seq(A) |-> IF s[i] \in L THEN kept ELSE Append(kept, s[i])]]
           pick == [T \in SUBSET D |-> Max(T)]
           none == <<>>
<1>1. D = 1 .. Len(s) /\ Len(s) \in Nat /\ \A i \in D : s[i] \in A
  OBVIOUS
<1>2. ASSUME NEW T \in SUBSET D, T # {} PROVE Max(T) \in T /\ \A m \in T : Max(T) >= m
  <2>1. T \subseteq Nat /\ \A m \in T : m <= Len(s)
    BY <1>1
  <2> QED
    BY <1>1, <1>2, <2>1, GreatestNatural
<1>3. Picks(pick, D)
  BY <1>2 DEF Picks
<1>4. next \in [D -> [Seq(A) -> Seq(A)]] /\ none \in Seq(A)
  BY <1>1
<1>5. IsFiniteSet(D)
  BY DistinctSize
<1>6. PICK f : IsFold(f, D, pick, Seq(A), none, next)
  <2> HIDE DEF D, next, pick, none
  <2> QED
    BY <1>3, <1>4, <1>5, FoldExists
<1>7. f \in [SUBSET D -> Seq(A)]
  BY <1>6 DEF IsFold
<1>8. Recurs(f, s, L)
  <2> SUFFICES ASSUME NEW T \in SUBSET D
               PROVE  f[T] = IF T = {} THEN <<>>
                             ELSE IF s[Max(T)] \in L THEN f[T \ {Max(T)}]
                                  ELSE Append(f[T \ {Max(T)}], s[Max(T)])
    BY DEF Recurs
  <2>1. CASE T = {}
    BY <1>6, <2>1 DEF IsFold
  <2>2. CASE T # {}
    <3>1. Max(T) \in D /\ pick[T] = Max(T) /\ f[T \ {Max(T)}] \in Seq(A)
      BY <1>2, <1>7, <2>2
    <3>2. f[T] = next[Max(T)][f[T \ {Max(T)}]]
      BY <1>6, <2>2, <3>1 DEF IsFold
    <3> QED
      BY <2>2, <3>1, <3>2
  <2> QED
    BY <2>1, <2>2
<1>9. PICK g : Recurs(g, s, L) /\ Leaving(s, L) = g[D]
  BY <1>7, <1>8, LeavingUnfolds
<1> DEFINE h == [n \in Nat |-> g[1 .. n]]
<1>10. h[0] = <<>> /\ Leaving(s, L) = h[Len(s)]
  <2>1. 1 .. 0 = {} /\ {} \in SUBSET D
    OBVIOUS
  <2>2. g[{}] = <<>>
    BY <1>9 DEF Recurs
  <2> QED
    BY <1>1, <1>9, <2>1, <2>2
<1>11. ASSUME NEW n \in 1 .. Len(s)
       PROVE  h[n] = IF s[n] \in L THEN h[n - 1] ELSE Append(h[n - 1], s[n])
  <2> DEFINE T == 1 .. n
  <2>1. T \in SUBSET D /\ T # {} /\ n \in T
    <3>1. n \in Nat /\ 1 <= n /\ n <= Len(s)
      BY <1>1
    <3>2. \A m \in T : m \in 1 .. Len(s)
      BY <1>1, <3>1
    <3> QED
      BY <1>1, <3>1, <3>2
  <2>2. Max(T) \in T /\ Max(T) >= n
    BY <1>2, <2>1
  <2>3. Max(T) = n
    BY <2>2
  <2>4. T \ {Max(T)} = 1 .. (n - 1)
    BY <2>3
  <2>5. g[T] = IF s[Max(T)] \in L THEN g[T \ {Max(T)}]
               ELSE Append(g[T \ {Max(T)}], s[Max(T)])
    <3> HIDE DEF T
    <3> QED
      BY <1>9, <2>1 DEF Recurs
  <2>6. n \in Nat /\ n - 1 \in Nat
    BY <1>1
  <2> HIDE DEF D
  <2> QED
    BY <2>3, <2>4, <2>5, <2>6
<1> QED
  BY <1>10, <1>11

\* What the loop keeps is what is not left out, and no element twice that was
\* there once.
LEMMA LeavingKeeps ==
  ASSUME NEW A, NEW s \in Seq(A), NEW L
  PROVE  /\ Leaving(s, L) \in Seq(A)
         /\ ToSet(Leaving(s, L)) = ToSet(s) \ L
         /\ Distinct(s) => Distinct(Leaving(s, L))
<1>1. Len(s) \in Nat /\ DOMAIN s = 1 .. Len(s) /\ \A i \in 1 .. Len(s) : s[i] \in A
  OBVIOUS
<1>2. PICK h : /\ h[0] = <<>>
               /\ \A n \in 1 .. Len(s) :
                    h[n] = IF s[n] \in L THEN h[n - 1] ELSE Append(h[n - 1], s[n])
               /\ Leaving(s, L) = h[Len(s)]
  BY LeavingSteps
<1> DEFINE Kept(n) == /\ h[n] \in Seq(A)
                      /\ ToSet(h[n]) = {s[i] : i \in 1 .. n} \ L
                      /\ Distinct(s) => Distinct(h[n])
           P == {n \in Nat : n <= Len(s) => Kept(n)}
<1>3. 0 \in P
  <2>1. h[0] \in Seq(A) /\ ToSet(h[0]) = {} /\ Distinct(h[0])
    <3>1. h[0] = <<>>
      BY <1>2
    <3>2. DOMAIN h[0] = {} /\ h[0] \in Seq(A)
      BY <3>1
    <3> QED
      BY <3>2 DEF ToSet, Distinct
  <2>2. {s[i] : i \in 1 .. 0} = {}
    OBVIOUS
  <2> QED
    BY <2>1, <2>2
<1>4. ASSUME NEW m \in Nat, m \in P PROVE m + 1 \in P
  <2> SUFFICES ASSUME m + 1 <= Len(s) PROVE Kept(m + 1)
    OBVIOUS
  <2> DEFINE n == m + 1
             x == s[n]
  <2>1. n \in 1 .. Len(s) /\ n - 1 = m /\ x \in A /\ m <= Len(s)
    BY <1>1
  <2>2. Kept(m)
    BY <1>4, <2>1
  <2>3. {s[i] : i \in 1 .. n} = {s[i] : i \in 1 .. m} \cup {x}
    <3>1. 1 .. n = (1 .. m) \cup {n}
      OBVIOUS
    <3> QED
      BY <3>1
  <2>4. h[n] = IF x \in L THEN h[m] ELSE Append(h[m], x)
    BY <1>2, <2>1
  <2>5. CASE x \in L
    BY <2>2, <2>3, <2>4, <2>5
  <2>6. CASE x \notin L
    <3> DEFINE t == h[m]
    <3>1. t \in Seq(A) /\ h[n] = Append(t, x)
      BY <2>2, <2>4, <2>6
    <3> HIDE DEF t
    <3>2. /\ Append(t, x) \in Seq(A) /\ Len(t) \in Nat
          /\ DOMAIN Append(t, x) = DOMAIN t \cup {Len(t) + 1}
          /\ Append(t, x)[Len(t) + 1] = x
          /\ \A i \in DOMAIN t : Append(t, x)[i] = t[i]
      BY <2>1, <3>1
    <3>3. ToSet(Append(t, x)) = ToSet(t) \cup {x}
      BY <3>2 DEF ToSet
    <3>4. ASSUME Distinct(s) PROVE x \notin ToSet(t)
      <4>1. ToSet(t) = {s[i] : i \in 1 .. m} \ L
        BY <2>2 DEF t
      <4>2. \A i \in 1 .. m : i \in DOMAIN s /\ n \in DOMAIN s /\ i # n
        BY <1>1, <2>1
      <4> QED
        BY <3>4, <4>1, <4>2 DEF Distinct
    <3>5. ASSUME Distinct(s) PROVE Distinct(Append(t, x))
      <4>1. Distinct(t) /\ \A i \in DOMAIN t : t[i] # x
        BY <2>2, <3>4, <3>5 DEF t, ToSet
      <4> QED
        BY <3>2, <4>1 DEF Distinct
    <3>6. ToSet(h[n]) = {s[i] : i \in 1 .. n} \ L
      BY <2>2, <2>3, <2>6, <3>1, <3>3 DEF t
    <3> QED
      BY <3>1, <3>2, <3>5, <3>6
  <2> QED
    BY <2>5, <2>6
<1>5. Nat \subseteq P
  <2> HIDE DEF P
  <2> QED
    BY <1>3, <1>4, NatSetInduction
<1>6. Kept(Len(s))
  <2>1. Len(s) \in P
    BY <1>1, <1>5
  <2>2. Len(s) <= Len(s)
    BY <1>1
  <2> HIDE DEF Kept
  <2> QED
    BY <2>1, <2>2
<1>7. ToSet(s) = {s[i] : i \in 1 .. Len(s)}
  BY <1>1 DEF ToSet
<1> QED
  BY <1>2, <1>6, <1>7

\* What comes to the end of a queue, leaves its front, or is taken out.
LEMMA DistinctAppend ==
  ASSUME NEW A, NEW s \in Seq(A), NEW x \in A
  PROVE  /\ Append(s, x) \in Seq(A)
         /\ ToSet(Append(s, x)) = ToSet(s) \cup {x}
         /\ Distinct(s) /\ x \notin ToSet(s) => Distinct(Append(s, x))
<1>1. /\ Append(s, x) \in Seq(A) /\ Len(s) \in Nat /\ DOMAIN s = 1 .. Len(s)
      /\ DOMAIN Append(s, x) = DOMAIN s \cup {Len(s) + 1}
      /\ Append(s, x)[Len(s) + 1] = x
      /\ \A i \in DOMAIN s : Append(s, x)[i] = s[i]
  OBVIOUS
<1>2. ToSet(Append(s, x)) = ToSet(s) \cup {x}
  BY <1>1 DEF ToSet
<1>3. ASSUME Distinct(s), x \notin ToSet(s) PROVE Distinct(Append(s, x))
  <2>1. \A i \in DOMAIN s : s[i] # x
    BY <1>3 DEF ToSet
  <2> QED
    BY <1>1, <1>3, <2>1 DEF Distinct
<1> QED
  BY <1>1, <1>2, <1>3

\* The part of a sequence after its first n elements.
LEMMA BackPart ==
  ASSUME NEW A, NEW s \in Seq(A), NEW n \in 0 .. Len(s)
  PROVE  /\ SubSeq(s, n + 1, Len(s)) \in Seq(A)
         /\ Len(SubSeq(s, n + 1, Len(s))) = Len(s) - n
         /\ \A i \in 1 .. Len(s) - n : SubSeq(s, n + 1, Len(s))[i] = s[n + i]
<1> DEFINE back == SubSeq(s, n + 1, Len(s))
<1>1. Len(s) \in Nat /\ n \in Nat /\ n <= Len(s) /\ n + 1 \in Int /\ Len(s) \in Int
  OBVIOUS
<1>2. \A i \in n + 1 .. Len(s) : s[i] \in A
  BY <1>1
<1>3. /\ back \in Seq(A)
      /\ Len(back) = IF n + 1 <= Len(s) THEN Len(s) - (n + 1) + 1 ELSE 0
      /\ \A i \in 1 .. Len(s) - (n + 1) + 1 : back[i] = s[(n + 1) + i - 1]
  BY <1>1, <1>2, SubSeqProperties
<1> HIDE DEF back
<1>4. Len(back) = Len(s) - n
  BY <1>1, <1>3
<1>5. \A i \in 1 .. Len(s) - n : i \in 1 .. Len(s) - (n + 1) + 1 /\ (n + 1) + i - 1 = n + i
  BY <1>1
<1>6. \A i \in 1 .. Len(s) - n : back[i] = s[n + i]
  BY <1>3, <1>5, Zenon
<1>7. back = SubSeq(s, n + 1, Len(s))
  BY DEF back
<1> QED
  BY <1>3, <1>4, <1>6, <1>7

\* Both parts of a split have their own elements.
LEMMA DistinctSplit ==
  ASSUME NEW A, NEW s \in Seq(A), NEW n \in 0 .. Len(s)
  PROVE  LET front == SubSeq(s, 1, n)
             back  == SubSeq(s, n + 1, Len(s))
         IN  /\ front \in Seq(A) /\ Len(front) = n
             /\ back \in Seq(A) /\ Len(back) = Len(s) - n
             /\ ToSet(front) \cup ToSet(back) = ToSet(s)
             /\ Distinct(s) => /\ Distinct(front) /\ Distinct(back)
                               /\ ToSet(front) \cap ToSet(back) = {}
<1> DEFINE front == SubSeq(s, 1, n)
           back  == SubSeq(s, n + 1, Len(s))
<1>1. Len(s) \in Nat /\ n \in Nat /\ n <= Len(s) /\ DOMAIN s = 1 .. Len(s)
      /\ \A i \in 1 .. Len(s) : s[i] \in A
  OBVIOUS
<1>2. /\ front \in Seq(A) /\ Len(front) = n
      /\ \A i \in 1 .. n : front[i] = s[i]
  <2>1. \A i \in 1 .. n : s[i] \in A
    BY <1>1
  <2>2. /\ SubSeq(s, 1, n) \in Seq(A)
        /\ Len(SubSeq(s, 1, n)) = IF 1 <= n THEN n - 1 + 1 ELSE 0
        /\ \A i \in 1 .. n - 1 + 1 : SubSeq(s, 1, n)[i] = s[1 + i - 1]
    BY <1>1, <2>1, SubSeqProperties
  <2> QED
    BY <1>1, <2>2
<1>3. /\ back \in Seq(A) /\ Len(back) = Len(s) - n
      /\ \A i \in 1 .. Len(s) - n : back[i] = s[n + i]
  BY BackPart
<1> HIDE DEF front, back
<1>4. DOMAIN front = 1 .. n /\ DOMAIN back = 1 .. Len(s) - n
  BY <1>2, <1>3
<1>5. ToSet(front) = {s[i] : i \in 1 .. n}
  BY <1>2, <1>4 DEF ToSet
<1>6. ToSet(back) = {s[i] : i \in n + 1 .. Len(s)}
  <2>1. \A i \in 1 .. Len(s) - n : n + i \in n + 1 .. Len(s) /\ back[i] = s[n + i]
    BY <1>1, <1>3
  <2>2. \A k \in n + 1 .. Len(s) : k - n \in 1 .. Len(s) - n /\ back[k - n] = s[k]
    <3>1. \A k \in n + 1 .. Len(s) : k - n \in 1 .. Len(s) - n /\ n + (k - n) = k
      BY <1>1
    <3> QED
      BY <1>3, <3>1, Zenon
  <2>3. ToSet(back) = {back[i] : i \in 1 .. Len(s) - n}
    BY <1>4 DEF ToSet
  <2> QED
    BY <2>1, <2>2, <2>3
<1>7. ToSet(s) = {s[i] : i \in 1 .. Len(s)}
  BY <1>1 DEF ToSet
<1>8. 1 .. Len(s) = (1 .. n) \cup (n + 1 .. Len(s)) /\ (1 .. n) \cap (n + 1 .. Len(s)) = {}
  BY <1>1
<1>9. ToSet(front) \cup ToSet(back) = ToSet(s)
  BY <1>5, <1>6, <1>7, <1>8
<1>10. ASSUME Distinct(s)
       PROVE  /\ Distinct(front) /\ Distinct(back)
              /\ ToSet(front) \cap ToSet(back) = {}
  <2>1. Distinct(front)
    BY <1>1, <1>2, <1>4, <1>8, <1>10 DEF Distinct
  <2>2. Distinct(back)
    <3> SUFFICES ASSUME NEW i \in 1 .. Len(s) - n, NEW k \in 1 .. Len(s) - n, back[i] = back[k]
                 PROVE  i = k
      BY <1>4 DEF Distinct
    <3>1. n + i \in DOMAIN s /\ n + k \in DOMAIN s /\ s[n + i] = s[n + k]
      BY <1>1, <1>3
    <3>2. n + i = n + k
      BY <1>10, <3>1 DEF Distinct
    <3> QED
      BY <1>1, <3>2
  <2>3. ToSet(front) \cap ToSet(back) = {}
    BY <1>1, <1>5, <1>6, <1>8, <1>10 DEF Distinct
  <2> QED
    BY <2>1, <2>2, <2>3
<1> QED
  BY <1>2, <1>3, <1>9, <1>10 DEF front, back

\* The tail has every element but the first.
LEMMA DistinctTail ==
  ASSUME NEW A, NEW s \in Seq(A), s # <<>>
  PROVE  /\ Head(s) \in ToSet(s) /\ Head(s) \in A
         /\ Tail(s) \in Seq(A) /\ Len(Tail(s)) = Len(s) - 1
         /\ Distinct(s) => ToSet(Tail(s)) = ToSet(s) \ {Head(s)} /\ Distinct(Tail(s))
<1>1. Len(s) \in Nat \ {0} /\ DOMAIN s = 1 .. Len(s) /\ Head(s) = s[1] /\ s[1] \in A
  OBVIOUS
<1>2. /\ Tail(s) \in Seq(A) /\ Len(Tail(s)) = Len(s) - 1
      /\ DOMAIN Tail(s) = 1 .. Len(s) - 1
      /\ \A i \in 1 .. Len(s) - 1 : Tail(s)[i] = s[i + 1]
  BY <1>1
<1>3. Head(s) \in ToSet(s)
  BY <1>1 DEF ToSet
<1>4. ASSUME Distinct(s)
      PROVE  ToSet(Tail(s)) = ToSet(s) \ {Head(s)} /\ Distinct(Tail(s))
  <2>1. \A i \in 1 .. Len(s) - 1 : i + 1 \in DOMAIN s /\ i + 1 # 1 /\ Tail(s)[i] = s[i + 1]
    BY <1>1, <1>2
  <2>2. \A k \in DOMAIN s : k # 1 => k - 1 \in 1 .. Len(s) - 1 /\ Tail(s)[k - 1] = s[k]
    BY <1>1, <1>2
  <2>3. \A k \in DOMAIN s : s[k] = s[1] => k = 1
    BY <1>1, <1>4 DEF Distinct
  <2>4. ToSet(Tail(s)) = ToSet(s) \ {Head(s)}
    <3> DEFINE t == Tail(s)
    <3>1. DOMAIN t = 1 .. Len(s) - 1
      BY <1>2
    <3>2. \A i \in DOMAIN t : \E k \in DOMAIN s : k # 1 /\ t[i] = s[k]
      BY <2>1, <3>1
    <3>3. \A k \in DOMAIN s : k # 1 => \E i \in DOMAIN t : t[i] = s[k]
      BY <2>2, <3>1
    <3> HIDE DEF t
    <3>4. ToSet(t) = ToSet(s) \ {s[1]}
      BY <1>1, <2>3, <3>2, <3>3 DEF ToSet
    <3> QED
      BY <1>1, <3>4 DEF t
  <2>5. Distinct(Tail(s))
    <3> SUFFICES ASSUME NEW i \in 1 .. Len(s) - 1, NEW k \in 1 .. Len(s) - 1,
                        Tail(s)[i] = Tail(s)[k]
                 PROVE  i = k
      BY <1>2 DEF Distinct
    <3>1. i + 1 = k + 1
      BY <1>4, <2>1 DEF Distinct
    <3> QED
      BY <1>1, <3>1
  <2> QED
    BY <2>4, <2>5
<1> QED
  BY <1>1, <1>2, <1>3, <1>4

\* Removing a place removes its element.
LEMMA DistinctRemoveAt ==
  ASSUME NEW A, NEW s \in Seq(A), Distinct(s), NEW i \in DOMAIN s
  PROVE  /\ RemoveAt(s, i) \in Seq(A) /\ Len(RemoveAt(s, i)) = Len(s) - 1
         /\ ToSet(RemoveAt(s, i)) = ToSet(s) \ {s[i]}
         /\ Distinct(RemoveAt(s, i))
<1>1. Len(s) \in Nat /\ DOMAIN s = 1 .. Len(s) /\ i \in Nat /\ 1 <= i /\ i <= Len(s)
      /\ \A k \in 1 .. Len(s) : s[k] \in A
  OBVIOUS
<1> DEFINE front == SubSeq(s, 1, i - 1)
           back  == SubSeq(s, i + 1, Len(s))
           r == RemoveAt(s, i)
<1>2. front \in Seq(A) /\ Len(front) = i - 1 /\ \A k \in 1 .. i - 1 : front[k] = s[k]
  <2>1. \A k \in 1 .. i - 1 : s[k] \in A
    BY <1>1
  <2>2. 1 \in Int /\ i - 1 \in Int
    BY <1>1
  <2>3. /\ SubSeq(s, 1, i - 1) \in Seq(A)
        /\ Len(SubSeq(s, 1, i - 1)) = IF 1 <= i - 1 THEN (i - 1) - 1 + 1 ELSE 0
        /\ \A k \in 1 .. (i - 1) - 1 + 1 : SubSeq(s, 1, i - 1)[k] = s[1 + k - 1]
    BY <2>1, <2>2, SubSeqProperties
  <2> QED
    BY <1>1, <2>3
<1>3. back \in Seq(A) /\ Len(back) = Len(s) - i /\ \A k \in 1 .. Len(s) - i : back[k] = s[i + k]
  <2>1. i \in 0 .. Len(s)
    BY <1>1
  <2> QED
    BY <2>1, BackPart
<1>4. r = front \o back
  BY DEF RemoveAt
<1> HIDE DEF front, back, r
<1>5. /\ r \in Seq(A) /\ Len(r) = Len(s) - 1 /\ DOMAIN r = 1 .. Len(s) - 1
      /\ \A k \in 1 .. Len(s) - 1 : r[k] = IF k < i THEN s[k] ELSE s[k + 1]
  <2>1. r \in Seq(A) /\ Len(r) = Len(front) + Len(back)
    BY <1>2, <1>3, <1>4, ConcatProperties
  <2>2. \A k \in 1 .. Len(front) + Len(back) :
          r[k] = IF k <= Len(front) THEN front[k] ELSE back[k - Len(front)]
    BY <1>2, <1>3, <1>4, ConcatProperties
  <2>3. Len(front) + Len(back) = Len(s) - 1
    BY <1>1, <1>2, <1>3
  <2>4. ASSUME NEW k \in 1 .. Len(s) - 1 PROVE r[k] = IF k < i THEN s[k] ELSE s[k + 1]
    <3>1. CASE k < i
      <4>1. k \in 1 .. i - 1 /\ k <= Len(front)
        BY <1>1, <1>2, <3>1
      <4> QED
        BY <1>2, <2>2, <2>3, <3>1, <4>1
    <3>2. CASE ~ (k < i)
      <4>1. ~ (k <= Len(front)) /\ k - (i - 1) \in 1 .. Len(s) - i /\ i + (k - (i - 1)) = k + 1
        BY <1>1, <1>2, <3>2
      <4>2. r[k] = back[k - (i - 1)]
        BY <1>2, <2>2, <2>3, <4>1
      <4> QED
        BY <1>3, <3>2, <4>1, <4>2
    <3> QED
      BY <3>1, <3>2
  <2> QED
    BY <2>1, <2>3, <2>4
<1>6. ASSUME NEW k \in 1 .. Len(s) - 1
      PROVE  \E m \in DOMAIN s : m # i /\ r[k] = s[m] /\ m = IF k < i THEN k ELSE k + 1
  BY <1>1, <1>5
<1>7. ASSUME NEW m \in DOMAIN s, m # i PROVE \E k \in 1 .. Len(s) - 1 : r[k] = s[m]
  <2>1. CASE m < i
    <3>1. m \in 1 .. Len(s) - 1
      BY <1>1, <2>1
    <3> QED
      BY <1>5, <2>1, <3>1
  <2>2. CASE m > i
    <3>1. m - 1 \in 1 .. Len(s) - 1 /\ ~ (m - 1 < i) /\ (m - 1) + 1 = m
      BY <1>1, <2>2
    <3>2. r[m - 1] = s[(m - 1) + 1]
      BY <1>5, <3>1
    <3> QED
      BY <3>1, <3>2
  <2> QED
    BY <1>1, <1>7, <2>1, <2>2
<1>8. ToSet(r) = ToSet(s) \ {s[i]}
  BY <1>5, <1>6, <1>7 DEF ToSet, Distinct
<1>9. Distinct(r)
  <2> SUFFICES ASSUME NEW j \in 1 .. Len(s) - 1, NEW k \in 1 .. Len(s) - 1, r[j] = r[k]
               PROVE  j = k
    BY <1>5 DEF Distinct
  <2>1. PICK m \in DOMAIN s : r[j] = s[m] /\ m = IF j < i THEN j ELSE j + 1
    BY <1>6
  <2>2. PICK l \in DOMAIN s : r[k] = s[l] /\ l = IF k < i THEN k ELSE k + 1
    BY <1>6
  <2>3. m = l
    BY <2>1, <2>2 DEF Distinct
  <2> QED
    BY <1>1, <2>1, <2>2, <2>3
<1> QED
  BY <1>5, <1>8, <1>9 DEF r

----------------------------------------------------------------------------
(* Loops that leave some out. *)

\* A loop that leaves some out keeps the order of the others.
LEMMA LeavingOrder ==
  ASSUME NEW A, NEW s \in Seq(A), NEW L
  PROVE  \A a, b \in DOMAIN Leaving(s, L) :
           a < b => \E p, q \in DOMAIN s : p < q /\ s[p] = Leaving(s, L)[a] /\ s[q] = Leaving(s, L)[b]
<1>1. Len(s) \in Nat /\ DOMAIN s = 1 .. Len(s) /\ \A i \in 1 .. Len(s) : s[i] \in A
  OBVIOUS
<1>2. PICK h : /\ h[0] = <<>>
               /\ \A n \in 1 .. Len(s) :
                    h[n] = IF s[n] \in L THEN h[n - 1] ELSE Append(h[n - 1], s[n])
               /\ Leaving(s, L) = h[Len(s)]
  BY LeavingSteps
<1> DEFINE From(t, n) == /\ t \in Seq(A)
                         /\ \A a \in DOMAIN t : \E p \in 1 .. n : s[p] = t[a]
                         /\ \A a, b \in DOMAIN t : a < b => \E p, q \in 1 .. n : p < q /\ s[p] = t[a] /\ s[q] = t[b]
           P == {n \in Nat : n <= Len(s) => From(h[n], n)}
<1>3. 0 \in P
  <2>1. h[0] \in Seq(A) /\ DOMAIN h[0] = {}
    <3>1. h[0] = <<>>
      BY <1>2
    <3> QED
      BY <3>1
  <2> QED
    BY <2>1
<1>4. ASSUME NEW m \in Nat, m \in P PROVE m + 1 \in P
  <2> SUFFICES ASSUME m + 1 <= Len(s) PROVE From(h[m + 1], m + 1)
    OBVIOUS
  <2> DEFINE n == m + 1
             t == h[m]
             u == h[n]
             x == s[n]
  <2>1. n \in 1 .. Len(s) /\ n - 1 = m /\ m <= Len(s) /\ x \in A /\ n \in 1 .. n
    BY <1>1
  <2>2. From(t, m)
    BY <1>4, <2>1
  <2>3. u = IF x \in L THEN t ELSE Append(t, x)
    BY <1>2, <2>1
  <2>4. \A p \in 1 .. m : p \in 1 .. n /\ p < n
    OBVIOUS
  <2> HIDE DEF u, t, x, n
  <2>5. From(t, n)
    BY <2>2, <2>4
  <2>6. CASE x \in L
    BY <2>3, <2>5, <2>6 DEF u, n
  <2>7. CASE x \notin L
    <3>1. u = Append(t, x) /\ t \in Seq(A)
      BY <2>2, <2>3, <2>7
    <3>2. /\ DOMAIN t = 1 .. Len(t) /\ Len(t) \in Nat
          /\ DOMAIN u = 1 .. (Len(t) + 1) /\ u[Len(t) + 1] = x
          /\ \A a \in DOMAIN t : u[a] = t[a]
      BY <3>1
    <3>3. u \in Seq(A)
      BY <2>1, <3>1
    <3>4. \A a \in DOMAIN u : a \in DOMAIN t \/ a = Len(t) + 1
      BY <3>2
    <3>5. ASSUME NEW a \in DOMAIN u PROVE \E p \in 1 .. n : s[p] = u[a]
      <4>1. CASE a \in DOMAIN t
        BY <2>5, <3>2, <4>1
      <4>2. CASE a = Len(t) + 1
        BY <2>1, <3>2, <4>2 DEF x
      <4> QED
        BY <3>4, <4>1, <4>2
    <3>6. ASSUME NEW a \in DOMAIN u, NEW b \in DOMAIN u, a < b
          PROVE  \E p, q \in 1 .. n : p < q /\ s[p] = u[a] /\ s[q] = u[b]
      <4>1. CASE b \in DOMAIN t
        <5>1. a \in DOMAIN t
          BY <3>2, <3>6, <4>1
        <5>2. u[a] = t[a] /\ u[b] = t[b]
          BY <3>2, <4>1, <5>1
        <5> QED
          BY <2>5, <3>6, <4>1, <5>1, <5>2
      <4>2. CASE b = Len(t) + 1
        <5>1. a \in DOMAIN t
          BY <3>2, <3>6, <4>2
        <5>2. PICK p \in 1 .. m : s[p] = t[a]
          BY <2>2, <5>1
        <5>3. p \in 1 .. n /\ p < n /\ n \in 1 .. n /\ s[n] = u[b] /\ s[p] = u[a]
          BY <2>1, <2>4, <3>2, <4>2, <5>1, <5>2 DEF x
        <5> QED
          BY <5>3
      <4> QED
        BY <3>4, <4>1, <4>2
    <3>7. From(u, n)
      BY <3>3, <3>5, <3>6
    <3> QED
      BY <3>7 DEF u, n
  <2> QED
    BY <2>6, <2>7
<1>5. Len(s) \in P
  <2> HIDE DEF P
  <2>1. Nat \subseteq P
    BY <1>3, <1>4, NatSetInduction
  <2> QED
    BY <1>1, <2>1
<1>6. From(Leaving(s, L), Len(s))
  BY <1>1, <1>2, <1>5
<1> SUFFICES ASSUME NEW a \in DOMAIN Leaving(s, L), NEW b \in DOMAIN Leaving(s, L), a < b
             PROVE  \E p, q \in 1 .. Len(s) : p < q /\ s[p] = Leaving(s, L)[a] /\ s[q] = Leaving(s, L)[b]
  BY <1>1
<1> QED
  BY <1>6

\* A sequence is one of its own elements.
LEMMA SeqOfItsOwn == ASSUME NEW A, NEW s \in Seq(A) PROVE s \in Seq(ToSet(s))
<1>1. DOMAIN s = 1 .. Len(s) /\ Len(s) \in Nat /\ \A i \in 1 .. Len(s) : s[i] \in ToSet(s)
  BY DEF ToSet
<1> QED
  BY <1>1

----------------------------------------------------------------------------
(* Loops over sequences, step by step. *)

\* The greatest place of a set of places of a sequence is one of them.
LEMMA LastPlace ==
  ASSUME NEW len \in Nat, NEW T \in SUBSET (1 .. len), T # {}
  PROVE  Max(T) \in T /\ \A m \in T : Max(T) >= m
<1>1. T \subseteq Nat /\ \A m \in T : m <= len
  OBVIOUS
<1> QED
  BY <1>1, GreatestNatural

\* The first n places of a sequence, the last of which is n.
LEMMA FirstPlaces ==
  ASSUME NEW len \in Nat, NEW n \in 1 .. len
  PROVE  /\ 1 .. n \in SUBSET (1 .. len) /\ 1 .. n # {}
         /\ Max(1 .. n) = n /\ (1 .. n) \ {n} = 1 .. n - 1
<1> DEFINE T == 1 .. n
<1>1. T \in SUBSET (1 .. len) /\ T # {} /\ n \in T
  OBVIOUS
<1>2. Max(T) \in T /\ Max(T) >= n
  <2> HIDE DEF T
  <2> QED
    BY <1>1, LastPlace
<1>3. Max(T) = n
  BY <1>2
<1> QED
  BY <1>1, <1>3

\* What a loop over a sequence computes, as a recursion over the sets of its places.
IsLoop(f, len, V, base, step) ==
  /\ f \in [SUBSET (1 .. len) -> V]
  /\ \A T \in SUBSET (1 .. len) :
       f[T] = IF T = {} THEN base ELSE step[Max(T)][f[T \ {Max(T)}]]

\* A loop is well defined.
LEMMA LoopExists ==
  ASSUME NEW len \in Nat, NEW V, NEW base \in V, NEW step \in [1 .. len -> [V -> V]]
  PROVE  \E f : IsLoop(f, len, V, base, step)
<1> DEFINE D == 1 .. len
           pick == [T \in SUBSET D |-> Max(T)]
<1>1. IsFiniteSet(D)
  <2>1. 1 \in Int /\ len \in Int
    OBVIOUS
  <2> QED
    BY <2>1, FS_Interval
<1>2. Picks(pick, D)
  BY LastPlace DEF Picks
<1>3. PICK f : IsFold(f, D, pick, V, base, step)
  <2>1. step \in [D -> [V -> V]]
    OBVIOUS
  <2> HIDE DEF D, pick
  <2> QED
    BY <1>1, <1>2, <2>1, FoldExists
<1>4. ASSUME NEW T \in SUBSET D
      PROVE  f[T] = IF T = {} THEN base ELSE step[Max(T)][f[T \ {Max(T)}]]
  BY <1>3 DEF IsFold
<1> QED
  BY <1>3, <1>4 DEF IsFold, IsLoop

\* Induction along a sequence.
LEMMA PrefixInduction ==
  ASSUME NEW len \in Nat, NEW P, 0 \in P, \A n \in 1 .. len : n - 1 \in P => n \in P
  PROVE  len \in P
<1> DEFINE Q == {n \in Nat : n <= len => n \in P}
<1>1. 0 \in Q
  OBVIOUS
<1>2. ASSUME NEW n \in Nat, n \in Q PROVE n + 1 \in Q
  <2>1. n + 1 <= len => n \in P /\ n + 1 \in 1 .. len /\ (n + 1) - 1 = n
    BY <1>2
  <2> QED
    BY <2>1
<1>3. Nat \subseteq Q
  <2> HIDE DEF Q
  <2> QED
    BY <1>1, <1>2, NatSetInduction
<1> QED
  BY <1>3

\* The same for every number up to that one.
LEMMA UpTo ==
  ASSUME NEW len \in Nat, NEW P, 0 \in P, \A n \in 1 .. len : n - 1 \in P => n \in P
  PROVE  \A n \in 0 .. len : n \in P
<1> DEFINE Q == {n \in Nat : n <= len => n \in P}
<1>1. 0 \in Q
  OBVIOUS
<1>2. ASSUME NEW m \in Nat, m \in Q PROVE m + 1 \in Q
  <2> SUFFICES ASSUME m + 1 <= len PROVE m + 1 \in P
    OBVIOUS
  <2>1. m + 1 \in 1 .. len /\ (m + 1) - 1 = m /\ m \in P
    BY <1>2
  <2> QED
    BY <2>1
<1> HIDE DEF Q
<1>3. Nat \subseteq Q
  BY <1>1, <1>2, NatSetInduction
<1> QED
  BY <1>3 DEF Q

\* A recursion over sets of places, and what it makes of each first part of
\* a sequence.
Recursing(g, len, V, base, next) ==
  /\ g[{}] = base
  /\ \A T \in SUBSET (1 .. len) :
       T # {} /\ g[T \ {Max(T)}] \in V => g[T] = next[Max(T)][g[T \ {Max(T)}]]

IsTaken(h, len, V, base, next) ==
  /\ h[0] = base
  /\ \A n \in 1 .. len : h[n - 1] \in V /\ h[n] \in V /\ h[n] = next[n][h[n - 1]]

\* A recursion over sets of places can be taken along the sequence.
LEMMA TakenAlong ==
  ASSUME NEW len \in Nat, NEW V, NEW base \in V, NEW next \in [1 .. len -> [V -> V]],
         NEW g, Recursing(g, len, V, base, next)
  PROVE  \E h : IsTaken(h, len, V, base, next) /\ h[len] = g[1 .. len]
<1> DEFINE h == [n \in Nat |-> g[1 .. n]]
           P == {n \in Nat : h[n] \in V}
<1>1. h[0] = base /\ h[len] = g[1 .. len]
  <2>1. 1 .. 0 = {}
    OBVIOUS
  <2> QED
    BY <2>1 DEF Recursing
<1>2. ASSUME NEW n \in 1 .. len, h[n - 1] \in V PROVE h[n] = next[n][h[n - 1]] /\ h[n] \in V
  <2> DEFINE T == 1 .. n
  <2>1. T \in SUBSET (1 .. len) /\ T # {} /\ Max(T) = n /\ T \ {n} = 1 .. n - 1
    BY FirstPlaces
  <2>2. h[n - 1] = g[1 .. n - 1] /\ h[n] = g[T]
    OBVIOUS
  <2> HIDE DEF T, h
  <2>3. h[n] = next[n][h[n - 1]]
    BY <1>2, <2>1, <2>2 DEF Recursing
  <2> QED
    BY <1>2, <2>3
<1>3. 0 \in P
  BY <1>1
<1>4. ASSUME NEW n \in 1 .. len, n - 1 \in P PROVE n \in P
  <2>1. n \in Nat /\ h[n - 1] \in V
    BY <1>4
  <2> HIDE DEF h
  <2> QED
    BY <1>2, <2>1
<1> HIDE DEF h
<1>5. \A n \in 0 .. len : n \in P
  <2> HIDE DEF P
  <2> QED
    BY <1>3, <1>4, UpTo
<1>6. \A n \in 1 .. len : n - 1 \in 0 .. len
  OBVIOUS
<1>7. \A n \in 1 .. len : h[n - 1] \in V /\ h[n] \in V /\ h[n] = next[n][h[n - 1]]
  BY <1>2, <1>5, <1>6 DEF P
<1>8. IsTaken(h, len, V, base, next)
  BY <1>1, <1>7 DEF IsTaken
<1> QED
  BY <1>1, <1>8

----------------------------------------------------------------------------
(* Orders. *)

\* R orders the elements of S, all of them, perhaps with ties.
Orders(R, S) == /\ \A x, y \in S : <<x, y>> \in R \/ <<y, x>> \in R
                /\ \A x, y, z \in S : <<x, y>> \in R /\ <<y, z>> \in R => <<x, z>> \in R

\* A finite set has a first element.
LEMMA FirstExists ==
  ASSUME NEW S, IsFiniteSet(S), S # {}, NEW R, Orders(R, S)
  PROVE  \E x \in S : \A y \in S : <<x, y>> \in R
<1> DEFINE P == {T \in SUBSET S : T # {} => \E x \in T : \A y \in T : <<x, y>> \in R}
<1>1. {} \in P
  OBVIOUS
<1>2. ASSUME NEW T \in SUBSET S, T # {} PROVE \E x \in T : T \ {x} \in P => T \in P
  <2>1. PICK x \in T : TRUE
    BY <1>2
  <2> SUFFICES ASSUME T \ {x} \in P PROVE T \in P
    BY <2>1
  <2>2. <<x, x>> \in R
    BY DEF Orders
  <2>3. CASE T \ {x} = {}
    BY <2>2, <2>3
  <2>4. CASE T \ {x} # {}
    <3>1. PICK z \in T \ {x} : \A y \in T \ {x} : <<z, y>> \in R
      BY <2>4
    <3>2. CASE <<x, z>> \in R
      <4>1. \A y \in T : <<x, y>> \in R
        BY <2>2, <3>1, <3>2 DEF Orders
      <4> QED
        BY <2>1, <4>1
    <3>3. CASE <<z, x>> \in R
      <4>1. \A y \in T : <<z, y>> \in R
        BY <3>1, <3>3
      <4> QED
        BY <3>1, <4>1
    <3> QED
      BY <2>1, <3>1, <3>2, <3>3 DEF Orders
  <2> QED
    BY <2>3, <2>4
<1>3. SUBSET S \subseteq P
  <2> HIDE DEF P
  <2> QED
    BY <1>1, <1>2, SubsetInduction
<1> QED
  BY <1>3

\* A finite set has an enumeration in the order.
LEMMA EnumerationExists ==
  ASSUME NEW S, IsFiniteSet(S), NEW R, Orders(R, S)
  PROVE  \E s \in [1 .. Cardinality(S) -> S] :
           \A m, n \in 1 .. Cardinality(S) : m < n => s[m] # s[n] /\ <<s[m], s[n]>> \in R
<1> DEFINE Enumerates(s, T) ==
             /\ s \in [1 .. Cardinality(T) -> T]
             /\ \A m, n \in 1 .. Cardinality(T) : m < n => s[m] # s[n] /\ <<s[m], s[n]>> \in R
           P == {T \in SUBSET S : \E s : Enumerates(s, T)}
<1>1. {} \in P
  <2>1. Cardinality({}) = 0 /\ 1 .. 0 = {}
    BY FS_EmptySet
  <2>2. Enumerates([n \in {} |-> n], {})
    BY <2>1
  <2> QED
    BY <2>2
<1>2. ASSUME NEW T \in SUBSET S, T # {} PROVE \E x \in T : T \ {x} \in P => T \in P
  <2> DEFINE Back == {p \in T \X T : <<p[2], p[1]>> \in R}
  <2>1. Orders(Back, T)
    BY DEF Orders
  <2>2. IsFiniteSet(T)
    BY FS_Subset
  <2>3. PICK x \in T : \A y \in T : <<x, y>> \in Back
    <3> HIDE DEF Back
    <3> QED
      BY <1>2, <2>1, <2>2, FirstExists
  <2>4. \A y \in T : <<y, x>> \in R
    BY <2>3
  <2> DEFINE rest == T \ {x}
             n == Cardinality(rest)
  <2> SUFFICES ASSUME rest \in P PROVE T \in P
    BY <2>3
  <2>5. PICK s : Enumerates(s, rest)
    OBVIOUS
  <2>6. n \in Nat /\ Cardinality(T) = n + 1
    <3>1. IsFiniteSet(rest) /\ x \notin rest /\ rest \cup {x} = T
      BY <2>2, <2>3, FS_Subset
    <3>2. Cardinality(rest \cup {x}) = Cardinality(rest) + 1
      BY <3>1, FS_AddElement
    <3> QED
      BY <3>1, <3>2, FS_CardinalityType
  <2>7. /\ s \in [1 .. n -> rest]
        /\ \A l, m \in 1 .. n : l < m => s[l] # s[m] /\ <<s[l], s[m]>> \in R
    BY <2>5
  <2> HIDE DEF n
  <2> DEFINE t == [m \in 1 .. n + 1 |-> IF m = n + 1 THEN x ELSE s[m]]
  <2>8. \A m \in 1 .. n + 1 : m # n + 1 => m \in 1 .. n
    BY <2>6
  <2>9. t \in [1 .. n + 1 -> T]
    BY <2>3, <2>7, <2>8
  <2>10. ASSUME NEW l \in 1 .. n + 1, NEW m \in 1 .. n + 1, l < m
         PROVE  t[l] # t[m] /\ <<t[l], t[m]>> \in R
    <3>1. l \in 1 .. n
      BY <2>6, <2>10
    <3>2. t[l] = s[l] /\ s[l] \in rest
      BY <2>6, <2>7, <3>1
    <3>3. CASE m = n + 1
      BY <2>4, <3>2, <3>3
    <3>4. CASE m # n + 1
      BY <2>7, <2>8, <2>10, <3>1, <3>2, <3>4
    <3> QED
      BY <3>3, <3>4
  <2>11. Enumerates(t, T)
    <3> HIDE DEF t
    <3> QED
      BY <2>6, <2>9, <2>10
  <2> QED
    BY <2>11
<1>3. SUBSET S \subseteq P
  <2> HIDE DEF P
  <2> QED
    BY <1>1, <1>2, SubsetInduction
<1>4. S \in P
  BY <1>3
<1> QED
  BY <1>4

\* The extremes of two numbers.
LEMMA ExtremesOfTwo ==
  ASSUME NEW a \in Int, NEW b \in Int
  PROVE  /\ Max({a, b}) = IF a >= b THEN a ELSE b
         /\ Min({a, b}) = IF a <= b THEN a ELSE b
<1>1. \A x \in {a, b} : (\A y \in {a, b} : x >= y) <=> x = IF a >= b THEN a ELSE b
  OBVIOUS
<1>2. \A x \in {a, b} : (\A y \in {a, b} : x <= y) <=> x = IF a <= b THEN a ELSE b
  OBVIOUS
<1>3. Max({a, b}) = IF a >= b THEN a ELSE b
  BY <1>1 DEF Max
<1>4. Min({a, b}) = IF a <= b THEN a ELSE b
  BY <1>2 DEF Min
<1> QED
  BY <1>3, <1>4

----------------------------------------------------------------------------
(* Recursions that need not go back by one, and what they put together. *)

\* A recursion that goes from each x to next[x], until it stops.
IsChase(f, D, stop, next, V, base, step) ==
  /\ f \in [D -> V]
  /\ \A x \in D : f[x] = IF x \in stop THEN base[x] ELSE step[x][f[next[x]]]

\* It is well defined if what is left to do gets less each time.
LEMMA ChaseExists ==
  ASSUME NEW D, NEW N \in Nat, NEW size \in [D -> 0 .. N], NEW stop \in SUBSET D,
         NEW next \in [D \ stop -> D], \A x \in D \ stop : size[next[x]] < size[x],
         NEW V, NEW base \in [stop -> V], NEW step \in [D \ stop -> [V -> V]]
  PROVE  \E f : IsChase(f, D, stop, next, V, base, step)
<1> DEFINE Upto(n) == {x \in D : size[x] <= n}
           Result(f, x) == IF x \in stop THEN base[x] ELSE step[x][f[next[x]]]
           Chases(n, f) == f \in [Upto(n) -> V] /\ \A x \in Upto(n) : f[x] = Result(f, x)
           P == {n \in Nat : \E f : Chases(n, f)}
<1>1. \A x \in D : size[x] \in Nat /\ size[x] <= N
  OBVIOUS
<1>2. 0 \in P
  <2>1. \A x \in Upto(0) : x \in stop
    <3> SUFFICES ASSUME NEW x \in D, size[x] <= 0, x \notin stop PROVE FALSE
      OBVIOUS
    <3>1. next[x] \in D /\ size[next[x]] < size[x]
      OBVIOUS
    <3> QED
      BY <1>1, <3>1
  <2>2. Chases(0, [x \in Upto(0) |-> base[x]])
    BY <2>1
  <2> QED
    BY <2>2
<1>3. ASSUME NEW n \in Nat, n \in P PROVE n + 1 \in P
  <2>1. PICK f : Chases(n, f)
    BY <1>3
  <2> DEFINE g == [x \in Upto(n + 1) |-> Result(f, x)]
  <2>2. \A x \in Upto(n) : x \in Upto(n + 1) /\ g[x] = f[x]
    <3>1. \A x \in Upto(n) : x \in Upto(n + 1)
      BY <1>1
    <3> QED
      BY <2>1, <3>1
  <2>3. \A x \in Upto(n + 1) : x \notin stop => next[x] \in Upto(n)
    <3> SUFFICES ASSUME NEW x \in D, size[x] <= n + 1, x \notin stop PROVE next[x] \in Upto(n)
      OBVIOUS
    <3>1. next[x] \in D /\ size[next[x]] < size[x]
      OBVIOUS
    <3> QED
      BY <1>1, <3>1
  <2>4. ASSUME NEW x \in Upto(n + 1) PROVE Result(f, x) \in V /\ Result(g, x) = Result(f, x)
    <3>1. CASE x \in stop
      BY <3>1
    <3>2. CASE x \notin stop
      <4>1. next[x] \in Upto(n) /\ x \in D \ stop
        BY <2>3, <3>2
      <4>2. f[next[x]] \in V /\ g[next[x]] = f[next[x]]
        BY <2>1, <2>2, <4>1
      <4>3. Result(f, x) = step[x][f[next[x]]] /\ Result(g, x) = step[x][g[next[x]]]
        BY <3>2
      <4>4. step[x][f[next[x]]] \in V
        <5> HIDE DEF g, Upto, Chases
        <5> QED
          BY <4>1, <4>2
      <4> HIDE DEF Result, g
      <4> QED
        BY <4>2, <4>3, <4>4
    <3> QED
      BY <3>1, <3>2
  <2>5. Chases(n + 1, g)
    BY <2>4
  <2> HIDE DEF g, Chases
  <2> QED
    BY <2>5
<1>4. Nat \subseteq P
  <2> HIDE DEF P
  <2> QED
    BY <1>2, <1>3, NatSetInduction
<1>5. PICK f : Chases(N, f)
  BY <1>4
<1>6. Upto(N) = D
  BY <1>1
<1>7. IsChase(f, D, stop, next, V, base, step)
  <2>1. f \in [D -> V] /\ \A x \in D : f[x] = Result(f, x)
    BY <1>5, <1>6
  <2> QED
    BY <2>1 DEF IsChase
<1> QED
  BY <1>7

\* Induction on what is left to do.
LEMMA SizeInduction ==
  ASSUME NEW D, NEW N \in Nat, NEW size \in [D -> 0 .. N], NEW P,
         \A x \in D : (\A y \in D : size[y] < size[x] => y \in P) => x \in P
  PROVE  D \subseteq P
<1> DEFINE Q == {n \in Nat : \A x \in D : size[x] <= n => x \in P}
<1>1. \A x \in D : size[x] \in Nat /\ size[x] <= N
  OBVIOUS
<1>2. 0 \in Q
  <2> SUFFICES ASSUME NEW x \in D, size[x] <= 0 PROVE x \in P
    OBVIOUS
  <2>1. \A y \in D : ~ (size[y] < size[x])
    BY <1>1
  <2> QED
    BY <2>1
<1>3. ASSUME NEW n \in Nat, n \in Q PROVE n + 1 \in Q
  <2> SUFFICES ASSUME NEW x \in D, size[x] <= n + 1 PROVE x \in P
    OBVIOUS
  <2>1. ASSUME NEW y \in D, size[y] < size[x] PROVE y \in P
    <3>1. size[y] <= n
      BY <1>1, <2>1
    <3> QED
      BY <1>3, <3>1
  <2> QED
    BY <2>1
<1>4. Nat \subseteq Q
  <2> HIDE DEF Q
  <2> QED
    BY <1>2, <1>3, NatSetInduction
<1> QED
  BY <1>1, <1>4

\* A sequence of elements of E, each next one in the relation R to the last.
IsChain(w, E, R) ==
  /\ w \in Seq(E)
  /\ \A i \in 1 .. Len(w) : i > 1 => <<w[i - 1], w[i]>> \in R

\* It with x before it.
IsLed(v, x, w, E, R) ==
  /\ IsChain(v, E, R) /\ Len(v) = Len(w) + 1 /\ Len(w) \in Nat /\ v[1] = x
  /\ v[Len(v)] = IF w = <<>> THEN x ELSE w[Len(w)]

\* It may begin one earlier.
LEMMA ChainGrows ==
  ASSUME NEW E, NEW R, NEW w, IsChain(w, E, R), NEW x \in E, w # <<>> => <<x, w[1]>> \in R,
         NEW v, v = <<x>> \o w
  PROVE  IsLed(v, x, w, E, R)
<1>1. w \in Seq(E) /\ Len(w) \in Nat /\ \A i \in 1 .. Len(w) : i > 1 => <<w[i - 1], w[i]>> \in R
  BY DEF IsChain
<1>2. /\ v \in Seq(E) /\ Len(v) = Len(w) + 1
      /\ \A i \in 1 .. Len(w) + 1 : v[i] = IF i = 1 THEN x ELSE w[i - 1]
  BY <1>1
<1>3. w # <<>> => Len(w) >= 1
  BY <1>1
<1>4. w = <<>> => Len(w) = 0
  OBVIOUS
<1>5. ASSUME NEW i \in 1 .. Len(v), i > 1 PROVE <<v[i - 1], v[i]>> \in R
  <2>1. i - 1 \in 1 .. Len(w) /\ i \in 1 .. Len(w) + 1 /\ i - 1 \in 1 .. Len(w) + 1 /\ i # 1
    BY <1>1, <1>2, <1>5
  <2>2. v[i] = w[i - 1] /\ v[i - 1] = IF i - 1 = 1 THEN x ELSE w[(i - 1) - 1]
    BY <1>2, <2>1
  <2>3. CASE i - 1 = 1
    <3>1. w # <<>>
      BY <1>4, <2>1
    <3> QED
      BY <2>2, <2>3, <3>1
  <2>4. CASE i - 1 # 1
    <3>1. i - 1 > 1
      BY <2>1, <2>4
    <3> QED
      BY <1>1, <2>1, <2>2, <2>4, <3>1
  <2> QED
    BY <2>3, <2>4
<1>6. v[1] = x /\ v[Len(v)] = IF w = <<>> THEN x ELSE w[Len(w)]
  <2>1. 1 \in 1 .. Len(w) + 1 /\ Len(w) + 1 \in 1 .. Len(w) + 1 /\ (Len(w) + 1) - 1 = Len(w)
    BY <1>1
  <2>2. Len(w) + 1 = 1 <=> w = <<>>
    BY <1>1, <1>3, <1>4
  <2> QED
    BY <1>2, <2>1, <2>2
<1> QED
  BY <1>1, <1>2, <1>5, <1>6 DEF IsChain, IsLed

\* A sum of greater terms is no less.
LEMMA SumGrows ==
  ASSUME NEW S, IsFiniteSet(S), NEW w, NEW v, \A x \in S : w[x] \in Nat /\ v[x] \in Nat /\ w[x] <= v[x]
  PROVE  SumFunctionOnSet(w, S) <= SumFunctionOnSet(v, S)
<1>1. \A x \in S : 1 .. w[x] \subseteq 1 .. v[x]
  OBVIOUS
<1>2. Units(w, S) \in SUBSET Units(v, S)
  BY <1>1 DEF Units
<1>3. /\ IsFiniteSet(Units(v, S)) /\ SumFunctionOnSet(v, S) = Cardinality(Units(v, S))
      /\ SumFunctionOnSet(w, S) = Cardinality(Units(w, S))
  BY SumIsCount
<1> QED
  BY <1>2, <1>3, FS_Subset

=============================================================================
