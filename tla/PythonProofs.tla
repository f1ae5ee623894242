---------------------------- MODULE PythonProofs -----------------------------
(***************************************************************************)
(* What Python calls that keeps state between calls.  The vector index     *)
(* under its threads: what the operators of VectorIndex do to the map that *)
(* a sound index stands for, that no step of the threads leaves an unsound *)
(* one, and that every step is one of KeyedVectors.  Then the redactor a   *)
(* thread keeps: what a redactor leaves of a text, and that it is that of  *)
(* the configuration asked for.  Last the small decisions: what the loops  *)
(* of each do to every argument of its type.                               *)
(***************************************************************************)
EXTENDS PyIndex, Library, FoldLemmas

\* A sound index.
Indexes ==
  {i \in [keys : Seq(Int), rows : Seq(Int), pos : UNION {[S -> Nat] : S \in SUBSET Int}] :
     /\ Len(i.rows) = Len(i.keys)
     /\ \A n \in 1 .. Len(i.keys) : i.keys[n] \in DOMAIN i.pos /\ i.pos[i.keys[n]] = n
     /\ \A k \in DOMAIN i.pos : i.pos[k] \in 1 .. Len(i.keys) /\ i.keys[i.pos[k]] = k}

\* The map that it stands for.
Content(i) == [k \in Stored(i) |-> i.rows[i.pos[k]]]

\* What a sound index is, part by part.
LEMMA SoundParts ==
  ASSUME NEW i \in Indexes
  PROVE  /\ i = [keys |-> i.keys, rows |-> i.rows, pos |-> i.pos]
         /\ i.keys \in Seq(Int) /\ i.rows \in Seq(Int) /\ Len(i.rows) = Len(i.keys)
         /\ Len(i.keys) \in Nat
         /\ i.pos \in [DOMAIN i.pos -> Nat] /\ DOMAIN i.pos \subseteq Int
         /\ \A n \in 1 .. Len(i.keys) : i.keys[n] \in DOMAIN i.pos /\ i.pos[i.keys[n]] = n
         /\ \A k \in DOMAIN i.pos : i.pos[k] \in 1 .. Len(i.keys) /\ i.keys[i.pos[k]] = k
  BY DEF Indexes

\* Parts that make one.
LEMMA SoundWhole ==
  ASSUME NEW keys \in Seq(Int), NEW rows \in Seq(Int), Len(rows) = Len(keys),
         NEW D \in SUBSET Int, NEW pos \in [D -> Nat],
         \A n \in 1 .. Len(keys) : keys[n] \in D /\ pos[keys[n]] = n,
         \A k \in D : pos[k] \in 1 .. Len(keys) /\ keys[pos[k]] = k
  PROVE  [keys |-> keys, rows |-> rows, pos |-> pos] \in Indexes
  BY DEF Indexes

\* An empty index is sound, and stands for the map of nothing.
LEMMA EmptySound == EmptyIndex \in Indexes /\ Content(EmptyIndex) = <<>>
<1>1. <<>> \in Seq(Int) /\ Len(<<>>) = 0 /\ DOMAIN <<>> = {} /\ <<>> \in [{} -> Nat]
  OBVIOUS
<1>2. EmptyIndex \in Indexes
  <2>1. /\ \A n \in 1 .. Len(<<>>) : <<>>[n] \in {} /\ <<>>[<<>>[n]] = n
        /\ \A k \in {} : <<>>[k] \in 1 .. Len(<<>>) /\ <<>>[<<>>[k]] = k
        /\ {} \in SUBSET Int
    BY <1>1
  <2> DEFINE none == <<>>
  <2> HIDE DEF none
  <2>2. [keys |-> none, rows |-> none, pos |-> none] \in Indexes
    BY <1>1, <2>1, SoundWhole DEF none
  <2> QED
    BY <2>2 DEF EmptyIndex, none
<1>3. Content(EmptyIndex) = [k \in {} |-> EmptyIndex.rows[EmptyIndex.pos[k]]]
  BY <1>1 DEF Content, Stored, EmptyIndex
<1>4. [k \in {} |-> EmptyIndex.rows[EmptyIndex.pos[k]]] = <<>>
  OBVIOUS
<1> QED
  BY <1>2, <1>3, <1>4

\* Storing a row of a key binds the key to it.
LEMMA StoreSound ==
  ASSUME NEW i \in Indexes, NEW key \in Int, NEW v \in DOMAIN Approx
  PROVE  /\ Store(i, key, v) \in Indexes
         /\ Content(Store(i, key, v)) = Bind(Content(i), key, Approx[v])
<1> DEFINE n == Len(i.keys)
           j == Store(i, key, v)
<1>1. /\ i = [keys |-> i.keys, rows |-> i.rows, pos |-> i.pos]
      /\ i.keys \in Seq(Int) /\ i.rows \in Seq(Int) /\ Len(i.rows) = n /\ n \in Nat
      /\ i.pos \in [DOMAIN i.pos -> Nat] /\ DOMAIN i.pos \subseteq Int
      /\ \A m \in 1 .. n : i.keys[m] \in DOMAIN i.pos /\ i.pos[i.keys[m]] = m
      /\ \A k \in DOMAIN i.pos : i.pos[k] \in 1 .. n /\ i.keys[i.pos[k]] = k
  BY SoundParts
<1>2. Approx[v] \in Int
  BY VectorAssumption
<1>3. CASE key \in Stored(i)
  <2> DEFINE p == i.pos[key]
             rows == [i.rows EXCEPT ![p] = Approx[v]]
  <2>1. p \in 1 .. n
    BY <1>1, <1>3 DEF Stored
  <2>2. j = [keys |-> i.keys, rows |-> rows, pos |-> i.pos]
    BY <1>1, <1>3 DEF Store
  <2>3. rows \in Seq(Int) /\ Len(rows) = n
    BY <1>1, <1>2, <2>1
  <2>4. j \in Indexes
    <3> HIDE DEF rows, j
    <3> QED
      BY <1>1, <2>2, <2>3, SoundWhole
  <2>5. \A k \in DOMAIN i.pos : rows[i.pos[k]] = IF k = key THEN Approx[v] ELSE i.rows[i.pos[k]]
    <3>1. \A k \in DOMAIN i.pos : i.pos[k] = p <=> k = key
      BY <1>1, <1>3 DEF Stored
    <3>2. \A m \in 1 .. n : rows[m] = IF m = p THEN Approx[v] ELSE i.rows[m]
      BY <1>1, SMTT(30)
    <3> QED
      BY <1>1, <3>1, <3>2, SMTT(30)
  <2>6. Content(j) = [k \in DOMAIN i.pos |-> IF k = key THEN Approx[v] ELSE i.rows[i.pos[k]]]
    BY <2>2, <2>5 DEF Content, Stored
  <2>7. Bind(Content(i), key, Approx[v])
          = [k \in DOMAIN i.pos |-> IF k = key THEN Approx[v] ELSE i.rows[i.pos[k]]]
    BY <1>3 DEF Content, Stored, Bind
  <2> QED
    BY <2>4, <2>6, <2>7
<1>4. CASE key \notin Stored(i)
  <2> DEFINE keys == Append(i.keys, key)
             rows == Append(i.rows, Approx[v])
             pos == Bind(i.pos, key, n + 1)
             D == DOMAIN i.pos \cup {key}
  <2>1. j = [keys |-> keys, rows |-> rows, pos |-> pos]
    BY <1>4 DEF Store
  <2>2. /\ keys \in Seq(Int) /\ Len(keys) = n + 1
        /\ \A m \in 1 .. n + 1 : keys[m] = IF m = n + 1 THEN key ELSE i.keys[m]
    BY <1>1
  <2>3. /\ rows \in Seq(Int) /\ Len(rows) = n + 1
        /\ \A m \in 1 .. n + 1 : rows[m] = IF m = n + 1 THEN Approx[v] ELSE i.rows[m]
    <3>1. ASSUME NEW s \in Seq(Int), NEW a \in Int
          PROVE  /\ Append(s, a) \in Seq(Int) /\ Len(Append(s, a)) = Len(s) + 1
                 /\ \A m \in 1 .. Len(s) + 1 :
                      Append(s, a)[m] = IF m = Len(s) + 1 THEN a ELSE s[m]
      OBVIOUS
    <3> QED
      BY <1>1, <1>2, <3>1
  <2>4. /\ DOMAIN pos = D /\ pos \in [D -> Nat] /\ D \subseteq Int
        /\ \A k \in D : pos[k] = IF k = key THEN n + 1 ELSE i.pos[k]
    BY <1>1 DEF Bind
  <2>5. \A m \in 1 .. n + 1 : m # n + 1 => m \in 1 .. n
    BY <1>1
  <2>6. n + 1 \in 1 .. n + 1 /\ \A m \in 1 .. n : m \in 1 .. n + 1 /\ m # n + 1
    BY <1>1, SMTT(30)
  <2> HIDE DEF keys, rows, pos, D
  <2>7. \A m \in 1 .. n + 1 : keys[m] \in D /\ pos[keys[m]] = m
    <3> SUFFICES ASSUME NEW m \in 1 .. n + 1 PROVE keys[m] \in D /\ pos[keys[m]] = m
      OBVIOUS
    <3>1. CASE m = n + 1
      BY <2>2, <2>4, <3>1 DEF D
    <3>2. CASE m # n + 1
      <4>1. keys[m] = i.keys[m] /\ i.keys[m] \in DOMAIN i.pos /\ i.pos[i.keys[m]] = m
        BY <1>1, <2>2, <2>5, <3>2
      <4> QED
        BY <1>4, <2>4, <4>1 DEF D, Stored
    <3> QED
      BY <3>1, <3>2
  <2>8. \A k \in D : pos[k] \in 1 .. n + 1 /\ keys[pos[k]] = k
    <3> SUFFICES ASSUME NEW k \in D PROVE pos[k] \in 1 .. n + 1 /\ keys[pos[k]] = k
      OBVIOUS
    <3>1. CASE k = key
      BY <2>2, <2>4, <2>6, <3>1
    <3>2. CASE k # key
      BY <1>1, <2>2, <2>4, <2>6, <3>2 DEF D
    <3> QED
      BY <3>1, <3>2
  <2>9. j \in Indexes
    <3> HIDE DEF j
    <3> QED
      BY <2>1, <2>2, <2>3, <2>4, <2>7, <2>8, SoundWhole
  <2>10. \A k \in D : rows[pos[k]] = IF k = key THEN Approx[v] ELSE i.rows[i.pos[k]]
    <3> SUFFICES ASSUME NEW k \in D
                 PROVE  rows[pos[k]] = IF k = key THEN Approx[v] ELSE i.rows[i.pos[k]]
      OBVIOUS
    <3>1. CASE k = key
      BY <2>3, <2>4, <2>6, <3>1
    <3>2. CASE k # key
      BY <1>1, <2>3, <2>4, <2>6, <3>2 DEF D
    <3> QED
      BY <3>1, <3>2
  <2>11. Content(j) = [k \in D |-> IF k = key THEN Approx[v] ELSE i.rows[i.pos[k]]]
    BY <2>1, <2>4, <2>10 DEF Content, Stored
  <2>12. Bind(Content(i), key, Approx[v])
           = [k \in D |-> IF k = key THEN Approx[v] ELSE i.rows[i.pos[k]]]
    BY <1>4 DEF Content, Stored, Bind, D
  <2> QED
    BY <2>9, <2>11, <2>12
<1> QED
  BY <1>3, <1>4

\* One element overwritten and the last one dropped.
Shorter(s, p, a) == Front([s EXCEPT ![p] = a])

\* What is left of the sequence.
LEMMA Shortened ==
  ASSUME NEW s \in Seq(Int), NEW n \in Nat \ {0}, Len(s) = n, NEW a \in Int,
         NEW p \in 1 .. n
  PROVE  /\ Shorter(s, p, a) \in Seq(Int) /\ Len(Shorter(s, p, a)) = n - 1
         /\ \A m \in 1 .. n - 1 : Shorter(s, p, a)[m] = IF m = p THEN a ELSE s[m]
<1> DEFINE e == [s EXCEPT ![p] = a]
<1>1. e \in Seq(Int) /\ Len(e) = n /\ \A m \in 1 .. n : e[m] = IF m = p THEN a ELSE s[m]
  OBVIOUS
<1> HIDE DEF e
<1>2. \A m \in 1 .. n - 1 : e[m] \in Int
  BY <1>1
<1>3. /\ SubSeq(e, 1, n - 1) \in Seq(Int)
      /\ Len(SubSeq(e, 1, n - 1)) = IF 1 <= n - 1 THEN n - 1 - 1 + 1 ELSE 0
      /\ \A m \in 1 .. n - 1 - 1 + 1 : SubSeq(e, 1, n - 1)[m] = e[1 + m - 1]
  <2>1. 1 \in Int /\ n - 1 \in Int
    OBVIOUS
  <2> QED
    BY <1>2, <2>1, SubSeqProperties
<1>4. Front(e) = SubSeq(e, 1, n - 1)
  BY <1>1 DEF Front
<1>5. Len(Front(e)) = n - 1
  BY <1>3, <1>4
<1>6. \A m \in 1 .. n - 1 : Front(e)[m] = e[m]
  BY <1>3, <1>4
<1>7. \A m \in 1 .. n - 1 : m \in 1 .. n
  OBVIOUS
<1>8. \A m \in 1 .. n - 1 : Front(e)[m] = IF m = p THEN a ELSE s[m]
  BY <1>1, <1>6, <1>7
<1> QED
  BY <1>3, <1>4, <1>5, <1>8 DEF e, Shorter

\* Removing the row of a key forgets the key, and no other.
LEMMA RemoveSound ==
  ASSUME NEW i \in Indexes, NEW key \in Stored(i)
  PROVE  /\ RemoveRow(i, key) \in Indexes
         /\ Content(RemoveRow(i, key)) = Unbind(Content(i), key)
<1> DEFINE n == Len(i.keys)
           D == DOMAIN i.pos
           E == D \ {key}
           p == i.pos[key]
           moved == i.keys[n]
           keys == Shorter(i.keys, p, moved)
           rows == Shorter(i.rows, p, i.rows[n])
           rest == Unbind(i.pos, key)
           pos == IF p = n THEN rest ELSE MovedPos(rest, moved, p)
           j == RemoveRow(i, key)
<1>1. /\ i.keys \in Seq(Int) /\ i.rows \in Seq(Int) /\ Len(i.rows) = n /\ n \in Nat
      /\ i.pos \in [D -> Nat] /\ D \subseteq Int
      /\ \A m \in 1 .. n : i.keys[m] \in D /\ i.pos[i.keys[m]] = m
      /\ \A k \in D : i.pos[k] \in 1 .. n /\ i.keys[i.pos[k]] = k
  BY SoundParts
<1>2. key \in D /\ p \in 1 .. n /\ i.keys[p] = key
  BY <1>1 DEF Stored
<1>3. n \in Nat \ {0} /\ n \in 1 .. n
  BY <1>1, <1>2
<1>4. moved \in D /\ i.pos[moved] = n /\ moved \in Int /\ i.rows[n] \in Int
  <2>1. moved \in D /\ i.pos[moved] = n
    BY <1>1, <1>3
  <2>2. \A s \in Seq(Int) : Len(s) = n => s[n] \in Int
    BY <1>3
  <2> QED
    BY <1>1, <2>1, <2>2
<1>5. j = [keys |-> keys, rows |-> rows, pos |-> pos]
  BY DEF RemoveRow, Shorter
<1> HIDE DEF p
<1>16. ASSUME NEW s \in Seq(Int), Len(s) = n, NEW a \in Int
       PROVE  /\ Shorter(s, p, a) \in Seq(Int) /\ Len(Shorter(s, p, a)) = n - 1
              /\ \A m \in 1 .. n - 1 : Shorter(s, p, a)[m] = IF m = p THEN a ELSE s[m]
  <2> HIDE DEF n
  <2>1. n \in Nat \ {0} /\ p \in 1 .. n
    BY <1>2, <1>3
  <2> QED
    BY <1>16, <2>1, Shortened
<1>6. /\ keys \in Seq(Int) /\ Len(keys) = n - 1
      /\ \A m \in 1 .. n - 1 : keys[m] = IF m = p THEN moved ELSE i.keys[m]
  <2>1. i.keys \in Seq(Int) /\ Len(i.keys) = n /\ moved \in Int
    BY <1>1, <1>4
  <2> HIDE DEF n, moved
  <2> QED
    BY <1>16, <2>1
<1>7. /\ rows \in Seq(Int) /\ Len(rows) = n - 1
      /\ \A m \in 1 .. n - 1 : rows[m] = IF m = p THEN i.rows[n] ELSE i.rows[m]
  <2>1. i.rows \in Seq(Int) /\ Len(i.rows) = n /\ i.rows[n] \in Int
    BY <1>1, <1>4
  <2> HIDE DEF n
  <2> QED
    BY <1>16, <2>1
<1> USE DEF p
<1>8. p # n => moved \in E
  BY <1>2, <1>4
<1>9. /\ pos \in [E -> Nat]
      /\ \A k \in E : pos[k] = IF p # n /\ k = moved THEN p ELSE i.pos[k]
  <2>1. /\ rest \in [E -> Nat] /\ \A k \in E : rest[k] = i.pos[k]
    BY <1>1 DEF Unbind
  <2> HIDE DEF rest
  <2>2. CASE p = n
    BY <2>1, <2>2
  <2>3. CASE p # n
    <3>1. E \cup {moved} = E /\ p \in Nat
      BY <1>2, <1>8, <2>3
    <3>2. pos = [k \in E |-> IF k = moved THEN p ELSE rest[k]]
      BY <2>1, <2>3, <3>1 DEF MovedPos, Bind
    <3> QED
      BY <2>1, <2>3, <3>1, <3>2
  <2> QED
    BY <2>2, <2>3
<1>10. /\ \A m \in 1 .. n - 1 : m \in 1 .. n /\ m # n
       /\ \A m \in 1 .. n : m # n => m \in 1 .. n - 1
  BY <1>3
<1> HIDE DEF n, keys, rows, pos, j
<1>11. \A m \in 1 .. n - 1 : keys[m] \in E /\ pos[keys[m]] = m
  <2> SUFFICES ASSUME NEW m \in 1 .. n - 1 PROVE keys[m] \in E /\ pos[keys[m]] = m
    OBVIOUS
  <2>1. CASE m = p
    <3>1. p # n /\ keys[m] = moved
      BY <1>6, <1>10, <2>1
    <3> QED
      BY <1>8, <1>9, <2>1, <3>1
  <2>2. CASE m # p
    <3>1. keys[m] = i.keys[m] /\ i.keys[m] \in D /\ i.pos[i.keys[m]] = m
      BY <1>1, <1>6, <1>10, <2>2
    <3>2. i.keys[m] # key /\ (p # n => i.keys[m] # moved)
      BY <1>4, <1>10, <2>2, <3>1
    <3> QED
      BY <1>9, <3>1, <3>2
  <2> QED
    BY <2>1, <2>2
<1>12. \A k \in E : /\ pos[k] \in 1 .. n - 1 /\ keys[pos[k]] = k
                    /\ rows[pos[k]] = i.rows[i.pos[k]]
  <2> SUFFICES ASSUME NEW k \in E
               PROVE  /\ pos[k] \in 1 .. n - 1 /\ keys[pos[k]] = k
                      /\ rows[pos[k]] = i.rows[i.pos[k]]
    OBVIOUS
  <2>1. CASE p # n /\ k = moved
    <3>1. pos[k] = p /\ p \in 1 .. n - 1
      BY <1>2, <1>9, <1>10, <2>1
    <3>2. keys[p] = moved /\ rows[p] = i.rows[n]
      BY <1>6, <1>7, <3>1
    <3> QED
      BY <1>4, <2>1, <3>1, <3>2
  <2>2. CASE ~ (p # n /\ k = moved)
    <3>1. pos[k] = i.pos[k]
      BY <1>9, <2>2
    <3>2. i.pos[k] \in 1 .. n /\ i.keys[i.pos[k]] = k
      BY <1>1
    <3>3. i.pos[k] # p
      BY <1>2, <3>2
    <3>4. i.pos[k] # n
      BY <2>2, <3>2, <3>3
    <3> QED
      BY <1>6, <1>7, <1>10, <3>1, <3>2, <3>3, <3>4
  <2> QED
    BY <2>1, <2>2
<1>13. j \in Indexes
  <2>1. E \in SUBSET Int /\ pos \in [E -> Nat] /\ Len(rows) = Len(keys)
    BY <1>1, <1>6, <1>7, <1>9
  <2>2. \A m \in 1 .. Len(keys) : keys[m] \in E /\ pos[keys[m]] = m
    BY <1>6, <1>11
  <2>3. \A k \in E : pos[k] \in 1 .. Len(keys) /\ keys[pos[k]] = k
    BY <1>6, <1>12
  <2> HIDE DEF E
  <2>4. [keys |-> keys, rows |-> rows, pos |-> pos] \in Indexes
    BY <1>6, <1>7, <2>1, <2>2, <2>3, SoundWhole
  <2> QED
    BY <1>5, <2>4
<1>14. Content(j) = [k \in E |-> i.rows[i.pos[k]]]
  <2>1. j.rows = rows /\ j.pos = pos /\ DOMAIN pos = E
    BY <1>5, <1>9
  <2> QED
    BY <1>12, <2>1 DEF Content, Stored
<1>15. Unbind(Content(i), key) = [k \in E |-> i.rows[i.pos[k]]]
  BY DEF Content, Stored, Unbind
<1> QED
  BY <1>13, <1>14, <1>15 DEF j

----------------------------------------------------------------------------
(* The loops. *)

\* The recursion of StoreAll, and of the loops below.
StoresAll(f, pairs, i) ==
  \A T \in SUBSET DOMAIN pairs :
    f[T] = IF T = {} THEN i
           ELSE Store(f[T \ {Max(T)}], pairs[Max(T)][1], pairs[Max(T)][2])

\* StoreAll, pair by pair.
LEMMA StoreAllSteps ==
  ASSUME NEW pairs \in Seq(Int \X DOMAIN Approx), NEW i \in Indexes
  PROVE  \E h : /\ h[0] = i
                /\ \A n \in 1 .. Len(pairs) :
                    h[n] = Store(h[n - 1], pairs[n][1], pairs[n][2])
                /\ StoreAll(i, pairs) = h[Len(pairs)]
<1> DEFINE D == DOMAIN pairs
           step == [m \in D |-> [x \in Indexes |-> Store(x, pairs[m][1], pairs[m][2])]]
<1>1. Len(pairs) \in Nat /\ D = 1 .. Len(pairs) /\ \A m \in D : pairs[m] \in Int \X DOMAIN Approx
  OBVIOUS
<1>2. step \in [D -> [Indexes -> Indexes]]
  <2>1. \A m \in D : pairs[m][1] \in Int /\ pairs[m][2] \in DOMAIN Approx
    BY <1>1
  <2> HIDE DEF D
  <2>2. \A m \in D, x \in Indexes : Store(x, pairs[m][1], pairs[m][2]) \in Indexes
    BY <2>1, StoreSound
  <2> QED
    BY <2>2
<1>3. PICK f \in [SUBSET D -> Indexes] :
        \A T \in SUBSET D : f[T] = IF T = {} THEN i ELSE step[Max(T)][f[T \ {Max(T)}]]
  <2> DEFINE len == Len(pairs)
  <2>1. len \in Nat /\ D = 1 .. len
    BY <1>1
  <2>2. step \in [1 .. len -> [Indexes -> Indexes]]
    BY <1>2, <2>1
  <2> HIDE DEF step, len, D
  <2>3. PICK f : IsLoop(f, len, Indexes, i, step)
    BY <2>1, <2>2, LoopExists
  <2> QED
    BY <2>1, <2>3 DEF IsLoop
<1>4. StoresAll(f, pairs, i)
  <2>1. \A T \in SUBSET D : T # {} => Max(T) \in D /\ f[T \ {Max(T)}] \in Indexes
    <3>1. \A T \in SUBSET D : T # {} => Max(T) \in D
      BY <1>1, LastPlace
    <3> QED
      BY <3>1
  <2> QED
    BY <1>3, <2>1 DEF StoresAll
<1>5. f = [T \in SUBSET D |-> IF T = {} THEN i
                              ELSE Store(f[T \ {Max(T)}], pairs[Max(T)][1], pairs[Max(T)][2])]
  BY <1>4 DEF StoresAll
<1>6. PICK g : /\ g = [T \in SUBSET D |->
                         IF T = {} THEN i
                         ELSE Store(g[T \ {Max(T)}], pairs[Max(T)][1], pairs[Max(T)][2])]
               /\ StoreAll(i, pairs) = g[D]
  BY <1>5, ZenonT(60) DEF StoreAll, FoldLeft, MapThenFoldSet
<1> DEFINE h == [n \in Nat |-> g[1 .. n]]
<1>7. h[0] = i /\ StoreAll(i, pairs) = h[Len(pairs)]
  <2>1. {} \in SUBSET D /\ 1 .. 0 = {} /\ 1 .. Len(pairs) = D
    BY <1>1
  <2> QED
    BY <1>1, <1>6, <2>1
<1>8. ASSUME NEW n \in 1 .. Len(pairs) PROVE h[n] = Store(h[n - 1], pairs[n][1], pairs[n][2])
  <2>1. 1 .. n \in SUBSET D /\ 1 .. n # {} /\ Max(1 .. n) = n /\ (1 .. n) \ {n} = 1 .. n - 1
    BY <1>1, FirstPlaces
  <2>2. g[1 .. n] = Store(g[1 .. n - 1], pairs[n][1], pairs[n][2])
    BY <1>6, <2>1
  <2>3. n \in Nat /\ n - 1 \in Nat
    BY <1>1
  <2> QED
    BY <2>2, <2>3
<1> QED
  BY <1>7, <1>8

\* RemoveAll, key by key.
LEMMA RemoveAllSteps ==
  ASSUME NEW keys \in Seq(Int), NEW i \in Indexes
  PROVE  \E h : /\ h[0] = [index |-> i, removed |-> 0]
                /\ \A n \in 1 .. Len(keys) :
                     h[n] = IF keys[n] \in Stored(h[n - 1].index)
                            THEN [index |-> RemoveRow(h[n - 1].index, keys[n]),
                                  removed |-> h[n - 1].removed + 1]
                            ELSE h[n - 1]
                /\ RemoveAll(i, keys) = h[Len(keys)]
<1> DEFINE D == DOMAIN keys
           V == [index : Indexes, removed : Nat]
           base == [index |-> i, removed |-> 0]
           Next1(x, k) == IF k \in Stored(x.index)
                          THEN [index |-> RemoveRow(x.index, k), removed |-> x.removed + 1]
                          ELSE x
           step == [m \in D |-> [x \in V |-> Next1(x, keys[m])]]
<1>1. Len(keys) \in Nat /\ D = 1 .. Len(keys) /\ base \in V
  OBVIOUS
<1>2. step \in [D -> [V -> V]]
  <2>1. ASSUME NEW k, NEW x \in V PROVE Next1(x, k) \in V
    <3>1. x.index \in Indexes /\ x.removed \in Nat /\ x.removed + 1 \in Nat
      OBVIOUS
    <3>2. k \in Stored(x.index) => RemoveRow(x.index, k) \in Indexes
      BY <3>1, RemoveSound
    <3> QED
      BY <3>1, <3>2
  <2> HIDE DEF D, V, Next1
  <2> QED
    BY <2>1
<1>3. PICK f \in [SUBSET D -> V] :
        \A T \in SUBSET D : f[T] = IF T = {} THEN base ELSE step[Max(T)][f[T \ {Max(T)}]]
  <2> DEFINE len == Len(keys)
  <2>1. len \in Nat /\ D = 1 .. len
    BY <1>1
  <2>2. step \in [1 .. len -> [V -> V]]
    BY <1>2, <2>1
  <2> HIDE DEF step, len, D, V, base
  <2>3. PICK f : IsLoop(f, len, V, base, step)
    BY <1>1, <2>1, <2>2, LoopExists
  <2> QED
    BY <2>1, <2>3 DEF IsLoop
<1>4. \A T \in SUBSET D : f[T] = IF T = {} THEN base ELSE Next1(f[T \ {Max(T)}], keys[Max(T)])
  <2>1. \A T \in SUBSET D : T # {} => Max(T) \in D /\ f[T \ {Max(T)}] \in V
    <3>1. \A T \in SUBSET D : T # {} => Max(T) \in D
      BY <1>1, LastPlace
    <3> HIDE DEF V
    <3> QED
      BY <3>1
  <2> HIDE DEF V, Next1, base
  <2> QED
    BY <1>3, <2>1
<1>5. f = [T \in SUBSET D |-> IF T = {} THEN base ELSE Next1(f[T \ {Max(T)}], keys[Max(T)])]
  <2> HIDE DEF Next1, base
  <2> QED
    BY <1>4
<1>6. PICK g : /\ g = [T \in SUBSET D |-> IF T = {} THEN base
                                          ELSE Next1(g[T \ {Max(T)}], keys[Max(T)])]
               /\ RemoveAll(i, keys) = g[D]
  BY <1>5, ZenonT(60) DEF RemoveAll, FoldLeft, MapThenFoldSet
<1> DEFINE h == [n \in Nat |-> g[1 .. n]]
<1>7. h[0] = base /\ RemoveAll(i, keys) = h[Len(keys)]
  <2>1. {} \in SUBSET D /\ 1 .. 0 = {} /\ 1 .. Len(keys) = D
    BY <1>1
  <2> HIDE DEF Next1
  <2> QED
    BY <1>1, <1>6, <2>1
<1>8. ASSUME NEW n \in 1 .. Len(keys) PROVE h[n] = Next1(h[n - 1], keys[n])
  <2>1. 1 .. n \in SUBSET D /\ 1 .. n # {} /\ Max(1 .. n) = n /\ (1 .. n) \ {n} = 1 .. n - 1
    BY <1>1, FirstPlaces
  <2> HIDE DEF Next1
  <2>2. g[1 .. n] = Next1(g[1 .. n - 1], keys[n])
    BY <1>6, <2>1
  <2>3. n \in Nat /\ n - 1 \in Nat
    BY <1>1
  <2> QED
    BY <2>2, <2>3
<1> QED
  BY <1>7, <1>8

\* The filter of RowsOf, key by key.
LEMMA RowsSteps ==
  ASSUME NEW keys \in Seq(Int), NEW i \in Indexes
  PROVE  \E h : /\ h[0] = <<>>
                /\ \A n \in 1 .. Len(keys) :
                     h[n] = IF keys[n] \in Stored(i) THEN Append(h[n - 1], i.pos[keys[n]])
                            ELSE h[n - 1]
                /\ RowsOf(i, {keys}) = h[Len(keys)]
<1> DEFINE D == DOMAIN keys
           V == Seq(Nat)
           base == <<>>
           Next1(x, k) == IF k \in Stored(i) THEN Append(x, i.pos[k]) ELSE x
           step == [m \in D |-> [x \in V |-> Next1(x, keys[m])]]
<1>1. Len(keys) \in Nat /\ D = 1 .. Len(keys) /\ base \in V
  OBVIOUS
<1>2. step \in [D -> [V -> V]]
  <2>1. ASSUME NEW k, NEW x \in V PROVE Next1(x, k) \in V
    <3>1. k \in Stored(i) => i.pos[k] \in Nat
      BY SoundParts DEF Stored
    <3> QED
      BY <3>1
  <2> HIDE DEF D, V, Next1
  <2> QED
    BY <2>1
<1>3. PICK f \in [SUBSET D -> V] :
        \A T \in SUBSET D : f[T] = IF T = {} THEN base ELSE step[Max(T)][f[T \ {Max(T)}]]
  <2> DEFINE len == Len(keys)
  <2>1. len \in Nat /\ D = 1 .. len
    BY <1>1
  <2>2. step \in [1 .. len -> [V -> V]]
    BY <1>2, <2>1
  <2> HIDE DEF step, len, D, V, base
  <2>3. PICK f : IsLoop(f, len, V, base, step)
    BY <1>1, <2>1, <2>2, LoopExists
  <2> QED
    BY <2>1, <2>3 DEF IsLoop
<1>4. \A T \in SUBSET D : f[T] = IF T = {} THEN base ELSE Next1(f[T \ {Max(T)}], keys[Max(T)])
  <2>1. \A T \in SUBSET D : T # {} => Max(T) \in D /\ f[T \ {Max(T)}] \in V
    <3>1. \A T \in SUBSET D : T # {} => Max(T) \in D
      BY <1>1, LastPlace
    <3> HIDE DEF V
    <3> QED
      BY <3>1
  <2> HIDE DEF V, Next1, base
  <2> QED
    BY <1>3, <2>1
<1>5. f = [T \in SUBSET D |-> IF T = {} THEN base ELSE Next1(f[T \ {Max(T)}], keys[Max(T)])]
  <2> HIDE DEF Next1, base
  <2> QED
    BY <1>4
<1>6. PICK g : /\ g = [T \in SUBSET D |-> IF T = {} THEN base
                                          ELSE Next1(g[T \ {Max(T)}], keys[Max(T)])]
               /\ RowsOf(i, {keys}) = g[D]
  <2>1. RowsOf(i, {keys}) = FoldLeft(LAMBDA rows, k :
            IF k \in Stored(i) THEN Append(rows, i.pos[k]) ELSE rows, <<>>, keys)
    <3>1. {keys} # {} /\ (CHOOSE ks \in {keys} : TRUE) = keys
      OBVIOUS
    <3> QED
      BY <3>1, Zenon DEF RowsOf
  <2> QED
    BY <1>5, <2>1, ZenonT(60) DEF FoldLeft, MapThenFoldSet
<1> DEFINE h == [n \in Nat |-> g[1 .. n]]
<1>7. h[0] = base /\ RowsOf(i, {keys}) = h[Len(keys)]
  <2>1. {} \in SUBSET D /\ 1 .. 0 = {} /\ 1 .. Len(keys) = D
    BY <1>1
  <2> HIDE DEF Next1
  <2> QED
    BY <1>1, <1>6, <2>1
<1>8. ASSUME NEW n \in 1 .. Len(keys) PROVE h[n] = Next1(h[n - 1], keys[n])
  <2>1. 1 .. n \in SUBSET D /\ 1 .. n # {} /\ Max(1 .. n) = n /\ (1 .. n) \ {n} = 1 .. n - 1
    BY <1>1, FirstPlaces
  <2> HIDE DEF Next1
  <2>2. g[1 .. n] = Next1(g[1 .. n - 1], keys[n])
    BY <1>6, <2>1
  <2>3. n \in Nat /\ n - 1 \in Nat
    BY <1>1
  <2> QED
    BY <2>2, <2>3
<1> QED
  BY <1>7, <1>8

\* The keys of the first n pairs, and the last pair of a key among them.
KeysUpto(pairs, n) == {pairs[m][1] : m \in 1 .. n}
IsLastUpto(pairs, n, k, m) ==
  m \in 1 .. n /\ pairs[m][1] = k /\ \A j \in 1 .. n : j > m => pairs[j][1] # k

\* The index after the first n pairs.
StoredUpto(i, pairs, n, x) ==
  /\ x \in Indexes /\ Stored(x) = Stored(i) \cup KeysUpto(pairs, n)
  /\ \A k \in Stored(x) :
       Content(x)[k] \in IF k \in KeysUpto(pairs, n)
                         THEN {Approx[pairs[m][2]] :
                                 m \in {m \in 1 .. n : IsLastUpto(pairs, n, k, m)}}
                         ELSE {Content(i)[k]}

\* StoreAll binds each key of the call to its last vector, and no other key.
LEMMA StoreAllSound ==
  ASSUME NEW pairs \in Seq(Int \X DOMAIN Approx), NEW i \in Indexes
  PROVE  StoredUpto(i, pairs, Len(pairs), StoreAll(i, pairs))
<1>1. PICK h : /\ h[0] = i
               /\ \A n \in 1 .. Len(pairs) :
                    h[n] = Store(h[n - 1], pairs[n][1], pairs[n][2])
               /\ StoreAll(i, pairs) = h[Len(pairs)]
  BY StoreAllSteps
<1> DEFINE P == {n \in Nat : StoredUpto(i, pairs, n, h[n])}
<1>2. /\ Len(pairs) \in Nat
      /\ \A n \in 1 .. Len(pairs) : pairs[n][1] \in Int /\ pairs[n][2] \in DOMAIN Approx
  OBVIOUS
<1>3. 0 \in P
  <2>1. KeysUpto(pairs, 0) = {}
    BY DEF KeysUpto
  <2> QED
    BY <1>1, <2>1 DEF StoredUpto
<1>4. ASSUME NEW n \in 1 .. Len(pairs), n - 1 \in P PROVE n \in P
  <2> DEFINE x == h[n - 1]
             key == pairs[n][1]
             v == pairs[n][2]
  <2>1. n \in Nat /\ n - 1 \in Nat /\ n \in 1 .. n
    BY <1>2
  <2>2. key \in Int /\ v \in DOMAIN Approx /\ h[n] = Store(x, key, v)
    BY <1>1, <1>2
  <2>3. StoredUpto(i, pairs, n - 1, x)
    BY <1>4
  <2>4. /\ h[n] \in Indexes
        /\ Content(h[n]) = Bind(Content(x), key, Approx[v])
    BY <2>2, <2>3, StoreSound DEF StoredUpto
  <2>5. /\ KeysUpto(pairs, n) = KeysUpto(pairs, n - 1) \cup {key}
        /\ IsLastUpto(pairs, n, key, n)
        /\ \A k, m : k # key /\ IsLastUpto(pairs, n - 1, k, m) => IsLastUpto(pairs, n, k, m)
    <3>1. 1 .. n = (1 .. n - 1) \cup {n} /\ \A j \in 1 .. n : ~ (j > n)
      BY <2>1
    <3> QED
      BY <3>1 DEF KeysUpto, IsLastUpto
  <2>6. DOMAIN Content(x) = Stored(x) /\ DOMAIN Content(h[n]) = Stored(h[n])
    BY DEF Content
  <2> HIDE DEF x, key, v
  <2>7. /\ Stored(h[n]) = Stored(x) \cup {key}
        /\ \A k \in Stored(h[n]) : Content(h[n])[k] = IF k = key THEN Approx[v] ELSE Content(x)[k]
    BY <2>4, <2>6 DEF Bind
  <2>8. ASSUME NEW k \in Stored(h[n])
        PROVE  Content(h[n])[k] \in
                 IF k \in KeysUpto(pairs, n)
                 THEN {Approx[pairs[m][2]] :
                                 m \in {m \in 1 .. n : IsLastUpto(pairs, n, k, m)}}
                 ELSE {Content(i)[k]}
    <3>1. CASE k = key
      BY <2>1, <2>5, <2>7, <3>1 DEF v
    <3>2. CASE k # key /\ k \in KeysUpto(pairs, n - 1)
      <4>1. k \in Stored(x) /\ k \in KeysUpto(pairs, n) /\ Content(h[n])[k] = Content(x)[k]
        BY <2>5, <2>7, <3>2
      <4>2. PICK m \in 1 .. n - 1 : /\ IsLastUpto(pairs, n - 1, k, m)
                                    /\ Content(x)[k] = Approx[pairs[m][2]]
        BY <2>3, <3>2, <4>1 DEF StoredUpto
      <4>3. m \in 1 .. n /\ IsLastUpto(pairs, n, k, m)
        BY <2>5, <3>2, <4>2 DEF IsLastUpto
      <4> QED
        BY <4>1, <4>2, <4>3
    <3>3. CASE k # key /\ k \notin KeysUpto(pairs, n - 1)
      BY <2>3, <2>5, <2>7, <3>3 DEF StoredUpto
    <3> QED
      BY <3>1, <3>2, <3>3
  <2>9. Stored(h[n]) = Stored(i) \cup KeysUpto(pairs, n)
    BY <2>3, <2>5, <2>7 DEF StoredUpto
  <2> QED
    BY <2>1, <2>4, <2>8, <2>9 DEF StoredUpto
<1>5. Len(pairs) \in P
  <2> HIDE DEF P
  <2> QED
    BY <1>2, <1>3, <1>4, PrefixInduction
<1> QED
  BY <1>1, <1>5

\* The index, and the count, after the first n keys.
RemovedUpto(i, keys, n, x) ==
  LET gone == {keys[m] : m \in 1 .. n}
  IN  /\ x.index \in Indexes
      /\ Content(x.index) = [k \in Stored(i) \ gone |-> Content(i)[k]]
      /\ IsFiniteSet(gone \cap Stored(i)) /\ x.removed = Cardinality(gone \cap Stored(i))

\* RemoveAll forgets the keys of the call, and counts those it found.
LEMMA RemoveAllSound ==
  ASSUME NEW keys \in Seq(Int), NEW i \in Indexes
  PROVE  RemovedUpto(i, keys, Len(keys), RemoveAll(i, keys))
<1>1. PICK h : /\ h[0] = [index |-> i, removed |-> 0]
               /\ \A n \in 1 .. Len(keys) :
                    h[n] = IF keys[n] \in Stored(h[n - 1].index)
                           THEN [index |-> RemoveRow(h[n - 1].index, keys[n]),
                                 removed |-> h[n - 1].removed + 1]
                           ELSE h[n - 1]
               /\ RemoveAll(i, keys) = h[Len(keys)]
  BY RemoveAllSteps
<1> DEFINE Gone(n) == {keys[m] : m \in 1 .. n}
           P == {n \in Nat : RemovedUpto(i, keys, n, h[n])}
<1>2. Len(keys) \in Nat
  OBVIOUS
<1>3. 0 \in P
  <2>1. Gone(0) = {}
    OBVIOUS
  <2>2. Content(i) = [k \in Stored(i) |-> Content(i)[k]]
    BY DEF Content
  <2>3. IsFiniteSet({}) /\ Cardinality({}) = 0
    BY FS_EmptySet
  <2>4. Gone(0) \cap Stored(i) = {} /\ Stored(i) \ Gone(0) = Stored(i)
    BY <2>1
  <2>5. h[0].index = i /\ h[0].removed = 0
    BY <1>1
  <2> QED
    BY <2>2, <2>3, <2>4, <2>5 DEF RemovedUpto
<1>4. ASSUME NEW n \in 1 .. Len(keys), n - 1 \in P PROVE n \in P
  <2> DEFINE x == h[n - 1]
             key == keys[n]
             G == Gone(n - 1)
  <2>1. n \in Nat /\ n - 1 \in Nat /\ Gone(n) = G \cup {key}
    <3>1. n \in Nat /\ n - 1 \in Nat /\ 1 .. n = (1 .. n - 1) \cup {n}
      BY <1>2
    <3> QED
      BY <3>1
  <2>2. h[n] = IF key \in Stored(x.index)
               THEN [index |-> RemoveRow(x.index, key), removed |-> x.removed + 1] ELSE x
    BY <1>1
  <2>3. /\ x.index \in Indexes
        /\ Content(x.index) = [k \in Stored(i) \ G |-> Content(i)[k]]
        /\ IsFiniteSet(G \cap Stored(i)) /\ x.removed = Cardinality(G \cap Stored(i))
    BY <1>4 DEF RemovedUpto
  <2> HIDE DEF x, key, G, Gone
  <2>4. Stored(x.index) = Stored(i) \ G
    BY <2>3 DEF Content
  <2>5. SUFFICES /\ h[n].index \in Indexes
                 /\ Content(h[n].index) = [k \in Stored(i) \ Gone(n) |-> Content(i)[k]]
                 /\ IsFiniteSet(Gone(n) \cap Stored(i))
                 /\ h[n].removed = Cardinality(Gone(n) \cap Stored(i))
    BY <2>1 DEF RemovedUpto, Gone
  <2>6. CASE key \in Stored(x.index)
    <3>1. h[n].index = RemoveRow(x.index, key) /\ h[n].removed = x.removed + 1
      BY <2>2, <2>6
    <3>2. /\ h[n].index \in Indexes
          /\ Content(h[n].index) = Unbind(Content(x.index), key)
      BY <2>3, <2>6, <3>1, RemoveSound
    <3>3. Unbind(Content(x.index), key) = [k \in Stored(i) \ Gone(n) |-> Content(i)[k]]
      <4>1. (Stored(i) \ G) \ {key} = Stored(i) \ Gone(n)
        BY <2>1
      <4>2. Unbind(Content(x.index), key) = [k \in (Stored(i) \ G) \ {key} |-> Content(i)[k]]
        BY <2>3 DEF Unbind
      <4> QED
        BY <4>1, <4>2
    <3>4. Gone(n) \cap Stored(i) = (G \cap Stored(i)) \cup {key} /\ key \notin G \cap Stored(i)
      BY <2>1, <2>4, <2>6
    <3>5. /\ IsFiniteSet((G \cap Stored(i)) \cup {key})
          /\ Cardinality((G \cap Stored(i)) \cup {key}) = Cardinality(G \cap Stored(i)) + 1
      BY <2>3, <3>4, FS_AddElement
    <3> QED
      BY <2>3, <3>1, <3>2, <3>3, <3>4, <3>5
  <2>7. CASE key \notin Stored(x.index)
    <3>1. Gone(n) \cap Stored(i) = G \cap Stored(i) /\ Stored(i) \ Gone(n) = Stored(i) \ G
      BY <2>1, <2>4, <2>7
    <3> QED
      BY <2>2, <2>3, <2>7, <3>1
  <2> QED
    BY <2>6, <2>7
<1>5. Len(keys) \in P
  <2> HIDE DEF P
  <2> QED
    BY <1>2, <1>3, <1>4, PrefixInduction
<1> QED
  BY <1>1, <1>5

----------------------------------------------------------------------------
(* The invariant. *)

\* What a call of each kind carries.
LEMMA CallShape ==
  ASSUME NEW c \in Calls
  PROVE  /\ c.op \in {"upsert", "remove", "search", "len"}
         /\ c.op = "upsert" => c.wellFormed \in BOOLEAN /\ c.pairs \in Seq(Int \X DOMAIN Approx)
         /\ c.op = "remove" => c.keys \in Seq(Int)
         /\ c.op = "search" => /\ c.wellFormed \in BOOLEAN /\ c.k \in Nat /\ c.zero \in BOOLEAN
                               /\ \A keys \in c.allowed : keys \in Seq(Int) /\ c.allowed = {keys}
  BY PyIndexAssumption

WithGil == {"attached", "dim", "lock", "locked", "return"}
WithLock == {"locked", "working"}

PiTypeOK ==
  /\ at \in [Threads -> Steps] /\ call \in [Threads -> Calls \cup {None}]
  /\ DOMAIN answer = Threads /\ index \in Indexes
  /\ gil \in Threads \cup {None} /\ readers \subseteq Threads /\ writer \in Threads \cup {None}

\* Where the GIL is, and who holds the lock and how.
Gil  == \A t \in Threads : gil = t <=> at[t] \in WithGil
Lock == /\ writer # None => readers = {}
        /\ \A t \in Threads : /\ writer = t <=> at[t] \in WithLock /\ Writes(call[t])
                              /\ t \in readers <=> at[t] \in WithLock /\ ~ Writes(call[t])

\* Which call is where.
Way == \A t \in Threads :
  /\ at[t] # "idle" => call[t] \in Calls
  /\ at[t] = "dim" => call[t].op = "upsert"
  /\ at[t] \in {"lock", "locked"} => call[t].op \in {"remove", "len"}
  /\ at[t] \in {"detached", "working"} =>
       call[t].op = "search" \/ (call[t].op = "upsert" /\ call[t].wellFormed)

PiInv == PiTypeOK /\ Gil /\ Lock /\ Way

\* No call leaves an index that is not sound.
LEMMA EffectSound ==
  ASSUME NEW i \in Indexes, NEW c \in Calls
  PROVE  Effect(i, c).index \in Indexes
<1>1. CASE c.op = "upsert"
  <2>1. Effect(i, c).index = UpsertMany(i, c.pairs)
    BY <1>1 DEF Effect
  <2>2. StoreAll(i, c.pairs) \in Indexes
    BY <1>1, CallShape, StoreAllSound DEF StoredUpto
  <2> QED
    BY <2>1, <2>2 DEF UpsertMany
<1>2. CASE c.op = "remove"
  <2>1. Effect(i, c).index = RemoveAll(i, c.keys).index
    BY <1>2 DEF Effect
  <2> QED
    BY <1>2, <2>1, CallShape, RemoveAllSound DEF RemovedUpto
<1>3. CASE c.op \in {"search", "len"}
  <2>1. Effect(i, c).index = i
    BY <1>3 DEF Effect
  <2> QED
    BY <2>1
<1> QED
  BY <1>1, <1>2, <1>3, CallShape

\* The invariant holds before the first call.
LEMMA PiInitInv == PiInit => PiInv
<1> SUFFICES ASSUME PiInit PROVE PiInv
  OBVIOUS
<1>1. PiTypeOK
  BY EmptySound DEF PiInit, PiTypeOK, Steps
<1>2. Gil /\ Lock /\ Way
  BY PyIndexAssumption DEF PiInit, Gil, Lock, Way, WithGil, WithLock
<1> QED
  BY <1>1, <1>2 DEF PiInv

\* A step changes only what its own thread holds.
LEMMA PiStepInv == PiInv /\ [PiNext]_piVars => PiInv'
<1> SUFFICES ASSUME PiInv, [PiNext]_piVars PROVE PiInv'
  OBVIOUS
<1> USE DEF WithGil, WithLock, Writes
<1>0. /\ at \in [Threads -> Steps] /\ call \in [Threads -> Calls \cup {None}]
      /\ DOMAIN answer = Threads /\ index \in Indexes /\ None \notin Threads
      /\ gil \in Threads \cup {None} /\ readers \subseteq Threads /\ writer \in Threads \cup {None}
  BY PyIndexAssumption DEF PiInv, PiTypeOK
<1>1. ASSUME NEW t \in Threads, NEW c \in Calls, Enter(t, c) PROVE PiInv'
  <2>1. /\ at[t] = "idle" /\ at' = [at EXCEPT ![t] = "attached"]
        /\ call' = [call EXCEPT ![t] = c] /\ gil = None /\ gil' = t
        /\ UNCHANGED <<answer, index, readers, writer>>
    BY <1>1 DEF Enter, Go
  <2>2. PiTypeOK'
    BY <1>0, <2>1 DEF PiTypeOK, Steps
  <2>3. Gil'
    BY <1>0, <2>1 DEF PiInv, Gil
  <2>4. Lock'
    BY <1>0, <2>1 DEF PiInv, Lock
  <2>5. Way'
    BY <1>0, <2>1 DEF PiInv, Way
  <2> QED
    BY <2>2, <2>3, <2>4, <2>5 DEF PiInv
<1>2. ASSUME NEW t \in Threads, Prepare(t) PROVE PiInv'
  <2>1. /\ at[t] = "attached" /\ UNCHANGED <<call, answer, index, readers, writer>>
        /\ \/ at' = [at EXCEPT ![t] = "dim"] /\ call[t].op = "upsert" /\ gil' = gil
           \/ at' = [at EXCEPT ![t] = "detached"] /\ call[t].op = "search" /\ gil' = None
           \/ /\ at' = [at EXCEPT ![t] = "lock"] /\ call[t].op \in {"remove", "len"}
              /\ gil' = gil
    BY <1>2 DEF Prepare, Go
  <2>2. PiTypeOK'
    BY <1>0, <2>1 DEF PiTypeOK, Steps
  <2>3. Gil'
    BY <1>0, <2>1 DEF PiInv, Gil
  <2>4. Lock'
    BY <1>0, <2>1 DEF PiInv, Lock
  <2>5. Way'
    BY <1>0, <2>1 DEF PiInv, Way
  <2> QED
    BY <2>2, <2>3, <2>4, <2>5 DEF PiInv
<1>3. ASSUME NEW t \in Threads, ReadDim(t) PROVE PiInv'
  <2>1. /\ at[t] = "dim" /\ UNCHANGED <<call, index, readers, writer>>
        /\ \/ /\ call[t].wellFormed /\ at' = [at EXCEPT ![t] = "detached"] /\ gil' = None
              /\ answer' = answer
           \/ /\ at' = [at EXCEPT ![t] = "return"] /\ gil' = gil
              /\ answer' = [answer EXCEPT ![t] = "error"]
    BY <1>3 DEF ReadDim, Go, DimGuard
  <2>2. PiTypeOK'
    BY <1>0, <2>1 DEF PiTypeOK, Steps
  <2>3. Gil'
    BY <1>0, <2>1 DEF PiInv, Gil
  <2>4. Lock'
    BY <1>0, <2>1 DEF PiInv, Lock
  <2>5. Way'
    BY <1>0, <2>1 DEF PiInv, Way
  <2> QED
    BY <2>2, <2>3, <2>4, <2>5 DEF PiInv
<1>4. ASSUME NEW t \in Threads, Acquire(t) PROVE PiInv'
  <2>1. /\ \/ at[t] = "lock" /\ at' = [at EXCEPT ![t] = "locked"]
           \/ at[t] = "detached" /\ at' = [at EXCEPT ![t] = "working"]
        /\ writer = None /\ UNCHANGED <<call, answer, index, gil>>
        /\ \/ Writes(call[t]) /\ readers = {} /\ writer' = t /\ readers' = readers
           \/ ~ Writes(call[t]) /\ readers' = readers \cup {t} /\ writer' = writer
    BY <1>4 DEF Acquire, Go
  <2>2. PiTypeOK'
    BY <1>0, <2>1 DEF PiTypeOK, Steps
  <2>3. Gil'
    BY <1>0, <2>1 DEF PiInv, Gil
  <2>4. Lock'
    BY <1>0, <2>1 DEF PiInv, Lock
  <2>5. Way'
    BY <1>0, <2>1 DEF PiInv, Way
  <2> QED
    BY <2>2, <2>3, <2>4, <2>5 DEF PiInv
<1>5. ASSUME NEW t \in Threads, Work(t) PROVE PiInv'
  <2>1. /\ \/ at[t] = "locked" /\ at' = [at EXCEPT ![t] = "return"]
           \/ at[t] = "working" /\ at' = [at EXCEPT ![t] = "attach"]
        /\ index' = Effect(index, call[t]).index
        /\ answer' = [answer EXCEPT ![t] = Effect(index, call[t]).answer]
        /\ readers' = readers \ {t} /\ writer' = (IF writer = t THEN None ELSE writer)
        /\ UNCHANGED <<call, gil>>
    BY <1>5 DEF Work, WorkEnds, Releases, Go
  <2>2. index' \in Indexes
    <3>1. call[t] \in Calls
      BY <2>1 DEF PiInv, Way
    <3> QED
      BY <1>0, <2>1, <3>1, EffectSound
  <2>3. PiTypeOK'
    BY <1>0, <2>1, <2>2 DEF PiTypeOK, Steps
  <2>4. Gil'
    BY <1>0, <2>1 DEF PiInv, Gil
  <2>5. Lock'
    BY <1>0, <2>1 DEF PiInv, Lock
  <2>6. Way'
    BY <1>0, <2>1 DEF PiInv, Way
  <2> QED
    BY <2>3, <2>4, <2>5, <2>6 DEF PiInv
<1>6. ASSUME NEW t \in Threads, Attach(t) PROVE PiInv'
  <2>1. /\ at[t] = "attach" /\ at' = [at EXCEPT ![t] = "return"] /\ gil = None /\ gil' = t
        /\ UNCHANGED <<call, answer, index, readers, writer>>
    BY <1>6 DEF Attach, Go
  <2>2. PiTypeOK'
    BY <1>0, <2>1 DEF PiTypeOK, Steps
  <2>3. Gil'
    BY <1>0, <2>1 DEF PiInv, Gil
  <2>4. Lock'
    BY <1>0, <2>1 DEF PiInv, Lock
  <2>5. Way'
    BY <1>0, <2>1 DEF PiInv, Way
  <2> QED
    BY <2>2, <2>3, <2>4, <2>5 DEF PiInv
<1>7. ASSUME NEW t \in Threads, Leave(t) PROVE PiInv'
  <2>1. /\ at[t] = "return" /\ at' = [at EXCEPT ![t] = "idle"] /\ gil' = None
        /\ call' = [call EXCEPT ![t] = None] /\ answer' = [answer EXCEPT ![t] = None]
        /\ UNCHANGED <<index, readers, writer>>
    BY <1>7 DEF Leave, Go
  <2>2. PiTypeOK'
    BY <1>0, <2>1 DEF PiTypeOK, Steps
  <2>3. Gil'
    BY <1>0, <2>1 DEF PiInv, Gil
  <2>4. Lock'
    BY <1>0, <2>1 DEF PiInv, Lock
  <2>5. Way'
    BY <1>0, <2>1 DEF PiInv, Way
  <2> QED
    BY <2>2, <2>3, <2>4, <2>5 DEF PiInv
<1>8. CASE UNCHANGED piVars
  BY <1>8 DEF piVars, PiInv, PiTypeOK, Gil, Lock, Way
<1> QED
  BY <1>1, <1>2, <1>3, <1>4, <1>5, <1>6, <1>7, <1>8 DEF PiNext, Proceed

\* The invariant holds for ever.
LEMMA PiInvHolds == PiSpec => []PiInv
  BY PiInitInv, PiStepInv, PTL DEF PiSpec

\* Whatever the threads do, a writer is alone with the index, the GIL is where
\* the calls have it, and the keys, the rows and the positions agree.
THEOREM IndexKeepsSound == PiSpec => []IndexIsSound
<1>1. PiInv => IndexIsSound
  <2> SUFFICES ASSUME PiInv PROVE IndexIsSound
    OBVIOUS
  <2>1. index \in Indexes
    BY DEF PiInv, PiTypeOK
  <2>2. /\ Len(index.rows) = Len(index.keys) /\ index.keys \in Seq(Int)
        /\ \A n \in 1 .. Len(index.keys) : /\ index.keys[n] \in DOMAIN index.pos
                                           /\ index.pos[index.keys[n]] = n
        /\ \A k \in DOMAIN index.pos : /\ index.pos[k] \in 1 .. Len(index.keys)
                                       /\ index.keys[index.pos[k]] = k
    BY <2>1, SoundParts
  <2>3. DOMAIN index.keys = 1 .. Len(index.keys)
    BY <2>2
  <2>4. Stored(index) = ToSet(index.keys)
    <3>1. \A k \in DOMAIN index.pos : \E n \in DOMAIN index.keys : k = index.keys[n]
      BY <2>2, <2>3
    <3>2. \A n \in DOMAIN index.keys : index.keys[n] \in DOMAIN index.pos
      BY <2>2, <2>3
    <3> QED
      BY <3>1, <3>2 DEF Stored, ToSet
  <2>5. \A t \in Threads : at[t] \in Steps
    BY DEF PiInv, PiTypeOK
  <2> QED
    BY <2>2, <2>3, <2>4, <2>5 DEF PiInv, Gil, Lock, WithGil, IndexIsSound, Stored
<1> QED
  BY <1>1, PiInvHolds, PTL

----------------------------------------------------------------------------
(* The heap. *)

Hit == [key : Int, score : Int]
Hits == Seq(Hit)

\* One hit is no worse than another.
NoWorse(hits) == {p \in (DOMAIN hits) \X (DOMAIN hits) : ~ Worse(hits[p[1]], hits[p[2]])}

\* Two places are in the order when the one is no worse than the other.
LEMMA NoWorseMeans ==
  ASSUME NEW hits, NEW i \in DOMAIN hits, NEW j \in DOMAIN hits
  PROVE  <<i, j>> \in NoWorse(hits) <=> ~ Worse(hits[i], hits[j])
<1> DEFINE p == <<i, j>>
<1>1. p \in (DOMAIN hits) \X (DOMAIN hits) /\ p[1] = i /\ p[2] = j
  OBVIOUS
<1> HIDE DEF p
<1>2. p \in NoWorse(hits) <=> ~ Worse(hits[p[1]], hits[p[2]])
  BY <1>1 DEF NoWorse
<1> QED
  BY <1>1, <1>2 DEF p

\* It orders the hits.
LEMMA NoWorseOrders ==
  ASSUME NEW hits \in Hits, NEW S \in SUBSET DOMAIN hits
  PROVE  Orders(NoWorse(hits), S)
<1>1. \A i \in S : i \in DOMAIN hits /\ hits[i].score \in Int /\ hits[i].key \in Int
  <2>1. \A i \in DOMAIN hits : hits[i] \in Hit
    BY DEF Hits
  <2> QED
    BY <2>1 DEF Hit
<1>2. \A i, j \in S : <<i, j>> \in NoWorse(hits) <=> ~ Worse(hits[i], hits[j])
  BY NoWorseMeans
<1>3. \A i, j \in S : ~ Worse(hits[i], hits[j]) \/ ~ Worse(hits[j], hits[i])
  BY <1>1 DEF Worse
<1>4. \A i, j, l \in S : ~ Worse(hits[i], hits[j]) /\ ~ Worse(hits[j], hits[l]) =>
                           ~ Worse(hits[i], hits[l])
  BY <1>1 DEF Worse
<1> QED
  BY <1>2, <1>3, <1>4 DEF Orders

\* The heap has the k best of the places in S, or all of them.
IsTop(hits, S, heap, k) ==
  /\ heap \subseteq S /\ IsFiniteSet(S)
  /\ Cardinality(heap) = IF Cardinality(S) < k THEN Cardinality(S) ELSE k
  /\ \A i \in heap, j \in S \ heap : <<i, j>> \in NoWorse(hits)

\* What is given up is a worst hit.
LEMMA EvictWorst ==
  ASSUME NEW hits \in Hits, NEW heap \in SUBSET DOMAIN hits, IsFiniteSet(heap), heap # {}
  PROVE  \E m \in heap : /\ Evict(hits, heap) = heap \ {m}
                         /\ \A i \in heap \ {m} : <<i, m>> \in NoWorse(hits)
<1> DEFINE R == {p \in heap \X heap : <<p[2], p[1]>> \in NoWorse(hits)}
           Worst(i) == \A j \in heap \ {i} : ~ Worse(hits[j], hits[i])
<1>1. Orders(NoWorse(hits), heap)
  BY NoWorseOrders
<1>2. Orders(R, heap)
  BY <1>1 DEF Orders
<1>3. PICK x \in heap : \A y \in heap : <<x, y>> \in R
  <2> HIDE DEF R
  <2> QED
    BY <1>2, FirstExists
<1>4. Worst(x)
  BY <1>3, NoWorseMeans
<1> DEFINE m == CHOOSE i \in heap : Worst(i)
<1>5. m \in heap /\ Worst(m)
  <2> HIDE DEF Worst
  <2> QED
    BY <1>4
<1>6. Evict(hits, heap) = heap \ {m}
  BY DEF Evict
<1>7. \A i \in heap \ {m} : <<i, m>> \in NoWorse(hits)
  <2> HIDE DEF m
  <2> QED
    BY <1>5, NoWorseMeans
<1> QED
  BY <1>5, <1>6, <1>7

\* A push keeps the heap the top of what it has seen.
LEMMA PushTop ==
  ASSUME NEW hits \in Hits, NEW S \in SUBSET DOMAIN hits, NEW heap, NEW k \in Nat,
         IsTop(hits, S, heap, k), NEW i \in DOMAIN hits, i \notin S
  PROVE  IsTop(hits, S \cup {i}, Push(hits, heap, i, k), k)
<1> DEFINE more == heap \cup {i}
           T == S \cup {i}
<1>1. /\ IsFiniteSet(S) /\ IsFiniteSet(heap) /\ heap \subseteq S
      /\ Cardinality(S) \in Nat /\ Cardinality(heap) \in Nat
      /\ Cardinality(heap) = IF Cardinality(S) < k THEN Cardinality(S) ELSE k
      /\ \A x \in heap, j \in S \ heap : <<x, j>> \in NoWorse(hits)
  BY FS_Subset, FS_CardinalityType DEF IsTop
<1>2. /\ IsFiniteSet(more) /\ Cardinality(more) = Cardinality(heap) + 1
      /\ IsFiniteSet(T) /\ Cardinality(T) = Cardinality(S) + 1
  <2>1. i \notin heap /\ i \notin S
    BY <1>1
  <2> QED
    BY <1>1, <2>1, FS_AddElement
<1>3. CASE Cardinality(more) <= k
  <2>1. Cardinality(heap) = Cardinality(S)
    BY <1>1, <1>2, <1>3
  <2>2. heap = S
    BY <1>1, <2>1, FS_Subset
  <2>3. Push(hits, heap, i, k) = T
    BY <1>3, <2>2 DEF Push
  <2>4. Cardinality(T) = IF Cardinality(T) < k THEN Cardinality(T) ELSE k
    BY <1>1, <1>2, <1>3, <2>1
  <2> HIDE DEF T
  <2> QED
    BY <1>2, <2>3, <2>4 DEF IsTop, T
<1>4. CASE ~ (Cardinality(more) <= k)
  <2>1. Cardinality(heap) = k /\ ~ (Cardinality(T) < k)
    BY <1>1, <1>2, <1>4
  <2>2. PICK m \in more : /\ Evict(hits, more) = more \ {m}
                          /\ \A x \in more \ {m} : <<x, m>> \in NoWorse(hits)
    <3>1. more \in SUBSET DOMAIN hits /\ more # {}
      BY <1>1
    <3> HIDE DEF more
    <3> QED
      BY <1>2, <3>1, EvictWorst
  <2>3. Push(hits, heap, i, k) = more \ {m}
    BY <1>4, <2>2 DEF Push
  <2>4. Cardinality(more \ {m}) = k
    <3>1. Cardinality(more \ {m}) = Cardinality(more) - 1
      <4> HIDE DEF more
      <4> QED
        BY <1>2, FS_RemoveElement
    <3> QED
      BY <1>2, <2>1, <3>1
  <2>5. ASSUME NEW x \in more \ {m}, NEW j \in T \ (more \ {m}) PROVE <<x, j>> \in NoWorse(hits)
    <3>1. Orders(NoWorse(hits), DOMAIN hits) /\ x \in DOMAIN hits /\ j \in DOMAIN hits
      BY <1>1, NoWorseOrders
    <3>2. CASE j = m
      BY <2>2, <3>2
    <3>3. CASE j # m
      <4>1. j \in S \ heap
        BY <3>3
      <4>2. CASE x \in heap
        BY <1>1, <4>1, <4>2
      <4>3. CASE x = i
        <5>1. m \in heap /\ m \in DOMAIN hits
          BY <1>1, <4>3
        <5>2. <<x, m>> \in NoWorse(hits) /\ <<m, j>> \in NoWorse(hits)
          BY <1>1, <2>2, <4>1, <5>1
        <5> QED
          BY <3>1, <5>1, <5>2 DEF Orders
      <4> QED
        BY <4>2, <4>3
    <3> QED
      BY <3>2, <3>3
  <2>6. more \ {m} \subseteq T
    BY <1>1
  <2> HIDE DEF more, T
  <2> QED
    BY <1>2, <2>1, <2>3, <2>4, <2>5, <2>6 DEF IsTop, T
<1> QED
  BY <1>3, <1>4

\* The top of a part and of the rest of a set is the top of the set.
LEMMA JoinTops ==
  ASSUME NEW hits \in Hits, NEW U \in SUBSET DOMAIN hits, NEW C \in SUBSET DOMAIN hits,
         U \cap C = {}, NEW k \in Nat, NEW local, NEW heap,
         IsTop(hits, C, local, k), IsTop(hits, U \cup local, heap, k), IsFiniteSet(U)
  PROVE  IsTop(hits, U \cup C, heap, k)
<1>1. /\ IsFiniteSet(C) /\ local \subseteq C /\ IsFiniteSet(local)
      /\ heap \subseteq U \cup local /\ IsFiniteSet(heap)
  BY FS_Subset DEF IsTop
<1>2. /\ Cardinality(local) = IF Cardinality(C) < k THEN Cardinality(C) ELSE k
      /\ \A x \in local, j \in C \ local : <<x, j>> \in NoWorse(hits)
      /\ Cardinality(heap) = IF Cardinality(U \cup local) < k THEN Cardinality(U \cup local) ELSE k
      /\ \A x \in heap, j \in (U \cup local) \ heap : <<x, j>> \in NoWorse(hits)
  BY DEF IsTop
<1>3. /\ IsFiniteSet(U \cup C) /\ Cardinality(U \cup C) = Cardinality(U) + Cardinality(C)
      /\ Cardinality(U \cup local) = Cardinality(U) + Cardinality(local)
      /\ Cardinality(U) \in Nat /\ Cardinality(C) \in Nat /\ Cardinality(local) \in Nat
  <2>1. U \cap local = {}
    BY <1>1
  <2>2. /\ Cardinality(U) \in Nat /\ Cardinality(C) \in Nat /\ Cardinality(local) \in Nat
    BY <1>1, FS_CardinalityType
  <2>3. IsFiniteSet(U \cup C) /\ Cardinality(U \cup C) = Cardinality(U) + Cardinality(C)
    <3>1. /\ IsFiniteSet(U \cup C)
          /\ Cardinality(U \cup C) = Cardinality(U) + Cardinality(C) - Cardinality(U \cap C)
      BY <1>1, FS_Union, Zenon
    <3>2. Cardinality(U \cap C) = 0
      BY FS_EmptySet
    <3> QED
      BY <2>2, <3>1, <3>2
  <2>4. Cardinality(U \cup local) = Cardinality(U) + Cardinality(local)
    <3>1. Cardinality(U \cup local)
            = Cardinality(U) + Cardinality(local) - Cardinality(U \cap local)
      BY <1>1, FS_Union, Zenon
    <3>2. Cardinality(U \cap local) = 0
      BY <2>1, FS_EmptySet
    <3> QED
      BY <2>2, <3>1, <3>2
  <2> QED
    BY <2>2, <2>3, <2>4
<1>4. Cardinality(heap) = IF Cardinality(U \cup C) < k THEN Cardinality(U \cup C) ELSE k
  <2> DEFINE u == Cardinality(U)
             c == Cardinality(C)
             l == Cardinality(local)
  <2>1. u \in Nat /\ c \in Nat /\ l = IF c < k THEN c ELSE k
    BY <1>2, <1>3
  <2>2. Cardinality(heap) = IF u + l < k THEN u + l ELSE k
    BY <1>2, <1>3
  <2>3. Cardinality(U \cup C) = u + c
    BY <1>3
  <2> HIDE DEF u, c, l
  <2> QED
    BY <2>1, <2>2, <2>3
<1>5. ASSUME NEW x \in heap, NEW j \in (U \cup C) \ heap PROVE <<x, j>> \in NoWorse(hits)
  <2>1. CASE j \in U \cup local
    BY <1>2, <2>1
  <2>2. CASE j \in C \ local
    <3>1. PICK y \in local : <<x, y>> \in NoWorse(hits) \/ x = y
      <4>1. CASE local \subseteq heap
        <5>1. Cardinality(local) = k
          <6>1. Cardinality(local) # Cardinality(C)
            BY <1>1, <2>2, FS_Subset
          <6> QED
            BY <1>2, <6>1
        <5>2. Cardinality(local) = Cardinality(heap)
          <6>1. Cardinality(local) <= Cardinality(heap)
            BY <1>1, <4>1, FS_Subset
          <6>2. Cardinality(heap) <= k
            BY <1>2, <1>3
          <6>3. Cardinality(heap) \in Nat
            BY <1>1, FS_CardinalityType
          <6> QED
            BY <1>3, <5>1, <6>1, <6>2, <6>3
        <5>3. local = heap
          BY <1>1, <4>1, <5>2, FS_Subset
        <5> QED
          BY <5>3
      <4>2. CASE ~ (local \subseteq heap)
        BY <1>2, <4>2
      <4> QED
        BY <4>1, <4>2
    <3>2. <<y, j>> \in NoWorse(hits)
      BY <1>2, <2>2
    <3>3. Orders(NoWorse(hits), DOMAIN hits)
      BY NoWorseOrders
    <3>4. x \in DOMAIN hits /\ y \in DOMAIN hits /\ j \in DOMAIN hits
      BY <1>1, <2>2
    <3> QED
      BY <3>1, <3>2, <3>3, <3>4 DEF Orders
  <2> QED
    BY <2>1, <2>2
<1>6. heap \subseteq U \cup C
  BY <1>1
<1> QED
  BY <1>3, <1>4, <1>5, <1>6 DEF IsTop

\* The element that a fold over a set takes last.
AnyOf(T) == CHOOSE x \in T : TRUE

\* What PushAll computes from each part of its places.
Pushes(g, hits, S, heap, k) ==
  /\ g[{}] = heap
  /\ \A T \in SUBSET S :
       T # {} => /\ AnyOf(T) \in T
                 /\ g[T] = Push(hits, g[T \ {AnyOf(T)}], AnyOf(T), k)
  /\ PushAll(hits, S, heap, k) = g[S]

\* PushAll, place by place.
LEMMA PushAllSteps ==
  ASSUME NEW hits, NEW S \in SUBSET DOMAIN hits, IsFiniteSet(S),
         NEW heap \in SUBSET DOMAIN hits, NEW k
  PROVE  \E g : Pushes(g, hits, S, heap, k)
<1> DEFINE V == SUBSET DOMAIN hits
           step == [i \in S |-> [h \in V |-> Push(hits, h, i, k)]]
           pick == [T \in SUBSET S |-> AnyOf(T)]
<1>1. \A T \in SUBSET S : T # {} => AnyOf(T) \in T
  BY DEF AnyOf
<1>2. Picks(pick, S)
  BY <1>1 DEF Picks
<1>3. step \in [S -> [V -> V]]
  <2>1. \A i \in S, h \in V : Push(hits, h, i, k) \in V
    BY DEF Push, Evict
  <2> HIDE DEF V
  <2> QED
    BY <2>1
<1>4. PICK f : IsFold(f, S, pick, V, heap, step)
  <2>1. heap \in V
    OBVIOUS
  <2> HIDE DEF V, step, pick
  <2> QED
    BY <1>2, <1>3, <2>1, FoldExists
<1>5. \A T \in SUBSET S : f[T] = IF T = {} THEN heap
                                 ELSE Push(hits, f[T \ {AnyOf(T)}], AnyOf(T), k)
  <2> SUFFICES ASSUME NEW T \in SUBSET S
               PROVE  f[T] = IF T = {} THEN heap
                             ELSE Push(hits, f[T \ {AnyOf(T)}], AnyOf(T), k)
    OBVIOUS
  <2>1. CASE T = {}
    BY <1>4, <2>1 DEF IsFold
  <2>2. CASE T # {}
    <3>1. AnyOf(T) \in S /\ pick[T] = AnyOf(T) /\ f[T \ {AnyOf(T)}] \in V
      <4>1. AnyOf(T) \in S /\ pick[T] = AnyOf(T) /\ T \ {AnyOf(T)} \in SUBSET S
        BY <1>1, <2>2
      <4>2. f \in [SUBSET S -> V]
        BY <1>4 DEF IsFold
      <4> HIDE DEF V
      <4> QED
        BY <4>1, <4>2
    <3>2. f[T] = step[AnyOf(T)][f[T \ {AnyOf(T)}]]
      <4> HIDE DEF V, step, pick
      <4> QED
        BY <1>4, <2>2, <3>1 DEF IsFold
    <3> HIDE DEF V
    <3> QED
      BY <2>2, <3>1, <3>2
  <2> QED
    BY <2>1, <2>2
<1>6. f = [T \in SUBSET S |-> IF T = {} THEN heap
             ELSE Push(hits, f[T \ {CHOOSE x \in T : TRUE}], CHOOSE x \in T : TRUE, k)]
  <2>1. f = [T \in SUBSET S |-> f[T]]
    BY <1>4 DEF IsFold
  <2> QED
    BY <1>5, <2>1 DEF AnyOf
<1>7. PICK g : /\ g = [T \in SUBSET S |-> IF T = {} THEN heap
                         ELSE Push(hits, g[T \ {CHOOSE x \in T : TRUE}], CHOOSE x \in T : TRUE, k)]
               /\ PushAll(hits, S, heap, k) = g[S]
  BY <1>6, ZenonT(60) DEF PushAll, FoldSet, MapThenFoldSet
<1>8. \A T \in SUBSET S : g[T] = IF T = {} THEN heap
                                 ELSE Push(hits, g[T \ {AnyOf(T)}], AnyOf(T), k)
  BY <1>7 DEF AnyOf
<1> QED
  BY <1>1, <1>7, <1>8 DEF Pushes

\* A heap has places of hits.
LEMMA PushAllType ==
  ASSUME NEW hits, NEW S \in SUBSET DOMAIN hits, IsFiniteSet(S),
         NEW heap \in SUBSET DOMAIN hits, NEW k
  PROVE  PushAll(hits, S, heap, k) \in SUBSET DOMAIN hits
<1>0. PICK g : Pushes(g, hits, S, heap, k)
  BY PushAllSteps
<1>1. /\ g[{}] = heap
      /\ \A T \in SUBSET S :
           T # {} => /\ AnyOf(T) \in T
                     /\ g[T] = Push(hits, g[T \ {AnyOf(T)}], AnyOf(T), k)
      /\ PushAll(hits, S, heap, k) = g[S]
  BY <1>0 DEF Pushes
<1> DEFINE P == {T \in SUBSET S : g[T] \subseteq DOMAIN hits}
<1>2. {} \in P
  BY <1>1
<1>3. ASSUME NEW T \in SUBSET S, T # {} PROVE \E x \in T : T \ {x} \in P => T \in P
  <2>1. AnyOf(T) \in T
    BY <1>1, <1>3
  <2> SUFFICES ASSUME T \ {AnyOf(T)} \in P PROVE T \in P
    BY <2>1
  <2>2. g[T] = Push(hits, g[T \ {AnyOf(T)}], AnyOf(T), k)
    BY <1>1, <1>3
  <2> QED
    BY <2>1, <2>2 DEF Push, Evict
<1>4. SUBSET S \subseteq P
  <2> HIDE DEF P
  <2> QED
    BY <1>2, <1>3, SubsetInduction
<1>5. S \in P
  BY <1>4
<1> QED
  BY <1>1, <1>5

\* Places pushed one after the other leave the top of them all.
LEMMA PushAllTop ==
  ASSUME NEW hits \in Hits, NEW U \in SUBSET DOMAIN hits, NEW S \in SUBSET DOMAIN hits,
         U \cap S = {}, IsFiniteSet(S), NEW heap, NEW k \in Nat, IsTop(hits, U, heap, k)
  PROVE  IsTop(hits, U \cup S, PushAll(hits, S, heap, k), k)
<1>0. heap \in SUBSET DOMAIN hits
  BY DEF IsTop
<1>10. PICK g : Pushes(g, hits, S, heap, k)
  BY <1>0, PushAllSteps
<1>1. /\ g[{}] = heap
      /\ \A T \in SUBSET S :
           T # {} => /\ AnyOf(T) \in T
                     /\ g[T] = Push(hits, g[T \ {AnyOf(T)}], AnyOf(T), k)
      /\ PushAll(hits, S, heap, k) = g[S]
  BY <1>10 DEF Pushes
<1> DEFINE P == {T \in SUBSET S : IsTop(hits, U \cup T, g[T], k)}
<1>2. {} \in P
  <2>1. U \cup {} = U
    OBVIOUS
  <2> QED
    BY <1>1, <2>1
<1>3. ASSUME NEW T \in SUBSET S, T # {} PROVE \E x \in T : T \ {x} \in P => T \in P
  <2> DEFINE x == AnyOf(T)
             R == U \cup (T \ {x})
  <2>1. x \in T /\ g[T] = Push(hits, g[T \ {x}], x, k)
    BY <1>1, <1>3
  <2> HIDE DEF x
  <2> SUFFICES ASSUME T \ {x} \in P PROVE T \in P
    BY <2>1
  <2>2. IsTop(hits, R, g[T \ {x}], k)
    OBVIOUS
  <2>3. R \in SUBSET DOMAIN hits /\ x \in DOMAIN hits /\ x \notin R /\ R \cup {x} = U \cup T
    BY <2>1
  <2> HIDE DEF R
  <2>4. IsTop(hits, R \cup {x}, Push(hits, g[T \ {x}], x, k), k)
    BY <2>2, <2>3, PushTop
  <2> QED
    BY <2>1, <2>3, <2>4
<1>4. SUBSET S \subseteq P
  <2> HIDE DEF P
  <2> QED
    BY <1>2, <1>3, SubsetInduction
<1>5. S \in P
  BY <1>4
<1> QED
  BY <1>1, <1>5

\* The chunks are a partition of the places.
LEMMA ChunksPart ==
  ASSUME NEW n \in Nat
  PROVE  /\ n \div ChunkRows \in Nat
         /\ \A c : Chunk(c, n) \subseteq 1 .. n /\ IsFiniteSet(Chunk(c, n))
         /\ \A c, d : c # d => Chunk(c, n) \cap Chunk(d, n) = {}
         /\ \A i \in 1 .. n : \E c \in 0 .. (n \div ChunkRows) : i \in Chunk(c, n)
<1>1. ChunkRows \in Nat \ {0}
  BY VectorAssumption
<1>2. ASSUME NEW a \in Nat, NEW b \in Nat, a <= b
      PROVE  a \div ChunkRows \in Nat /\ a \div ChunkRows <= b \div ChunkRows
  BY <1>1, <1>2
<1>3. n \div ChunkRows \in Nat
  BY <1>1
<1>4. ASSUME NEW c PROVE Chunk(c, n) \subseteq 1 .. n /\ IsFiniteSet(Chunk(c, n))
  <2>1. Chunk(c, n) \subseteq 1 .. n
    BY DEF Chunk
  <2>2. IsFiniteSet(1 .. n)
    <3>1. 1 \in Int /\ n \in Int
      OBVIOUS
    <3> QED
      BY <3>1, FS_Interval
  <2> QED
    BY <2>1, <2>2, FS_Subset
<1>5. ASSUME NEW c, NEW d, c # d PROVE Chunk(c, n) \cap Chunk(d, n) = {}
  BY <1>5 DEF Chunk
<1>6. ASSUME NEW i \in 1 .. n PROVE \E c \in 0 .. (n \div ChunkRows) : i \in Chunk(c, n)
  <2> DEFINE c == (i - 1) \div ChunkRows
             last == n \div ChunkRows
  <2>1. c \in Nat /\ c <= last
    <3>1. i - 1 \in Nat /\ i - 1 <= n
      OBVIOUS
    <3> QED
      BY <1>2, <3>1
  <2>2. i \in Chunk(c, n)
    BY DEF Chunk
  <2>3. last \in Nat
    BY <1>3
  <2> HIDE DEF c, last
  <2>4. c \in 0 .. last
    BY <2>1, <2>3
  <2> QED
    BY <2>2, <2>4 DEF last
<1> QED
  BY <1>3, <1>4, <1>5, <1>6

\* A task's heap, and what MergeChunks computes from each set of chunks.
TaskHeap(hits, c, k) == PushAll(hits, Chunk(c, Len(hits)), {}, k)
Merges(g, hits, C, k) ==
  /\ g[{}] = {}
  /\ \A T \in SUBSET C :
       T # {} => /\ AnyOf(T) \in T
                 /\ g[T] = PushAll(hits, TaskHeap(hits, AnyOf(T), k), g[T \ {AnyOf(T)}], k)
  /\ MergeChunks(hits, k) = g[C]

\* MergeChunks, chunk by chunk.
LEMMA MergeSteps ==
  ASSUME NEW hits \in Hits, NEW k
  PROVE  \E g : Merges(g, hits, 0 .. (Len(hits) \div ChunkRows), k)
<1> DEFINE n == Len(hits)
           S == 0 .. (n \div ChunkRows)
           V == SUBSET DOMAIN hits
           step == [c \in S |-> [h \in V |-> PushAll(hits, TaskHeap(hits, c, k), h, k)]]
           pick == [T \in SUBSET S |-> AnyOf(T)]
           none == {}
<1>0. n \in Nat /\ DOMAIN hits = 1 .. n /\ none \in V
  BY DEF Hits
<1>1. \A T \in SUBSET S : T # {} => AnyOf(T) \in T
  BY DEF AnyOf
<1>2. Picks(pick, S)
  BY <1>1 DEF Picks
<1>3. step \in [S -> [V -> V]]
  <2>1. \A c \in S : TaskHeap(hits, c, k) \in V
    <3> SUFFICES ASSUME NEW c \in S PROVE TaskHeap(hits, c, k) \in V
      OBVIOUS
    <3>1. Chunk(c, n) \in SUBSET DOMAIN hits /\ IsFiniteSet(Chunk(c, n))
      BY <1>0, ChunksPart
    <3>2. {} \in SUBSET DOMAIN hits
      OBVIOUS
    <3> QED
      BY <3>1, <3>2, PushAllType DEF TaskHeap
  <2>2. IsFiniteSet(DOMAIN hits)
    <3>1. 1 \in Int /\ n \in Int
      BY <1>0
    <3> QED
      BY <1>0, <3>1, FS_Interval
  <2>3. \A c \in S, h \in V : PushAll(hits, TaskHeap(hits, c, k), h, k) \in V
    <3>1. \A c \in S : IsFiniteSet(TaskHeap(hits, c, k))
      BY <2>1, <2>2, FS_Subset
    <3> HIDE DEF S
    <3> QED
      BY <2>1, <3>1, PushAllType
  <2> HIDE DEF V, S
  <2> QED
    BY <2>3
<1>4. PICK f : IsFold(f, S, pick, V, none, step)
  <2>1. IsFiniteSet(S)
    <3>1. 0 \in Int /\ n \div ChunkRows \in Int
      BY <1>0, ChunksPart
    <3> QED
      BY <3>1, FS_Interval
  <2> HIDE DEF V, S, step, pick, none
  <2> QED
    BY <1>0, <1>2, <1>3, <2>1, FoldExists
<1>5. \A T \in SUBSET S : f[T] = IF T = {} THEN none
                                 ELSE PushAll(hits, TaskHeap(hits, AnyOf(T), k),
                                              f[T \ {AnyOf(T)}], k)
  <2> SUFFICES ASSUME NEW T \in SUBSET S
               PROVE  f[T] = IF T = {} THEN none
                             ELSE PushAll(hits, TaskHeap(hits, AnyOf(T), k),
                                          f[T \ {AnyOf(T)}], k)
    OBVIOUS
  <2> HIDE DEF S
  <2>1. CASE T = {}
    BY <1>4, <2>1 DEF IsFold
  <2>2. CASE T # {}
    <3>1. AnyOf(T) \in S /\ pick[T] = AnyOf(T) /\ f[T \ {AnyOf(T)}] \in V
      <4>1. AnyOf(T) \in S /\ pick[T] = AnyOf(T) /\ T \ {AnyOf(T)} \in SUBSET S
        BY <1>1, <2>2
      <4>2. f \in [SUBSET S -> V]
        BY <1>4 DEF IsFold
      <4> HIDE DEF V
      <4> QED
        BY <4>1, <4>2
    <3>2. f[T] = step[AnyOf(T)][f[T \ {AnyOf(T)}]]
      <4> HIDE DEF V, step, pick
      <4> QED
        BY <1>4, <2>2, <3>1 DEF IsFold
    <3> HIDE DEF V
    <3> QED
      BY <2>2, <3>1, <3>2
  <2> QED
    BY <2>1, <2>2
<1>6. f = [T \in SUBSET S |-> IF T = {} THEN {}
             ELSE PushAll(hits, PushAll(hits, Chunk(CHOOSE x \in T : TRUE, Len(hits)), {}, k),
                          f[T \ {CHOOSE x \in T : TRUE}], k)]
  <2>1. f = [T \in SUBSET S |-> f[T]]
    BY <1>4 DEF IsFold
  <2> HIDE DEF S
  <2> QED
    BY <1>5, <2>1 DEF AnyOf, TaskHeap
<1>7. PICK g : /\ g = [T \in SUBSET S |-> IF T = {} THEN {}
                         ELSE PushAll(hits,
                                PushAll(hits, Chunk(CHOOSE x \in T : TRUE, Len(hits)), {}, k),
                                g[T \ {CHOOSE x \in T : TRUE}], k)]
               /\ MergeChunks(hits, k) = g[S]
  BY <1>6, ZenonT(150) DEF MergeChunks, FoldSet, MapThenFoldSet
<1>8. \A T \in SUBSET S : g[T] = IF T = {} THEN {}
                                 ELSE PushAll(hits, TaskHeap(hits, AnyOf(T), k),
                                              g[T \ {AnyOf(T)}], k)
  <2> HIDE DEF S
  <2> QED
    BY <1>7 DEF AnyOf, TaskHeap
<1>9. Merges(g, hits, S, k)
  <2> HIDE DEF S
  <2> QED
    BY <1>1, <1>7, <1>8 DEF Merges
<1> QED
  BY <1>9

\* The heap of all has the top of all.
LEMMA MergeTop ==
  ASSUME NEW hits \in Hits, NEW k \in Nat
  PROVE  IsTop(hits, DOMAIN hits, MergeChunks(hits, k), k)
<1> DEFINE n == Len(hits)
           C == 0 .. (n \div ChunkRows)
           Of(T) == UNION {Chunk(c, n) : c \in T}
<1>1. n \in Nat /\ DOMAIN hits = 1 .. n
  BY DEF Hits
<1>2. PICK g : Merges(g, hits, C, k)
  BY MergeSteps
<1>3. /\ g[{}] = {}
      /\ \A T \in SUBSET C :
           T # {} => /\ AnyOf(T) \in T
                     /\ g[T] = PushAll(hits, TaskHeap(hits, AnyOf(T), k), g[T \ {AnyOf(T)}], k)
      /\ MergeChunks(hits, k) = g[C]
  <2> HIDE DEF C
  <2> QED
    BY <1>2 DEF Merges
<1>4. IsTop(hits, {}, {}, k)
  BY FS_EmptySet DEF IsTop
<1>5. ASSUME NEW c PROVE IsTop(hits, Chunk(c, n), TaskHeap(hits, c, k), k)
  <2>1. Chunk(c, n) \in SUBSET DOMAIN hits /\ IsFiniteSet(Chunk(c, n))
    BY <1>1, ChunksPart
  <2>2. {} \in SUBSET DOMAIN hits /\ {} \cap Chunk(c, n) = {} /\ {} \cup Chunk(c, n) = Chunk(c, n)
    OBVIOUS
  <2>3. IsTop(hits, {} \cup Chunk(c, n), PushAll(hits, Chunk(c, n), {}, k), k)
    BY <1>4, <2>1, <2>2, PushAllTop
  <2> QED
    BY <2>2, <2>3 DEF TaskHeap
<1>6. IsFiniteSet(C)
  <2>1. 0 \in Int /\ n \div ChunkRows \in Int
    BY <1>1, ChunksPart
  <2> QED
    BY <2>1, FS_Interval
<1> DEFINE P == {T \in SUBSET C : IsTop(hits, Of(T), g[T], k)}
<1>7. {} \in P
  <2>1. Of({}) = {}
    OBVIOUS
  <2> HIDE DEF Of
  <2> QED
    BY <1>3, <1>4, <2>1
<1>8. ASSUME NEW T \in SUBSET C, T # {} PROVE \E c \in T : T \ {c} \in P => T \in P
  <2> DEFINE c == AnyOf(T)
             U == Of(T \ {c})
             local == TaskHeap(hits, c, k)
             K == Chunk(c, n)
  <2>1. c \in T /\ g[T] = PushAll(hits, local, g[T \ {c}], k)
    <3> HIDE DEF C
    <3> QED
      BY <1>3, <1>8
  <2>2. /\ U \in SUBSET DOMAIN hits /\ K \in SUBSET DOMAIN hits
        /\ U \cap K = {} /\ U \cup K = Of(T)
    <3>1. \A d : Chunk(d, n) \subseteq 1 .. n
      BY <1>1, ChunksPart
    <3>2. \A d : d # c => Chunk(d, n) \cap K = {}
      BY <1>1, ChunksPart
    <3> HIDE DEF c
    <3> QED
      BY <1>1, <2>1, <3>1, <3>2
  <2> SUFFICES ASSUME T \ {c} \in P PROVE T \in P
    BY <2>1
  <2>3. IsTop(hits, U, g[T \ {c}], k) /\ IsTop(hits, K, local, k)
    BY <1>5
  <2> HIDE DEF c, U, local, K, Of
  <2>4. IsFiniteSet(U) /\ IsFiniteSet(K) /\ local \subseteq K
    BY <2>3 DEF IsTop
  <2>5. IsFiniteSet(local) /\ local \in SUBSET DOMAIN hits /\ U \cap local = {}
    BY <2>2, <2>4, FS_Subset
  <2>6. IsTop(hits, U \cup local, g[T], k)
    BY <2>1, <2>2, <2>3, <2>5, PushAllTop
  <2>7. IsTop(hits, U \cup K, g[T], k)
    BY <2>2, <2>3, <2>4, <2>6, JoinTops
  <2> QED
    BY <2>2, <2>7
<1>9. SUBSET C \subseteq P
  <2> HIDE DEF C, P
  <2> QED
    BY <1>6, <1>7, <1>8, SubsetInduction
<1>10. C \in P
  BY <1>9
<1>11. Of(C) = DOMAIN hits
  <2>1. \A c : Chunk(c, n) \subseteq 1 .. n
    BY <1>1, ChunksPart
  <2>2. \A i \in 1 .. n : \E c \in C : i \in Chunk(c, n)
    BY <1>1, ChunksPart
  <2> HIDE DEF C
  <2> QED
    BY <1>1, <2>1, <2>2
<1> QED
  BY <1>3, <1>10, <1>11

----------------------------------------------------------------------------
(* search *)

\* The heap can be put in order, in one way.
LEMMA SortedTop ==
  ASSUME NEW hits \in Hits, NEW heap \in SUBSET DOMAIN hits, IsFiniteSet(heap)
  PROVE  LET s == Sorted(hits, heap)
         IN  /\ s \in [1 .. Cardinality(heap) -> heap]
             /\ \A m, n \in 1 .. Cardinality(heap) :
                  m < n => hits[s[m]].score >= hits[s[n]].score /\ s[m] # s[n]
<1> DEFINE size == Cardinality(heap)
           Earlier(i, j) == \/ Before(hits[i], hits[j])
                            \/ hits[i] = hits[j] /\ i < j
           R == {p \in heap \X heap : Earlier(p[1], p[2]) \/ p[1] = p[2]}
           Rising(s) == \A m, n \in DOMAIN s : m < n => Earlier(s[m], s[n])
<1>1. \A i \in heap : i \in Nat /\ hits[i].score \in Int /\ hits[i].key \in Int
  <2>1. \A i \in DOMAIN hits : i \in Nat /\ hits[i] \in Hit
    BY DEF Hits
  <2> QED
    BY <2>1 DEF Hit
<1>2. ASSUME NEW i \in heap, NEW j \in heap PROVE <<i, j>> \in R <=> Earlier(i, j) \/ i = j
  <2> DEFINE p == <<i, j>>
  <2>1. p \in heap \X heap /\ p[1] = i /\ p[2] = j
    OBVIOUS
  <2> HIDE DEF p, Earlier
  <2>2. p \in R <=> Earlier(p[1], p[2]) \/ p[1] = p[2]
    BY <2>1
  <2> QED
    BY <2>1, <2>2 DEF p
<1>3. ASSUME NEW i \in heap, NEW j \in heap PROVE Earlier(i, j) \/ Earlier(j, i) \/ i = j
  <2>1. CASE hits[i].score = hits[j].score /\ hits[i].key = hits[j].key
    <3>1. hits[i] = hits[j]
      <4>1. hits[i] \in Hit /\ hits[j] \in Hit
        BY DEF Hits
      <4> QED
        BY <2>1, <4>1 DEF Hit
    <3> QED
      BY <1>1, <3>1
  <2>2. CASE ~ (hits[i].score = hits[j].score /\ hits[i].key = hits[j].key)
    BY <1>1, <2>2 DEF Before
  <2> QED
    BY <2>1, <2>2
<1>4. ASSUME NEW i \in heap, NEW j \in heap, NEW l \in heap, Earlier(i, j), Earlier(j, l)
      PROVE  Earlier(i, l)
  <2>1. CASE hits[i] = hits[j] /\ hits[j] = hits[l]
    <3>1. ~ Before(hits[i], hits[j]) /\ ~ Before(hits[j], hits[l])
      BY <1>1, <2>1 DEF Before
    <3> QED
      BY <1>1, <1>4, <2>1, <3>1
  <2>2. CASE ~ (hits[i] = hits[j] /\ hits[j] = hits[l])
    <3>1. Before(hits[i], hits[l])
      BY <1>1, <1>4, <2>2 DEF Before
    <3> QED
      BY <3>1
  <2> QED
    BY <2>1, <2>2
<1>5. ASSUME NEW i \in heap, NEW j \in heap, Earlier(i, j)
      PROVE  hits[i].score >= hits[j].score /\ i # j
  BY <1>1, <1>5 DEF Before
<1> HIDE DEF Earlier
<1>6. Orders(R, heap)
  <2> HIDE DEF R
  <2> QED
    BY <1>2, <1>3, <1>4 DEF Orders
<1>7. PICK s \in [1 .. size -> heap] :
        \A m, n \in 1 .. size : m < n => s[m] # s[n] /\ <<s[m], s[n]>> \in R
  <2> HIDE DEF R
  <2> QED
    BY <1>6, EnumerationExists
<1>8. Rising(s)
  <2> HIDE DEF R, size
  <2>1. DOMAIN s = 1 .. size /\ \A m \in 1 .. size : s[m] \in heap
    BY <1>7
  <2>2. ASSUME NEW m \in 1 .. size, NEW n \in 1 .. size, m < n PROVE Earlier(s[m], s[n])
    <3>1. s[m] # s[n] /\ <<s[m], s[n]>> \in R
      BY <1>7, <2>2
    <3> QED
      BY <1>2, <2>1, <3>1
  <2> QED
    BY <2>1, <2>2
<1> DEFINE t == CHOOSE t \in [1 .. size -> heap] : Rising(t)
<1>9. t \in [1 .. size -> heap] /\ Rising(t)
  <2> HIDE DEF Rising
  <2> QED
    BY <1>8
<1>10. t = Sorted(hits, heap)
  BY DEF Sorted, Earlier
<1>11. \A m, n \in 1 .. size : m < n => hits[t[m]].score >= hits[t[n]].score /\ t[m] # t[n]
  <2> HIDE DEF t
  <2> QED
    BY <1>5, <1>9
<1> HIDE DEF t
<1> QED
  BY <1>9, <1>10, <1>11

\* The keys of the map that a search may return.
Searchable(i, allowed) ==
  {x \in Stored(i) : allowed # {} => \E keys \in allowed : x \in ToSet(keys)}

\* An allow-list of one search gives no key twice.
AllowedOnce == \A c \in Calls : c.op = "search" => \A keys \in c.allowed : Distinct(keys)

\* The rows of a search are those of its candidates, each once.
LEMMA RowsSound ==
  ASSUME NEW i \in Indexes, NEW allowed,
         \A keys \in allowed : keys \in Seq(Int) /\ allowed = {keys} /\ Distinct(keys)
  PROVE  /\ RowsOf(i, allowed) \in Seq(Nat) /\ Distinct(RowsOf(i, allowed))
         /\ ToSet(RowsOf(i, allowed)) = {i.pos[x] : x \in Searchable(i, allowed)}
<1>1. /\ Len(i.keys) \in Nat
      /\ \A n \in 1 .. Len(i.keys) : i.keys[n] \in Stored(i) /\ i.pos[i.keys[n]] = n
      /\ \A k \in Stored(i) : /\ i.pos[k] \in 1 .. Len(i.keys) /\ i.keys[i.pos[k]] = k
                              /\ i.pos[k] \in Nat
  BY SoundParts DEF Stored
<1>2. CASE allowed = {}
  <2> DEFINE all == [n \in 1 .. Len(i.keys) |-> n]
  <2>1. RowsOf(i, allowed) = all
    BY <1>2 DEF RowsOf
  <2>2. all \in Seq(Nat) /\ DOMAIN all = 1 .. Len(i.keys)
    BY <1>1
  <2>3. Distinct(all) /\ ToSet(all) = 1 .. Len(i.keys)
    <3>1. \A n \in DOMAIN all : all[n] = n
      OBVIOUS
    <3> HIDE DEF all
    <3> QED
      BY <2>2, <3>1 DEF Distinct, ToSet
  <2>4. Searchable(i, allowed) = Stored(i)
    BY <1>2 DEF Searchable
  <2>5. {i.pos[x] : x \in Stored(i)} = 1 .. Len(i.keys)
    BY <1>1
  <2> QED
    BY <2>1, <2>2, <2>3, <2>4, <2>5
<1>3. ASSUME NEW keys \in allowed
      PROVE  /\ RowsOf(i, allowed) \in Seq(Nat) /\ Distinct(RowsOf(i, allowed))
             /\ ToSet(RowsOf(i, allowed)) = {i.pos[x] : x \in Searchable(i, allowed)}
  <2>1. keys \in Seq(Int) /\ allowed = {keys} /\ Distinct(keys)
    BY <1>3
  <2>2. PICK h : /\ h[0] = <<>>
                 /\ \A n \in 1 .. Len(keys) :
                      h[n] = IF keys[n] \in Stored(i) THEN Append(h[n - 1], i.pos[keys[n]])
                             ELSE h[n - 1]
                 /\ RowsOf(i, {keys}) = h[Len(keys)]
    BY <2>1, RowsSteps
  <2> DEFINE Pos(n) == {i.pos[x] : x \in Stored(i) \cap {keys[m] : m \in 1 .. n}}
             P == {n \in Nat : /\ h[n] \in Seq(Nat) /\ Distinct(h[n])
                               /\ ToSet(h[n]) = Pos(n)}
  <2>3. Len(keys) \in Nat /\ DOMAIN keys = 1 .. Len(keys)
    BY <2>1
  <2>4. 0 \in P
    <3>1. <<>> \in Seq(Nat) /\ DOMAIN <<>> = {}
      OBVIOUS
    <3>2. Distinct(<<>>) /\ ToSet(<<>>) = {}
      BY <3>1 DEF Distinct, ToSet
    <3>3. Pos(0) = {}
      OBVIOUS
    <3> QED
      BY <2>2, <3>1, <3>2, <3>3
  <2>5. ASSUME NEW n \in 1 .. Len(keys), n - 1 \in P PROVE n \in P
    <3> DEFINE key == keys[n]
               G == {keys[m] : m \in 1 .. n - 1}
    <3>1. n \in Nat /\ n - 1 \in Nat /\ 1 .. n = (1 .. n - 1) \cup {n} /\ n \notin 1 .. n - 1
      BY <2>3
    <3>2. {keys[m] : m \in 1 .. n} = G \cup {key}
      BY <3>1, SMTT(30)
    <3>3. key \notin G
      BY <2>1, <2>3, <3>1 DEF Distinct
    <3>4. /\ h[n - 1] \in Seq(Nat) /\ Distinct(h[n - 1])
          /\ ToSet(h[n - 1]) = {i.pos[x] : x \in Stored(i) \cap G}
      BY <2>5
    <3>5. h[n] = IF key \in Stored(i) THEN Append(h[n - 1], i.pos[key]) ELSE h[n - 1]
      BY <2>2
    <3> SUFFICES /\ h[n] \in Seq(Nat) /\ Distinct(h[n])
                 /\ ToSet(h[n]) = {i.pos[x] : x \in Stored(i) \cap (G \cup {key})}
      BY <3>1, <3>2
    <3> HIDE DEF key, G
    <3>6. CASE key \in Stored(i)
      <4> DEFINE r == i.pos[key]
                 s == h[n - 1]
      <4>1. r \in Nat /\ s \in Seq(Nat)
        BY <1>1, <3>4, <3>6
      <4>2. r \notin ToSet(s)
        <5>1. \A x \in Stored(i) \cap G : i.pos[x] # r
          BY <1>1, <3>3, <3>6
        <5> QED
          BY <3>4, <5>1
      <4>3. {i.pos[x] : x \in Stored(i) \cap (G \cup {key})} = ToSet(s) \cup {r}
        BY <3>4, <3>6
      <4>4. Distinct(s) /\ h[n] = Append(s, r)
        BY <3>4, <3>5, <3>6
      <4> HIDE DEF r, s
      <4>5. /\ Append(s, r) \in Seq(Nat) /\ ToSet(Append(s, r)) = ToSet(s) \cup {r}
            /\ Distinct(Append(s, r))
        BY <4>1, <4>2, <4>4, DistinctAppend
      <4> QED
        BY <4>3, <4>4, <4>5
    <3>7. CASE key \notin Stored(i)
      <4>1. Stored(i) \cap (G \cup {key}) = Stored(i) \cap G
        BY <3>7
      <4> QED
        BY <3>4, <3>5, <3>7, <4>1
    <3> QED
      BY <3>6, <3>7
  <2>6. Len(keys) \in P
    <3> HIDE DEF P
    <3> QED
      BY <2>3, <2>4, <2>5, PrefixInduction
  <2>7. Searchable(i, allowed) = Stored(i) \cap {keys[m] : m \in 1 .. Len(keys)}
    BY <2>1, <2>3 DEF Searchable, ToSet
  <2> QED
    BY <2>1, <2>2, <2>6, <2>7
<1> QED
  BY <1>2, <1>3

\* What a row says of a hit.
HitAt(i, r) == [key |-> i.keys[r], score |-> i.rows[r]]

\* The row of a key is a hit.
LEMMA HitType ==
  ASSUME NEW i, NEW r
  PROVE  /\ HitAt(i, r).key = i.keys[r] /\ HitAt(i, r).score = i.rows[r]
         /\ i.keys[r] \in Int /\ i.rows[r] \in Int => HitAt(i, r) \in Hit
  BY DEF HitAt, Hit

\* The hits of a search: one of each candidate, with its score.
LEMMA HitsSound ==
  ASSUME NEW i \in Indexes, NEW allowed,
         \A keys \in allowed : keys \in Seq(Int) /\ allowed = {keys} /\ Distinct(keys)
  PROVE  LET hits == HitsOf(i, RowsOf(i, allowed))
         IN  /\ hits \in Hits
             /\ \A a \in DOMAIN hits : hits[a].key \in Searchable(i, allowed)
                                       /\ hits[a].score = Content(i)[hits[a].key]
             /\ \A a, b \in DOMAIN hits : hits[a].key = hits[b].key => a = b
             /\ \A x \in Searchable(i, allowed) : \E a \in DOMAIN hits : hits[a].key = x
<1> DEFINE rows == RowsOf(i, allowed)
           hits == HitsOf(i, rows)
           C == Searchable(i, allowed)
<1>1. /\ Len(i.keys) \in Nat /\ Len(i.rows) = Len(i.keys)
      /\ i.keys \in Seq(Int) /\ i.rows \in Seq(Int)
      /\ \A k \in Stored(i) : i.pos[k] \in 1 .. Len(i.keys) /\ i.keys[i.pos[k]] = k
  BY SoundParts DEF Stored
<1>2. rows \in Seq(Nat) /\ Distinct(rows) /\ ToSet(rows) = {i.pos[x] : x \in C}
  BY RowsSound
<1>3. C \subseteq Stored(i)
  BY DEF Searchable
<1> HIDE DEF C
<1>4. DOMAIN rows = 1 .. Len(rows) /\ Len(rows) \in Nat
  BY <1>2
<1>5. /\ DOMAIN hits = 1 .. Len(rows)
      /\ \A a \in DOMAIN rows : hits[a] = HitAt(i, rows[a])
  BY <1>4 DEF HitsOf, HitAt
<1>11. hits = [a \in 1 .. Len(rows) |-> hits[a]]
  BY <1>4 DEF HitsOf
<1> HIDE DEF hits, rows
<1>6. ASSUME NEW a \in DOMAIN rows
      PROVE  \E x \in C : /\ rows[a] = i.pos[x] /\ hits[a].key = x
                          /\ hits[a].score = i.rows[i.pos[x]] /\ hits[a] \in Hit
  <2>1. PICK x \in C : rows[a] = i.pos[x]
    BY <1>2 DEF ToSet
  <2>2. i.pos[x] \in 1 .. Len(i.keys) /\ i.keys[i.pos[x]] = x /\ x \in Stored(i)
    BY <1>1, <1>3
  <2>3. i.keys[i.pos[x]] \in Int /\ i.rows[i.pos[x]] \in Int
    <3>1. \A s \in Seq(Int) : \A p \in 1 .. Len(s) : s[p] \in Int
      OBVIOUS
    <3> QED
      BY <1>1, <2>2, <3>1
  <2>4. hits[a].key = i.keys[rows[a]] /\ hits[a].score = i.rows[rows[a]]
    BY <1>5, HitType
  <2>5. hits[a] \in Hit
    BY <1>5, <2>1, <2>3, HitType
  <2> QED
    BY <2>1, <2>2, <2>4, <2>5
<1>7. hits \in Hits
  <2>1. \A a \in 1 .. Len(rows) : hits[a] \in Hit
    BY <1>4, <1>6
  <2> QED
    BY <1>4, <1>11, <2>1 DEF Hits
<1>8. \A a \in DOMAIN hits : hits[a].key \in C /\ hits[a].score = Content(i)[hits[a].key]
  <2> SUFFICES ASSUME NEW a \in DOMAIN rows
               PROVE  hits[a].key \in C /\ hits[a].score = Content(i)[hits[a].key]
    BY <1>4, <1>5
  <2>1. PICK x \in C : hits[a].key = x /\ hits[a].score = i.rows[i.pos[x]]
    BY <1>6
  <2> QED
    BY <1>3, <2>1 DEF Content
<1>9. \A a, b \in DOMAIN hits : hits[a].key = hits[b].key => a = b
  <2> SUFFICES ASSUME NEW a \in DOMAIN rows, NEW b \in DOMAIN rows, hits[a].key = hits[b].key
               PROVE  a = b
    BY <1>4, <1>5
  <2>1. rows[a] = rows[b]
    BY <1>6
  <2> QED
    BY <1>2, <2>1 DEF Distinct
<1>10. \A x \in C : \E a \in DOMAIN hits : hits[a].key = x
  <2> SUFFICES ASSUME NEW x \in C PROVE \E a \in DOMAIN hits : hits[a].key = x
    OBVIOUS
  <2>1. PICK a \in DOMAIN rows : rows[a] = i.pos[x]
    BY <1>2 DEF ToSet
  <2>2. hits[a].key = x
    BY <1>1, <1>3, <1>5, <2>1, HitType, SMTT(30)
  <2> QED
    BY <1>4, <1>5, <2>2
<1> QED
  BY <1>7, <1>8, <1>9, <1>10 DEF C, hits, rows

\* KeyedVectors counts and reads lists as PyIndex does.
LEMMA SameCardinality ==
  ASSUME NEW S
  PROVE  Abstract!Cardinality(S) = Cardinality(S)
BY DEF Abstract!Cardinality, Cardinality

\* The same of the keys of a list.
LEMMA SameToSet ==
  ASSUME NEW s
  PROVE  Abstract!ToSet(s) = ToSet(s)
BY DEF Abstract!ToSet, ToSet

\* A search returns the best of its candidates, best first: what KeyedVectors asks.
LEMMA SearchSound ==
  ASSUME index \in Indexes, NEW k \in Nat, NEW allowed,
         \A keys \in allowed : keys \in Seq(Int) /\ allowed = {keys} /\ Distinct(keys)
  PROVE  /\ Search(index, k, FALSE, allowed) \in Hits
         /\ Abstract!IsBest(Search(index, k, FALSE, allowed), k, allowed)
<1> DEFINE C == Searchable(index, allowed)
           hits == HitsOf(index, RowsOf(index, allowed))
           heap == MergeChunks(hits, k)
           size == Cardinality(heap)
           top == Sorted(hits, heap)
           best == [n \in DOMAIN top |-> hits[top[n]]]
           map == Content(index)
<1>1. /\ hits \in Hits
      /\ \A a \in DOMAIN hits : hits[a].key \in C /\ hits[a].score = map[hits[a].key]
      /\ \A a, b \in DOMAIN hits : hits[a].key = hits[b].key => a = b
      /\ \A x \in C : \E a \in DOMAIN hits : hits[a].key = x
  BY HitsSound
<1>2. Search(index, k, FALSE, allowed) = IF k = 0 THEN <<>> ELSE best
  BY DEF Search
<1>3. IsTop(hits, DOMAIN hits, heap, k)
  <2> HIDE DEF hits
  <2> QED
    BY <1>1, MergeTop
<1>4. /\ heap \in SUBSET DOMAIN hits /\ IsFiniteSet(heap) /\ IsFiniteSet(DOMAIN hits)
      /\ size = IF Cardinality(DOMAIN hits) < k THEN Cardinality(DOMAIN hits) ELSE k
      /\ \A a \in heap, b \in (DOMAIN hits) \ heap : ~ Worse(hits[a], hits[b])
  <2> HIDE DEF hits, heap
  <2> QED
    BY <1>3, NoWorseMeans, FS_Subset DEF IsTop
<1>5. /\ top \in [1 .. size -> heap]
      /\ \A m, n \in 1 .. size :
           m < n => hits[top[m]].score >= hits[top[n]].score /\ top[m] # top[n]
  <2> HIDE DEF hits, heap
  <2> QED
    BY <1>1, <1>4, SortedTop
<1>6. \A a \in DOMAIN hits : hits[a] \in Hit
  <2> HIDE DEF hits
  <2> QED
    BY <1>1 DEF Hits
<1>7. Cardinality(C) = Cardinality(DOMAIN hits) /\ IsFiniteSet(C) /\ Cardinality(C) \in Nat
  <2> DEFINE keyOf == [a \in DOMAIN hits |-> hits[a].key]
  <2>1. keyOf \in Bijection(DOMAIN hits, C)
    <3> HIDE DEF hits, C
    <3> QED
      BY <1>1 DEF Bijection, Injection, IsInjective, Surjection
  <2>2. ExistsBijection(DOMAIN hits, C)
    BY <2>1 DEF ExistsBijection
  <2> HIDE DEF hits, C, keyOf
  <2>3. IsFiniteSet(C) /\ Cardinality(C) = Cardinality(DOMAIN hits)
    <3> DEFINE D == DOMAIN hits
    <3>1. IsFiniteSet(D) /\ ExistsBijection(D, C)
      BY <1>4, <2>2
    <3> HIDE DEF D
    <3>2. IsFiniteSet(C) /\ Cardinality(D) = Cardinality(C)
      BY <3>1, FS_Bijection
    <3> QED
      BY <3>2 DEF D
  <2> QED
    BY <2>3, FS_CardinalityType
<1> HIDE DEF hits, heap, top, C
<1>8. size \in Nat
  BY <1>4, FS_CardinalityType
<1> HIDE DEF size
<1>9. DOMAIN best = 1 .. size /\ \A n \in 1 .. size : best[n] = hits[top[n]] /\ top[n] \in heap
  BY <1>5
<1>10. best \in Hits /\ Len(best) = size
  <2>1. \A n \in 1 .. size : best[n] \in Hit
    BY <1>4, <1>6, <1>9
  <2>2. best = [n \in 1 .. size |-> best[n]]
    BY <1>9
  <2> HIDE DEF best
  <2> DEFINE copy == [n \in 1 .. size |-> best[n]]
  <2>3. copy \in [1 .. size -> Hit]
    BY <2>1
  <2> HIDE DEF copy
  <2>4. copy \in Seq(Hit) /\ Len(copy) = size
    BY <1>8, <2>3
  <2> QED
    BY <2>2, <2>4 DEF Hits, copy
<1> DEFINE found == {best[n].key : n \in DOMAIN best}
<1>11. \A m, n \in 1 .. size : best[m].key = best[n].key => m = n
  <2> SUFFICES ASSUME NEW m \in 1 .. size, NEW n \in 1 .. size, best[m].key = best[n].key
               PROVE  m = n
    OBVIOUS
  <2>3. top[m] \in DOMAIN hits /\ top[n] \in DOMAIN hits
    BY <1>4, <1>9
  <2>4. hits[top[m]].key = hits[top[n]].key
    BY <1>9
  <2>1. top[m] = top[n]
    BY <1>1, <2>3, <2>4
  <2>2. ~ (m < n) /\ ~ (n < m)
    BY <1>5, <2>1
  <2> QED
    BY <1>8, <2>2
<1>12. Cardinality(found) = size
  <2> DEFINE keyOf == [n \in 1 .. size |-> best[n].key]
  <2>1. \A n \in 1 .. size : keyOf[n] = best[n].key
    OBVIOUS
  <2>2. DOMAIN keyOf = 1 .. size /\ found = {keyOf[n] : n \in 1 .. size}
    BY <1>9
  <2>3. IsFiniteSet(1 .. size) /\ Cardinality(1 .. size) = size
    <3>1. 1 \in Int /\ size \in Int
      BY <1>8
    <3>2. /\ IsFiniteSet(1 .. size)
          /\ Cardinality(1 .. size) = IF 1 > size THEN 0 ELSE size - 1 + 1
      BY <3>1, FS_Interval, Zenon
    <3> QED
      BY <1>8, <3>2
  <2>4. keyOf \in Bijection(1 .. size, found)
    <3> HIDE DEF found, best
    <3> QED
      BY <1>11, <2>1, <2>2 DEF Bijection, Injection, IsInjective, Surjection
  <2> HIDE DEF found, keyOf
  <2>5. ExistsBijection(1 .. size, found)
    BY <2>4 DEF ExistsBijection
  <2> DEFINE D == 1 .. size
  <2>6. IsFiniteSet(D) /\ ExistsBijection(D, found) /\ Cardinality(D) = size
    BY <2>3, <2>5
  <2> HIDE DEF D
  <2>7. Cardinality(D) = Cardinality(found)
    BY <2>6, FS_Bijection
  <2> QED
    BY <2>6, <2>7
<1>13. found \subseteq C
  <2> SUFFICES ASSUME NEW n \in 1 .. size PROVE best[n].key \in C
    BY <1>9
  <2>1. top[n] \in DOMAIN hits /\ best[n].key = hits[top[n]].key
    BY <1>4, <1>9
  <2> QED
    BY <1>1, <2>1
<1>14. \A n \in 1 .. size : best[n].score = map[best[n].key]
  BY <1>1, <1>4, <1>9
<1>15. \A m, n \in 1 .. size : m < n => best[m].score >= best[n].score
  BY <1>5, <1>9
<1>16. ASSUME NEW x \in C \ found, NEW n \in 1 .. size PROVE best[n].score >= map[x]
  <2>1. PICK b \in DOMAIN hits : hits[b].key = x /\ hits[b].score = map[x]
    BY <1>1
  <2>2. b \notin heap
    <3> SUFFICES ASSUME b \in heap PROVE FALSE
      OBVIOUS
    <3>1. top \in Surjection(1 .. size, heap)
      <4>1. top \in Injection(1 .. size, heap)
        <5>1. \A m, l \in 1 .. size : top[m] = top[l] => m = l
          <6> SUFFICES ASSUME NEW m \in 1 .. size, NEW l \in 1 .. size, top[m] = top[l]
                       PROVE  m = l
            OBVIOUS
          <6>1. ~ (m < l) /\ ~ (l < m)
            BY <1>5
          <6> QED
            BY <1>8, <6>1
        <5> QED
          BY <1>5, <5>1 DEF Injection, IsInjective
      <4>2. IsFiniteSet(1 .. size) /\ Cardinality(1 .. size) = Cardinality(heap)
        <5>1. 1 \in Int /\ size \in Int
          BY <1>8
        <5>2. /\ IsFiniteSet(1 .. size)
              /\ Cardinality(1 .. size) = IF 1 > size THEN 0 ELSE size - 1 + 1
          BY <5>1, FS_Interval, Zenon
        <5> QED
          BY <1>8, <5>2 DEF size
      <4> QED
        BY <1>4, <4>1, <4>2, FS_Injection
    <3>2. PICK m \in 1 .. size : top[m] = b
      BY <3>1 DEF Surjection
    <3> QED
      BY <1>9, <2>1, <3>2
  <2>3. ~ Worse(hits[top[n]], hits[b])
    BY <1>4, <1>9, <2>1, <2>2
  <2>4. hits[top[n]].score \in Int /\ hits[b].score \in Int
    <3>1. hits[top[n]] \in Hit /\ hits[b] \in Hit
      BY <1>4, <1>6, <1>9
    <3> QED
      BY <3>1 DEF Hit
  <2> QED
    BY <1>9, <2>1, <2>3, <2>4 DEF Worse
<1> HIDE DEF map
<1>19. C = {x \in DOMAIN map : allowed # {} => \E keys \in allowed : x \in ToSet(keys)}
  BY DEF C, Searchable, Content, map
<1>20. map = [x \in Stored(index) |-> index.rows[index.pos[x]]]
  BY DEF Content, map
<1>17. CASE k = 0
  <2>1. Search(index, k, FALSE, allowed) = <<>> /\ <<>> \in Hits /\ DOMAIN <<>> = {} /\ Len(<<>>) = 0
    <3>1. Search(index, k, FALSE, allowed) = <<>>
      BY <1>2, <1>17, Zenon
    <3>2. <<>> \in Hits /\ DOMAIN <<>> = {} /\ Len(<<>>) = 0
      BY DEF Hits
    <3> QED
      BY <3>1, <3>2, Zenon
  <2>3. Cardinality({}) = 0
    BY FS_EmptySet
  <2> DEFINE none == {<<>>[n].key : n \in DOMAIN <<>>}
  <2>4. none = {}
    BY <2>1
  <2>5. Len(<<>>) = IF Cardinality(C) < k THEN Cardinality(C) ELSE k
    BY <1>7, <1>17, <2>1
  <2>6. Abstract!IsBest(<<>>, k, allowed)
    <3> HIDE DEF none
    <3>1. Cardinality(none) = Len(<<>>) /\ none \subseteq C
      BY <2>1, <2>3, <2>4
    <3> QED
      BY <1>19, <1>20, <2>1, <2>5, <3>1, SameCardinality, SameToSet
         DEF Abstract!IsBest, none
  <2> QED
    BY <2>1, <2>6
<1>18. CASE k # 0
  <2>2. size = IF Cardinality(C) < k THEN Cardinality(C) ELSE k
    BY <1>4, <1>7
  <2>3. Search(index, k, FALSE, allowed) = best
    BY <1>2, <1>18
  <2> HIDE DEF best
  <2>5. Len(best) = IF Cardinality(C) < k THEN Cardinality(C) ELSE k
    BY <1>10, <2>2
  <2>6. Cardinality(found) = Len(best)
    BY <1>10, <1>12
  <2>7. /\ \A n \in DOMAIN best : best[n].score = map[best[n].key]
        /\ \A m, n \in DOMAIN best : m < n => best[m].score >= best[n].score
        /\ \A x \in C \ found, n \in DOMAIN best : best[n].score >= map[x]
    <3> HIDE DEF found
    <3> QED
      BY <1>9, <1>14, <1>15, <1>16
  <2>4. Abstract!IsBest(best, k, allowed)
    <3> USE <1>20
    <3>1. Abstract!IsBest(best, k, allowed) <=>
            /\ Len(best) = IF Cardinality(C) < k THEN Cardinality(C) ELSE k
            /\ Cardinality(found) = Len(best) /\ found \subseteq C
            /\ \A n \in DOMAIN best : best[n].score = map[best[n].key]
            /\ \A m, n \in DOMAIN best : m < n => best[m].score >= best[n].score
            /\ \A x \in C \ found, n \in DOMAIN best : best[n].score >= map[x]
      BY <1>19, <1>20, SameCardinality, SameToSet, Zenon
         DEF Abstract!IsBest, found
    <3> HIDE DEF found
    <3> QED
      BY <1>13, <2>5, <2>6, <2>7, <3>1
  <2> QED
    BY <1>10, <2>3, <2>4
<1> QED
  BY <1>17, <1>18

\* The map of KeyedVectors is what the index stands for.
LEMMA WrittenAll ==
  ASSUME index \in Indexes, NEW pairs \in Seq(Int \X DOMAIN Approx)
  PROVE  Content(StoreAll(index, pairs)) = Abstract!Written(pairs)
<1> DEFINE N == Len(pairs)
           map == Content(index)
           new == Content(StoreAll(index, pairs))
           keys == {pairs[m][1] : m \in DOMAIN pairs}
           IsLast(k, m) == /\ pairs[m][1] = k
                           /\ \A j \in DOMAIN pairs : j > m => pairs[j][1] # k
           last(k) == CHOOSE m \in DOMAIN pairs : IsLast(k, m)
           value(k) == IF k \in keys THEN Approx[pairs[last(k)][2]] ELSE map[k]
<1>1. N \in Nat /\ DOMAIN pairs = 1 .. N
  OBVIOUS
<1>2. StoredUpto(index, pairs, N, StoreAll(index, pairs))
  BY StoreAllSound
<1>3. keys = KeysUpto(pairs, N)
  BY <1>1 DEF KeysUpto
<1>4. \A k, m : IsLastUpto(pairs, N, k, m) <=> m \in DOMAIN pairs /\ IsLast(k, m)
  BY <1>1 DEF IsLastUpto
<1>5. ASSUME NEW k, NEW m \in DOMAIN pairs, IsLast(k, m) PROVE last(k) = m
  <2>1. ASSUME NEW o \in DOMAIN pairs, IsLast(k, o) PROVE o = m
    <3>1. ~ (o < m) /\ ~ (m < o)
      BY <1>1, <1>5, <2>1
    <3> QED
      BY <1>1, <3>1
  <2> HIDE DEF IsLast
  <2> QED
    BY <1>5, <2>1
<1>6. DOMAIN new = keys \cup Stored(index)
  BY <1>2, <1>3 DEF StoredUpto, Content
<1>7. ASSUME NEW k \in DOMAIN new PROVE new[k] = value(k)
  <2>1. k \in Stored(StoreAll(index, pairs))
    BY DEF Content
  <2>2. CASE k \in keys
    <3>1. PICK m : IsLastUpto(pairs, N, k, m) /\ new[k] = Approx[pairs[m][2]]
      BY <1>2, <1>3, <2>1, <2>2 DEF StoredUpto
    <3>2. last(k) = m
      BY <1>4, <1>5, <3>1
    <3> HIDE DEF last, new
    <3> QED
      BY <2>2, <3>1, <3>2
  <2>3. CASE k \notin keys
    BY <1>2, <1>3, <2>1, <2>3 DEF StoredUpto
  <2> QED
    BY <2>2, <2>3
<1>8. new = [k \in DOMAIN new |-> new[k]]
  BY DEF Content
<1>9. Abstract!Written(pairs) = [k \in keys \cup Stored(index) |-> value(k)]
  <2>1. Abstract!Written(pairs) = [k \in keys \cup DOMAIN map |-> value(k)]
    BY Zenon DEF Abstract!Written, Content
  <2>2. DOMAIN map = Stored(index)
    BY DEF Content
  <2> HIDE DEF map, value, keys
  <2> QED
    BY <2>1, <2>2
<1> HIDE DEF new, keys, value
<1> QED
  BY <1>6, <1>7, <1>8, <1>9 DEF new

\* A removal takes the keys of the call from the map and counts those it takes.
LEMMA WithoutAll ==
  ASSUME index \in Indexes, NEW keys \in Seq(Int)
  PROVE  /\ Content(RemoveAll(index, keys).index) = Abstract!Without(keys)
         /\ RemoveAll(index, keys).removed
              = Abstract!Cardinality(Abstract!ToSet(keys) \cap DOMAIN Content(index))
         /\ RemoveAll(index, keys).removed \in Nat
<1> DEFINE gone == {keys[m] : m \in 1 .. Len(keys)}
           x == RemoveAll(index, keys)
<1>1. RemovedUpto(index, keys, Len(keys), x)
  BY RemoveAllSound
<1>2. gone = ToSet(keys)
  BY DEF ToSet
<1>3. DOMAIN Content(index) = Stored(index)
  BY DEF Content
<1>4. /\ Content(x.index) = [k \in Stored(index) \ gone |-> Content(index)[k]]
      /\ IsFiniteSet(gone \cap Stored(index)) /\ x.removed = Cardinality(gone \cap Stored(index))
  BY <1>1 DEF RemovedUpto
<1>5. Abstract!Without(keys) = [k \in Stored(index) \ gone |-> Content(index)[k]]
  BY <1>2, <1>3, SameToSet DEF Abstract!Without, Content
<1> HIDE DEF gone, x
<1>6. x.removed \in Nat
  BY <1>4, FS_CardinalityType
<1> QED
  BY <1>2, <1>3, <1>4, <1>5, <1>6, SameToSet, SameCardinality DEF x

\* The index is as long as the map has keys.
LEMMA LengthIsCount ==
  ASSUME index \in Indexes
  PROVE  Len(index.keys) = Abstract!Cardinality(DOMAIN Content(index)) /\ Len(index.keys) \in Nat
<1> DEFINE n == Len(index.keys)
           D == Stored(index)
<1>1. /\ n \in Nat /\ \A m \in 1 .. n : index.keys[m] \in D /\ index.pos[index.keys[m]] = m
      /\ \A k \in D : index.pos[k] \in 1 .. n /\ index.keys[index.pos[k]] = k
  BY SoundParts DEF Stored
<1> HIDE DEF D, n
<1> DEFINE place == [m \in 1 .. n |-> index.keys[m]]
           S == 1 .. n
<1>2. place \in Bijection(S, D)
  BY <1>1 DEF Bijection, Injection, IsInjective, Surjection
<1>3. ExistsBijection(S, D)
  BY <1>2 DEF ExistsBijection
<1>4. IsFiniteSet(S) /\ Cardinality(S) = n
  <2>1. 1 \in Int /\ n \in Int
    BY <1>1
  <2>2. IsFiniteSet(1 .. n) /\ Cardinality(1 .. n) = IF 1 > n THEN 0 ELSE n - 1 + 1
    BY <2>1, FS_Interval, Zenon
  <2> QED
    BY <1>1, <2>2
<1> HIDE DEF S
<1>5. Cardinality(D) = n
  BY <1>3, <1>4, FS_Bijection
<1>6. DOMAIN Content(index) = D
  BY DEF Content, D
<1> QED
  BY <1>1, <1>5, <1>6, SameCardinality DEF n

----------------------------------------------------------------------------
(* Every step of the threads is one of KeyedVectors, or none. *)

\* What TakeEffect of KeyedVectors asks of a call c, the map that it leaves and its answer.
Promised(c, e) ==
  \/ /\ c.op \in {"upsert", "search"} /\ ~ c.wellFormed
     /\ e.answer = "error" /\ Content(e.index) = Content(index)
  \/ /\ c.op = "upsert" /\ c.wellFormed
     /\ IF \E m \in DOMAIN c.pairs : c.pairs[m][2] \in BadVectors
        THEN e.answer = "error" /\ Content(e.index) = Content(index)
        ELSE e.answer = "ok" /\ Content(e.index) = Abstract!Written(c.pairs)
  \/ /\ c.op = "remove" /\ Content(e.index) = Abstract!Without(c.keys)
     /\ e.answer = Abstract!Cardinality(Abstract!ToSet(c.keys) \cap DOMAIN Content(index))
  \/ /\ c.op = "len" /\ Content(e.index) = Content(index)
     /\ e.answer = Abstract!Cardinality(DOMAIN Content(index))
  \/ /\ c.op = "search" /\ c.wellFormed /\ Content(e.index) = Content(index)
     /\ Abstract!IsBest(e.answer, IF c.zero THEN 0 ELSE c.k, c.allowed)

\* A call does what KeyedVectors promises of it, and has an answer.
LEMMA EffectAnswers ==
  ASSUME index \in Indexes, NEW c \in Calls, AllowedOnce, c.op = "upsert" => c.wellFormed
  PROVE  Promised(c, Effect(index, c)) /\ Effect(index, c).answer # None
<1> DEFINE e == Effect(index, c)
<1>0. ASSUME NEW a, a \in {"ok", "error"} \/ a \in Nat \/ a \in Hits PROVE a # None
  BY <1>0, PyIndexAssumption DEF Hits, Hit
<1>1. CASE c.op = "upsert"
  <2>1. e = [index |-> UpsertMany(index, c.pairs),
             answer |-> IF Acceptable(c.pairs) THEN "ok" ELSE "error"]
    BY <1>1 DEF Effect
  <2>2. c.pairs \in Seq(Int \X DOMAIN Approx) /\ c.wellFormed
    BY <1>1, CallShape
  <2>3. Content(StoreAll(index, c.pairs)) = Abstract!Written(c.pairs)
    BY <2>2, WrittenAll
  <2>4. Acceptable(c.pairs) <=> ~ \E m \in DOMAIN c.pairs : c.pairs[m][2] \in BadVectors
    BY DEF Acceptable
  <2>5. e.index = IF Acceptable(c.pairs) THEN StoreAll(index, c.pairs) ELSE index
    BY <2>1 DEF UpsertMany
  <2>6. e.answer = IF Acceptable(c.pairs) THEN "ok" ELSE "error"
    BY <2>1
  <2> HIDE DEF e
  <2>7. e.answer # None
    BY <1>0, <2>6
  <2>8. Promised(c, e)
    BY <1>1, <2>2, <2>3, <2>4, <2>5, <2>6 DEF Promised
  <2> QED
    BY <2>7, <2>8 DEF e
<1>2. CASE c.op = "remove"
  <2>1. e.index = RemoveAll(index, c.keys).index /\ e.answer = RemoveAll(index, c.keys).removed
    BY <1>2 DEF Effect
  <2>2. c.keys \in Seq(Int)
    BY <1>2, CallShape
  <2> HIDE DEF e
  <2>3. e.answer # None
    BY <1>0, <2>1, <2>2, WithoutAll
  <2>4. Promised(c, e)
    BY <1>2, <2>1, <2>2, WithoutAll DEF Promised
  <2> QED
    BY <2>3, <2>4 DEF e
<1>3. CASE c.op = "search"
  <2>1. e = [index |-> index,
             answer |-> IF c.wellFormed THEN Search(index, c.k, c.zero, c.allowed) ELSE "error"]
    BY <1>3 DEF Effect
  <2> DEFINE k == IF c.zero THEN 0 ELSE c.k
             found == Search(index, c.k, c.zero, c.allowed)
  <2>2. /\ k \in Nat /\ c.zero \in BOOLEAN
        /\ \A keys \in c.allowed : keys \in Seq(Int) /\ c.allowed = {keys} /\ Distinct(keys)
    BY <1>3, CallShape DEF AllowedOnce
  <2>3. found \in Hits /\ Abstract!IsBest(found, k, c.allowed)
    <3>1. found = Search(index, k, FALSE, c.allowed)
      BY <2>2 DEF Search
    <3> HIDE DEF k, found
    <3>2. /\ Search(index, k, FALSE, c.allowed) \in Hits
          /\ Abstract!IsBest(Search(index, k, FALSE, c.allowed), k, c.allowed)
      BY <2>2, SearchSound
    <3> QED
      BY <3>1, <3>2
  <2>4. /\ e.index = index
        /\ e.answer = IF c.wellFormed THEN found ELSE "error"
    BY <2>1
  <2> HIDE DEF e
  <2>5. e.answer # None
    BY <1>0, <2>3, <2>4
  <2>6. Promised(c, e)
    BY <1>3, <2>3, <2>4 DEF Promised
  <2> QED
    BY <2>5, <2>6 DEF e
<1>4. CASE c.op = "len"
  <2>1. e.index = index /\ e.answer = Len(index.keys)
    BY <1>4 DEF Effect
  <2> HIDE DEF e
  <2>2. e.answer # None
    BY <1>0, <2>1, LengthIsCount
  <2>3. Promised(c, e)
    BY <1>4, <2>1, LengthIsCount DEF Promised
  <2> QED
    BY <2>2, <2>3 DEF e
<1> QED
  BY <1>1, <1>2, <1>3, <1>4, CallShape

\* A call has its answer from its effect until it returns.
Answered == \A t \in Threads : answer[t] # None <=> at[t] \in {"attach", "return"}

\* The steps of one thread change its phase alone.
Phases == [t \in Threads |-> Phase(t)]

\* A step of a thread rewrites its own phase.
LEMMA PhaseStep ==
  ASSUME NEW t \in Threads, NEW p, Phase(t)' = p,
         \A u \in Threads \ {t} :
           at'[u] = at[u] /\ call'[u] = call[u] /\ answer'[u] = answer[u]
  PROVE  /\ Phases' = [Phases EXCEPT ![t] = p]
         /\ Phases'[t] = p /\ \A u \in Threads \ {t} : Phases'[u] = Phases[u]
<1>1. \A u \in Threads \ {t} : Phase(u)' = Phase(u)
  BY DEF Phase
<1> QED
  BY <1>1 DEF Phases

\* No call has an answer at the start.
LEMMA AnsweredInit == PiInit => Answered
  BY DEF PiInit, Answered

\* A call gets its answer with its effect, and loses it when it returns.
LEMMA AnsweredStep ==
  ASSUME PiInv, AllowedOnce, Answered, [PiNext]_piVars
  PROVE  Answered'
<1>0. DOMAIN answer = Threads /\ at \in [Threads -> Steps] /\ index \in Indexes
  BY DEF PiInv, PiTypeOK
<1>1. ASSUME NEW t \in Threads, NEW c \in Calls, Enter(t, c) PROVE Answered'
  BY <1>0, <1>1 DEF Answered, Enter, Go
<1>2. ASSUME NEW t \in Threads, Prepare(t) PROVE Answered'
  BY <1>0, <1>2 DEF Answered, Prepare, Go
<1>3. ASSUME NEW t \in Threads, ReadDim(t) PROVE Answered'
  <2>1. "error" # None
    BY PyIndexAssumption
  <2> QED
    BY <1>0, <1>3, <2>1 DEF Answered, ReadDim, Go
<1>4. ASSUME NEW t \in Threads, Acquire(t) PROVE Answered'
  BY <1>0, <1>4 DEF Answered, Acquire, Go
<1>5. ASSUME NEW t \in Threads, Work(t) PROVE Answered'
  <2>1. call[t] \in Calls /\ (call[t].op = "upsert" => call[t].wellFormed)
    BY <1>5 DEF Work, WorkEnds, Go, PiInv, Way
  <2>2. Effect(index, call[t]).answer # None
    BY <1>0, <2>1, EffectAnswers
  <2> QED
    BY <1>0, <1>5, <2>2 DEF Answered, Work, WorkEnds, Go
<1>6. ASSUME NEW t \in Threads, Attach(t) PROVE Answered'
  BY <1>0, <1>6 DEF Answered, Attach, Go
<1>7. ASSUME NEW t \in Threads, Leave(t) PROVE Answered'
  BY <1>0, <1>7 DEF Answered, Leave, Go
<1>8. CASE UNCHANGED piVars
  BY <1>8 DEF piVars, Answered
<1> QED
  BY <1>1, <1>2, <1>3, <1>4, <1>5, <1>6, <1>7, <1>8 DEF PiNext, Proceed

\* An empty index is the map of nothing, and no call is under way.
LEMMA RefinesInit == PiInit => Abstract!Init
<1> SUFFICES ASSUME PiInit PROVE Abstract!Init
  OBVIOUS
<1>1. Content(index) = <<>>
  BY EmptySound DEF PiInit
<1>2. \A t \in Threads : Phase(t) = [at |-> "idle"]
  BY DEF PiInit, Phase
<1> QED
  BY <1>1, <1>2 DEF Abstract!Init, Content

\* A step that leaves the index and the phases alone is a stutter of KeyedVectors.
LEMMA Stutters ==
  ASSUME index' = index, \A t \in Threads : Phase(t)' = Phase(t)
  PROVE  UNCHANGED Abstract!kvVars
BY DEF Abstract!kvVars, Stored

\* A step of the threads starts a call, is its effect, returns it or is none of these.
LEMMA RefinesStep ==
  ASSUME PiInv, AllowedOnce, Answered, Answered', [PiNext]_piVars
  PROVE  [Abstract!Next]_(Abstract!kvVars)
<1>0. /\ DOMAIN answer = Threads /\ DOMAIN at = Threads /\ DOMAIN call = Threads
      /\ index \in Indexes
  BY DEF PiInv, PiTypeOK
<1>1. ASSUME NEW t \in Threads, NEW c \in Calls, Enter(t, c) PROVE Abstract!Next
  <2>1. /\ at[t] = "idle" /\ at' = [at EXCEPT ![t] = "attached"]
        /\ call' = [call EXCEPT ![t] = c] /\ answer' = answer /\ index' = index
    BY <1>1 DEF Enter, Go
  <2>2. Phases[t] = [at |-> "idle"]
    BY <2>1 DEF Phases, Phase
  <2>3. Phase(t)' = [at |-> "called", call |-> c]
    BY <1>0, <2>1 DEF Phase, Answered
  <2>4. Phases' = [Phases EXCEPT ![t] = [at |-> "called", call |-> c]]
    BY <1>0, <2>1, <2>3, PhaseStep
  <2>5. Abstract!Start(t, c)
    BY <2>1, <2>2, <2>4 DEF Abstract!Start, Phases, Stored
  <2> QED
    BY <2>5 DEF Abstract!Next
<1>2. ASSUME NEW t \in Threads, Prepare(t) PROVE UNCHANGED Abstract!kvVars
  <2>1. /\ at[t] = "attached" /\ call' = call /\ answer' = answer /\ index' = index
        /\ \E s \in Steps \ {"idle"} : at' = [at EXCEPT ![t] = s]
    BY <1>2 DEF Prepare, Go, Steps
  <2>2. \A u \in Threads : Phase(u)' = Phase(u)
    BY <1>0, <2>1 DEF Phase
  <2> QED
    BY <2>1, <2>2, Stutters
<1>3. ASSUME NEW t \in Threads, ReadDim(t)
      PROVE  Abstract!Next \/ UNCHANGED Abstract!kvVars
  <2>1. /\ at[t] = "dim" /\ call' = call /\ index' = index /\ call[t].op = "upsert"
        /\ \/ /\ call[t].wellFormed /\ at' = [at EXCEPT ![t] = "detached"] /\ answer' = answer
           \/ /\ ~ call[t].wellFormed /\ at' = [at EXCEPT ![t] = "return"]
              /\ answer' = [answer EXCEPT ![t] = "error"]
    BY <1>3 DEF ReadDim, Go, PiInv, Way
  <2>2. CASE call[t].wellFormed
    <3>1. \A u \in Threads : Phase(u)' = Phase(u)
      BY <1>0, <2>1, <2>2 DEF Phase
    <3> QED
      BY <2>1, <3>1, Stutters
  <2>3. CASE ~ call[t].wellFormed
    <3> DEFINE p == [at |-> "answered", call |-> call[t], answer |-> "error"]
    <3>1. Phases[t] = [at |-> "called", call |-> call[t]]
      BY <2>1 DEF Phases, Phase, Answered
    <3>2. Phase(t)' = p
      <4>1. "error" # None
        BY PyIndexAssumption
      <4> QED
        BY <1>0, <2>1, <2>3, <4>1 DEF Phase
    <3>3. Phases' = [Phases EXCEPT ![t] = p]
      BY <1>0, <2>1, <2>3, <3>2, PhaseStep
    <3>4. Abstract!TakeEffect(t)
      <4>1. Phases[t].at = "called" /\ Phases[t].call = call[t]
        BY <3>1
      <4>2. Content(index)' = Content(index)
        BY <2>1 DEF Content, Stored
      <4> QED
        BY <2>1, <2>3, <3>3, <4>1, <4>2
           DEF Abstract!TakeEffect, Abstract!Answer, Phases, Content
    <3> QED
      BY <3>4 DEF Abstract!Next
  <2> QED
    BY <2>2, <2>3
<1>4. ASSUME NEW t \in Threads, Acquire(t) PROVE UNCHANGED Abstract!kvVars
  <2>1. /\ at[t] # "idle" /\ call' = call /\ answer' = answer /\ index' = index
        /\ \E s \in Steps \ {"idle"} : at' = [at EXCEPT ![t] = s]
    BY <1>4 DEF Acquire, Go, Steps
  <2>2. \A u \in Threads : Phase(u)' = Phase(u)
    BY <1>0, <2>1 DEF Phase
  <2> QED
    BY <2>1, <2>2, Stutters
<1>5. ASSUME NEW t \in Threads, Work(t) PROVE Abstract!Next
  <2> DEFINE c == call[t]
             e == Effect(index, c)
             p == [at |-> "answered", call |-> c, answer |-> e.answer]
  <2>1. /\ at[t] \in {"locked", "working"} /\ call' = call
        /\ \E s \in {"return", "attach"} : at' = [at EXCEPT ![t] = s]
        /\ index' = e.index /\ answer' = [answer EXCEPT ![t] = e.answer]
    BY <1>5 DEF Work, WorkEnds, Go
  <2>2. c \in Calls /\ (c.op = "upsert" => c.wellFormed)
    BY <2>1 DEF PiInv, Way
  <2>3. Promised(c, e) /\ e.answer # None
    BY <1>0, <2>2, EffectAnswers
  <2> HIDE DEF e
  <2>4. Phases[t] = [at |-> "called", call |-> c]
    BY <2>1 DEF Phases, Phase, Answered
  <2>5. Phase(t)' = p
    BY <1>0, <2>1, <2>3 DEF Phase
  <2>6. /\ Phases' = [Phases EXCEPT ![t] = p]
        /\ Phases'[t] = p /\ \A u \in Threads \ {t} : Phases'[u] = Phases[u]
    BY <1>0, <2>1, <2>5, PhaseStep, SMTT(30)
  <2>7. Content(e.index) = Content(index)'
    BY <2>1 DEF Content, Stored
  <2>8. Abstract!TakeEffect(t)
    <3> DEFINE Effects ==
          \/ /\ c.op \in {"upsert", "search"} /\ ~ c.wellFormed
             /\ e.answer = "error" /\ Content(index)' = Content(index)
          \/ /\ c.op = "upsert" /\ c.wellFormed
             /\ IF \E m \in DOMAIN c.pairs : c.pairs[m][2] \in BadVectors
                THEN e.answer = "error" /\ Content(index)' = Content(index)
                ELSE e.answer = "ok" /\ Content(index)' = Abstract!Written(c.pairs)
          \/ /\ c.op = "remove" /\ Content(index)' = Abstract!Without(c.keys)
             /\ e.answer = Abstract!Cardinality(Abstract!ToSet(c.keys) \cap DOMAIN Content(index))
          \/ /\ c.op = "len" /\ Content(index)' = Content(index)
             /\ e.answer = Abstract!Cardinality(DOMAIN Content(index))
          \/ /\ c.op = "search" /\ c.wellFormed /\ Content(index)' = Content(index)
             /\ Abstract!IsBest(e.answer, IF c.zero THEN 0 ELSE c.k, c.allowed)
    <3>1. Effects
      BY <2>3, <2>7 DEF Promised
    <3>2. /\ Phases[t].at = "called" /\ Phases[t].call = c
          /\ p.at = "answered" /\ p.call = c /\ p.answer = e.answer
      BY <2>4
    <3> HIDE DEF c, p
    <3> QED
      BY <2>6, <3>1, <3>2 DEF Abstract!TakeEffect, Abstract!Answer, Phases, Content, p
  <2> QED
    BY <2>8 DEF Abstract!Next
<1>6. ASSUME NEW t \in Threads, Attach(t) PROVE UNCHANGED Abstract!kvVars
  <2>1. /\ at[t] # "idle" /\ call' = call /\ answer' = answer /\ index' = index
        /\ at' = [at EXCEPT ![t] = "return"]
    BY <1>6 DEF Attach, Go
  <2>2. \A u \in Threads : Phase(u)' = Phase(u)
    BY <1>0, <2>1 DEF Phase
  <2> QED
    BY <2>1, <2>2, Stutters
<1>7. ASSUME NEW t \in Threads, Leave(t) PROVE Abstract!Next
  <2>1. /\ at[t] = "return" /\ at' = [at EXCEPT ![t] = "idle"] /\ index' = index
        /\ call' = [call EXCEPT ![t] = None] /\ answer' = [answer EXCEPT ![t] = None]
    BY <1>7 DEF Leave, Go
  <2>2. Phases[t].at = "answered"
    BY <2>1 DEF Phases, Phase, Answered
  <2>3. Phase(t)' = [at |-> "idle"]
    BY <1>0, <2>1 DEF Phase
  <2>4. Phases' = [Phases EXCEPT ![t] = [at |-> "idle"]]
    BY <1>0, <2>1, <2>3, PhaseStep
  <2>5. Abstract!Return(t)
    BY <2>1, <2>2, <2>4 DEF Abstract!Return, Phases, Stored
  <2> QED
    BY <2>5 DEF Abstract!Next
<1>8. CASE UNCHANGED piVars
  <2>1. \A u \in Threads : Phase(u)' = Phase(u)
    BY <1>8 DEF piVars, Phase
  <2> QED
    BY <1>8, <2>1, Stutters DEF piVars
<1> QED
  BY <1>1, <1>2, <1>3, <1>4, <1>5, <1>6, <1>7, <1>8 DEF PiNext, Proceed

\* The safety of ImplementsKeyedVectors: whatever the threads do, every call takes
\* effect at one moment between its start and its return, as KeyedVectors says of
\* it, and one that is refused has no effect; where an allow-list names a key
\* once (search returns it as often as it is named).
THEOREM EveryCallIsAtomic ==
  AllowedOnce /\ PiSpec => Abstract!Init /\ [][Abstract!Next]_(Abstract!kvVars)
<1> DEFINE I == PiInv /\ AllowedOnce /\ Answered
<1>1. AllowedOnce /\ PiInit => I
  BY PiInitInv, AnsweredInit
<1>2. I /\ [PiNext]_piVars => I'
  <2>1. AllowedOnce => AllowedOnce'
    BY DEF AllowedOnce
  <2> QED
    BY <2>1, PiStepInv, AnsweredStep
<1>3. I /\ I' /\ [PiNext]_piVars => [Abstract!Next]_(Abstract!kvVars)
  BY RefinesStep
<1>4. PiInit => Abstract!Init
  BY RefinesInit
<1> HIDE DEF I
<1> QED
  BY <1>1, <1>2, <1>3, <1>4, PTL DEF PiSpec

----------------------------------------------------------------------------
(* The loops of a redactor. *)

\* The recursion of AllMarked, once some function satisfies it.
Marks(f, st, group) ==
  \A T \in SUBSET DOMAIN group.regexes :
    f[T] = IF T = {} THEN st ELSE Marked(f[T \ {Max(T)}], group.regexes[Max(T)], group.name)

\* A function that satisfies the recursion shows that the fold does.
LEMMA MarkingUnfolds ==
  ASSUME NEW st, NEW group, NEW V, NEW f \in [SUBSET DOMAIN group.regexes -> V], Marks(f, st, group)
  PROVE  \E g : Marks(g, st, group) /\ AllMarked(st, group) = g[DOMAIN group.regexes]
<1>1. f = [T \in SUBSET DOMAIN group.regexes |->
             IF T = {} THEN st ELSE Marked(f[T \ {Max(T)}], group.regexes[Max(T)], group.name)]
  BY DEF Marks
<1>2. PICK g : /\ g = [T \in SUBSET DOMAIN group.regexes |->
                         IF T = {} THEN st ELSE Marked(g[T \ {Max(T)}], group.regexes[Max(T)], group.name)]
               /\ AllMarked(st, group) = g[DOMAIN group.regexes]
  BY <1>1, ZenonT(60) DEF AllMarked, FoldLeft, MapThenFoldSet
<1>3. Marks(g, st, group)
  BY <1>2 DEF Marks
<1> QED
  BY <1>2, <1>3

\* One group, expression by expression.
LEMMA MarkingSteps ==
  ASSUME NEW group, NEW A, group.regexes \in Seq(A), NEW V, NEW st \in V,
         \A u \in V, i \in DOMAIN group.regexes : Marked(u, group.regexes[i], group.name) \in V
  PROVE  \E h : /\ h[0] = st
                /\ \A n \in 1 .. Len(group.regexes) : h[n] = Marked(h[n - 1], group.regexes[n], group.name)
                /\ AllMarked(st, group) = h[Len(group.regexes)]
<1> DEFINE s == group.regexes
           len == Len(s)
           D == DOMAIN s
           next == [i \in D |-> [u \in V |-> Marked(u, s[i], group.name)]]
<1>1. D = 1 .. len /\ len \in Nat
  OBVIOUS
<1>2. next \in [D -> [V -> V]]
  OBVIOUS
<1>3. PICK f : IsLoop(f, len, V, st, next)
  <2>1. len \in Nat /\ st \in V /\ next \in [1 .. len -> [V -> V]]
    BY <1>1, <1>2
  <2> HIDE DEF next, len
  <2> QED
    BY <2>1, LoopExists
<1>4. Marks(f, st, group)
  <2> SUFFICES ASSUME NEW T \in SUBSET D, T # {}
               PROVE  f[T] = Marked(f[T \ {Max(T)}], s[Max(T)], group.name)
    BY <1>1, <1>3 DEF Marks, IsLoop
  <2>2. Max(T) \in T
    BY <1>1, LastPlace
  <2>3. Max(T) \in D /\ f[T \ {Max(T)}] \in V
    BY <1>1, <1>3, <2>2 DEF IsLoop
  <2>4. f[T] = next[Max(T)][f[T \ {Max(T)}]]
    BY <1>1, <1>3 DEF IsLoop
  <2> QED
    BY <2>3, <2>4
<1>5. PICK g : Marks(g, st, group) /\ AllMarked(st, group) = g[D]
  BY <1>1, <1>3, <1>4, MarkingUnfolds DEF IsLoop
<1> DEFINE h == [n \in Nat |-> g[1 .. n]]
<1>6. h[0] = st /\ AllMarked(st, group) = h[Len(s)]
  <2>1. 1 .. 0 = {} /\ {} \in SUBSET D
    OBVIOUS
  <2>2. g[{}] = st
    BY <1>5, <2>1 DEF Marks
  <2> QED
    BY <1>1, <1>5, <2>1, <2>2
<1>7. ASSUME NEW n \in 1 .. Len(s) PROVE h[n] = Marked(h[n - 1], s[n], group.name)
  <2> DEFINE T == 1 .. n
  <2>1. T \in SUBSET D /\ T # {} /\ Max(T) = n /\ T \ {n} = 1 .. (n - 1)
    <3> HIDE DEF len
    <3> QED
      BY <1>1, FirstPlaces
  <2>2. g[T] = Marked(g[T \ {Max(T)}], s[Max(T)], group.name)
    <3> HIDE DEF T
    <3> QED
      BY <1>5, <2>1 DEF Marks
  <2>3. n \in Nat /\ n - 1 \in Nat
    BY <1>1
  <2> HIDE DEF D
  <2> QED
    BY <2>1, <2>2, <2>3
<1> HIDE DEF h
<1> QED
  BY <1>6, <1>7

\* The recursion of Apply, once some function satisfies it.
Start(content) == [content |-> content, count |-> 0, fired |-> <<>>]
Applies(f, redactor, content) ==
  \A T \in SUBSET DOMAIN redactor.groups :
    f[T] = IF T = {} THEN Start(content) ELSE ApplyGroup(f[T \ {Max(T)}], redactor.groups[Max(T)])

\* A function that satisfies the recursion shows that the fold does.
LEMMA ApplyingUnfolds ==
  ASSUME NEW redactor, NEW content, NEW V, NEW f \in [SUBSET DOMAIN redactor.groups -> V],
         Applies(f, redactor, content)
  PROVE  \E g : Applies(g, redactor, content) /\ Apply(redactor, content) = g[DOMAIN redactor.groups]
<1>1. f = [T \in SUBSET DOMAIN redactor.groups |->
             IF T = {} THEN Start(content) ELSE ApplyGroup(f[T \ {Max(T)}], redactor.groups[Max(T)])]
  BY DEF Applies
<1>2. Apply(redactor, content) = FoldLeft(ApplyGroup, Start(content), redactor.groups)
  BY DEF Apply, Start
<1>3. PICK g : /\ g = [T \in SUBSET DOMAIN redactor.groups |->
                         IF T = {} THEN Start(content)
                         ELSE ApplyGroup(g[T \ {Max(T)}], redactor.groups[Max(T)])]
               /\ FoldLeft(ApplyGroup, Start(content), redactor.groups) = g[DOMAIN redactor.groups]
  BY <1>1, ZenonT(60) DEF FoldLeft, MapThenFoldSet
<1>4. Applies(g, redactor, content)
  BY <1>3 DEF Applies
<1> QED
  BY <1>2, <1>3, <1>4

\* A redactor, group by group.
LEMMA ApplyingSteps ==
  ASSUME NEW redactor, NEW content, NEW A, redactor.groups \in Seq(A), NEW V, Start(content) \in V,
         \A u \in V, i \in DOMAIN redactor.groups : ApplyGroup(u, redactor.groups[i]) \in V
  PROVE  \E h : /\ h[0] = Start(content)
                /\ \A n \in 1 .. Len(redactor.groups) : h[n] = ApplyGroup(h[n - 1], redactor.groups[n])
                /\ Apply(redactor, content) = h[Len(redactor.groups)]
<1> DEFINE s == redactor.groups
           len == Len(s)
           D == DOMAIN s
           next == [i \in D |-> [u \in V |-> ApplyGroup(u, s[i])]]
           st == Start(content)
<1>1. D = 1 .. len /\ len \in Nat
  OBVIOUS
<1>2. next \in [D -> [V -> V]] /\ st \in V
  OBVIOUS
<1>3. PICK f : IsLoop(f, len, V, st, next)
  <2>1. len \in Nat /\ st \in V /\ next \in [1 .. len -> [V -> V]]
    BY <1>1, <1>2
  <2> HIDE DEF next, st, len
  <2> QED
    BY <2>1, LoopExists
<1>4. Applies(f, redactor, content)
  <2> SUFFICES ASSUME NEW T \in SUBSET D, T # {}
               PROVE  f[T] = ApplyGroup(f[T \ {Max(T)}], s[Max(T)])
    BY <1>1, <1>3 DEF Applies, IsLoop
  <2>2. Max(T) \in T
    BY <1>1, LastPlace
  <2>3. Max(T) \in D /\ f[T \ {Max(T)}] \in V
    BY <1>1, <1>3, <2>2 DEF IsLoop
  <2>4. f[T] = next[Max(T)][f[T \ {Max(T)}]]
    BY <1>1, <1>3 DEF IsLoop
  <2> QED
    BY <2>3, <2>4
<1>5. PICK g : Applies(g, redactor, content) /\ Apply(redactor, content) = g[D]
  BY <1>1, <1>3, <1>4, ApplyingUnfolds DEF IsLoop
<1> DEFINE h == [n \in Nat |-> g[1 .. n]]
<1>6. h[0] = st /\ Apply(redactor, content) = h[Len(s)]
  <2>1. 1 .. 0 = {} /\ {} \in SUBSET D
    OBVIOUS
  <2>2. g[{}] = st
    BY <1>5, <2>1 DEF Applies
  <2> QED
    BY <1>1, <1>5, <2>1, <2>2
<1>7. ASSUME NEW n \in 1 .. Len(s) PROVE h[n] = ApplyGroup(h[n - 1], s[n])
  <2> DEFINE T == 1 .. n
  <2>1. T \in SUBSET D /\ T # {} /\ Max(T) = n /\ T \ {n} = 1 .. (n - 1)
    <3> HIDE DEF len
    <3> QED
      BY <1>1, FirstPlaces
  <2>2. g[T] = ApplyGroup(g[T \ {Max(T)}], s[Max(T)])
    <3> HIDE DEF T
    <3> QED
      BY <1>5, <2>1 DEF Applies
  <2>3. n \in Nat /\ n - 1 \in Nat
    BY <1>1
  <2> HIDE DEF D
  <2> QED
    BY <2>1, <2>2, <2>3
<1> HIDE DEF h
<1> QED
  BY <1>6, <1>7

----------------------------------------------------------------------------
(* What a redactor does to a text. *)

GroupNames == ToSet(EvaluationOrder)
Changed(input, content) == {i \in DOMAIN input : content[i] # input[i]}

\* A text on its way: no more tokens changed than were counted.
Drafts(input) ==
  {st \in [content : [DOMAIN input -> ToSet(input) \cup {<<"marker", h>> : h \in GroupNames}],
           count : Nat, fired : Seq(GroupNames)] :
     Cardinality(Changed(input, st.content)) <= st.count}

\* No token is of a set; a set that has no marker.
Clean(st, S) == \A i \in DOMAIN st.content : st.content[i] \notin S
Unmarked(S)  == \A h \in GroupNames : <<"marker", h>> \notin S

\* Later keeps what earlier has cleaned, and its count.
Cleaner(earlier, later) ==
  /\ later.count >= earlier.count
  /\ \A S : Unmarked(S) /\ Clean(earlier, S) => Clean(later, S)

\* Cleaner is reflexive and transitive.
LEMMA CleanerOrder ==
  ASSUME NEW input, NEW a \in Drafts(input), NEW b \in Drafts(input), NEW c \in Drafts(input)
  PROVE  Cleaner(a, a) /\ (Cleaner(a, b) /\ Cleaner(b, c) => Cleaner(a, c))
<1>1. a.count \in Nat /\ b.count \in Nat /\ c.count \in Nat
  BY DEF Drafts
<1>2. Cleaner(a, a)
  BY <1>1 DEF Cleaner
<1>3. ASSUME Cleaner(a, b), Cleaner(b, c) PROVE Cleaner(a, c)
  <2>1. c.count >= a.count
    BY <1>1, <1>3 DEF Cleaner
  <2>2. \A S : Unmarked(S) /\ Clean(a, S) => Clean(c, S)
    BY <1>3 DEF Cleaner
  <2> QED
    BY <2>1, <2>2 DEF Cleaner
<1> QED
  BY <1>2, <1>3

\* One expression.
LEMMA MarkedKeeps ==
  ASSUME NEW A, NEW input \in Seq(A), NEW st \in Drafts(input), NEW re, NEW g \in GroupNames
  PROVE  /\ Marked(st, re, g) \in Drafts(input) /\ Marked(st, re, g).fired = st.fired
         /\ Cleaner(st, Marked(st, re, g))
         /\ Unmarked(re.matches) => Clean(Marked(st, re, g), re.matches)
<1> DEFINE D == DOMAIN input
           X == ToSet(input) \cup {<<"marker", h>> : h \in GroupNames}
           hit == {i \in DOMAIN st.content : st.content[i] \in re.matches}
           content == [i \in DOMAIN st.content |->
                         IF st.content[i] \in re.matches THEN <<"marker", g>> ELSE st.content[i]]
           t == Marked(st, re, g)
           old == Changed(input, st.content)
           new == Changed(input, content)
<1>1. /\ st.content \in [D -> X] /\ st.count \in Nat /\ st.fired \in Seq(GroupNames)
      /\ Cardinality(old) <= st.count
  BY DEF Drafts
<1>2. DOMAIN st.content = D
  BY <1>1
<1>3. t = [content |-> content, count |-> st.count + Cardinality(hit), fired |-> st.fired]
  BY DEF Marked
<1>4. t.content = content /\ t.count = st.count + Cardinality(hit) /\ t.fired = st.fired
  BY <1>3
<1>5. IsFiniteSet(D)
  BY DistinctSize
<1>6. /\ hit \subseteq D /\ old \subseteq D /\ new \subseteq old \cup hit
  <2>1. \A i \in D : i \notin hit => content[i] = st.content[i]
    BY <1>2
  <2> QED
    BY <1>2, <2>1 DEF Changed
<1>7. /\ IsFiniteSet(hit) /\ IsFiniteSet(old) /\ Cardinality(hit) \in Nat /\ Cardinality(old) \in Nat
      /\ Cardinality(new) <= Cardinality(old) + Cardinality(hit) /\ Cardinality(new) \in Nat
  <2> HIDE DEF hit, old, new, D
  <2>1. IsFiniteSet(hit) /\ IsFiniteSet(old)
    BY <1>5, <1>6, FS_Subset
  <2>2. /\ IsFiniteSet(old \cup hit)
        /\ Cardinality(old \cup hit) = Cardinality(old) + Cardinality(hit) - Cardinality(old \cap hit)
    BY <2>1, FS_Union
  <2>3. IsFiniteSet(old \cap hit)
    BY <2>1, FS_Subset
  <2>4. IsFiniteSet(new) /\ Cardinality(new) <= Cardinality(old \cup hit)
    BY <1>6, <2>2, FS_Subset
  <2>5. /\ Cardinality(hit) \in Nat /\ Cardinality(old) \in Nat /\ Cardinality(old \cap hit) \in Nat
        /\ Cardinality(new) \in Nat
    BY <2>1, <2>3, <2>4, FS_CardinalityType
  <2> QED
    BY <2>1, <2>2, <2>4, <2>5
<1>8. content \in [D -> X]
  BY <1>1, <1>2
<1> HIDE DEF t, content, hit, old, new, D, X
<1>9. t \in Drafts(input)
  <2>1. t.count \in Nat /\ Cardinality(new) <= t.count
    BY <1>1, <1>4, <1>7
  <2>2. t \in [content : [D -> X], count : Nat, fired : Seq(GroupNames)]
    BY <1>1, <1>3, <1>4, <1>8, <2>1
  <2> QED
    BY <1>4, <2>1, <2>2 DEF Drafts, D, X, new
<1>10. t.count >= st.count
  BY <1>1, <1>4, <1>7
<1>11. DOMAIN t.content = D /\ \A i \in D : t.content[i] = <<"marker", g>> \/ t.content[i] = st.content[i]
  BY <1>2, <1>4 DEF content
<1>12. \A S : Unmarked(S) /\ Clean(st, S) => Clean(t, S)
  BY <1>2, <1>11 DEF Unmarked, Clean
<1>13. ASSUME Unmarked(re.matches) PROVE Clean(t, re.matches)
  <2>1. \A i \in D : IF st.content[i] \in re.matches THEN t.content[i] = <<"marker", g>>
                     ELSE t.content[i] = st.content[i]
    BY <1>2, <1>4 DEF content
  <2> QED
    BY <1>11, <1>13, <2>1 DEF Unmarked, Clean
<1> QED
  BY <1>4, <1>9, <1>10, <1>12, <1>13 DEF t, Cleaner

\* A group whose name and expressions are such.
IsGroup(group) == group.name \in GroupNames /\ group.regexes \in Seq(ToSet(group.regexes))
Secrets(group) == {re \in ToSet(group.regexes) : Unmarked(re.matches)}

\* All expressions of one group.
LEMMA AllMarkedKeeps ==
  ASSUME NEW A, NEW input \in Seq(A), NEW st \in Drafts(input), NEW group, IsGroup(group)
  PROVE  /\ AllMarked(st, group) \in Drafts(input) /\ AllMarked(st, group).fired = st.fired
         /\ Cleaner(st, AllMarked(st, group))
         /\ \A re \in Secrets(group) : Clean(AllMarked(st, group), re.matches)
<1> DEFINE s == group.regexes
           V == Drafts(input)
<1>1. s \in Seq(ToSet(s)) /\ group.name \in GroupNames
  BY DEF IsGroup
<1>2. \A u \in V, i \in DOMAIN s : Marked(u, s[i], group.name) \in V
  BY <1>1, MarkedKeeps
<1>3. PICK h : /\ h[0] = st
               /\ \A n \in 1 .. Len(s) : h[n] = Marked(h[n - 1], s[n], group.name)
               /\ AllMarked(st, group) = h[Len(s)]
  <2> HIDE DEF V
  <2>1. st \in V
    BY DEF V
  <2> QED
    BY <1>1, <1>2, <2>1, MarkingSteps
<1>4. DOMAIN s = 1 .. Len(s) /\ Len(s) \in Nat /\ ToSet(s) = {s[i] : i \in DOMAIN s}
  BY <1>1 DEF ToSet
<1> DEFINE Holds(n) == /\ h[n] \in V /\ h[n].fired = st.fired /\ Cleaner(st, h[n])
                       /\ \A i \in 1 .. n : Unmarked(s[i].matches) => Clean(h[n], s[i].matches)
           P == {n \in Nat : n <= Len(s) => Holds(n)}
<1> HIDE DEF s
<1>5. 0 \in P
  <2>1. Cleaner(st, st)
    BY CleanerOrder
  <2> QED
    BY <1>3, <2>1
<1>6. ASSUME NEW m \in Nat, m \in P PROVE m + 1 \in P
  <2> SUFFICES ASSUME m + 1 <= Len(s) PROVE Holds(m + 1)
    OBVIOUS
  <2> DEFINE n == m + 1
             u == h[m]
             t == Marked(u, s[n], group.name)
  <2>1. n \in 1 .. Len(s) /\ n - 1 = m /\ m <= Len(s)
    BY <1>4
  <2>2. Holds(m)
    BY <1>6, <2>1
  <2>3. h[n] = t
    BY <1>3, <2>1
  <2>4. u \in Drafts(input)
    BY <2>2
  <2>5. /\ t \in Drafts(input) /\ t.fired = u.fired /\ Cleaner(u, t)
        /\ Unmarked(s[n].matches) => Clean(t, s[n].matches)
    BY <1>1, <2>4, MarkedKeeps
  <2> HIDE DEF t
  <2>6. Cleaner(st, t)
    BY <2>2, <2>4, <2>5, CleanerOrder
  <2>7. ASSUME NEW i \in 1 .. n, Unmarked(s[i].matches) PROVE Clean(t, s[i].matches)
    <3>1. CASE i = n
      BY <2>5, <2>7, <3>1
    <3>2. CASE i # n
      <4>1. i \in 1 .. m
        BY <3>2
      <4>2. Clean(u, s[i].matches)
        BY <2>2, <2>7, <4>1
      <4> QED
        BY <2>5, <2>7, <4>2 DEF Cleaner
    <3> QED
      BY <3>1, <3>2
  <2> QED
    BY <2>2, <2>3, <2>5, <2>6, <2>7
<1>7. Len(s) \in P
  <2> HIDE DEF P
  <2>1. Nat \subseteq P
    BY <1>5, <1>6, NatSetInduction
  <2> QED
    BY <1>4, <2>1
<1>8. Holds(Len(s))
  BY <1>4, <1>7
<1>9. \A re \in Secrets(group) : \E i \in 1 .. Len(s) : re = s[i] /\ Unmarked(s[i].matches)
  BY <1>4 DEF Secrets, s
<1> QED
  BY <1>3, <1>8, <1>9

\* One group: its name is added if anything matched.
LEMMA GroupKeeps ==
  ASSUME NEW A, NEW input \in Seq(A), NEW st \in Drafts(input), NEW group, IsGroup(group)
  PROVE  /\ ApplyGroup(st, group) \in Drafts(input) /\ Cleaner(st, ApplyGroup(st, group))
         /\ \A re \in Secrets(group) : Clean(ApplyGroup(st, group), re.matches)
         /\ ApplyGroup(st, group).fired \in {st.fired, Append(st.fired, group.name)}
<1> DEFINE after == AllMarked(st, group)
           t == ApplyGroup(st, group)
           fired == Append(st.fired, group.name)
<1>1. /\ after \in Drafts(input) /\ after.fired = st.fired /\ Cleaner(st, after)
      /\ \A re \in Secrets(group) : Clean(after, re.matches)
  BY AllMarkedKeeps
<1>2. t = after \/ t = [after EXCEPT !.fired = Append(@, group.name)]
  BY DEF ApplyGroup
<1> HIDE DEF after, t
<1>3. CASE t = after
  BY <1>1, <1>3 DEF t
<1>4. CASE t = [after EXCEPT !.fired = Append(@, group.name)]
  <2>1. /\ after = [content |-> after.content, count |-> after.count, fired |-> after.fired]
        /\ after.content \in [DOMAIN input -> ToSet(input) \cup {<<"marker", h>> : h \in GroupNames}]
        /\ after.count \in Nat /\ st.fired \in Seq(GroupNames)
        /\ Cardinality(Changed(input, after.content)) <= after.count
    BY <1>1 DEF Drafts
  <2>2. t = [content |-> after.content, count |-> after.count, fired |-> fired]
    BY <1>1, <1>4, <2>1
  <2>3. fired \in Seq(GroupNames)
    BY <2>1 DEF IsGroup
  <2>4. t.content = after.content /\ t.count = after.count /\ t.fired = fired
    BY <2>2
  <2>5. t \in Drafts(input)
    <3> HIDE DEF fired
    <3>1. t \in [content : [DOMAIN input -> ToSet(input) \cup {<<"marker", h>> : h \in GroupNames}],
                 count : Nat, fired : Seq(GroupNames)]
      BY <2>1, <2>2, <2>3
    <3> QED
      BY <2>1, <2>4, <3>1 DEF Drafts
  <2>6. \A S : Clean(t, S) = Clean(after, S)
    BY <2>4 DEF Clean
  <2>7. Cleaner(st, t)
    BY <1>1, <2>4, <2>6 DEF Cleaner
  <2> QED
    BY <1>1, <2>4, <2>5, <2>6, <2>7 DEF t
<1> QED
  BY <1>2, <1>3, <1>4

\* Groups in evaluation order, each with a name and expressions.
AreGroups(groups) ==
  /\ \A j \in DOMAIN groups : IsGroup(groups[j])
  /\ \A j, k \in DOMAIN groups : j < k => Place(groups[j].name) < Place(groups[k].name)

\* The groups that fired are among the first n, in their order.
FiredOf(fired, groups, n) ==
  /\ \A a \in DOMAIN fired : \E j \in 1 .. n : fired[a] = groups[j].name
  /\ \A a, b \in DOMAIN fired : a < b => Place(fired[a]) < Place(fired[b])

\* One more name.
LEMMA FiredMore ==
  ASSUME NEW A, NEW groups \in Seq(A), AreGroups(groups), NEW fired \in Seq(GroupNames),
         NEW m \in Nat, m + 1 <= Len(groups), FiredOf(fired, groups, m),
         NEW g, g \in {fired, Append(fired, groups[m + 1].name)}
  PROVE  FiredOf(g, groups, m + 1)
<1> DEFINE n == m + 1
           x == groups[n].name
<1>1. \A j \in 1 .. m : j \in 1 .. n /\ j < n
  OBVIOUS
<1>2. CASE g = fired
  BY <1>1, <1>2 DEF FiredOf
<1>3. CASE g = Append(fired, x)
  <2>1. /\ DOMAIN fired = 1 .. Len(fired) /\ Len(fired) \in Nat
        /\ DOMAIN g = 1 .. (Len(fired) + 1) /\ g[Len(fired) + 1] = x
        /\ \A a \in DOMAIN fired : g[a] = fired[a]
    BY <1>3
  <2>2. DOMAIN groups = 1 .. Len(groups) /\ Len(groups) \in Nat /\ n \in DOMAIN groups /\ n \in 1 .. n
    OBVIOUS
  <2>3. \A a \in DOMAIN g : a \in DOMAIN fired \/ a = Len(fired) + 1
    BY <2>1
  <2>4. \A a \in DOMAIN g : \E j \in 1 .. n : g[a] = groups[j].name
    BY <1>1, <2>1, <2>2, <2>3 DEF FiredOf
  <2>5. ASSUME NEW a \in DOMAIN g, NEW b \in DOMAIN g, a < b PROVE Place(g[a]) < Place(g[b])
    <3>1. CASE b \in DOMAIN fired
      <4>1. a \in DOMAIN fired
        BY <2>1, <2>5, <3>1
      <4> QED
        BY <2>1, <2>5, <3>1, <4>1 DEF FiredOf
    <3>2. CASE b = Len(fired) + 1
      <4>1. a \in DOMAIN fired
        BY <2>1, <2>5, <3>2
      <4>2. PICK j \in 1 .. m : fired[a] = groups[j].name
        BY <4>1 DEF FiredOf
      <4>3. j \in DOMAIN groups /\ j < n
        BY <2>2
      <4>4. Place(groups[j].name) < Place(groups[n].name)
        BY <2>2, <4>3 DEF AreGroups
      <4>5. g[a] = groups[j].name /\ g[b] = groups[n].name
        BY <2>1, <3>2, <4>1, <4>2
      <4> QED
        BY <4>4, <4>5
    <3> QED
      BY <2>3, <3>1, <3>2
  <2> QED
    BY <2>4, <2>5 DEF FiredOf
<1> QED
  BY <1>2, <1>3

\* A whole redactor.
LEMMA ApplyKeeps ==
  ASSUME NEW A, NEW input \in Seq(A), NEW B, NEW redactor, redactor.groups \in Seq(B),
         AreGroups(redactor.groups)
  PROVE  /\ Apply(redactor, input) \in Drafts(input)
         /\ \A j \in DOMAIN redactor.groups : \A re \in Secrets(redactor.groups[j]) :
              Clean(Apply(redactor, input), re.matches)
         /\ FiredOf(Apply(redactor, input).fired, redactor.groups, Len(redactor.groups))
<1> DEFINE s == redactor.groups
           V == Drafts(input)
           st == Start(input)
<1>1. DOMAIN s = 1 .. Len(s) /\ Len(s) \in Nat /\ \A i \in DOMAIN s : IsGroup(s[i])
  BY DEF AreGroups
<1>2. st \in V
  <2>1. Changed(input, input) = {}
    BY DEF Changed
  <2>2. Cardinality({}) = 0
    BY FS_EmptySet
  <2>3. input \in [DOMAIN input -> ToSet(input) \cup {<<"marker", h>> : h \in GroupNames}]
    BY DEF ToSet
  <2>4. <<>> \in Seq(GroupNames)
    OBVIOUS
  <2>5. st.content = input /\ st.count = 0 /\ st.fired = <<>>
    BY DEF Start
  <2>6. st \in [content : [DOMAIN input -> ToSet(input) \cup {<<"marker", h>> : h \in GroupNames}],
               count : Nat, fired : Seq(GroupNames)]
    BY <2>3, <2>4 DEF Start
  <2> HIDE DEF st
  <2>7. Cardinality(Changed(input, st.content)) <= st.count
    <3>1. Changed(input, st.content) = Changed(input, input)
      BY <2>5
    <3>2. Cardinality(Changed(input, st.content)) = 0
      BY <2>1, <2>2, <3>1, Zenon
    <3> QED
      BY <2>5, <3>2
  <2> QED
    BY <2>6, <2>7 DEF Drafts
<1>3. \A u \in V, i \in DOMAIN s : ApplyGroup(u, s[i]) \in V
  BY <1>1, GroupKeeps
<1>4. PICK h : /\ h[0] = st
               /\ \A n \in 1 .. Len(s) : h[n] = ApplyGroup(h[n - 1], s[n])
               /\ Apply(redactor, input) = h[Len(s)]
  <2> HIDE DEF V
  <2> QED
    BY <1>2, <1>3, ApplyingSteps
<1> DEFINE Holds(n) == /\ h[n] \in V
                       /\ \A i \in 1 .. n : \A re \in Secrets(s[i]) : Clean(h[n], re.matches)
                       /\ FiredOf(h[n].fired, s, n)
           P == {n \in Nat : n <= Len(s) => Holds(n)}
<1>5. s \in Seq(B) /\ AreGroups(s)
  OBVIOUS
<1> HIDE DEF s
<1>6. 0 \in P
  <2>1. h[0].fired = <<>> /\ DOMAIN h[0].fired = {}
    BY <1>4 DEF Start
  <2>2. FiredOf(h[0].fired, s, 0)
    BY <2>1 DEF FiredOf
  <2>3. \A i \in 1 .. 0 : FALSE
    OBVIOUS
  <2> QED
    BY <1>2, <1>4, <2>2, <2>3
<1>7. ASSUME NEW m \in Nat, m \in P PROVE m + 1 \in P
  <2> SUFFICES ASSUME m + 1 <= Len(s) PROVE Holds(m + 1)
    OBVIOUS
  <2> DEFINE n == m + 1
             u == h[m]
             t == ApplyGroup(u, s[n])
  <2>1. n \in 1 .. Len(s) /\ n - 1 = m /\ m <= Len(s)
    BY <1>1
  <2>2. Holds(m)
    BY <1>7, <2>1
  <2>3. h[n] = t
    BY <1>4, <2>1
  <2>4. u \in Drafts(input) /\ IsGroup(s[n])
    BY <1>1, <2>1, <2>2
  <2>5. /\ t \in Drafts(input) /\ Cleaner(u, t)
        /\ \A re \in Secrets(s[n]) : Clean(t, re.matches)
        /\ t.fired \in {u.fired, Append(u.fired, s[n].name)}
    BY <2>4, GroupKeeps
  <2> HIDE DEF t
  <2>6. FiredOf(t.fired, s, n)
    <3>1. u.fired \in Seq(GroupNames) /\ FiredOf(u.fired, s, m)
      BY <2>2, <2>4 DEF Drafts
    <3> QED
      BY <1>5, <2>5, <3>1, FiredMore
  <2>7. ASSUME NEW i \in 1 .. n, NEW re \in Secrets(s[i]) PROVE Clean(t, re.matches)
    <3>1. CASE i = n
      BY <2>5, <2>7, <3>1
    <3>2. CASE i # n
      <4>1. i \in 1 .. m
        BY <3>2
      <4>2. Clean(u, re.matches) /\ Unmarked(re.matches)
        BY <2>2, <2>7, <4>1 DEF Secrets
      <4> QED
        BY <2>5, <4>2 DEF Cleaner
    <3> QED
      BY <3>1, <3>2
  <2> QED
    BY <2>3, <2>5, <2>6, <2>7
<1>8. Len(s) \in P
  <2> HIDE DEF P
  <2>1. Nat \subseteq P
    BY <1>6, <1>7, NatSetInduction
  <2> QED
    BY <1>1, <2>1
<1>9. Holds(Len(s))
  BY <1>1, <1>8
<1> QED
  BY <1>1, <1>4, <1>9 DEF s

----------------------------------------------------------------------------
(* What a redactor is made of. *)

\* What is not skipped, in order.
LEMMA SkippingKeeps ==
  ASSUME NEW A, NEW s \in Seq(A), NEW L
  PROVE  /\ Skipping(s, L) \in Seq(A) /\ ToSet(Skipping(s, L)) = ToSet(s) \ L
         /\ \A a, b \in DOMAIN Skipping(s, L) :
              a < b => \E p, q \in DOMAIN s : p < q /\ s[p] = Skipping(s, L)[a] /\ s[q] = Skipping(s, L)[b]
<1>1. Skipping(s, L) = Leaving(s, L)
  BY DEF Skipping, Leaving
<1> QED
  BY <1>1, LeavingKeeps, LeavingOrder

\* The evaluation order names each group once.
LEMMA OrderIsOnce ==
  /\ EvaluationOrder \in Seq(GroupNames)
  /\ \A p \in DOMAIN EvaluationOrder : Place(EvaluationOrder[p]) = p
  /\ "custom_regex" \in GroupNames
<1>1. DOMAIN EvaluationOrder = 1 .. 7
  BY DEF EvaluationOrder
<1>2. \A p, q \in 1 .. 7 : EvaluationOrder[p] = EvaluationOrder[q] => p = q
  BY DEF EvaluationOrder
<1>3. EvaluationOrder \in Seq(GroupNames)
  <2>1. \A p \in 1 .. 7 : EvaluationOrder[p] \in GroupNames
    BY <1>1 DEF GroupNames, ToSet
  <2>2. /\ "api_keys" \in GroupNames /\ "bearer_tokens" \in GroupNames /\ "jwt" \in GroupNames
        /\ "aws_keys" \in GroupNames /\ "github_tokens" \in GroupNames
        /\ "custom_regex" \in GroupNames /\ "pii" \in GroupNames
    <3>1. /\ EvaluationOrder[1] = "api_keys" /\ EvaluationOrder[2] = "bearer_tokens"
          /\ EvaluationOrder[3] = "jwt" /\ EvaluationOrder[4] = "aws_keys"
          /\ EvaluationOrder[5] = "github_tokens" /\ EvaluationOrder[6] = "custom_regex"
          /\ EvaluationOrder[7] = "pii"
      BY DEF EvaluationOrder
    <3>2. \A k \in {1, 2, 3, 4, 5, 6, 7} : k \in 1 .. 7
      OBVIOUS
    <3> QED
      BY <2>1, <3>1, <3>2
  <2> QED
    BY <2>2 DEF EvaluationOrder
<1>4. ASSUME NEW p \in 1 .. 7 PROVE Place(EvaluationOrder[p]) = p
  <2>1. Place(EvaluationOrder[p]) \in 1 .. 7 /\ EvaluationOrder[Place(EvaluationOrder[p])] = EvaluationOrder[p]
    BY <1>1 DEF Place
  <2> QED
    BY <1>2, <2>1
<1>5. "custom_regex" \in GroupNames
  <2>1. EvaluationOrder[6] = "custom_regex" /\ 6 \in DOMAIN EvaluationOrder
    BY <1>1 DEF EvaluationOrder
  <2> QED
    BY <2>1 DEF GroupNames, ToSet
<1> QED
  BY <1>1, <1>3, <1>4, <1>5

\* A configuration whose lists are lists.
IsConfig(config) ==
  config.patterns \in Seq(ToSet(config.patterns)) /\ config.custom \in Seq(ToSet(config.custom))

\* A redactor has the active groups, but for one of custom expressions none of
\* which compiles, in evaluation order.
LEMMA RedactorHas ==
  ASSUME NEW config, IsConfig(config), config.enabled, NEW r, r = NewRedactor(config)
  PROVE  /\ r.groups \in Seq(ToSet(r.groups)) /\ AreGroups(r.groups)
         /\ \A j \in DOMAIN r.groups : r.groups[j].name \in GroupNames /\ Active(config, r.groups[j].name)
         /\ \A g \in DOMAIN Builtin : Active(config, g) =>
              \E j \in DOMAIN r.groups : r.groups[j].regexes = Builtin[g]
<1> DEFINE names == Groups(config)
           groups == [j \in DOMAIN names |-> Compiled(config, names[j])]
           skip == Inactive(config) \cup
                     IF ToSet(config.custom) \subseteq Bad(config) THEN {"custom_regex"} ELSE {}
<1>1. r.groups = groups
  BY DEF NewRedactor
<1>2. names = Skipping(EvaluationOrder, skip)
  BY DEF Groups
<1>3. /\ names \in Seq(GroupNames) /\ ToSet(names) = GroupNames \ skip
      /\ \A a, b \in DOMAIN names : a < b =>
           \E p, q \in DOMAIN EvaluationOrder :
             p < q /\ EvaluationOrder[p] = names[a] /\ EvaluationOrder[q] = names[b]
  <2> HIDE DEF skip, names
  <2> QED
    BY <1>2, OrderIsOnce, SkippingKeeps DEF GroupNames
<1>4. DOMAIN names = 1 .. Len(names) /\ Len(names) \in Nat
  BY <1>3
<1> HIDE DEF names, skip
<1>5. groups \in Seq(ToSet(groups)) /\ DOMAIN groups = DOMAIN names
  <2>1. \A i \in 1 .. Len(names) : groups[i] \in ToSet(groups)
    BY <1>4 DEF ToSet
  <2> QED
    BY <1>4, <2>1
<1>6. ASSUME NEW j \in DOMAIN names
      PROVE  /\ names[j] \in GroupNames /\ groups[j].name = names[j] /\ Active(config, names[j])
             /\ IsGroup(groups[j])
             /\ names[j] # "custom_regex" => groups[j].regexes = Builtin[names[j]]
  <2>1. names[j] \in GroupNames \ skip
    BY <1>3 DEF ToSet
  <2>2. Active(config, names[j])
    BY <2>1 DEF skip, Inactive, GroupNames
  <2>3. groups[j] = Compiled(config, names[j])
    BY <1>6
  <2>4. groups[j].name = names[j]
    BY <2>3 DEF Compiled
  <2>5. groups[j].regexes \in Seq(ToSet(groups[j].regexes))
    <3>1. CASE names[j] = "custom_regex"
      <4>1. groups[j].regexes = Skipping(config.custom, Bad(config))
        BY <2>3, <3>1 DEF Compiled
      <4>2. Skipping(config.custom, Bad(config)) \in Seq(ToSet(config.custom))
        BY SkippingKeeps DEF IsConfig
      <4> QED
        BY <4>1, <4>2, SeqOfItsOwn
    <3>2. CASE names[j] # "custom_regex"
      <4>1. groups[j].regexes = Builtin[names[j]]
        BY <2>3, <3>2 DEF Compiled
      <4>2. names[j] \in DOMAIN Builtin
        BY <2>1, <3>2, RedactionAssumption DEF GroupNames
      <4> QED
        BY <4>1, <4>2, RedactionAssumption
    <3> QED
      BY <3>1, <3>2
  <2>6. names[j] # "custom_regex" => groups[j].regexes = Builtin[names[j]]
    BY <2>3 DEF Compiled
  <2> HIDE DEF groups
  <2> QED
    BY <2>1, <2>2, <2>4, <2>5, <2>6 DEF IsGroup
<1> HIDE DEF groups
<1>7. ASSUME NEW j \in DOMAIN groups, NEW k \in DOMAIN groups, j < k
      PROVE  Place(groups[j].name) < Place(groups[k].name)
  <2>1. PICK p, q \in DOMAIN EvaluationOrder :
          p < q /\ EvaluationOrder[p] = names[j] /\ EvaluationOrder[q] = names[k]
    BY <1>3, <1>5, <1>7
  <2> QED
    BY <1>5, <1>6, <1>7, <2>1, OrderIsOnce
<1>8. AreGroups(groups)
  BY <1>5, <1>6, <1>7 DEF AreGroups
<1>9. ASSUME NEW g \in DOMAIN Builtin, Active(config, g)
      PROVE  \E j \in DOMAIN groups : groups[j].regexes = Builtin[g]
  <2>1. g \in GroupNames /\ g # "custom_regex"
    BY RedactionAssumption DEF GroupNames
  <2>2. g \notin skip
    BY <1>9, <2>1 DEF skip, Inactive
  <2>3. PICK j \in DOMAIN names : names[j] = g
    BY <1>3, <2>1, <2>2 DEF ToSet
  <2> QED
    BY <1>5, <1>6, <2>1, <2>3
<1> QED
  BY <1>1, <1>5, <1>6, <1>8, <1>9

\* Every entry that is wrong is reported.
LEMMA WrongIsReported ==
  ASSUME NEW A, NEW entries \in Seq(A), NEW field, NEW wrong, wrong \subseteq DOMAIN entries
  PROVE  /\ Reported(field, entries, wrong) \in Seq(ToSet(Reported(field, entries, wrong)))
         /\ \A i \in wrong : <<field, i>> \in ToSet(Reported(field, entries, wrong))
<1> DEFINE D == DOMAIN entries
           all == [i \in D |-> i]
           kept == Skipping(all, D \ wrong)
           report == [j \in DOMAIN kept |-> <<field, kept[j]>>]
<1>1. D = 1 .. Len(entries) /\ Len(entries) \in Nat
  OBVIOUS
<1>2. all \in Seq(Nat) /\ ToSet(all) = D
  BY <1>1 DEF ToSet
<1>3. kept \in Seq(Nat) /\ ToSet(kept) = wrong
  <2> HIDE DEF all
  <2>1. kept \in Seq(Nat) /\ ToSet(kept) = ToSet(all) \ (D \ wrong)
    BY <1>2, SkippingKeeps
  <2> QED
    BY <1>2, <2>1
<1>4. Reported(field, entries, wrong) = report
  BY DEF Reported
<1> HIDE DEF kept
<1>5. DOMAIN kept = 1 .. Len(kept) /\ Len(kept) \in Nat
  BY <1>3
<1>6. report \in Seq(ToSet(report))
  <2>1. \A j \in 1 .. Len(kept) : report[j] \in ToSet(report)
    BY <1>5 DEF ToSet
  <2> QED
    BY <1>5, <2>1
<1>7. ASSUME NEW i \in wrong PROVE <<field, i>> \in ToSet(report)
  <2>1. PICK j \in DOMAIN kept : kept[j] = i
    BY <1>3 DEF ToSet
  <2>2. j \in DOMAIN report /\ report[j] = <<field, i>>
    BY <2>1
  <2> HIDE DEF report
  <2> QED
    BY <2>2 DEF ToSet
<1> HIDE DEF report
<1> QED
  BY <1>4, <1>6, <1>7

----------------------------------------------------------------------------
(* Scrubbing on one thread. *)

\* Whether a group is on, and the tokens its expressions and the others' match.
On(config, g) == config.enabled /\ g \in ToSet(config.patterns) /\ (g = "pii" => config.redactPii)
SecretTokens(config) ==
  UNION {UNION {re.matches : re \in ToSet(Builtin[g])} : g \in {x \in DOMAIN Builtin : On(config, x)}}

\* A redactor built for a configuration does what is asked of it.
LEMMA ScrubIsRight ==
  ASSUME NEW A, NEW input \in Seq(A), NEW config, IsConfig(config),
         NEW r, r = NewRedactor(config), NEW out, out = Apply(r, input)
  PROVE  /\ ToSet(out.content) \cap SecretTokens(config) = {}
         /\ out.count = 0 => out.content = input
         /\ out.count >= Cardinality({i \in DOMAIN input : input[i] \in SecretTokens(config)})
         /\ \A g \in ToSet(out.fired) : g \in GroupNames /\ On(config, g)
         /\ \A i, j \in DOMAIN out.fired : i < j => Place(out.fired[i]) < Place(out.fired[j])
         /\ config.enabled => \A i \in Unknown(config) : <<"patterns", i>> \in ToSet(r.errors)
<1> DEFINE S == SecretTokens(config)
<1>1. r.groups \in Seq(ToSet(r.groups)) /\ AreGroups(r.groups)
  <2>1. CASE config.enabled
    BY <2>1, RedactorHas
  <2>2. CASE ~ config.enabled
    <3>1. r.groups = <<>>
      BY <2>2 DEF NewRedactor
    <3>2. DOMAIN r.groups = {} /\ r.groups \in Seq(ToSet(r.groups))
      BY <3>1
    <3> QED
      BY <3>2 DEF AreGroups
  <2> QED
    BY <2>1, <2>2
<1>2. /\ out \in Drafts(input)
      /\ \A j \in DOMAIN r.groups : \A re \in Secrets(r.groups[j]) : Clean(out, re.matches)
      /\ FiredOf(out.fired, r.groups, Len(r.groups))
  BY <1>1, ApplyKeeps
<1>3. /\ DOMAIN out.content = DOMAIN input /\ out.count \in Nat
      /\ Cardinality(Changed(input, out.content)) <= out.count
      /\ out.content = [i \in DOMAIN input |-> out.content[i]]
      /\ out.fired \in Seq(GroupNames)
  BY <1>2 DEF Drafts
<1>4. ASSUME NEW i \in DOMAIN out.content PROVE out.content[i] \notin S
  <2> SUFFICES ASSUME NEW g \in DOMAIN Builtin, On(config, g), NEW re \in ToSet(Builtin[g]),
                      out.content[i] \in re.matches
               PROVE  FALSE
    BY DEF SecretTokens
  <2>1. g \in GroupNames /\ g # "custom_regex"
    BY RedactionAssumption DEF GroupNames
  <2>2. Active(config, g) /\ config.enabled
    BY <2>1 DEF Active, On
  <2>3. PICK j \in DOMAIN r.groups : r.groups[j].regexes = Builtin[g]
    BY <2>2, RedactorHas
  <2>4. Unmarked(re.matches)
    BY RedactionAssumption DEF Unmarked, GroupNames
  <2>5. re \in Secrets(r.groups[j])
    BY <2>3, <2>4 DEF Secrets
  <2>6. Clean(out, re.matches)
    BY <1>2, <2>5
  <2> QED
    BY <2>6 DEF Clean
<1> HIDE DEF S
<1>5. ToSet(out.content) \cap S = {}
  BY <1>4 DEF ToSet
<1>6. IsFiniteSet(DOMAIN input)
  BY DistinctSize
<1>7. IsFiniteSet(Changed(input, out.content)) /\ Cardinality(Changed(input, out.content)) \in Nat
  <2>1. Changed(input, out.content) \subseteq DOMAIN input
    BY DEF Changed
  <2> QED
    BY <1>6, <2>1, FS_Subset, FS_CardinalityType
<1>8. ASSUME out.count = 0 PROVE out.content = input
  <2>1. Cardinality(Changed(input, out.content)) = 0
    BY <1>3, <1>7, <1>8
  <2>2. Changed(input, out.content) = {}
    BY <1>7, <2>1, FS_EmptySet
  <2>3. \A i \in DOMAIN input : out.content[i] = input[i]
    BY <2>2 DEF Changed
  <2>4. input = [i \in DOMAIN input |-> input[i]]
    OBVIOUS
  <2> QED
    BY <1>3, <2>3, <2>4
<1>9. out.count >= Cardinality({i \in DOMAIN input : input[i] \in S})
  <2> DEFINE found == {i \in DOMAIN input : input[i] \in S}
  <2>1. found \subseteq Changed(input, out.content)
    BY <1>3, <1>4 DEF Changed
  <2> HIDE DEF found
  <2>2. IsFiniteSet(found) /\ Cardinality(found) <= Cardinality(Changed(input, out.content))
    BY <1>7, <2>1, FS_Subset
  <2>3. Cardinality(found) \in Nat
    BY <2>2, FS_CardinalityType
  <2>4. Cardinality(found) <= out.count
    BY <1>3, <1>7, <2>2, <2>3
  <2> QED
    BY <1>3, <2>3, <2>4 DEF found
<1>10. ASSUME NEW g \in ToSet(out.fired) PROVE g \in GroupNames /\ On(config, g)
  <2>1. PICK a \in DOMAIN out.fired : out.fired[a] = g
    BY <1>10 DEF ToSet
  <2>2. PICK j \in 1 .. Len(r.groups) : g = r.groups[j].name
    BY <1>2, <2>1 DEF FiredOf
  <2>3. j \in DOMAIN r.groups
    BY <1>1
  <2>4. config.enabled
    <3> SUFFICES ASSUME ~ config.enabled PROVE FALSE
      OBVIOUS
    <3>1. r.groups = <<>>
      BY DEF NewRedactor
    <3> QED
      BY <2>3, <3>1
  <2>5. g \in GroupNames /\ Active(config, g)
    BY <2>2, <2>3, <2>4, RedactorHas
  <2> QED
    BY <2>4, <2>5 DEF Active, On
<1>11. \A i, j \in DOMAIN out.fired : i < j => Place(out.fired[i]) < Place(out.fired[j])
  BY <1>2 DEF FiredOf
<1>12. ASSUME config.enabled, NEW i \in Unknown(config) PROVE <<"patterns", i>> \in ToSet(r.errors)
  <2> DEFINE p == Reported("patterns", config.patterns, Unknown(config))
             c == Reported("custom_regex", config.custom, Broken(config))
  <2>1. r.errors = p \o c
    BY <1>12 DEF NewRedactor
  <2>2. p \in Seq(ToSet(p)) /\ <<"patterns", i>> \in ToSet(p)
    <3>1. Unknown(config) \subseteq DOMAIN config.patterns
      BY DEF Unknown
    <3> QED
      BY <1>12, <3>1, WrongIsReported DEF IsConfig
  <2>3. c \in Seq(ToSet(c))
    <3>1. Broken(config) \subseteq DOMAIN config.custom
      BY DEF Broken
    <3> QED
      BY <3>1, WrongIsReported DEF IsConfig
  <2> HIDE DEF p, c
  <2>4. PICK k \in DOMAIN p : p[k] = <<"patterns", i>>
    BY <2>2 DEF ToSet
  <2>5. k \in DOMAIN (p \o c) /\ (p \o c)[k] = p[k]
    BY <2>2, <2>3
  <2> QED
    BY <2>1, <2>4, <2>5 DEF ToSet
<1> QED
  BY <1>5, <1>8, <1>9, <1>10, <1>11, <1>12 DEF S

\* What may be scrubbed: configurations of lists, and texts.
Scrubbable(configs, contents) ==
  /\ \A c \in configs : IsConfig(c)
  /\ \A t \in contents : t \in Seq(ToSet(t))

\* What is cached was built for its configuration, and the last call used it.
CacheInv(configs, contents) ==
  /\ cache = {} \/ \E c \in configs : cache = {[config |-> c, redactor |-> NewRedactor(c)]}
  /\ scrubbed = {} \/
       \E c \in configs, t \in contents :
         /\ scrubbed = {[config |-> c, input |-> t, out |-> Apply(NewRedactor(c), t)]}
         /\ errors = NewRedactor(c).errors

\* What the invariant says of the last call.
LEMMA LastCallIsRight ==
  ASSUME NEW configs, NEW contents, Scrubbable(configs, contents), CacheInv(configs, contents)
  PROVE  ScrubIsForItsOwnConfig
<1> SUFFICES ASSUME scrubbed # {} PROVE ScrubIsForItsOwnConfig
  BY DEF ScrubIsForItsOwnConfig
<1>1. PICK c \in configs, t \in contents :
        /\ scrubbed = {[config |-> c, input |-> t, out |-> Apply(NewRedactor(c), t)]}
        /\ errors = NewRedactor(c).errors
  BY DEF CacheInv
<1> DEFINE r == NewRedactor(c)
           out == Apply(r, t)
<1>2. IsConfig(c) /\ t \in Seq(ToSet(t))
  BY DEF Scrubbable
<1>3. /\ ToSet(out.content) \cap SecretTokens(c) = {}
      /\ out.count = 0 => out.content = t
      /\ out.count >= Cardinality({i \in DOMAIN t : t[i] \in SecretTokens(c)})
      /\ \A g \in ToSet(out.fired) : g \in GroupNames /\ On(c, g)
      /\ \A i, j \in DOMAIN out.fired : i < j => Place(out.fired[i]) < Place(out.fired[j])
      /\ c.enabled => \A i \in Unknown(c) : <<"patterns", i>> \in ToSet(r.errors)
  BY <1>2, ScrubIsRight
<1>4. c.enabled => \A i \in DOMAIN c.patterns :
                     c.patterns[i] \notin ToSet(EvaluationOrder) => <<"patterns", i>> \in ToSet(r.errors)
  BY <1>3 DEF Unknown
<1> HIDE DEF r, out
<1> SUFFICES ASSUME NEW s \in scrubbed
             PROVE  LET fresh   == NewRedactor(s.config)
                        on(g)   == /\ s.config.enabled /\ g \in ToSet(s.config.patterns)
                                   /\ g = "pii" => s.config.redactPii
                        secrets == UNION {UNION {re.matches : re \in ToSet(Builtin[g])} :
                                            g \in {x \in DOMAIN Builtin : on(x)}}
                    IN  /\ s.out = Apply(fresh, s.input)
                        /\ errors = fresh.errors
                        /\ ToSet(s.out.content) \cap secrets = {}
                        /\ s.out.count = 0 => s.out.content = s.input
                        /\ s.out.count >= Cardinality({i \in DOMAIN s.input : s.input[i] \in secrets})
                        /\ \A g \in ToSet(s.out.fired) : g \in ToSet(EvaluationOrder) /\ on(g)
                        /\ \A i, j \in DOMAIN s.out.fired : i < j => Place(s.out.fired[i]) < Place(s.out.fired[j])
                        /\ s.config.enabled =>
                             \A i \in DOMAIN s.config.patterns :
                               s.config.patterns[i] \notin ToSet(EvaluationOrder)
                                 => <<"patterns", i>> \in ToSet(errors)
  BY DEF ScrubIsForItsOwnConfig
<1>5. s.config = c /\ s.input = t /\ s.out = out /\ errors = r.errors
  BY <1>1 DEF r, out
<1>6. s.out = Apply(NewRedactor(s.config), s.input) /\ errors = NewRedactor(s.config).errors
  BY <1>5 DEF r, out
<1>7. SecretTokens(s.config) = UNION {UNION {re.matches : re \in ToSet(Builtin[g])} :
                                        g \in {x \in DOMAIN Builtin :
                                                 /\ s.config.enabled /\ x \in ToSet(s.config.patterns)
                                                 /\ x = "pii" => s.config.redactPii}}
  BY DEF SecretTokens, On
<1> QED
  BY <1>3, <1>4, <1>5, <1>6, <1>7 DEF On, GroupNames

\* Whatever a thread is asked to scrub, one configuration after another, each
\* text is scrubbed by a redactor of its own configuration, and so scrubbed of
\* every secret the configuration names (m3-redact, m3-core-py).
THEOREM ScrubsAreTheirOwn ==
  ASSUME NEW CONSTANT configs, NEW CONSTANT contents, Scrubbable(configs, contents)
  PROVE  RedactInit /\ [][RedactNext(configs, contents)]_redactVars => []ScrubIsForItsOwnConfig
<1> DEFINE Inv == CacheInv(configs, contents)
<1>1. RedactInit => Inv
  BY DEF RedactInit, CacheInv
<1>2. Inv /\ [RedactNext(configs, contents)]_redactVars => Inv'
  <2> SUFFICES ASSUME Inv, [RedactNext(configs, contents)]_redactVars PROVE Inv'
    OBVIOUS
  <2>1. ASSUME NEW c \in configs, NEW t \in contents, Scrub(c, t) PROVE Inv'
    <3> DEFINE slot == IF Rebuild(c) THEN [config |-> c, redactor |-> NewRedactor(c)]
                       ELSE CHOOSE d \in cache : TRUE
               own == [config |-> c, redactor |-> NewRedactor(c)]
    <3>1. /\ cache' = {slot} /\ errors' = slot.redactor.errors
          /\ scrubbed' = {[config |-> c, input |-> t, out |-> Apply(slot.redactor, t)]}
      BY <2>1 DEF Scrub
    <3>2. slot = own
      <4>1. CASE Rebuild(c)
        BY <4>1
      <4>2. CASE ~ Rebuild(c)
        <5>1. PICK d \in cache : d.config = c
          BY <4>2 DEF Rebuild
        <5>2. PICK e \in configs : cache = {[config |-> e, redactor |-> NewRedactor(e)]}
          BY <5>1 DEF CacheInv
        <5>3. cache = {own}
          BY <5>1, <5>2
        <5> HIDE DEF own
        <5>4. (CHOOSE x \in {own} : TRUE) = own
          OBVIOUS
        <5> QED
          BY <4>2, <5>3, <5>4
      <4> QED
        BY <4>1, <4>2
    <3>3. own.redactor = NewRedactor(c)
      OBVIOUS
    <3> HIDE DEF slot
    <3> QED
      BY <3>1, <3>2, <3>3 DEF CacheInv
  <2>2. ASSUME UNCHANGED redactVars PROVE Inv'
    BY <2>2 DEF redactVars, CacheInv
  <2> QED
    BY <2>1, <2>2 DEF RedactNext
<1>3. Inv => ScrubIsForItsOwnConfig
  BY LastCallIsRight
<1> QED
  BY <1>1, <1>2, <1>3, PTL

----------------------------------------------------------------------------
(* The small decisions. *)

\* A clamped number is within its bounds.
LEMMA Clamped ==
  ASSUME NEW v \in Int, NEW lo \in Int, NEW hi \in Int, lo <= hi PROVE Clamp(v, lo, hi) \in lo .. hi
<1> DEFINE m == Min({v, hi})
<1>1. m \in Int /\ m <= hi
  BY ExtremesOfTwo
<1> HIDE DEF m
<1>2. Max({lo, m}) \in lo .. hi
  BY <1>1, ExtremesOfTwo
<1> QED
  BY <1>2 DEF Clamp, m

\* A governor begins to throttle below where it halts.
LEMMA GovernorIsOrdered ==
  ASSUME NEW initial \in Int, NEW limit \in Int
  PROVE  LET g == GovernorConfig(initial, limit)
         IN  g.limit \in 20 .. 100 /\ g.initial \in Int /\ g.initial < g.limit
<1> DEFINE g == GovernorConfig(initial, limit)
           i == Clamp(initial, 10, 99)
           l == Clamp(limit, 20, 100)
<1>1. i \in 10 .. 99
  <2>1. 10 \in Int /\ 99 \in Int /\ 10 <= 99
    OBVIOUS
  <2> QED
    BY <2>1, Clamped
<1>2. l \in 20 .. 100
  <2>1. 20 \in Int /\ 100 \in Int /\ 20 <= 100
    OBVIOUS
  <2> QED
    BY <2>1, Clamped, Zenon
<1>3. g = [limit |-> l, initial |-> IF i >= l /\ l # 100 THEN l - 5 ELSE i]
  BY DEF GovernorConfig
<1> HIDE DEF i, l, g
<1>4. g.limit = l /\ g.initial = IF i >= l /\ l # 100 THEN l - 5 ELSE i
  BY <1>3
<1>5. g.limit \in 20 .. 100 /\ g.initial \in Int /\ g.initial < g.limit
  BY <1>1, <1>2, <1>4
<1> QED
  BY <1>5 DEF g

\* How much a load and a time restrain the background work.
LEMMA RestraintOf ==
  ASSUME NEW g, g.limit \in 20 .. 100, g.initial \in Int, g.initial < g.limit,
         NEW l \in Int \cup {NaN}, NEW e \in Int \cup {NaN}
  PROVE  Restraint(DecidePacing(g, l, e).mode) =
           LET load == Reading(l, 100)
               time == Reading(e, 0)
           IN  IF g.limit # 100 /\ load >= g.limit THEN 3
               ELSE IF load >= g.initial THEN 2
               ELSE IF time < 30 THEN 3 ELSE IF time < 60 THEN 1 ELSE 0
<1> DEFINE load == Reading(l, 100)
           time == Reading(e, 0)
           p == DecidePacing(g, l, e)
<1>1. load \in Int /\ time \in Int
  BY DEF Reading
<1>2. p = IF g.limit # 100 /\ load >= g.limit THEN Pacing("HALTED", Absent, 300)
          ELSE IF load >= g.initial THEN Pacing("THROTTLED", 100, 0)
          ELSE IF time < 30 THEN Pacing("HALTED", Absent, 0)
          ELSE IF time < 60 THEN Pacing("TAPERED", 50, 0) ELSE Pacing("CONTINUOUS", 1, 0)
  BY DEF DecidePacing
<1>3. /\ Restraint("HALTED") = 3 /\ Restraint("THROTTLED") = 2
      /\ Restraint("TAPERED") = 1 /\ Restraint("CONTINUOUS") = 0
  BY DEF Restraint
<1>4. \A mode, b, i : Pacing(mode, b, i).mode = mode
  BY DEF Pacing
<1> HIDE DEF load, time, p
<1>5. Restraint(p.mode) = IF g.limit # 100 /\ load >= g.limit THEN 3
                          ELSE IF load >= g.initial THEN 2
                          ELSE IF time < 30 THEN 3 ELSE IF time < 60 THEN 1 ELSE 0
  BY <1>1, <1>2, <1>3, <1>4
<1> QED
  BY <1>5 DEF load, time, p

\* Whatever the thresholds, pacing is ordered.
LEMMA PacingHolds ==
  ASSUME NaN \notin Int, NEW initial \in Int, NEW limit \in Int,
         NEW loads \in SUBSET Int, NEW times \in SUBSET Int
  PROVE  PacingIsOrdered(GovernorConfig(initial, limit), loads, times)
<1> DEFINE g == GovernorConfig(initial, limit)
           mode(l, e) == Restraint(DecidePacing(g, l, e).mode)
           held(l, e) == IF g.limit # 100 /\ l >= g.limit THEN 3
                         ELSE IF l >= g.initial THEN 2
                         ELSE IF e < 30 THEN 3 ELSE IF e < 60 THEN 1 ELSE 0
<1>1. g.limit \in 20 .. 100 /\ g.initial \in Int /\ g.initial < g.limit
  BY GovernorIsOrdered
<1> HIDE DEF g
<1>2. \A v \in Int : Reading(v, 100) = v /\ Reading(v, 0) = v
  BY DEF Reading
<1>3. Reading(NaN, 100) = 100 /\ Reading(NaN, 0) = 0
  BY DEF Reading
<1>4. \A l, e \in Int : mode(l, e) = held(l, e)
  BY <1>1, <1>2, RestraintOf
<1>5. ASSUME NEW e \in Int PROVE mode(NaN, e) = held(100, e)
  <2>1. NaN \in Int \cup {NaN} /\ e \in Int \cup {NaN} /\ Reading(e, 0) = e
    BY <1>2
  <2>2. mode(NaN, e) = IF g.limit # 100 /\ Reading(NaN, 100) >= g.limit THEN 3
                       ELSE IF Reading(NaN, 100) >= g.initial THEN 2
                       ELSE IF Reading(e, 0) < 30 THEN 3 ELSE IF Reading(e, 0) < 60 THEN 1 ELSE 0
    BY <1>1, <2>1, RestraintOf, Zenon
  <2> QED
    BY <1>3, <2>1, <2>2
<1>6. ASSUME NEW l \in Int PROVE mode(l, NaN) = held(l, 0)
  <2>1. NaN \in Int \cup {NaN} /\ l \in Int \cup {NaN} /\ Reading(l, 100) = l
    BY <1>2
  <2>2. mode(l, NaN) = IF g.limit # 100 /\ Reading(l, 100) >= g.limit THEN 3
                       ELSE IF Reading(l, 100) >= g.initial THEN 2
                       ELSE IF Reading(NaN, 0) < 30 THEN 3 ELSE IF Reading(NaN, 0) < 60 THEN 1 ELSE 0
    BY <1>1, <2>1, RestraintOf, Zenon
  <2> QED
    BY <1>3, <2>1, <2>2
<1> HIDE DEF mode
<1>7. ASSUME NEW l \in loads, NEW m \in loads, NEW e \in times, l <= m, e >= 30
      PROVE  mode(l, e) <= mode(m, e)
  <2>1. l \in Int /\ m \in Int /\ e \in Int
    OBVIOUS
  <2>2. held(l, e) <= held(m, e)
    BY <1>1, <1>7, <2>1
  <2> HIDE DEF held
  <2> QED
    BY <1>4, <2>1, <2>2
<1>8. ASSUME NEW l \in loads, NEW e \in times, NEW f \in times, e <= f
      PROVE  mode(l, f) <= mode(l, e)
  <2>1. l \in Int /\ f \in Int /\ e \in Int
    OBVIOUS
  <2>2. held(l, f) <= held(l, e)
    BY <1>1, <1>8, <2>1
  <2> HIDE DEF held
  <2> QED
    BY <1>4, <2>1, <2>2
<1>9. ASSUME NEW l \in loads, NEW e \in times PROVE mode(NaN, e) >= 2 /\ mode(l, NaN) >= mode(l, e)
  <2>1. l \in Int /\ e \in Int
    OBVIOUS
  <2>2. held(100, e) >= 2 /\ held(l, 0) >= held(l, e)
    BY <1>1, <2>1
  <2> HIDE DEF held
  <2> QED
    BY <1>4, <1>5, <1>6, <2>1, <2>2
<1> HIDE DEF held
<1> QED
  BY <1>1, <1>7, <1>8, <1>9 DEF PacingIsOrdered, mode, g

\* The recursion of Leader, once some function satisfies it.
Leading(f, scores) ==
  \A T \in SUBSET DOMAIN <<2, 3, 4>> :
    f[T] = IF T = {} THEN 1 ELSE Leads(scores, f[T \ {Max(T)}], <<2, 3, 4>>[Max(T)])

\* A function that satisfies the recursion shows that the fold does.
LEMMA LeadingUnfolds ==
  ASSUME NEW scores, NEW V, NEW f \in [SUBSET DOMAIN <<2, 3, 4>> -> V], Leading(f, scores)
  PROVE  \E g : Leading(g, scores) /\ Leader(scores) = g[DOMAIN <<2, 3, 4>>]
<1>1. f = [T \in SUBSET DOMAIN <<2, 3, 4>> |->
             IF T = {} THEN 1 ELSE Leads(scores, f[T \ {Max(T)}], <<2, 3, 4>>[Max(T)])]
  BY DEF Leading
<1>2. PICK g : /\ g = [T \in SUBSET DOMAIN <<2, 3, 4>> |->
                         IF T = {} THEN 1 ELSE Leads(scores, g[T \ {Max(T)}], <<2, 3, 4>>[Max(T)])]
               /\ Leader(scores) = g[DOMAIN <<2, 3, 4>>]
  BY <1>1, ZenonT(60) DEF Leader, FoldLeft, MapThenFoldSet
<1>3. Leading(g, scores)
  BY <1>2 DEF Leading
<1> QED
  BY <1>2, <1>3

\* The lead, branch by branch.
LEMMA LeaderIs ==
  ASSUME NEW scores
  PROVE  Leader(scores) = Leads(scores, Leads(scores, Leads(scores, 1, 2), 3), 4)
<1> DEFINE others == <<2, 3, 4>>
           next == [i \in 1 .. 3 |-> [b \in 1 .. 4 |-> Leads(scores, b, others[i])]]
<1>1. DOMAIN others = 1 .. 3 /\ others[1] = 2 /\ others[2] = 3 /\ others[3] = 4
  OBVIOUS
<1>2. \A i \in 1 .. 3, b \in 1 .. 4 : Leads(scores, b, others[i]) \in 1 .. 4
  BY <1>1 DEF Leads
<1>3. next \in [1 .. 3 -> [1 .. 4 -> 1 .. 4]]
  <2> HIDE DEF others
  <2> QED
    BY <1>2
<1>4. PICK f : IsLoop(f, 3, 1 .. 4, 1, next)
  <2>1. 3 \in Nat /\ 1 \in 1 .. 4
    OBVIOUS
  <2> HIDE DEF next
  <2> QED
    BY <1>3, <2>1, LoopExists
<1> HIDE DEF others
<1>5. ASSUME NEW T \in SUBSET (1 .. 3)
      PROVE  f[T] = IF T = {} THEN 1 ELSE Leads(scores, f[T \ {Max(T)}], others[Max(T)])
  <2> SUFFICES ASSUME T # {} PROVE f[T] = Leads(scores, f[T \ {Max(T)}], others[Max(T)])
    BY <1>4 DEF IsLoop
  <2>1. Max(T) \in 1 .. 3
    <3>1. 3 \in Nat
      OBVIOUS
    <3> QED
      BY <3>1, LastPlace
  <2>2. f[T \ {Max(T)}] \in 1 .. 4 /\ f[T] = next[Max(T)][f[T \ {Max(T)}]]
    BY <1>4 DEF IsLoop
  <2> QED
    BY <2>1, <2>2
<1>6. Leading(f, scores)
  BY <1>1, <1>5 DEF Leading, others
<1>7. f \in [SUBSET DOMAIN <<2, 3, 4>> -> 1 .. 4]
  BY <1>1, <1>4 DEF IsLoop, others
<1>8. PICK g : Leading(g, scores) /\ Leader(scores) = g[1 .. 3]
  <2>1. \E g : Leading(g, scores) /\ Leader(scores) = g[DOMAIN <<2, 3, 4>>]
    BY <1>6, <1>7, LeadingUnfolds
  <2> QED
    BY <1>1, <2>1 DEF others
<1>9. ASSUME NEW T \in SUBSET (1 .. 3)
      PROVE  g[T] = IF T = {} THEN 1 ELSE Leads(scores, g[T \ {Max(T)}], others[Max(T)])
  BY <1>1, <1>8 DEF Leading, others
<1>10. ASSUME NEW n \in 1 .. 3 PROVE g[1 .. n] = Leads(scores, g[1 .. n - 1], others[n])
  <2>1. 3 \in Nat
    OBVIOUS
  <2>2. /\ 1 .. n \in SUBSET (1 .. 3) /\ 1 .. n # {}
        /\ Max(1 .. n) = n /\ (1 .. n) \ {n} = 1 .. n - 1
    BY <2>1, FirstPlaces
  <2> DEFINE T == 1 .. n
  <2> HIDE DEF T
  <2>3. T \in SUBSET (1 .. 3) /\ T # {} /\ Max(T) = n /\ T \ {n} = 1 .. n - 1
    BY <2>2 DEF T
  <2>4. g[T] = Leads(scores, g[1 .. n - 1], others[n])
    BY <1>9, <2>3
  <2> QED
    BY <2>4 DEF T
<1>11. g[1 .. 0] = 1
  <2>1. 1 .. 0 = {} /\ {} \in SUBSET (1 .. 3)
    OBVIOUS
  <2> QED
    BY <1>9, <2>1
<1>12. /\ g[1 .. 1] = Leads(scores, g[1 .. 0], 2) /\ g[1 .. 2] = Leads(scores, g[1 .. 1], 3)
       /\ g[1 .. 3] = Leads(scores, g[1 .. 2], 4)
  <2>1. /\ 1 \in 1 .. 3 /\ 2 \in 1 .. 3 /\ 3 \in 1 .. 3
        /\ 1 - 1 = 0 /\ 2 - 1 = 1 /\ 3 - 1 = 2
    OBVIOUS
  <2>2. \A n \in 1 .. 3 : g[1 .. n] = Leads(scores, g[1 .. n - 1], others[n])
    BY <1>10
  <2>3. g[1 .. 1] = Leads(scores, g[1 .. 1 - 1], others[1])
    BY <2>1, <2>2
  <2>4. g[1 .. 2] = Leads(scores, g[1 .. 2 - 1], others[2])
    BY <2>1, <2>2
  <2>5. g[1 .. 3] = Leads(scores, g[1 .. 3 - 1], others[3])
    BY <2>1, <2>2
  <2> QED
    BY <1>1, <2>1, <2>3, <2>4, <2>5
<1> QED
  BY <1>8, <1>11, <1>12

\* A route has the best score.
LEMMA RouteHolds == ASSUME NEW s, IsSignals(s) PROVE RouteIsBest(s)
<1> DEFINE a == If(s.entity, 30)
           b == If(s.tokens <= 3, 20) + If(~s.question, 10)
           c == If(s.question, 20) + If(s.tokens >= 6, 20) + 1 + If(s.intent \in Explaining, 15)
                  + If(s.intent \notin Explaining \cup Recalling \cup {NoIntent}, 5)
           d == If(s.recency, 30) + If(s.intent \in Recalling, 10)
           scores == RouteScores(s)
           best == Leader(scores)
           r == DecideRoute(s)
<1>1. scores = <<a, b, c, d>>
  BY DEF RouteScores
<1>2. /\ a \in Nat /\ b \in Nat /\ c \in Nat /\ d \in Nat /\ c >= 1
      /\ s.entity => a = 30
      /\ s.recency => d >= 30
      /\ ~s.question /\ s.tokens < 6 => c <= 16
  BY DEF IsSignals, If, Explaining, Recalling
<1> HIDE DEF a, b, c, d, scores
<1>3. scores[1] = a /\ scores[2] = b /\ scores[3] = c /\ scores[4] = d
  BY <1>1
<1>4. /\ best \in 1 .. 4
      /\ \A i \in 1 .. 4 : scores[i] < scores[best] \/ (scores[i] = scores[best] /\ i >= best)
  <2>1. best = Leads(scores, Leads(scores, Leads(scores, 1, 2), 3), 4)
    BY LeaderIs
  <2> DEFINE x == Leads(scores, 1, 2)
             y == Leads(scores, x, 3)
             z == Leads(scores, y, 4)
  <2>2. x = IF b > a THEN 2 ELSE 1
    BY <1>3 DEF Leads
  <2>3. y = IF scores[3] > scores[x] THEN 3 ELSE x
    BY DEF Leads
  <2>4. z = IF scores[4] > scores[y] THEN 4 ELSE y
    BY DEF Leads
  <2> HIDE DEF x, y, z
  <2>5. x \in {1, 2} /\ scores[x] = IF b > a THEN b ELSE a
    BY <1>3, <2>2
  <2>6. y \in 1 .. 3 /\ y \in {1, 2, 3} /\ scores[y] \in Nat
        /\ \A i \in 1 .. 3 : scores[i] < scores[y] \/ (scores[i] = scores[y] /\ i >= y)
    <3>1. \A i \in 1 .. 3 : i = 1 \/ i = 2 \/ i = 3
      OBVIOUS
    <3> QED
      BY <1>2, <1>3, <2>2, <2>3, <2>5, <3>1
  <2>7. z \in 1 .. 4 /\ \A i \in 1 .. 4 : scores[i] < scores[z] \/ (scores[i] = scores[z] /\ i >= z)
    <3>1. \A i \in 1 .. 4 : i \in 1 .. 3 \/ i = 4
      OBVIOUS
    <3> QED
      BY <1>2, <1>3, <2>4, <2>6, <3>1
  <2> QED
    BY <2>1, <2>7 DEF x, y, z
<1> HIDE DEF best
<1>5. r = [branch |-> Branches[best], best |-> scores[best],
           total |-> scores[1] + scores[2] + scores[3] + scores[4]]
  BY DEF DecideRoute, scores, best
<1>6. /\ DOMAIN Branches = 1 .. 4 /\ \A i, j \in 1 .. 4 : Branches[i] = Branches[j] => i = j
      /\ Branches[3] = "semantic"
  BY DEF Branches
<1>7. (CHOOSE i \in 1 .. 4 : Branches[i] = r.branch) = best
  <2>1. r.branch = Branches[best]
    BY <1>5
  <2> QED
    BY <1>4, <1>6, <2>1
<1>8. r.best = scores[best] /\ r.total = a + b + c + d
  BY <1>3, <1>5
<1>9. scores[best] \in {a, b, c, d}
  <2>1. best = 1 \/ best = 2 \/ best = 3 \/ best = 4
    BY <1>4
  <2> QED
    BY <1>3, <2>1
<1>10. r.total > 0 /\ r.best <= r.total
  BY <1>2, <1>8, <1>9
<1>11. ASSUME s.recency \/ s.entity, ~s.question, s.tokens < 6 PROVE r.branch # "semantic"
  <2>1. a >= 30 \/ d >= 30
    BY <1>2, <1>11
  <2>2. c <= 16
    BY <1>2, <1>11
  <2>3. scores[1] <= scores[best] /\ scores[4] <= scores[best]
    <3>1. 1 \in 1 .. 4 /\ 4 \in 1 .. 4 /\ scores[best] \in Nat
      BY <1>2, <1>9
    <3> QED
      BY <1>2, <1>3, <1>4, <3>1
  <2>4. best # 3
    <3>1. scores[best] \in Nat
      BY <1>2, <1>9
    <3> QED
      BY <1>2, <1>3, <2>1, <2>2, <2>3, <3>1
  <2>5. r.branch = Branches[best] /\ 3 \in 1 .. 4
    BY <1>5
  <2> QED
    BY <1>4, <1>6, <2>4, <2>5
<1> HIDE DEF r
<1> QED
  BY <1>4, <1>7, <1>10, <1>11 DEF RouteIsBest, r, scores

\* What a base delay becomes, factor by factor.
LEMMA ScaledSteps ==
  ASSUME MaxDuration \in Nat, NEW base \in 0 .. MaxDuration
  PROVE  /\ Scaled(base)[0] = base
         /\ \A n \in 0 .. 31 : Scaled(base)[n] \in 0 .. MaxDuration
         /\ \A n \in 1 .. 31 : /\ Scaled(base)[n] >= Scaled(base)[n - 1]
                               /\ Scaled(base)[n] \in {2 * Scaled(base)[n - 1], MaxDuration}
<1> DEFINE V == 0 .. MaxDuration
           next == [n \in 1 .. 31 |-> [d \in V |-> SaturatingMul(d, 2)]]
           k == Scaled(base)
<1>1. ASSUME NEW d \in V
      PROVE  LET e == SaturatingMul(d, 2) IN e \in V /\ e >= d /\ e \in {2 * d, MaxDuration}
  BY DEF SaturatingMul
<1>2. next \in [1 .. 31 -> [V -> V]]
  BY <1>1
<1>3. PICK f : IsLoop(f, 31, V, base, next)
  <2>1. 31 \in Nat /\ base \in V
    OBVIOUS
  <2> HIDE DEF next, V
  <2> QED
    BY <1>2, <2>1, LoopExists
<1> DEFINE g == [n \in 0 .. 31 |-> f[1 .. n]]
<1>4. \A n \in 0 .. 31 : 1 .. n \in SUBSET (1 .. 31)
  OBVIOUS
<1>5. ASSUME NEW n \in 0 .. 31 PROVE g[n] = IF n = 0 THEN base ELSE SaturatingMul(g[n - 1], 2)
  <2>1. CASE n = 0
    <3>1. 1 .. n = {} /\ 1 .. n \in SUBSET (1 .. 31)
      BY <1>4, <2>1
    <3>2. f[1 .. n] = base
      BY <1>3, <3>1 DEF IsLoop
    <3> QED
      BY <2>1, <3>2
  <2>2. CASE n # 0
    <3> DEFINE T == 1 .. n
    <3>1. n \in 1 .. 31 /\ n - 1 \in 0 .. 31 /\ 31 \in Nat
      BY <2>2
    <3>2. T \in SUBSET (1 .. 31) /\ T # {} /\ Max(T) = n /\ T \ {n} = 1 .. n - 1
      BY <3>1, FirstPlaces
    <3>3. 1 .. n - 1 \in SUBSET (1 .. 31)
      BY <1>4, <3>1
    <3> HIDE DEF T, next, V
    <3>4. f[T] = next[n][f[1 .. n - 1]] /\ f[1 .. n - 1] \in V
      BY <1>3, <3>2, <3>3 DEF IsLoop
    <3>5. f[T] = SaturatingMul(f[1 .. n - 1], 2)
      BY <3>1, <3>4 DEF next
    <3> QED
      BY <2>2, <3>1, <3>5 DEF T
  <2> QED
    BY <2>1, <2>2
<1>6. g = [n \in 0 .. 31 |-> IF n = 0 THEN base ELSE SaturatingMul(g[n - 1], 2)]
  BY <1>5
<1> HIDE DEF g, k
<1>7. k = [n \in 0 .. 31 |-> IF n = 0 THEN base ELSE SaturatingMul(k[n - 1], 2)]
  BY <1>6, Zenon DEF Scaled, k
<1>8. k[0] = base
  BY <1>7
<1>9. \A n \in 1 .. 31 : k[n] = SaturatingMul(k[n - 1], 2)
  BY <1>7
<1> HIDE DEF V
<1> DEFINE P == {n \in Nat : n <= 31 => k[n] \in V}
<1>10. 0 \in P
  BY <1>8 DEF V
<1>11. ASSUME NEW n \in Nat, n \in P PROVE n + 1 \in P
  <2> SUFFICES ASSUME n + 1 <= 31 PROVE k[n + 1] \in V
    OBVIOUS
  <2>1. n + 1 \in 1 .. 31 /\ (n + 1) - 1 = n /\ k[n] \in V
    BY <1>11
  <2>2. k[n + 1] = SaturatingMul(k[n], 2)
    BY <1>9, <2>1
  <2> QED
    BY <1>1, <2>1, <2>2
<1>12. \A n \in 0 .. 31 : k[n] \in V
  <2> HIDE DEF P
  <2>1. Nat \subseteq P
    BY <1>10, <1>11, NatSetInduction
  <2> QED
    BY <2>1 DEF P
<1>13. ASSUME NEW n \in 1 .. 31 PROVE k[n] >= k[n - 1] /\ k[n] \in {2 * k[n - 1], MaxDuration}
  <2>1. n - 1 \in 0 .. 31
    OBVIOUS
  <2>2. k[n - 1] \in V /\ k[n] = SaturatingMul(k[n - 1], 2)
    BY <1>9, <1>12, <2>1
  <2> QED
    BY <1>1, <2>2
<1> QED
  BY <1>8, <1>12, <1>13 DEF k, V

\* How often the factor of an attempt is doubled.
LEMMA ShiftIs ==
  ASSUME NEW a \in Nat
  PROVE  Shift(a) = IF a = 0 THEN 0 ELSE IF a <= 32 THEN a - 1 ELSE 31
<1> DEFINE m == Max({a - 1, 0})
<1>1. m = IF a = 0 THEN 0 ELSE a - 1
  <2>1. a - 1 \in Int /\ 0 \in Int
    OBVIOUS
  <2>2. m = IF a - 1 >= 0 THEN a - 1 ELSE 0
    BY <2>1, ExtremesOfTwo
  <2> QED
    BY <2>2
<1>2. m \in Int /\ 31 \in Int
  BY <1>1
<1> HIDE DEF m
<1>3. Min({m, 31}) = IF m <= 31 THEN m ELSE 31
  BY <1>2, ExtremesOfTwo
<1> QED
  BY <1>1, <1>3 DEF Shift, m

\* Delays grow to their maximum, twofold as long as the factor does.
LEMMA DelaysHold ==
  ASSUME MaxDuration \in Nat, NEW base \in 0 .. MaxDuration, NEW most \in 0 .. MaxDuration,
         NEW attempts \in Nat
  PROVE  DelaysGrow(base, most, attempts)
<1> DEFINE k == Scaled(base)
           delay(a) == DelayForAttempt(base, most, a)
<1>1. ASSUME NEW a \in Nat
      PROVE  /\ Shift(a) \in 0 .. 31
             /\ delay(a) = IF k[Shift(a)] <= most THEN k[Shift(a)] ELSE most
  <2>1. Shift(a) \in 0 .. 31
    BY ShiftIs
  <2>2. k[Shift(a)] \in Int /\ most \in Int
    BY <2>1, ScaledSteps
  <2> QED
    BY <2>1, <2>2, ExtremesOfTwo DEF DelayForAttempt
<1>2. /\ k[0] = base /\ \A n \in 0 .. 31 : k[n] \in 0 .. MaxDuration
      /\ \A n \in 1 .. 31 : k[n] >= k[n - 1] /\ k[n] \in {2 * k[n - 1], MaxDuration}
  BY ScaledSteps
<1> HIDE DEF k, delay
<1> SUFFICES ASSUME NEW a \in 1 .. attempts
             PROVE  /\ delay(a) <= delay(a + 1) /\ delay(a + 1) <= most /\ delay(0) = delay(1)
                    /\ a <= 31 /\ delay(a + 1) < most => delay(a + 1) = 2 * delay(a)
                    /\ a = 1 => delay(a) = Min({base, most})
  BY DEF DelaysGrow, delay
<1> DEFINE m == Shift(a)
           n == Shift(a + 1)
<1>3. a \in Nat /\ a + 1 \in Nat /\ a >= 1
  OBVIOUS
<1>4. /\ m \in 0 .. 31 /\ n \in 0 .. 31
      /\ delay(a) = IF k[m] <= most THEN k[m] ELSE most
      /\ delay(a + 1) = IF k[n] <= most THEN k[n] ELSE most
  BY <1>1, <1>3
<1>5. (n = m + 1) \/ (n = m /\ a >= 32)
  BY <1>3, ShiftIs
<1>6. a = 1 => m = 0
  BY ShiftIs
<1> HIDE DEF m, n
<1>7. k[m] \in Nat /\ k[n] \in Nat /\ k[n] >= k[m] /\ (n = m + 1 => k[n] \in {2 * k[m], MaxDuration})
  <2>1. CASE n = m
    BY <1>2, <1>4, <2>1
  <2>2. CASE n = m + 1
    <3>1. n \in 1 .. 31 /\ n - 1 = m
      BY <1>4, <2>2
    <3> QED
      BY <1>2, <1>4, <3>1
  <2> QED
    BY <1>5, <2>1, <2>2
<1>8. delay(0) = delay(1)
  <2>1. Shift(0) = Shift(1) /\ 0 \in Nat /\ 1 \in Nat
    BY ShiftIs
  <2> QED
    BY <1>1, <2>1
<1>9. delay(a) <= delay(a + 1) /\ delay(a + 1) <= most
  BY <1>4, <1>7
<1>10. a <= 31 /\ delay(a + 1) < most => delay(a + 1) = 2 * delay(a)
  BY <1>3, <1>4, <1>5, <1>7
<1>11. a = 1 => delay(a) = Min({base, most})
  <2>1. Min({base, most}) = IF base <= most THEN base ELSE most
    BY ExtremesOfTwo
  <2> QED
    BY <1>2, <1>4, <1>6, <2>1
<1> QED
  BY <1>8, <1>9, <1>10, <1>11

----------------------------------------------------------------------------
(* Full-text queries. *)

\* The recursions of Picked and Doubled, once some functions satisfy them.
Picks1(f, s, kinds) ==
  \A T \in SUBSET DOMAIN s :
    f[T] = IF T = {} THEN <<>>
           ELSE IF s[Max(T)].kind \in kinds THEN Append(f[T \ {Max(T)}], s[Max(T)]) ELSE f[T \ {Max(T)}]
Doubles(f, s) ==
  \A T \in SUBSET DOMAIN s :
    f[T] = IF T = {} THEN <<>>
           ELSE IF s[Max(T)].text = "\"" THEN f[T \ {Max(T)}] \o <<s[Max(T)], s[Max(T)]>>
           ELSE Append(f[T \ {Max(T)}], s[Max(T)])

\* A function that satisfies the recursion shows that the fold does.
LEMMA PickedUnfolds ==
  ASSUME NEW s, NEW kinds, NEW V, NEW f \in [SUBSET DOMAIN s -> V], Picks1(f, s, kinds)
  PROVE  \E g : Picks1(g, s, kinds) /\ Picked(s, kinds) = g[DOMAIN s]
<1>1. f = [T \in SUBSET DOMAIN s |->
             IF T = {} THEN <<>>
             ELSE IF s[Max(T)].kind \in kinds THEN Append(f[T \ {Max(T)}], s[Max(T)]) ELSE f[T \ {Max(T)}]]
  BY DEF Picks1
<1>2. PICK g : /\ g = [T \in SUBSET DOMAIN s |->
                         IF T = {} THEN <<>>
                         ELSE IF s[Max(T)].kind \in kinds THEN Append(g[T \ {Max(T)}], s[Max(T)])
                         ELSE g[T \ {Max(T)}]]
               /\ Picked(s, kinds) = g[DOMAIN s]
  BY <1>1, ZenonT(60) DEF Picked, FoldLeft, MapThenFoldSet
<1>3. Picks1(g, s, kinds)
  BY <1>2 DEF Picks1
<1> QED
  BY <1>2, <1>3

\* The same of Doubled.
LEMMA DoubledUnfolds ==
  ASSUME NEW s, NEW V, NEW f \in [SUBSET DOMAIN s -> V], Doubles(f, s)
  PROVE  \E g : Doubles(g, s) /\ Doubled(s) = g[DOMAIN s]
<1>1. f = [T \in SUBSET DOMAIN s |->
             IF T = {} THEN <<>>
             ELSE IF s[Max(T)].text = "\"" THEN f[T \ {Max(T)}] \o <<s[Max(T)], s[Max(T)]>>
             ELSE Append(f[T \ {Max(T)}], s[Max(T)])]
  BY DEF Doubles
<1>2. PICK g : /\ g = [T \in SUBSET DOMAIN s |->
                         IF T = {} THEN <<>>
                         ELSE IF s[Max(T)].text = "\"" THEN g[T \ {Max(T)}] \o <<s[Max(T)], s[Max(T)]>>
                         ELSE Append(g[T \ {Max(T)}], s[Max(T)])]
               /\ Doubled(s) = g[DOMAIN s]
  BY <1>1, ZenonT(60) DEF Doubled, FoldLeft, MapThenFoldSet
<1>3. Doubles(g, s)
  BY <1>2 DEF Doubles
<1> QED
  BY <1>2, <1>3

\* What the loop of Picked makes of each first part of a sequence.
IsPicking(h, s, K) ==
  /\ h[0] = <<>>
  /\ \A n \in 1 .. Len(s) : h[n] = IF s[n].kind \in K THEN Append(h[n - 1], s[n]) ELSE h[n - 1]
  /\ Picked(s, K) = h[Len(s)]

\* There is such a loop.
LEMMA PickingExists == ASSUME NEW A, NEW s \in Seq(A), NEW K PROVE \E h : IsPicking(h, s, K)
<1> DEFINE len == Len(s)
           V == Seq(A)
           step(n, u) == IF s[n].kind \in K THEN Append(u, s[n]) ELSE u
           next == [n \in 1 .. len |-> [u \in V |-> step(n, u)]]
<1>1. DOMAIN s = 1 .. len /\ len \in Nat /\ <<>> \in V /\ \A n \in 1 .. len : s[n] \in A
  OBVIOUS
<1>2. \A n \in 1 .. len, u \in V : step(n, u) \in V
  BY <1>1
<1> HIDE DEF step
<1>3. next \in [1 .. len -> [V -> V]]
  BY <1>2
<1>4. PICK f : IsLoop(f, len, V, <<>>, next)
  <2> HIDE DEF next, V, len
  <2> QED
    BY <1>1, <1>3, LoopExists
<1>5. Picks1(f, s, K)
  <2> SUFFICES ASSUME NEW T \in SUBSET DOMAIN s, T # {}
               PROVE  f[T] = step(Max(T), f[T \ {Max(T)}])
    BY <1>1, <1>4 DEF Picks1, IsLoop, step
  <2>1. Max(T) \in 1 .. len
    BY <1>1, LastPlace
  <2>2. f[T \ {Max(T)}] \in V /\ f[T] = next[Max(T)][f[T \ {Max(T)}]]
    BY <1>1, <1>4 DEF IsLoop
  <2> HIDE DEF V, len
  <2> QED
    BY <2>1, <2>2
<1>6. PICK g : Picks1(g, s, K) /\ Picked(s, K) = g[DOMAIN s]
  BY <1>1, <1>4, <1>5, PickedUnfolds DEF IsLoop
<1>7. g[{}] = <<>>
  <2>1. {} \in SUBSET DOMAIN s
    OBVIOUS
  <2> QED
    BY <1>6, <2>1 DEF Picks1
<1>8. ASSUME NEW T \in SUBSET (1 .. len), T # {}, g[T \ {Max(T)}] \in V
      PROVE  g[T] = next[Max(T)][g[T \ {Max(T)}]]
  <2>1. Max(T) \in 1 .. len
    <3> HIDE DEF len
    <3> QED
      BY <1>1, <1>8, LastPlace
  <2>2. g[T] = step(Max(T), g[T \ {Max(T)}])
    BY <1>1, <1>6, <1>8 DEF Picks1, step
  <2> HIDE DEF V, len
  <2> QED
    BY <1>8, <2>1, <2>2
<1>9. PICK h : IsTaken(h, len, V, <<>>, next) /\ h[len] = g[1 .. len]
  <2>1. Recursing(g, len, V, <<>>, next)
    <3> HIDE DEF next, V, len
    <3> QED
      BY <1>7, <1>8 DEF Recursing
  <2> HIDE DEF next, V, len
  <2> QED
    BY <1>1, <1>3, <2>1, TakenAlong
<1>10. \A n \in 1 .. len : h[n] = step(n, h[n - 1])
  <2> HIDE DEF V, len
  <2> QED
    BY <1>9 DEF IsTaken
<1>11. IsPicking(h, s, K)
  BY <1>1, <1>6, <1>9, <1>10 DEF IsPicking, IsTaken, step
<1> QED
  BY <1>11

\* Sequences of which the same is picked, place by place.
LEMMA PickedSame ==
  ASSUME NEW A, NEW B, NEW s \in Seq(A), NEW t \in Seq(B), NEW K, NEW L, Len(s) = Len(t),
         \A i \in 1 .. Len(s) : /\ s[i].kind \in K <=> t[i].kind \in L
                                /\ s[i].kind \in K => s[i] = t[i]
  PROVE  Picked(s, K) = Picked(t, L)
<1>1. PICK h : IsPicking(h, s, K)
  BY PickingExists
<1>2. PICK g : IsPicking(g, t, L)
  BY PickingExists
<1> DEFINE len == Len(s)
           P == {n \in Nat : h[n] = g[n]}
<1>3. len \in Nat /\ 0 \in P
  BY <1>1, <1>2 DEF IsPicking
<1>4. ASSUME NEW n \in 1 .. len, n - 1 \in P PROVE n \in P
  <2>1. n \in Nat /\ n \in 1 .. Len(t) /\ h[n - 1] = g[n - 1]
    BY <1>4
  <2> QED
    BY <1>1, <1>2, <2>1 DEF IsPicking
<1> HIDE DEF len, P
<1>5. \A n \in 0 .. len : n \in P
  BY <1>3, <1>4, UpTo
<1> QED
  BY <1>1, <1>2, <1>3, <1>5 DEF len, P, IsPicking

\* What is picked is of the kinds asked for, and something is if there is any.
LEMMA PickedHas ==
  ASSUME NEW A, NEW s \in Seq(A), NEW K
  PROVE  /\ Picked(s, K) \in Seq({x \in A : x.kind \in K})
         /\ Picked(s, K) # <<>> <=> \E i \in 1 .. Len(s) : s[i].kind \in K
<1> DEFINE B == {x \in A : x.kind \in K}
           len == Len(s)
           some(n) == \E i \in 1 .. n : s[i].kind \in K
<1>1. PICK h : IsPicking(h, s, K)
  BY PickingExists
<1> DEFINE P == {n \in Nat : h[n] \in Seq(B) /\ (h[n] # <<>> <=> some(n))}
<1>2. len \in Nat /\ \A i \in 1 .. len : s[i] \in A
  OBVIOUS
<1>3. 0 \in P
  <2>1. <<>> \in Seq(B) /\ ~some(0)
    OBVIOUS
  <2> QED
    BY <1>1, <2>1 DEF IsPicking
<1>4. ASSUME NEW n \in 1 .. len, n - 1 \in P PROVE n \in P
  <2>1. n \in Nat /\ h[n - 1] \in Seq(B) /\ (h[n - 1] # <<>> <=> some(n - 1))
    BY <1>4
  <2>2. some(n) <=> some(n - 1) \/ s[n].kind \in K
    <3>1. \A i \in 1 .. n : i = n \/ i \in 1 .. n - 1
      OBVIOUS
    <3>2. \A i \in 1 .. n - 1 : i \in 1 .. n
      OBVIOUS
    <3>3. n \in 1 .. n
      OBVIOUS
    <3> QED
      BY <3>1, <3>2, <3>3
  <2>3. CASE s[n].kind \in K
    <3>1. h[n] = Append(h[n - 1], s[n]) /\ s[n] \in B
      BY <1>1, <1>2, <2>3 DEF IsPicking
    <3>2. ASSUME NEW u \in Seq(B), NEW x \in B PROVE Append(u, x) \in Seq(B) /\ Append(u, x) # <<>>
      OBVIOUS
    <3> HIDE DEF B, some
    <3> QED
      BY <2>1, <2>2, <2>3, <3>1, <3>2
  <2>4. CASE s[n].kind \notin K
    <3>1. h[n] = h[n - 1]
      BY <1>1, <2>4 DEF IsPicking
    <3> HIDE DEF B, some
    <3> QED
      BY <2>1, <2>2, <2>4, <3>1
  <2> QED
    BY <2>3, <2>4
<1> HIDE DEF P
<1>5. \A n \in 0 .. len : n \in P
  <2> HIDE DEF len
  <2> QED
    BY <1>2, <1>3, <1>4, UpTo
<1>6. len \in P
  BY <1>2, <1>5
<1> QED
  BY <1>1, <1>6 DEF P, IsPicking

\* Where all are of the kinds asked for, all are picked.
LEMMA PickedAll ==
  ASSUME NEW A, NEW s \in Seq(A), NEW K, \A i \in 1 .. Len(s) : s[i].kind \in K
  PROVE  Picked(s, K) = s
<1> DEFINE len == Len(s)
<1>1. PICK h : IsPicking(h, s, K)
  BY PickingExists
<1> DEFINE P == {n \in Nat : h[n] = SubSeq(s, 1, n)}
<1>2. len \in Nat /\ SubSeq(s, 1, len) = s
  OBVIOUS
<1>3. 0 \in P
  <2>1. h[0] = <<>> /\ SubSeq(s, 1, 0) = <<>>
    BY <1>1 DEF IsPicking
  <2> QED
    BY <2>1
<1>4. ASSUME NEW n \in 1 .. len, n - 1 \in P PROVE n \in P
  <2>1. Append(SubSeq(s, 1, n - 1), s[n]) = SubSeq(s, 1, n)
    OBVIOUS
  <2> QED
    <3>1. h[n] = Append(h[n - 1], s[n]) /\ h[n - 1] = SubSeq(s, 1, n - 1)
      BY <1>1, <1>4 DEF IsPicking
    <3> QED
      BY <2>1, <3>1
<1> HIDE DEF P
<1>5. \A n \in 0 .. len : n \in P
  <2> HIDE DEF len
  <2> QED
    BY <1>2, <1>3, <1>4, UpTo
<1>6. len \in P
  BY <1>2, <1>5
<1> QED
  BY <1>1, <1>2, <1>6 DEF P, IsPicking

\* Trim(s) is what is between two lexemes that are no blank.
IsSolid(s, lo, hi) ==
  /\ lo <= hi /\ Trim(s) = SubSeq(s, lo, hi) /\ s[lo].kind # "blank"
  /\ \A i \in 1 .. Len(s) : i < lo \/ i > hi => s[i].kind = "blank"

\* A text is blank or has a first and a last lexeme that is not.
LEMMA TrimIs ==
  ASSUME NEW A, NEW s \in Seq(A)
  PROVE  \/ Trim(s) = <<>> /\ \A i \in 1 .. Len(s) : s[i].kind = "blank"
         \/ \E lo, hi \in 1 .. Len(s) : IsSolid(s, lo, hi)
<1> DEFINE len == Len(s)
           solid == {i \in DOMAIN s : s[i].kind # "blank"}
<1>1. len \in Nat /\ DOMAIN s = 1 .. len
  OBVIOUS
<1>2. Trim(s) = IF solid = {} THEN <<>> ELSE SubSeq(s, Min(solid), Max(solid))
  BY DEF Trim
<1>3. CASE solid = {}
  BY <1>1, <1>2, <1>3
<1>4. CASE solid # {}
  <2> DEFINE lo == Min(solid)
             hi == Max(solid)
  <2>1. solid \in SUBSET (1 .. len) /\ solid \subseteq Nat
    BY <1>1
  <2>2. hi \in solid /\ \A m \in solid : hi >= m
    <3> HIDE DEF solid, len
    <3> QED
      BY <1>1, <1>4, <2>1, LastPlace
  <2>3. \E m \in solid : \A k \in solid : m <= k
    <3> HIDE DEF solid, len
    <3> QED
      BY <1>4, <2>1, LeastNatural
  <2>4. lo \in solid /\ \A m \in solid : lo <= m
    <3> HIDE DEF solid, len
    <3> QED
      BY <2>3 DEF Min
  <2>5. Trim(s) = SubSeq(s, lo, hi)
    BY <1>2, <1>4
  <2> HIDE DEF lo, hi
  <2>6. lo \in 1 .. len /\ hi \in 1 .. len /\ lo <= hi /\ s[lo].kind # "blank"
    BY <2>1, <2>2, <2>4
  <2>7. ASSUME NEW i \in 1 .. len, i < lo \/ i > hi PROVE s[i].kind = "blank"
    <3> SUFFICES ASSUME i \in solid PROVE FALSE
      BY <1>1
    <3>1. lo <= i /\ i <= hi /\ lo \in Int /\ hi \in Int /\ i \in Int
      BY <2>2, <2>4, <2>6
    <3> QED
      BY <2>7, <3>1
  <2>8. IsSolid(s, lo, hi)
    BY <2>5, <2>6, <2>7 DEF IsSolid
  <2> QED
    BY <2>6, <2>8
<1> QED
  BY <1>3, <1>4

\* What Trim leaves has something in it that is no blank.
LEMMA TrimHas ==
  ASSUME NEW A, NEW s \in Seq(A)
  PROVE  /\ Trim(s) \in Seq(A)
         /\ Trim(s) # <<>> => \E i \in 1 .. Len(Trim(s)) : Trim(s)[i].kind # "blank"
<1>1. CASE Trim(s) = <<>>
  BY <1>1
<1>2. CASE Trim(s) # <<>>
  <2>1. PICK lo, hi \in 1 .. Len(s) : IsSolid(s, lo, hi)
    BY <1>2, TrimIs
  <2> DEFINE t == SubSeq(s, lo, hi)
  <2>2. lo \in Nat /\ hi \in Nat /\ lo <= hi /\ s[lo].kind # "blank" /\ Trim(s) = t
    BY <2>1 DEF IsSolid
  <2>3. t \in Seq(A) /\ Len(t) = hi - lo + 1 /\ t[1] = s[lo]
    BY <2>2
  <2>4. 1 \in 1 .. Len(t)
    BY <2>2, <2>3
  <2> HIDE DEF t
  <2> QED
    BY <2>2, <2>3, <2>4
<1> QED
  BY <1>1, <1>2

\* Trimming loses nothing but blanks.
LEMMA TrimPicks ==
  ASSUME NEW A, NEW s \in Seq(A), NEW K, "blank" \notin K
  PROVE  Picked(Trim(s), K) = Picked(s, K)
<1> DEFINE len == Len(s)
<1>1. CASE Trim(s) = <<>> /\ \A i \in 1 .. len : s[i].kind = "blank"
  <2>1. <<>> \in Seq(A) /\ Len(<<>>) = 0
    OBVIOUS
  <2>2. ~ \E i \in 1 .. len : s[i].kind \in K
    BY <1>1
  <2>3. Picked(s, K) = <<>>
    BY <2>2, PickedHas
  <2>4. \A i \in 1 .. 0 : FALSE
    OBVIOUS
  <2> DEFINE none == <<>>
  <2>5. none \in Seq(A) /\ \A i \in 1 .. Len(none) : none[i].kind \in K
    BY <2>1, <2>4
  <2> HIDE DEF none
  <2>6. Picked(none, K) = none
    BY <2>5, PickedAll
  <2> QED
    BY <1>1, <2>3, <2>6 DEF none
<1>2. CASE \E lo, hi \in 1 .. len : IsSolid(s, lo, hi)
  <2>1. PICK lo, hi \in 1 .. len : IsSolid(s, lo, hi)
    BY <1>2
  <2> DEFINE t == SubSeq(s, lo, hi)
             size == hi - lo + 1
  <2>2. /\ Trim(s) = t /\ t \in Seq(A) /\ Len(t) = size /\ size \in Nat
        /\ len \in Nat /\ lo \in Nat /\ hi \in Nat /\ lo <= hi /\ hi <= len /\ lo >= 1
    BY <2>1 DEF IsSolid
  <2>3. \A n \in 1 .. size : t[n] = s[lo + n - 1]
    BY <2>2
  <2> HIDE DEF t
  <2>4. PICK h : IsPicking(h, s, K)
    BY PickingExists
  <2>5. PICK g : IsPicking(g, t, K)
    BY <2>2, PickingExists
  <2> DEFINE part(n) == IF n < lo THEN <<>> ELSE IF n <= hi THEN g[n - lo + 1] ELSE g[size]
             P == {n \in Nat : h[n] = part(n)}
  <2>6. 0 \in P
    BY <2>2, <2>4 DEF IsPicking
  <2>7. ASSUME NEW n \in 1 .. len, n - 1 \in P PROVE n \in P
    <3>1. n \in Nat /\ n - 1 \in Nat /\ h[n - 1] = part(n - 1)
      BY <2>7
    <3>2. h[n] = IF s[n].kind \in K THEN Append(h[n - 1], s[n]) ELSE h[n - 1]
      BY <2>4 DEF IsPicking
    <3>3. CASE n < lo \/ n > hi
      <4>1. h[n] = h[n - 1]
        BY <2>1, <3>2, <3>3 DEF IsSolid
      <4>2. part(n) = part(n - 1)
        <5>1. CASE n < lo
          BY <2>2, <3>1, <5>1
        <5>2. CASE n - 1 = hi
          <6>1. n - 1 >= lo /\ n > hi /\ (n - 1) - lo + 1 = size
            BY <2>2, <3>1, <5>2
          <6> QED
            BY <2>2, <3>1, <5>2, <6>1
        <5>3. CASE n - 1 > hi
          BY <2>2, <3>1, <5>3
        <5> QED
          BY <2>2, <3>1, <3>3, <5>1, <5>2, <5>3
      <4> QED
        BY <3>1, <4>1, <4>2
    <3>4. CASE ~(n < lo \/ n > hi)
      <4> DEFINE m == n - lo + 1
      <4>1. m \in 1 .. size /\ lo + m - 1 = n /\ n >= lo /\ n <= hi
        BY <2>2, <3>1, <3>4
      <4>2. t[m] = s[n]
        BY <2>3, <4>1
      <4>3. g[m] = IF t[m].kind \in K THEN Append(g[m - 1], t[m]) ELSE g[m - 1]
        BY <2>2, <2>5, <4>1 DEF IsPicking
      <4>4. part(n - 1) = g[m - 1]
        <5>1. CASE n = lo
          <6>1. m - 1 = 0 /\ n - 1 < lo
            BY <2>2, <3>1, <5>1
          <6> QED
            BY <2>5, <6>1 DEF IsPicking
        <5>2. CASE n # lo
          <6>1. ~(n - 1 < lo) /\ n - 1 <= hi /\ (n - 1) - lo + 1 = m - 1
            BY <2>2, <3>1, <4>1, <5>2
          <6> QED
            BY <6>1
        <5> QED
          BY <5>1, <5>2
      <4>5. part(n) = g[m]
        BY <2>2, <3>1, <4>1
      <4> HIDE DEF part, m
      <4>6. h[n] = part(n)
        BY <3>1, <3>2, <4>2, <4>3, <4>4, <4>5
      <4> QED
        BY <3>1, <4>6
    <3> QED
      BY <3>3, <3>4
  <2> HIDE DEF P
  <2>8. \A n \in 0 .. len : n \in P
    BY <2>2, <2>6, <2>7, UpTo
  <2>9. h[len] = part(len)
    BY <2>2, <2>8 DEF P
  <2>10. part(len) = g[size]
    <3>1. CASE len = hi
      BY <2>2, <3>1
    <3>2. CASE len # hi
      BY <2>2, <3>2
    <3> QED
      BY <3>1, <3>2
  <2> HIDE DEF part
  <2> QED
    BY <2>2, <2>4, <2>5, <2>9, <2>10 DEF IsPicking
<1> QED
  BY <1>1, <1>2, TrimIs

\* The loop of Doubled.
IsDoubling(h, s) ==
  /\ h[0] = <<>>
  /\ \A n \in 1 .. Len(s) :
       h[n] = IF s[n].text = "\"" THEN h[n - 1] \o <<s[n], s[n]>> ELSE Append(h[n - 1], s[n])
  /\ \A n \in 1 .. Len(s) : h[n - 1] \in Seq(ToSet(s))
  /\ Doubled(s) = h[Len(s)]

\* There is such a loop.
LEMMA DoublingExists == ASSUME NEW A, NEW s \in Seq(A) PROVE \E h : IsDoubling(h, s)
<1> DEFINE len == Len(s)
           V == Seq(ToSet(s))
           step(n, u) == IF s[n].text = "\"" THEN u \o <<s[n], s[n]>> ELSE Append(u, s[n])
           next == [n \in 1 .. len |-> [u \in V |-> step(n, u)]]
<1>1. DOMAIN s = 1 .. len /\ len \in Nat /\ <<>> \in V /\ \A n \in 1 .. len : s[n] \in ToSet(s)
  BY DEF ToSet
<1>2. \A n \in 1 .. len, u \in V : step(n, u) \in V
  <2>1. ASSUME NEW B, NEW x \in B, NEW u \in Seq(B) PROVE u \o <<x, x>> \in Seq(B) /\ Append(u, x) \in Seq(B)
    OBVIOUS
  <2> QED
    BY <1>1, <2>1
<1> HIDE DEF step
<1>3. next \in [1 .. len -> [V -> V]]
  BY <1>2
<1>4. PICK f : IsLoop(f, len, V, <<>>, next)
  <2> HIDE DEF next, V, len
  <2> QED
    BY <1>1, <1>3, LoopExists
<1>5. Doubles(f, s)
  <2> SUFFICES ASSUME NEW T \in SUBSET DOMAIN s, T # {}
               PROVE  f[T] = step(Max(T), f[T \ {Max(T)}])
    BY <1>1, <1>4 DEF Doubles, IsLoop, step
  <2>1. Max(T) \in 1 .. len
    BY <1>1, LastPlace
  <2>2. f[T \ {Max(T)}] \in V /\ f[T] = next[Max(T)][f[T \ {Max(T)}]]
    BY <1>1, <1>4 DEF IsLoop
  <2> HIDE DEF V, len
  <2> QED
    BY <2>1, <2>2
<1>6. PICK g : Doubles(g, s) /\ Doubled(s) = g[DOMAIN s]
  BY <1>1, <1>4, <1>5, DoubledUnfolds DEF IsLoop
<1>7. g[{}] = <<>>
  <2>1. {} \in SUBSET DOMAIN s
    OBVIOUS
  <2> QED
    BY <1>6, <2>1 DEF Doubles
<1>8. ASSUME NEW T \in SUBSET (1 .. len), T # {}, g[T \ {Max(T)}] \in V
      PROVE  g[T] = next[Max(T)][g[T \ {Max(T)}]]
  <2>1. Max(T) \in 1 .. len
    <3> HIDE DEF len
    <3> QED
      BY <1>1, <1>8, LastPlace
  <2>2. g[T] = step(Max(T), g[T \ {Max(T)}])
    BY <1>1, <1>6, <1>8 DEF Doubles, step
  <2> HIDE DEF V, len
  <2> QED
    BY <1>8, <2>1, <2>2
<1>9. PICK h : IsTaken(h, len, V, <<>>, next) /\ h[len] = g[1 .. len]
  <2>1. Recursing(g, len, V, <<>>, next)
    <3> HIDE DEF next, V, len
    <3> QED
      BY <1>7, <1>8 DEF Recursing
  <2> HIDE DEF next, V, len
  <2> QED
    BY <1>1, <1>3, <2>1, TakenAlong
<1>10. \A n \in 1 .. len : h[n - 1] \in V /\ h[n] = step(n, h[n - 1])
  <2> HIDE DEF V, len
  <2> QED
    BY <1>9 DEF IsTaken
<1>11. IsDoubling(h, s)
  BY <1>1, <1>6, <1>9, <1>10 DEF IsDoubling, IsTaken, step
<1> QED
  BY <1>11

\* The quotes of a text.
Quotes(t) == {i \in DOMAIN t : t[i].text = "\""}

\* A quote added is one more.
LEMMA QuotesGrow ==
  ASSUME NEW A, NEW t \in Seq(A), NEW x \in A
  PROVE  /\ Cardinality(Quotes(t)) \in Nat
         /\ Cardinality(Quotes(Append(t, x)))
              = IF x.text = "\"" THEN Cardinality(Quotes(t)) + 1 ELSE Cardinality(Quotes(t))
<1> DEFINE u == Append(t, x)
           len == Len(t)
<1>1. /\ len \in Nat /\ DOMAIN t = 1 .. len /\ DOMAIN u = 1 .. len + 1
      /\ u[len + 1] = x /\ \A i \in 1 .. len : u[i] = t[i]
  OBVIOUS
<1>2. IsFiniteSet(Quotes(t)) /\ len + 1 \notin Quotes(t)
  <2>1. IsFiniteSet(1 .. len)
    BY <1>1, FS_Interval
  <2>2. Quotes(t) \subseteq 1 .. len
    BY <1>1 DEF Quotes
  <2>3. IsFiniteSet(Quotes(t))
    BY <2>1, <2>2, FS_Subset
  <2>4. len + 1 \notin 1 .. len
    BY <1>1
  <2> QED
    BY <2>2, <2>3, <2>4
<1>3. Quotes(u) = IF x.text = "\"" THEN Quotes(t) \cup {len + 1} ELSE Quotes(t)
  <2>1. 1 .. len + 1 = (1 .. len) \cup {len + 1}
    BY <1>1
  <2>2. \A i : i \in Quotes(u) <=> i \in 1 .. len + 1 /\ u[i].text = "\""
    BY <1>1 DEF Quotes
  <2>3. \A i : i \in Quotes(t) <=> i \in 1 .. len /\ t[i].text = "\""
    BY <1>1 DEF Quotes
  <2>4. \A i : i \in Quotes(u) <=> i \in Quotes(t) \/ (i = len + 1 /\ x.text = "\"")
    BY <1>1, <2>1, <2>2, <2>3, Zenon
  <2> HIDE DEF u, len
  <2> QED
    BY <2>4
<1>4. /\ Cardinality(Quotes(t)) \in Nat
      /\ Cardinality(Quotes(t) \cup {len + 1}) = Cardinality(Quotes(t)) + 1
  BY <1>2, FS_CardinalityType, FS_AddElement
<1> QED
  BY <1>3, <1>4

\* Doubling the quotes doubles their number.
LEMMA QuotesDouble ==
  ASSUME NEW A, NEW s \in Seq(A)
  PROVE  /\ Cardinality(Quotes(s)) \in Nat
         /\ Cardinality(Quotes(Doubled(s))) = 2 * Cardinality(Quotes(s))
<1> DEFINE len == Len(s)
           B == ToSet(s)
           size(t) == Cardinality(Quotes(t))
<1>1. PICK h : IsDoubling(h, s)
  BY DoublingExists
<1>2. len \in Nat /\ s \in Seq(B) /\ SubSeq(s, 1, len) = s /\ \A n \in 1 .. len : s[n] \in B
  <2>1. s \in Seq(B)
    BY SeqOfItsOwn
  <2> QED
    BY <2>1 DEF ToSet
<1> HIDE DEF B
<1> DEFINE P == {n \in Nat : size(h[n]) = 2 * size(SubSeq(s, 1, n))}
<1>3. 0 \in P
  <2>1. h[0] = <<>>
    BY <1>1 DEF IsDoubling
  <2>4. SubSeq(s, 1, 0) = <<>>
    OBVIOUS
  <2>2. Quotes(<<>>) = {}
    BY DEF Quotes
  <2>3. size(<<>>) = 0
    BY <2>2, FS_EmptySet
  <2>5. size(h[0]) = 0 /\ size(SubSeq(s, 1, 0)) = 0
    BY <2>1, <2>3, <2>4, Zenon
  <2> HIDE DEF size
  <2>6. size(h[0]) = 2 * size(SubSeq(s, 1, 0))
    BY <2>5
  <2> QED
    BY <2>6
<1>4. ASSUME NEW n \in 1 .. len, n - 1 \in P PROVE n \in P
  <2> DEFINE x == s[n]
             u == h[n - 1]
             t == SubSeq(s, 1, n - 1)
  <2>1. /\ h[n] = IF x.text = "\"" THEN u \o <<x, x>> ELSE Append(u, x)
        /\ u \in Seq(B) /\ x \in B
    BY <1>1, <1>2 DEF IsDoubling, B
  <2>2. t \in Seq(B) /\ SubSeq(s, 1, n) = Append(t, x)
    BY <1>2
  <2>3. n \in Nat /\ size(u) = 2 * size(t)
    BY <1>4
  <2> HIDE DEF x, u, t
  <2>4. size(u) \in Nat /\ size(t) \in Nat
    BY <2>1, <2>2, QuotesGrow
  <2>5. CASE x.text = "\""
    <3>1. size(Append(t, x)) = size(t) + 1
      BY <2>1, <2>2, <2>5, QuotesGrow
    <3>2. u \o <<x, x>> = Append(Append(u, x), x) /\ Append(u, x) \in Seq(B)
      <4>1. ASSUME NEW v \in Seq(B), NEW y \in B
            PROVE  v \o <<y, y>> = Append(Append(v, y), y) /\ Append(v, y) \in Seq(B)
        OBVIOUS
      <4> QED
        BY <2>1, <4>1
    <3>3. size(Append(u, x)) = size(u) + 1
      BY <2>1, <2>5, QuotesGrow
    <3>4. size(Append(Append(u, x), x)) = size(Append(u, x)) + 1
      BY <2>1, <2>5, <3>2, QuotesGrow
    <3>5. h[n] = Append(Append(u, x), x)
      BY <2>1, <2>5, <3>2
    <3> HIDE DEF size
    <3>6. size(h[n]) = size(u) + 2
      BY <2>4, <3>3, <3>4, <3>5
    <3>7. size(SubSeq(s, 1, n)) = size(t) + 1
      BY <2>2, <3>1
    <3>8. size(h[n]) = 2 * size(SubSeq(s, 1, n))
      BY <2>3, <2>4, <3>6, <3>7
    <3> QED
      BY <2>3, <3>8
  <2>6. CASE x.text # "\""
    <3>1. size(Append(t, x)) = size(t) /\ size(Append(u, x)) = size(u)
      BY <2>1, <2>2, <2>6, QuotesGrow
    <3> HIDE DEF size
    <3> QED
      BY <2>1, <2>2, <2>3, <2>6, <3>1
  <2> QED
    BY <2>5, <2>6
<1>5. len \in P
  <2>1. \A n \in 0 .. len : n \in P
    <3> HIDE DEF P, len
    <3> QED
      BY <1>2, <1>3, <1>4, UpTo
  <2> QED
    BY <1>2, <2>1
<1>6. size(s) \in Nat
  <2>1. IsFiniteSet(1 .. len)
    BY <1>2, FS_Interval
  <2>2. DOMAIN s = 1 .. len
    OBVIOUS
  <2>3. Quotes(s) \subseteq 1 .. len
    BY <2>2 DEF Quotes
  <2> QED
    BY <2>1, <2>3, FS_Subset, FS_CardinalityType
<1> QED
  BY <1>1, <1>2, <1>5, <1>6 DEF IsDoubling

\* What is left of a query once sanitized: words that are no operator, blanks.
Harmless == {"alnum", "snake", "blank"}

\* Sanitizing, trimming and clearing of punctuation leave the words typed.
LEMMA CleanKeepsWords ==
  ASSUME NEW query, NEW maxLen \in Nat, IsQuery(query)
  PROVE  LET clean == Trim(SanitizeForSearchable(SanitizeFts(query, maxLen)))
             typed == Picked(SubSeq(query, 1, Min({Len(query), maxLen})), {"alnum", "snake"})
         IN  /\ \E C : clean \in Seq(C) /\ \A x \in C : x.kind \in Harmless
             /\ Words(clean) = typed
             /\ clean # <<>> => typed # <<>>
<1> DEFINE A == ToSet(query)
           m == Min({Len(query), maxLen})
           q == SubSeq(query, 1, m)
           n == [i \in 1 .. m |-> Neutral(query[i])]
           s == Trim(n)
           t == SanitizeForSearchable(s)
           C == {x \in A \cup {Blank1} : /\ x.kind \in Harmless
                                         /\ x.kind # "blank" => x.text \notin SearchablePunct}
           W == {"alnum", "snake", "op"}
           K == {"alnum", "snake"}
<1>1. /\ Len(query) \in Nat /\ DOMAIN query = 1 .. Len(query) /\ query \in Seq(A)
      /\ \A i \in 1 .. Len(query) : query[i] \in A
  BY DEF IsQuery, ToSet
<1>2. m \in Nat /\ m <= Len(query) /\ m \in 0 .. Len(query)
  <2>1. Len(query) \in Int /\ maxLen \in Int
    BY <1>1
  <2>2. m = IF Len(query) <= maxLen THEN Len(query) ELSE maxLen
    BY <2>1, ExtremesOfTwo
  <2> HIDE DEF m
  <2> QED
    BY <1>1, <2>2
<1> HIDE DEF m, A
<1>3. q \in Seq(A) /\ Len(q) = m /\ \A i \in 1 .. m : q[i] = query[i] /\ i \in 1 .. Len(query)
  BY <1>1, <1>2
<1>4. ASSUME NEW x \in A PROVE /\ Neutral(x) \in C
                               /\ Neutral(x).kind \in W <=> x.kind \in K
                               /\ x.kind \in K => Neutral(x) = x
  <2>1. Blank1.kind = "blank"
    BY DEF Blank1, Lexeme
  <2>2. Blank1 \in C
    BY <2>1 DEF Harmless
  <2>3. x.kind \in K => x.text \notin SearchablePunct
    BY DEF IsQuery, IsWord, A
  <2>4. CASE x.kind \in Harmless
    <3>1. Neutral(x) = x
      BY <2>4 DEF Neutral, Harmless
    <3>2. x \in C
      BY <2>3, <2>4 DEF Harmless
    <3> QED
      BY <2>4, <3>1, <3>2 DEF Harmless
  <2>5. CASE x.kind \notin Harmless
    <3>1. Neutral(x) = Blank1
      BY <2>5 DEF Neutral, Harmless
    <3> QED
      BY <2>1, <2>2, <2>5, <3>1 DEF Harmless
  <2> QED
    BY <2>4, <2>5
<1>5. n \in Seq(C) /\ Len(n) = m /\ \A i \in 1 .. m : n[i] = Neutral(query[i])
  <2>1. \A i \in 1 .. m : Neutral(query[i]) \in C
    BY <1>1, <1>3, <1>4
  <2> HIDE DEF C
  <2> QED
    BY <1>2, <2>1
<1>6. Blank1 \in C /\ Blank1.kind = "blank"
  BY DEF Blank1, Lexeme, Harmless
<1>7. ASSUME NEW x \in C, x.text \in SearchablePunct PROVE x.kind \notin W
  BY <1>7 DEF Harmless
<1>8. \A x \in C : x.kind \in Harmless
  OBVIOUS
<1> HIDE DEF C, q, n
<1>9. Picked(n, W) = Picked(q, K)
  <2>1. ASSUME NEW i \in 1 .. Len(n)
        PROVE  /\ n[i].kind \in W <=> q[i].kind \in K
               /\ n[i].kind \in W => n[i] = q[i]
    <3>1. n[i] = Neutral(query[i]) /\ q[i] = query[i] /\ query[i] \in A
      BY <1>1, <1>3, <1>5
    <3> HIDE DEF W, K
    <3> QED
      BY <1>4, <3>1
  <2>2. Len(n) = Len(q)
    BY <1>3, <1>5
  <2> HIDE DEF W, K
  <2> QED
    BY <1>3, <1>5, <2>1, <2>2, PickedSame
<1>10. "blank" \notin W
  OBVIOUS
<1>11. s \in Seq(C) /\ Picked(s, W) = Picked(n, W)
  <2> HIDE DEF W
  <2> QED
    BY <1>5, <1>10, TrimHas, TrimPicks
<1> HIDE DEF s
<1>12. /\ t \in Seq(C) /\ Len(t) = Len(s)
       /\ \A i \in 1 .. Len(s) : t[i] = IF s[i].text \in SearchablePunct THEN Blank1 ELSE s[i]
  <2>1. DOMAIN s = 1 .. Len(s) /\ Len(s) \in Nat /\ \A i \in 1 .. Len(s) : s[i] \in C
    BY <1>11
  <2>2. t = [i \in 1 .. Len(s) |-> IF s[i].text \in SearchablePunct THEN Blank1 ELSE s[i]]
    BY <2>1 DEF SanitizeForSearchable
  <2>3. \A i \in 1 .. Len(s) : (IF s[i].text \in SearchablePunct THEN Blank1 ELSE s[i]) \in C
    BY <1>6, <2>1
  <2> HIDE DEF t
  <2> QED
    BY <2>1, <2>2, <2>3
<1> HIDE DEF t
<1>13. Picked(t, W) = Picked(s, W)
  <2>1. ASSUME NEW i \in 1 .. Len(t)
        PROVE  /\ t[i].kind \in W <=> s[i].kind \in W
               /\ t[i].kind \in W => t[i] = s[i]
    <3>1. s[i] \in C /\ i \in 1 .. Len(s)
      BY <1>11, <1>12
    <3>2. t[i] = IF s[i].text \in SearchablePunct THEN Blank1 ELSE s[i]
      BY <1>12, <3>1
    <3> HIDE DEF W
    <3> QED
      BY <1>6, <1>7, <1>10, <3>1, <3>2
  <2> HIDE DEF W
  <2> QED
    BY <1>11, <1>12, <2>1, PickedSame
<1>14. Trim(t) \in Seq(C) /\ Picked(Trim(t), W) = Picked(t, W)
  <2> HIDE DEF W
  <2> QED
    BY <1>10, <1>12, TrimHas, TrimPicks
<1>15. t = SanitizeForSearchable(SanitizeFts(query, maxLen))
  BY DEF t, s, n, m, SanitizeFts
<1>16. Words(Trim(t)) = Picked(q, K)
  <2>1. Words(Trim(t)) = Picked(Trim(t), W)
    BY DEF Words
  <2> HIDE DEF W, K
  <2> QED
    BY <1>9, <1>11, <1>13, <1>14, <2>1
<1>17. Picked(q, K) = Picked(SubSeq(query, 1, Min({Len(query), maxLen})), {"alnum", "snake"})
  BY DEF q, m
<1>18. \E D : Trim(t) \in Seq(D) /\ \A x \in D : x.kind \in Harmless
  BY <1>8, <1>14
<1>19. Trim(t) # <<>> => Picked(q, K) # <<>>
  <2> SUFFICES ASSUME Trim(t) # <<>> PROVE Picked(q, K) # <<>>
    OBVIOUS
  <2>1. PICK i \in 1 .. Len(Trim(t)) : Trim(t)[i].kind # "blank"
    BY <1>12, TrimHas
  <2>2. Trim(t)[i] \in C
    BY <1>14
  <2>3. Trim(t)[i].kind \in W
    BY <1>8, <2>1, <2>2 DEF Harmless
  <2> HIDE DEF W, K
  <2>4. Picked(Trim(t), W) # <<>>
    BY <1>14, <2>3, PickedHas
  <2> QED
    BY <1>9, <1>11, <1>13, <1>14, <2>4
<1> HIDE DEF K, W
<1> QED
  BY <1>15, <1>16, <1>17, <1>18, <1>19

\* What Python is given for a query of words, in each form.
Formed(r, clean, words) ==
  \/ r = NoMatch /\ clean = <<>>
  \/ r = Match("or", words) /\ Len(words) > 1 /\ clean # <<>>
  \/ r = Match("prefix", clean) /\ clean # <<>> /\ Len(clean) = 1 /\ clean[1].kind = "alnum"
  \/ r = Match("plain", clean) /\ clean # <<>>

\* A compiled query has no syntax of its typist's.
LEMMA QueryHolds ==
  ASSUME NEW query, NEW mode, NEW maxLen \in Nat, IsQuery(query)
  PROVE  QueryIsSafe(query, mode, maxLen)
<1> DEFINE r == CompileFtsQuery(query, mode, maxLen)
           clean == Trim(SanitizeForSearchable(SanitizeFts(query, maxLen)))
           words == Words(clean)
           typed == Picked(SubSeq(query, 1, Min({Len(query), maxLen})), {"alnum", "snake"})
           quoted == Quoted(query, "\"") \/ Quoted(query, "'")
           safe ==
             /\ r.form # "phrase" =>
                  /\ \A i \in DOMAIN r.terms : r.terms[i].kind \in Harmless
                  /\ Words(r.terms) = typed
                  /\ r.ok <=> typed # <<>>
             /\ r.form = "prefix" => Len(r.terms) = 1 /\ r.terms[1].kind = "alnum"
             /\ r.form = "or" => Len(r.terms) > 1
             /\ r.form = "phrase" =>
                  /\ Cardinality(Quotes(r.terms)) % 2 = 0
                  /\ Cardinality(Quotes(r.terms)) = 2 * Cardinality(Quotes(Inner(query)))
<1>1. safe => QueryIsSafe(query, mode, maxLen)
  BY DEF QueryIsSafe, Quotes, Harmless
<1>2. CASE quoted
  <2>1. r = Match("phrase", Doubled(Inner(query)))
    BY <1>2 DEF CompileFtsQuery
  <2>2. r.form = "phrase" /\ r.terms = Doubled(Inner(query))
    BY <2>1 DEF Match
  <2>3. \E A : Inner(query) \in Seq(A)
    <3>1. <<>> \in Seq(ToSet(query)) /\ query \in Seq(ToSet(query))
      BY DEF IsQuery
    <3>2. ASSUME NEW A, NEW s \in Seq(A), Len(s) > 1 PROVE SubSeq(s, 2, Len(s) - 1) \in Seq(A)
      BY <3>2
    <3>3. Len(query) \in Nat
      BY <3>1
    <3>4. Inner(query) \in Seq(ToSet(query))
      BY <3>1, <3>2, <3>3 DEF Inner
    <3> QED
      BY <3>4
  <2> HIDE DEF r
  <2>4. /\ Cardinality(Quotes(Inner(query))) \in Nat
        /\ Cardinality(Quotes(r.terms)) = 2 * Cardinality(Quotes(Inner(query)))
    BY <2>2, <2>3, QuotesDouble
  <2>5. \A c \in Nat : (2 * c) % 2 = 0
    OBVIOUS
  <2>6. Cardinality(Quotes(r.terms)) % 2 = 0
    BY <2>4, <2>5
  <2> QED
    BY <1>1, <2>2, <2>4, <2>6
<1>3. CASE ~quoted
  <2>1. PICK C : clean \in Seq(C) /\ \A x \in C : x.kind \in Harmless
    BY CleanKeepsWords
  <2>2. words = typed
    BY CleanKeepsWords
  <2>3. clean # <<>> => words # <<>>
    <3>1. clean # <<>> => typed # <<>>
      BY CleanKeepsWords
    <3> QED
      BY <2>2, <3>1
  <2>4. Formed(r, clean, words)
    BY <1>3 DEF CompileFtsQuery, Formed
  <2> HIDE DEF clean, words, typed, r, quoted
  <2>5. /\ DOMAIN clean = 1 .. Len(clean) /\ \A i \in DOMAIN clean : clean[i].kind \in Harmless
        /\ Words(clean) = words
    BY <2>1 DEF words
  <2>6. \E D : words \in Seq(D) /\ \A x \in D : x.kind \in {"alnum", "snake", "op"} /\ x.kind \in Harmless
    <3> DEFINE W == {"alnum", "snake", "op"}
               D == {x \in C : x.kind \in W}
    <3>1. words = Picked(clean, W)
      BY DEF words, Words
    <3>2. words \in Seq(D)
      <4> HIDE DEF W
      <4> QED
        BY <2>1, <3>1, PickedHas
    <3>3. \A x \in D : x.kind \in W /\ x.kind \in Harmless
      BY <2>1
    <3> QED
      BY <3>2, <3>3
  <2>7. /\ DOMAIN words = 1 .. Len(words) /\ \A i \in DOMAIN words : words[i].kind \in Harmless
        /\ Words(words) = words
    <3>1. PICK D : words \in Seq(D) /\ \A x \in D : x.kind \in {"alnum", "snake", "op"} /\ x.kind \in Harmless
      BY <2>6
    <3> DEFINE W == {"alnum", "snake", "op"}
    <3>2. DOMAIN words = 1 .. Len(words) /\ \A i \in 1 .. Len(words) : words[i] \in D
      BY <3>1
    <3>3. \A i \in 1 .. Len(words) : words[i].kind \in W /\ words[i].kind \in Harmless
      BY <3>1, <3>2
    <3> HIDE DEF W
    <3>4. Picked(words, W) = words
      BY <3>1, <3>3, PickedAll
    <3> QED
      BY <3>2, <3>3, <3>4 DEF Words, W
  <2>8. CASE r = NoMatch /\ clean = <<>>
    <3>1. /\ r.form = "none" /\ r.terms = <<>> /\ ~r.ok
      BY <2>8 DEF NoMatch
    <3>2. \A i \in DOMAIN r.terms : r.terms[i].kind \in Harmless
      BY <2>5, <2>8, <3>1
    <3>3. words = Words(<<>>)
      BY <2>5, <2>8
    <3>4. \A i \in 1 .. 0 : FALSE
      OBVIOUS
    <3>5. words = <<>>
      <4> DEFINE none == <<>>
                 W == {"alnum", "snake", "op"}
      <4>1. none \in Seq(C) /\ \A i \in 1 .. Len(none) : none[i].kind \in W
        BY <3>4
      <4> HIDE DEF none, W
      <4>2. Picked(none, W) = none
        BY <4>1, PickedAll
      <4> QED
        BY <3>3, <4>2 DEF Words, none, W
    <3> QED
      BY <1>1, <2>2, <3>1, <3>2, <3>3, <3>5
  <2>9. CASE r = Match("or", words) /\ Len(words) > 1 /\ clean # <<>>
    <3>1. r.form = "or" /\ r.terms = words /\ r.ok
      BY <2>9 DEF Match
    <3> QED
      BY <1>1, <2>2, <2>3, <2>7, <2>9, <3>1
  <2>10. CASE r = Match("prefix", clean) /\ clean # <<>> /\ Len(clean) = 1 /\ clean[1].kind = "alnum"
    <3>1. r.form = "prefix" /\ r.terms = clean /\ r.ok
      BY <2>10 DEF Match
    <3> QED
      BY <1>1, <2>2, <2>3, <2>5, <2>10, <3>1
  <2>11. CASE r = Match("plain", clean) /\ clean # <<>>
    <3>1. r.form = "plain" /\ r.terms = clean /\ r.ok
      BY <2>11 DEF Match
    <3> QED
      BY <1>1, <2>2, <2>3, <2>5, <2>11, <3>1
  <2> QED
    BY <2>4, <2>8, <2>9, <2>10, <2>11 DEF Formed
<1> QED
  BY <1>2, <1>3

\* A call has been made only of those there are to make.
Asked == request = NoRequest \/ request \in Requests

\* What is decided for any of the calls is right.
LEMMA RequestIsDecided == Asked => DecisionsAreRight
<1> SUFFICES ASSUME request \in Requests, request # NoRequest PROVE DecisionsAreRight
  BY DEF Asked, DecisionsAreRight
<1> DEFINE r == request
<1>1. CASE r.fn = "pacing"
  <2> DEFINE loads == {0, 9, 10, 15, 20, 50, 95, 99, 100}
             times == {0, 29, 30, 59, 60}
  <2>1. r.initial \in Int /\ r.limit \in Int /\ NaN \notin Int
    BY <1>1, LibraryAssumption
  <2>2. loads \in SUBSET Int /\ times \in SUBSET Int
    OBVIOUS
  <2> HIDE DEF loads, times
  <2>3. PacingIsOrdered(GovernorConfig(r.initial, r.limit), loads, times)
    BY <2>1, <2>2, PacingHolds
  <2> QED
    BY <1>1, <2>3 DEF DecisionsAreRight, loads, times
<1>2. CASE r.fn = "route"
  <2>1. RouteIsBest(r.signals)
    BY <1>2, LibraryAssumption, RouteHolds
  <2> QED
    BY <1>2, <2>1 DEF DecisionsAreRight
<1>3. CASE r.fn = "delay"
  <2>1. MaxDuration \in Nat /\ r.base \in 0 .. MaxDuration /\ r.most \in 0 .. MaxDuration /\ r.attempt \in Nat
    BY <1>3, LibraryAssumption
  <2>2. DelaysGrow(r.base, r.most, r.attempt)
    BY <2>1, DelaysHold
  <2> QED
    BY <1>3, <2>2 DEF DecisionsAreRight
<1>4. CASE r.fn = "fts"
  <2>1. QueryIsSafe(r.query, r.mode, r.maxLen)
    BY <1>4, LibraryAssumption, QueryHolds
  <2> QED
    BY <1>4, <2>1 DEF DecisionsAreRight
<1> QED
  BY <1>1, <1>2, <1>3, <1>4 DEF DecisionsAreRight

\* Whatever is called, in whatever order, and whatever is in the graph or in the
\* redactor by then: throttling is ordered, the route has the best score, delays
\* grow, and no compiled query has its typist's syntax, for every argument of
\* those types (m3-governor, m3-route, m3-resilience, m3-fts).
THEOREM EveryDecisionIsRight == LibInit /\ [][LibNext]_libVars => []DecisionsAreRight
<1>1. LibInit => Asked
  BY DEF LibInit, Asked
<1>2. Asked /\ [LibNext]_libVars => Asked'
  <2> SUFFICES ASSUME Asked, [LibNext]_libVars PROVE Asked'
    OBVIOUS
  <2>1. ASSUME NEW r \in Requests, Ask(r) PROVE Asked'
    BY <2>1 DEF Ask, Asked
  <2>2. CASE UNCHANGED request
    BY <2>2 DEF Asked
  <2> QED
    BY <2>1, <2>2 DEF LibNext, libVars
<1>3. Asked => DecisionsAreRight
  BY RequestIsDecided
<1> QED
  BY <1>1, <1>2, <1>3, PTL

----------------------------------------------------------------------------
(* Batches. *)

\* Texts that fit a context, none over it.
AreShort(lens, nctx) == lens \in Seq(Nat) /\ nctx \in Nat /\ \A i \in 1 .. Len(lens) : lens[i] <= nctx

\* A chunk fits the context and the sequences.
LEMMA ChunkFits ==
  ASSUME NEW lens, NEW nctx, AreShort(lens, nctx), NEW seqMax \in Nat \ {0}, NEW idx \in 1 .. Len(lens)
  PROVE  LET last == ChunkLast(lens, idx, nctx, seqMax)
         IN  /\ last \in idx .. Len(lens) /\ last - idx < seqMax
             /\ Total(lens, idx, last) <= nctx
<1> DEFINE len == Len(lens)
           last == ChunkLast(lens, idx, nctx, seqMax)
           all == [i \in DOMAIN lens |-> Length(lens, i)]
<1>1. /\ len \in Nat /\ DOMAIN lens = 1 .. len /\ idx \in Nat /\ idx >= 1 /\ idx <= len
      /\ nctx \in Nat /\ \A i \in 1 .. len : lens[i] \in Nat /\ lens[i] <= nctx
  BY DEF AreShort
<1>2. \A i \in 1 .. len : all[i] \in Nat /\ lens[i] <= all[i]
  <2> SUFFICES ASSUME NEW i \in 1 .. len PROVE Length(lens, i) \in Nat /\ lens[i] <= Length(lens, i)
    BY <1>1
  <2>1. lens[i] \in Int /\ 1 \in Int /\ lens[i] \in Nat
    BY <1>1
  <2> QED
    BY <2>1, ExtremesOfTwo DEF Length
<1>3. Total(lens, idx, idx) <= nctx
  <2>1. idx .. idx = {idx} /\ {idx} \ {idx} = {}
    BY <1>1
  <2>2. SumFunctionOnSet(lens, {idx}) = lens[idx] + SumFunctionOnSet(lens, {idx} \ {idx})
    <3>1. IsFiniteSet({idx}) /\ idx \in {idx} /\ \A x \in {idx} : lens[x] \in Nat
      BY <1>1, FS_Singleton
    <3> QED
      BY <3>1, SumOfElement
  <2>3. SumFunctionOnSet(lens, {}) = 0
    BY SumEmpty
  <2>4. Total(lens, idx, idx) = SumFunctionOnSet(lens, {idx})
    BY <2>1 DEF Total
  <2>5. SumFunctionOnSet(lens, {idx}) = lens[idx] + 0
    BY <2>1, <2>2, <2>3
  <2>6. lens[idx] \in Nat /\ lens[idx] <= nctx
    BY <1>1
  <2> QED
    BY <2>4, <2>5, <2>6
<1> HIDE DEF all
<1>4. CASE Length(lens, idx) > nctx \div seqMax
  <2>1. last = idx
    BY <1>4 DEF ChunkLast
  <2> HIDE DEF last
  <2> QED
    BY <1>1, <1>3, <2>1 DEF last
<1>5. CASE ~ (Length(lens, idx) > nctx \div seqMax)
  <2> DEFINE S == {m \in idx .. len : \A j \in idx .. m : Joins(lens, idx, j, nctx, seqMax)}
  <2>1. last = Max(S)
    BY <1>5 DEF ChunkLast
  <2>2. Joins(lens, idx, idx, nctx, seqMax)
    BY <1>1 DEF Joins
  <2>3. idx \in S
    <3>1. \A j \in idx .. idx : j = idx
      BY <1>1
    <3> QED
      BY <1>1, <2>2, <3>1
  <2>4. S \in SUBSET (1 .. len) /\ S # {}
    BY <1>1, <2>3
  <2>5. last \in S
    <3> HIDE DEF S, len
    <3> QED
      BY <1>1, <2>1, <2>4, LastPlace
  <2> HIDE DEF last
  <2>6. last \in idx .. len /\ Joins(lens, idx, last, nctx, seqMax)
    <3>1. last \in idx .. last
      BY <1>1, <2>5
    <3> QED
      BY <2>5, <3>1
  <2>7. last - idx < seqMax /\ (last = idx \/ Total(all, idx, last) <= nctx)
    BY <2>6 DEF Joins, all
  <2>8. Total(lens, idx, last) <= Total(all, idx, last) /\ Total(lens, idx, last) \in Nat /\ Total(all, idx, last) \in Nat
    <3> DEFINE T == idx .. last
    <3>1. IsFiniteSet(T)
      <4>1. idx \in Int /\ last \in Int
        BY <1>1, <2>6
      <4> QED
        BY <4>1, FS_Interval
    <3>2. \A x \in T : lens[x] \in Nat /\ all[x] \in Nat /\ lens[x] <= all[x]
      BY <1>1, <1>2, <2>6
    <3> HIDE DEF T
    <3>3. SumFunctionOnSet(lens, T) <= SumFunctionOnSet(all, T)
      BY <3>1, <3>2, SumGrows
    <3>4. SumFunctionOnSet(lens, T) \in Nat /\ SumFunctionOnSet(all, T) \in Nat
      BY <3>1, <3>2, SumType
    <3> QED
      BY <3>3, <3>4 DEF Total, T
  <2>9. Total(lens, idx, last) <= nctx
    BY <1>1, <1>3, <2>7, <2>8
  <2> QED
    BY <2>6, <2>7, <2>9 DEF last
<1> QED
  BY <1>4, <1>5

\* The chunks from one text on.
ChunkSet(lens, nctx, seqMax) ==
  {c \in (1 .. Len(lens)) \X (1 .. Len(lens)) :
     c[1] <= c[2] /\ c[2] - c[1] < seqMax /\ Total(lens, c[1], c[2]) <= nctx}
Following == {p \in (Nat \X Nat) \X (Nat \X Nat) : p[2][1] = p[1][2] + 1}
ChunksFrom(w, idx, lens, nctx, seqMax) ==
  /\ IsChain(w, ChunkSet(lens, nctx, seqMax), Following)
  /\ IF idx > Len(lens) THEN w = <<>>
     ELSE w # <<>> /\ w[1][1] = idx /\ w[Len(w)][2] = Len(lens)

\* One more chunk before the others.
LEMMA ChunksGrow ==
  ASSUME NEW lens, NEW nctx, AreShort(lens, nctx), NEW seqMax \in Nat \ {0}, NEW idx \in 1 .. Len(lens),
         NEW w, ChunksFrom(w, ChunkLast(lens, idx, nctx, seqMax) + 1, lens, nctx, seqMax)
  PROVE  ChunksFrom(<<<<idx, ChunkLast(lens, idx, nctx, seqMax)>>>> \o w, idx, lens, nctx, seqMax)
<1> DEFINE len == Len(lens)
           last == ChunkLast(lens, idx, nctx, seqMax)
           E == ChunkSet(lens, nctx, seqMax)
           x == <<idx, last>>
           v == <<x>> \o w
<1>1. len \in Nat /\ idx \in 1 .. len /\ last \in idx .. len /\ last - idx < seqMax /\ Total(lens, idx, last) <= nctx
  <2>1. len \in Nat
    BY DEF AreShort
  <2> QED
    BY <2>1, ChunkFits
<1> HIDE DEF last
<1>2. x \in E /\ x \in Nat \X Nat /\ x[1] = idx /\ x[2] = last
  BY <1>1 DEF ChunkSet
<1>3. IsChain(w, E, Following)
  BY DEF ChunksFrom, last
<1>4. w # <<>> => <<x, w[1]>> \in Following
  <2> SUFFICES ASSUME w # <<>> PROVE <<x, w[1]>> \in Following
    OBVIOUS
  <2>1. ~(last + 1 > len) /\ w[1][1] = last + 1
    BY DEF ChunksFrom, last
  <2>2. w \in Seq(E)
    BY <1>3 DEF IsChain
  <2>3. w[1] \in E
    <3> HIDE DEF E
    <3> QED
      BY <2>2
  <2>4. w[1] \in Nat \X Nat
    BY <1>1, <2>3 DEF ChunkSet
  <2> DEFINE y == w[1]
             p == <<x, y>>
  <2> HIDE DEF x, y
  <2>5. p \in (Nat \X Nat) \X (Nat \X Nat) /\ p[1] = x /\ p[2] = y
    BY <1>2, <2>4 DEF y
  <2>6. p[2][1] = p[1][2] + 1
    BY <1>2, <2>1, <2>5 DEF y
  <2> HIDE DEF p
  <2>7. p \in Following
    BY <2>5, <2>6 DEF Following
  <2> QED
    BY <2>7 DEF p, y
<1> HIDE DEF x, E
<1>11. IsLed(v, x, w, E, Following)
  <2>1. v = <<x>> \o w
    OBVIOUS
  <2> HIDE DEF v
  <2> QED
    BY <1>2, <1>3, <1>4, <2>1, ChainGrows, Zenon
<1>5. /\ IsChain(v, E, Following) /\ Len(v) = Len(w) + 1 /\ Len(w) \in Nat /\ v[1] = x
      /\ v[Len(v)] = IF w = <<>> THEN x ELSE w[Len(w)]
  BY <1>11 DEF IsLed
<1> HIDE DEF v
<1>6. v # <<>>
  BY <1>5
<1>7. v[1][1] = idx
  BY <1>2, <1>5
<1>8. v[Len(v)][2] = len
  <2>1. CASE last + 1 > len
    <3>1. w = <<>> /\ last = len
      BY <1>1, <2>1 DEF ChunksFrom, last
    <3> QED
      BY <1>2, <1>5, <3>1
  <2>2. CASE ~(last + 1 > len)
    <3>1. w # <<>> /\ w[Len(w)][2] = len
      BY <2>2 DEF ChunksFrom, last
    <3> QED
      BY <1>5, <3>1
  <2> QED
    BY <2>1, <2>2
<1>9. ~(idx > len)
  BY <1>1
<1>10. ChunksFrom(v, idx, lens, nctx, seqMax)
  BY <1>5, <1>6, <1>7, <1>8, <1>9 DEF ChunksFrom, E
<1> QED
  BY <1>10 DEF v, x, last

\* The recursion of Chunks, once some function satisfies it.
Packs(f, lens, nctx, seqMax) ==
  \A idx \in 1 .. Len(lens) + 1 :
    f[idx] = IF idx > Len(lens) THEN <<>>
             ELSE <<<<idx, ChunkLast(lens, idx, nctx, seqMax)>>>> \o f[ChunkLast(lens, idx, nctx, seqMax) + 1]

IsPacked(lens, nctx, seqMax) ==
  \E g : Packs(g, lens, nctx, seqMax) /\ Chunks(lens, nctx, seqMax) = Good(g[1])

\* A function that satisfies the recursion shows that Chunks does.
LEMMA ChunksUnfolds ==
  ASSUME NEW lens, NEW nctx, NEW seqMax, ~ \E i \in DOMAIN lens : lens[i] > nctx,
         NEW f, f = [idx \in 1 .. Len(lens) + 1 |-> f[idx]], Packs(f, lens, nctx, seqMax)
  PROVE  IsPacked(lens, nctx, seqMax)
<1>1. f = [idx \in 1 .. Len(lens) + 1 |->
             IF idx > Len(lens) THEN <<>>
             ELSE LET last == ChunkLast(lens, idx, nctx, seqMax) IN <<<<idx, last>>>> \o f[last + 1]]
  BY DEF Packs
<1>2. PICK g : /\ g = [idx \in 1 .. Len(lens) + 1 |->
                         IF idx > Len(lens) THEN <<>>
                         ELSE LET last == ChunkLast(lens, idx, nctx, seqMax) IN <<<<idx, last>>>> \o g[last + 1]]
               /\ Chunks(lens, nctx, seqMax) = Good(g[1])
  BY <1>1, ZenonT(60) DEF Chunks
<1>3. Packs(g, lens, nctx, seqMax)
  BY <1>2 DEF Packs
<1> QED
  BY <1>2, <1>3 DEF IsPacked

\* Chunks are the batch in order, and fit.
LEMMA ChunksHold ==
  ASSUME NEW lens, NEW nctx, AreShort(lens, nctx), NEW seqMax \in Nat \ {0}
  PROVE  \E out : /\ Chunks(lens, nctx, seqMax) = Good(out)
                  /\ ChunksFrom(out, 1, lens, nctx, seqMax)
<1> DEFINE len == Len(lens)
           D == 1 .. len + 1
           last(idx) == ChunkLast(lens, idx, nctx, seqMax)
           V == Seq(Nat \X Nat)
           stop == {len + 1}
           next == [idx \in D \ stop |-> last(idx) + 1]
           size == [idx \in D |-> len + 1 - idx]
           base == [idx \in stop |-> <<>>]
           step == [idx \in D \ stop |-> [w \in V |-> <<<<idx, last(idx)>>>> \o w]]
<1>1. len \in Nat /\ ~ \E i \in DOMAIN lens : lens[i] > nctx
  BY DEF AreShort
<1>2. \A idx \in D \ stop : idx \in 1 .. len /\ last(idx) \in idx .. len
  <2>1. \A idx \in D \ stop : idx \in 1 .. len
    BY <1>1
  <2> QED
    BY <2>1, ChunkFits
<1> HIDE DEF last
<1>3. /\ size \in [D -> 0 .. len] /\ stop \in SUBSET D /\ next \in [D \ stop -> D]
      /\ \A idx \in D \ stop : size[next[idx]] < size[idx]
  <2>1. \A idx \in D \ stop : last(idx) + 1 \in D
    BY <1>1, <1>2
  <2>2. \A idx \in D : size[idx] \in 0 .. len
    BY <1>1
  <2>3. \A idx \in D \ stop : size[last(idx) + 1] < size[idx]
    BY <1>1, <1>2, <2>1
  <2>4. size \in [D -> 0 .. len]
    BY <2>2
  <2>5. next \in [D \ stop -> D]
    BY <2>1
  <2>6. \A idx \in D \ stop : size[next[idx]] < size[idx]
    BY <2>3
  <2>7. stop \in SUBSET D
    BY <1>1
  <2> QED
    BY <2>4, <2>5, <2>6, <2>7
<1>4. base \in [stop -> V] /\ step \in [D \ stop -> [V -> V]]
  <2>1. <<>> \in V
    OBVIOUS
  <2>2. \A idx \in D \ stop, w \in V : <<<<idx, last(idx)>>>> \o w \in V
    <3>1. \A idx \in D \ stop : <<idx, last(idx)>> \in Nat \X Nat
      BY <1>1, <1>2
    <3>2. ASSUME NEW A, NEW x \in A, NEW w \in Seq(A) PROVE <<x>> \o w \in Seq(A)
      OBVIOUS
    <3> QED
      BY <3>1, <3>2
  <2> HIDE DEF V, D, stop
  <2> QED
    BY <2>1, <2>2
<1>5. PICK f : IsChase(f, D, stop, next, V, base, step)
  <2> HIDE DEF D, stop, next, size, base, step, V, len
  <2> QED
    BY <1>1, <1>3, <1>4, ChaseExists
<1>6. f \in [D -> V] /\ Packs(f, lens, nctx, seqMax)
  <2>1. f \in [D -> V] /\ \A idx \in D : f[idx] = IF idx \in stop THEN base[idx] ELSE step[idx][f[next[idx]]]
    BY <1>5 DEF IsChase
  <2>2. ASSUME NEW idx \in D, idx \in stop PROVE idx > len /\ f[idx] = <<>>
    <3>1. idx = len + 1 /\ base[idx] = <<>>
      BY <2>2
    <3>2. f[idx] = base[idx]
      <4> HIDE DEF base, stop, D
      <4> QED
        BY <2>1, <2>2
    <3>3. idx > len
      BY <1>1, <3>1
    <3> QED
      BY <3>1, <3>2, <3>3
  <2>3. ASSUME NEW idx \in D, idx \notin stop
        PROVE  ~(idx > len) /\ f[idx] = <<<<idx, last(idx)>>>> \o f[last(idx) + 1]
    <3>1. next[idx] = last(idx) + 1 /\ next[idx] \in D
      BY <1>3, <2>3
    <3>2. f[next[idx]] \in V
      BY <2>1, <3>1
    <3>3. f[idx] = step[idx][f[next[idx]]]
      BY <2>1, <2>3
    <3>4. ~(idx > len)
      BY <1>1, <1>2, <2>3
    <3> HIDE DEF V, D, stop
    <3>5. step[idx][f[next[idx]]] = <<<<idx, last(idx)>>>> \o f[next[idx]]
      BY <2>3, <3>2
    <3> QED
      BY <3>1, <3>3, <3>4, <3>5
  <2> QED
    BY <2>1, <2>2, <2>3 DEF Packs, last
<1>7. PICK g : Packs(g, lens, nctx, seqMax) /\ Chunks(lens, nctx, seqMax) = Good(g[1])
  <2>1. f = [idx \in 1 .. Len(lens) + 1 |-> f[idx]]
    BY <1>6
  <2>2. Packs(f, lens, nctx, seqMax)
    BY <1>6
  <2>3. IsPacked(lens, nctx, seqMax)
    <3> HIDE DEF D, V, stop, next, size, base, step, len
    <3> QED
      BY <1>1, <2>1, <2>2, ChunksUnfolds
  <2> QED
    BY <2>3 DEF IsPacked
<1> DEFINE P == {idx \in D : ChunksFrom(g[idx], idx, lens, nctx, seqMax)}
<1>8. ASSUME NEW idx \in D, \A y \in D : size[y] < size[idx] => y \in P PROVE idx \in P
  <2>1. CASE idx \in stop
    <3>1. idx > len /\ g[idx] = <<>>
      <4>1. idx \in D /\ idx > len
        BY <1>1, <2>1
      <4> QED
        BY <1>7, <4>1 DEF Packs
    <3>2. IsChain(<<>>, ChunkSet(lens, nctx, seqMax), Following)
      BY DEF IsChain
    <3> QED
      BY <3>1, <3>2 DEF ChunksFrom
  <2>2. CASE idx \notin stop
    <3>1. idx \in 1 .. len /\ ~(idx > len)
      BY <1>1, <1>2, <2>2
    <3>2. g[idx] = <<<<idx, last(idx)>>>> \o g[last(idx) + 1]
      BY <1>7, <3>1 DEF Packs, last
    <3>3. last(idx) + 1 \in P
      BY <1>3, <1>8, <2>2
    <3>4. ChunksFrom(g[last(idx) + 1], last(idx) + 1, lens, nctx, seqMax)
      BY <3>3
    <3>5. ChunksFrom(g[idx], idx, lens, nctx, seqMax)
      BY <3>1, <3>2, <3>4, ChunksGrow DEF last
    <3> QED
      BY <3>5
  <2> QED
    BY <2>1, <2>2
<1>9. 1 \in P
  <2>1. D \subseteq P
    <3> HIDE DEF P, D, size, len
    <3> QED
      BY <1>1, <1>3, <1>8, SizeInduction
  <2> QED
    BY <1>1, <2>1
<1> QED
  BY <1>7, <1>9

\* The answer of embed_batch.
LEMMA BatchHolds ==
  ASSUME NEW r, r.lens \in Seq(Nat), r.nctx \in Nat, r.seqMax \in Nat \ {0},
         NEW a, a = Chunks(r.lens, r.nctx, r.seqMax), a.ok
  PROVE  ChunksFit(r, a.value)
<1> DEFINE lens == r.lens
           len == Len(lens)
           E == ChunkSet(lens, r.nctx, r.seqMax)
<1>1. AreShort(lens, r.nctx)
  <2>1. ~ \E i \in DOMAIN lens : lens[i] > r.nctx
    BY DEF Chunks
  <2>2. DOMAIN lens = 1 .. Len(lens) /\ \A i \in 1 .. Len(lens) : lens[i] \in Nat
    OBVIOUS
  <2> HIDE DEF lens
  <2>3. \A i \in 1 .. Len(lens) : lens[i] <= r.nctx
    BY <2>1, <2>2
  <2> QED
    BY <2>3 DEF AreShort, lens
<1>2. PICK out : a = Good(out) /\ ChunksFrom(out, 1, lens, r.nctx, r.seqMax)
  BY <1>1, ChunksHold
<1>3. a.value = out
  BY <1>2 DEF Good
<1>4. /\ out \in Seq(E) /\ \A i \in 1 .. Len(out) : i > 1 => <<out[i - 1], out[i]>> \in Following
      /\ IF 1 > len THEN out = <<>> ELSE out # <<>> /\ out[1][1] = 1 /\ out[Len(out)][2] = len
  BY <1>2 DEF ChunksFrom, IsChain
<1>5. len \in Nat /\ (lens = <<>> <=> 1 > len)
  OBVIOUS
<1> HIDE DEF lens
<1>6. DOMAIN out = 1 .. Len(out) /\ \A c \in 1 .. Len(out) : out[c] \in E
  <2> HIDE DEF E
  <2> QED
    BY <1>4
<1>7. ASSUME NEW c \in DOMAIN out
      PROVE  /\ out[c][1] <= out[c][2] /\ out[c][2] - out[c][1] < r.seqMax
             /\ Total(lens, out[c][1], out[c][2]) <= r.nctx
             /\ c > 1 => out[c][1] = out[c - 1][2] + 1
  <2>1. out[c] \in E
    BY <1>6
  <2>2. c > 1 => <<out[c - 1], out[c]>> \in Following
    BY <1>4, <1>6
  <2> DEFINE p == <<out[c - 1], out[c]>>
  <2>3. p[1] = out[c - 1] /\ p[2] = out[c]
    OBVIOUS
  <2> HIDE DEF p
  <2>4. c > 1 => p[2][1] = p[1][2] + 1
    BY <2>2 DEF Following, p
  <2> QED
    BY <2>1, <2>3, <2>4 DEF ChunkSet
<1>8. IF lens = <<>> THEN out = <<>> ELSE out[1][1] = 1 /\ Last(out)[2] = len
  BY <1>4, <1>5 DEF Last
<1> QED
  BY <1>3, <1>7, <1>8 DEF ChunksFit, lens

----------------------------------------------------------------------------
(* Windows. *)

\* The middle of two places.
Middle(p) == p[1] + (p[2] - p[1]) \div 2

\* The recursion of Bisected, once some function satisfies it.
Bisects(f, n, left) ==
  \A p \in (0 .. n) \X (0 .. n) :
    f[p] = IF p[2] - p[1] <= 1 THEN p
           ELSE IF Middle(p) \in left THEN f[<<p[1], Middle(p)>>] ELSE f[<<Middle(p), p[2]>>]

\* A function that satisfies the recursion shows that Bisected does.
LEMMA BisectedUnfolds ==
  ASSUME NEW n, NEW left, NEW f, f = [p \in (0 .. n) \X (0 .. n) |-> f[p]], Bisects(f, n, left)
  PROVE  Bisects(Bisected(n, left), n, left)
<1> DEFINE Unfolds(g) ==
             g = [p \in (0 .. n) \X (0 .. n) |->
                    LET mid == p[1] + (p[2] - p[1]) \div 2
                    IN  IF p[2] - p[1] <= 1 THEN p
                        ELSE IF mid \in left THEN g[<<p[1], mid>>] ELSE g[<<mid, p[2]>>]]
<1>1. Unfolds(f)
  BY DEF Bisects, Middle
<1>2. Bisected(n, left) = CHOOSE g : Unfolds(g)
  BY DEF Bisected
<1> HIDE DEF Unfolds
<1>3. Unfolds(Bisected(n, left))
  BY <1>1, <1>2
<1> DEFINE b == Bisected(n, left)
<1> HIDE DEF b
<1>4. Unfolds(b)
  BY <1>3 DEF b
<1>5. Bisects(b, n, left)
  BY <1>4 DEF Unfolds, Bisects, Middle
<1> QED
  BY <1>5 DEF b

\* Bisection ends between two neighbours, the one not to go left of, the other to
\* go left of, unless they are the ends.
LEMMA BisectionHolds ==
  ASSUME NEW n \in Nat, NEW left, NEW lo \in 0 .. n, NEW hi \in 0 .. n, lo < hi
  PROVE  LET q == Bisected(n, left)[<<lo, hi>>]
         IN  /\ q[1] \in lo .. hi - 1 /\ q[2] = q[1] + 1
             /\ q[1] = lo \/ q[1] \notin left
             /\ q[2] = hi \/ q[2] \in left
<1> DEFINE D == (0 .. n) \X (0 .. n)
           stop == {p \in D : p[2] - p[1] <= 1}
           next == [p \in D \ stop |-> IF Middle(p) \in left THEN <<p[1], Middle(p)>> ELSE <<Middle(p), p[2]>>]
           size == [p \in D |-> IF p[2] > p[1] THEN p[2] - p[1] ELSE 0]
           base == [p \in stop |-> p]
           step == [p \in D \ stop |-> [q \in D |-> q]]
<1>1. \A p \in D : p[1] \in 0 .. n /\ p[2] \in 0 .. n
  OBVIOUS
<1>2. \A p \in D \ stop : Middle(p) \in 0 .. n /\ p[1] < Middle(p) /\ Middle(p) < p[2]
  <2> SUFFICES ASSUME NEW p \in D, ~(p[2] - p[1] <= 1)
               PROVE  Middle(p) \in 0 .. n /\ p[1] < Middle(p) /\ Middle(p) < p[2]
    OBVIOUS
  <2>1. ASSUME NEW a \in 0 .. n, NEW b \in 0 .. n, ~(b - a <= 1)
        PROVE  LET m == a + (b - a) \div 2 IN m \in 0 .. n /\ a < m /\ m < b
    BY <2>1
  <2> QED
    BY <1>1, <2>1 DEF Middle
<1>3. ASSUME NEW p \in D \ stop PROVE next[p] \in D /\ size[next[p]] < size[p]
  <2>1. Middle(p) \in 0 .. n /\ p[1] \in 0 .. n /\ p[2] \in 0 .. n /\ p[1] < Middle(p) /\ Middle(p) < p[2]
    BY <1>1, <1>2
  <2> DEFINE m == Middle(p)
             l == <<p[1], m>>
             h == <<m, p[2]>>
  <2>2. l \in D /\ h \in D /\ next[p] \in {l, h}
    BY <2>1
  <2>3. size[l] = m - p[1] /\ size[h] = p[2] - m /\ size[p] = p[2] - p[1]
    BY <2>1, <2>2
  <2> HIDE DEF size, next, m, l, h
  <2>4. size[l] < size[p] /\ size[h] < size[p]
    BY <2>1, <2>3 DEF m
  <2> QED
    BY <2>2, <2>4
<1>4. size \in [D -> 0 .. n] /\ stop \in SUBSET D /\ next \in [D \ stop -> D]
  <2>1. \A p \in D : size[p] \in 0 .. n
    BY <1>1
  <2>2. size \in [D -> 0 .. n]
    BY <2>1
  <2>3. next \in [D \ stop -> D]
    BY <1>3
  <2> QED
    BY <2>2, <2>3
<1>5. base \in [stop -> D] /\ step \in [D \ stop -> [D -> D]]
  OBVIOUS
<1>6. PICK f : IsChase(f, D, stop, next, D, base, step)
  <2> HIDE DEF D, stop, next, size, base, step
  <2> QED
    BY <1>3, <1>4, <1>5, ChaseExists
<1>7. f \in [D -> D] /\ \A p \in D : f[p] = IF p \in stop THEN p ELSE f[next[p]]
  <2>1. f \in [D -> D] /\ \A p \in D : f[p] = IF p \in stop THEN base[p] ELSE step[p][f[next[p]]]
    BY <1>6 DEF IsChase
  <2>2. \A p \in D \ stop : step[p][f[next[p]]] = f[next[p]]
    <3> HIDE DEF D, stop, next
    <3> QED
      BY <1>3, <2>1
  <2>3. \A p \in stop : base[p] = p
    OBVIOUS
  <2> HIDE DEF D, stop, next, base, step
  <2> QED
    BY <2>1, <2>2, <2>3
<1>8. Bisects(f, n, left)
  BY <1>7 DEF Bisects
<1>9. f = [p \in (0 .. n) \X (0 .. n) |-> f[p]]
  BY <1>7
<1> DEFINE b == Bisected(n, left)
<1>10. Bisects(b, n, left)
  BY <1>8, <1>9, BisectedUnfolds
<1> HIDE DEF b
<1> DEFINE Ends(p, q) == /\ q[1] \in p[1] .. p[2] - 1 /\ q[2] = q[1] + 1
                         /\ q[1] = p[1] \/ q[1] \notin left
                         /\ q[2] = p[2] \/ q[2] \in left
           P == {p \in D : p[1] < p[2] => Ends(p, b[p])}
<1>11. ASSUME NEW p \in D, \A r \in D : size[r] < size[p] => r \in P PROVE p \in P
  <2> SUFFICES ASSUME p[1] < p[2] PROVE Ends(p, b[p])
    OBVIOUS
  <2>1. CASE p \in stop
    <3>1. b[p] = p
      BY <1>10, <2>1 DEF Bisects
    <3>2. p[2] = p[1] + 1
      BY <1>1, <2>1
    <3> QED
      BY <1>1, <3>1, <3>2
  <2>2. CASE p \notin stop
    <3> DEFINE m == Middle(p)
               l == <<p[1], m>>
               h == <<m, p[2]>>
    <3>1. m \in 0 .. n /\ p[1] \in 0 .. n /\ p[2] \in 0 .. n /\ p[1] < m /\ m < p[2]
      BY <1>1, <1>2, <2>2
    <3>2. b[p] = IF m \in left THEN b[l] ELSE b[h]
      BY <1>10, <2>2 DEF Bisects
    <3>3. next[p] = IF m \in left THEN l ELSE h
      BY <2>2
    <3>4. next[p] \in P
      BY <1>3, <1>11, <2>2
    <3>5. l[1] = p[1] /\ l[2] = m /\ h[1] = m /\ h[2] = p[2]
      OBVIOUS
    <3> HIDE DEF m, l, h, next
    <3>6. CASE m \in left
      <4>1. Ends(l, b[p])
        BY <3>1, <3>2, <3>3, <3>4, <3>5, <3>6
      <4> QED
        BY <3>1, <3>5, <3>6, <4>1
    <3>7. CASE m \notin left
      <4>1. Ends(h, b[p])
        BY <3>1, <3>2, <3>3, <3>4, <3>5, <3>7
      <4> QED
        BY <3>1, <3>5, <3>7, <4>1
    <3> QED
      BY <3>6, <3>7
  <2> QED
    BY <2>1, <2>2
<1>12. D \subseteq P
  <2> HIDE DEF P, D, size
  <2> QED
    BY <1>4, <1>11, SizeInduction
<1>13. Ends(<<lo, hi>>, b[<<lo, hi>>])
  <2>1. <<lo, hi>> \in D
    OBVIOUS
  <2> QED
    BY <1>12, <2>1
<1> QED
  BY <1>13 DEF b

IsWindowEnd(e, start, count, n, budget) ==
  e \in start + 1 .. n /\ (count[<<start, e>>] <= budget \/ e = start + 1)

\* A window ends after it starts, and fits or is one character.
LEMMA FittingEnd ==
  ASSUME NEW n \in Nat, NEW count, NEW budget \in Nat \ {0}, NEW start \in 0 .. n - 1,
         \A m \in 0 .. n : count[<<start, m>>] \in Int
  PROVE  IsWindowEnd(LargestFittingEnd(count, n, start, budget), start, count, n, budget)
<1> DEFINE reach == start + budget * MaxCharsPerToken
           cap == Min({n, reach})
           left == {m \in 0 .. n : count[<<start, m>>] > budget}
           q == Bisected(n, left)[<<start, cap>>]
           e == LargestFittingEnd(count, n, start, budget)
<1>1. reach \in Int /\ reach >= start + 1
  <2>1. \A a, b \in Nat \ {0} : a * b \in Nat /\ a * b >= 1
    OBVIOUS
  <2>2. budget * MaxCharsPerToken \in Nat /\ budget * MaxCharsPerToken >= 1
    BY <2>1, WindowsAssumption
  <2> QED
    BY <2>2
<1>2. cap \in start + 1 .. n
  <2> HIDE DEF reach
  <2>1. Min({n, reach}) = IF n <= reach THEN n ELSE reach
    BY <1>1, ExtremesOfTwo
  <2> QED
    BY <1>1, <2>1
<1>3. /\ q[1] \in start .. cap - 1
      /\ q[1] = start \/ q[1] \notin left
  <2> HIDE DEF cap, left
  <2>1. start \in 0 .. n /\ cap \in 0 .. n /\ start < cap
    BY <1>2
  <2> QED
    BY <2>1, BisectionHolds
<1>4. e = IF count[<<start, cap>>] <= budget THEN cap ELSE Max({q[1], start + 1})
  BY DEF LargestFittingEnd
<1>5. Max({q[1], start + 1}) = IF q[1] >= start + 1 THEN q[1] ELSE start + 1
  <2> HIDE DEF q
  <2>1. q[1] \in Int /\ start + 1 \in Int
    BY <1>2, <1>3
  <2> QED
    BY <2>1, ExtremesOfTwo
<1>6. q[1] \in 0 .. n /\ (q[1] # start => count[<<start, q[1]>>] <= budget)
  <2> HIDE DEF q
  <2>1. q[1] \in 0 .. n
    <3> HIDE DEF cap
    <3> QED
      BY <1>2, <1>3
  <2>2. q[1] # start => q[1] \notin left
    BY <1>3
  <2> QED
    BY <2>1, <2>2
<1> HIDE DEF cap, q, left, e
<1>7. CASE count[<<start, cap>>] <= budget
  BY <1>2, <1>4, <1>7 DEF e, IsWindowEnd
<1>8. CASE ~(count[<<start, cap>>] <= budget)
  <2>1. e = IF q[1] >= start + 1 THEN q[1] ELSE start + 1
    BY <1>4, <1>5, <1>8
  <2>2. CASE q[1] >= start + 1
    <3>1. e = q[1] /\ q[1] # start
      BY <1>6, <2>1, <2>2
    <3> QED
      BY <1>6, <2>2, <3>1 DEF e, IsWindowEnd
  <2>3. CASE ~(q[1] >= start + 1)
    <3>1. e = start + 1
      BY <2>1, <2>3
    <3> QED
      BY <3>1 DEF e, IsWindowEnd
  <2> QED
    BY <2>2, <2>3
<1> QED
  BY <1>7, <1>8

\* The next window starts after this one, leaves no gap, and repeats no more than
\* the overlap.
LEMMA OverlapStart ==
  ASSUME NEW n \in Nat, NEW count, NEW overlap \in Nat, NEW start \in 0 .. n, NEW end \in 0 .. n, start < end
  PROVE  LET s == SmallestOverlapStart(count, n, start, end, overlap)
         IN  s \in start + 1 .. end /\ (s = end \/ count[<<s, end>>] <= overlap)
<1> DEFINE left == {m \in 0 .. n : count[<<m, end>>] <= overlap}
           q == Bisected(n, left)[<<start, end>>]
           s == SmallestOverlapStart(count, n, start, end, overlap)
<1>1. s = IF overlap = 0 THEN end ELSE q[2]
  BY DEF SmallestOverlapStart
<1>2. q[1] \in start .. end - 1 /\ q[2] = q[1] + 1 /\ (q[2] = end \/ q[2] \in left)
  <2> HIDE DEF left
  <2> QED
    BY BisectionHolds
<1> HIDE DEF q, s
<1>3. q[2] \in start + 1 .. end
  <2> HIDE DEF left
  <2> QED
    BY <1>2
<1>4. q[2] = end \/ count[<<q[2], end>>] <= overlap
  BY <1>2
<1>5. end \in start + 1 .. end
  OBVIOUS
<1>6. s \in start + 1 .. end /\ (s = end \/ count[<<s, end>>] <= overlap)
  BY <1>1, <1>3, <1>4, <1>5
<1> QED
  BY <1>6 DEF s

\* The windows there may be, and which may come next.
WindowSet(count, n, budget) ==
  {w \in (0 .. n) \X (0 .. n) : w[1] < w[2] /\ (count[<<w[1], w[2]>>] <= budget \/ w[2] <= w[1] + 1)}
Onward(count, n, kept) ==
  {p \in ((0 .. n) \X (0 .. n)) \X ((0 .. n) \X (0 .. n)) :
     /\ p[1][1] < p[2][1] /\ p[2][1] <= p[1][2]
     /\ p[2][1] = p[1][2] \/ count[<<p[2][1], p[1][2]>>] <= kept}

\* The windows from a start on.
WindowsFrom(w, start, count, n, budget, kept) ==
  /\ IsChain(w, WindowSet(count, n, budget), Onward(count, n, kept))
  /\ w # <<>> /\ w[1][1] = start /\ w[Len(w)][2] = n

\* The recursion of PlanWindows, once some function satisfies it.
Plans(f, count, n, budget, kept) ==
  \A start \in 0 .. n - 1 :
    LET end == LargestFittingEnd(count, n, start, budget)
    IN  f[start] = IF end >= n THEN <<<<start, end>>>>
                   ELSE <<<<start, end>>>> \o f[SmallestOverlapStart(count, n, start, end, kept)]

IsPlanned(count, n, budget, overlap, kept) ==
  \E g : Plans(g, count, n, budget, kept) /\ PlanWindows(count, n, budget, overlap) = g[0]

\* A function that satisfies the recursion shows that PlanWindows does.
LEMMA PlanUnfolds ==
  ASSUME NEW count, NEW n, NEW budget, NEW overlap, ~(n = 0 \/ count[<<0, n>>] <= budget),
         NEW kept, kept = Min({overlap, Max({budget - 1, 0})}),
         NEW f, f = [start \in 0 .. n - 1 |-> f[start]], Plans(f, count, n, budget, kept)
  PROVE  IsPlanned(count, n, budget, overlap, kept)
<1>1. f = [start \in 0 .. n - 1 |->
             LET end == LargestFittingEnd(count, n, start, budget)
             IN  IF end >= n THEN <<<<start, end>>>>
                 ELSE <<<<start, end>>>> \o f[SmallestOverlapStart(count, n, start, end, kept)]]
  BY DEF Plans
<1>2. PICK g : /\ g = [start \in 0 .. n - 1 |->
                         LET end == LargestFittingEnd(count, n, start, budget)
                         IN  IF end >= n THEN <<<<start, end>>>>
                             ELSE <<<<start, end>>>> \o g[SmallestOverlapStart(count, n, start, end, kept)]]
               /\ PlanWindows(count, n, budget, overlap) = g[0]
  BY <1>1, ZenonT(60) DEF PlanWindows
<1>3. Plans(g, count, n, budget, kept)
  BY <1>2 DEF Plans
<1> QED
  BY <1>2, <1>3 DEF IsPlanned

\* What the token counts of a text of n characters are, with a frame that fits
\* the budget.
AreCounts(count, n, budget) ==
  /\ n \in Nat /\ budget \in Nat \ {0} /\ count[<<0, 0>>] < budget
  /\ \A s, e \in 0 .. n : count[<<s, e>>] \in Int

\* The windows from a start on go on from the window that starts there.
LEMMA WindowsGrow ==
  ASSUME NEW count, NEW n, NEW budget, AreCounts(count, n, budget), NEW kept \in Nat,
         NEW start \in 0 .. n - 1, NEW end, end = LargestFittingEnd(count, n, start, budget),
         end < n, NEW s, s = SmallestOverlapStart(count, n, start, end, kept),
         NEW w, WindowsFrom(w, s, count, n, budget, kept),
         NEW v, v = <<<<start, end>>>> \o w
  PROVE  WindowsFrom(v, start, count, n, budget, kept)
<1> DEFINE E == WindowSet(count, n, budget)
           R == Onward(count, n, kept)
           x == <<start, end>>
<1>1. n \in Nat /\ budget \in Nat \ {0} /\ \A m \in 0 .. n : count[<<start, m>>] \in Int
  BY DEF AreCounts
<1>2. end \in start + 1 .. n /\ (count[<<start, end>>] <= budget \/ end = start + 1)
  <2>1. IsWindowEnd(LargestFittingEnd(count, n, start, budget), start, count, n, budget)
    BY <1>1, FittingEnd
  <2> QED
    BY <2>1 DEF IsWindowEnd
<1>3. start \in 0 .. n /\ end \in 0 .. n /\ start < end
  BY <1>1, <1>2
<1>4. s \in start + 1 .. end /\ (s = end \/ count[<<s, end>>] <= kept)
  BY <1>1, <1>3, OverlapStart
<1>5. x \in E
  <2>1. x \in (0 .. n) \X (0 .. n) /\ x[1] = start /\ x[2] = end
    BY <1>3
  <2>2. end <= start + 1 \/ count[<<start, end>>] <= budget
    BY <1>2
  <2> HIDE DEF x
  <2> QED
    BY <1>3, <2>1, <2>2 DEF WindowSet
<1>6. /\ IsChain(w, E, R) /\ w # <<>> /\ w[1][1] = s /\ w[Len(w)][2] = n
  BY DEF WindowsFrom
<1>7. w \in Seq(E) /\ Len(w) >= 1 /\ w[1] \in E
  <2>1. w \in Seq(E)
    BY <1>6 DEF IsChain
  <2> HIDE DEF E
  <2> QED
    BY <1>6, <2>1
<1>8. <<x, w[1]>> \in R
  <2> DEFINE p == <<x, w[1]>>
  <2>1. w[1] \in (0 .. n) \X (0 .. n) /\ x \in (0 .. n) \X (0 .. n)
    BY <1>5, <1>7 DEF WindowSet
  <2>2. p[1] = x /\ p[2] = w[1] /\ x[1] = start /\ x[2] = end /\ w[1][1] = s
    BY <1>6
  <2>3. p \in ((0 .. n) \X (0 .. n)) \X ((0 .. n) \X (0 .. n))
    BY <2>1
  <2>4. start < s /\ s <= end
    BY <1>1, <1>3, <1>4
  <2> HIDE DEF p, x
  <2>5. p[1][1] < p[2][1] /\ p[2][1] <= p[1][2]
    BY <2>2, <2>4
  <2>6. p[2][1] = p[1][2] \/ count[<<p[2][1], p[1][2]>>] <= kept
    BY <1>4, <2>2
  <2>7. p \in R
    BY <2>3, <2>5, <2>6 DEF Onward
  <2> QED
    BY <2>7 DEF p
<1>9. IsLed(v, x, w, E, R)
  <2>1. v = <<x>> \o w
    OBVIOUS
  <2> HIDE DEF x, E, R
  <2> QED
    BY <1>5, <1>6, <1>8, <2>1, ChainGrows
<1>10. IsChain(v, E, R) /\ Len(v) = Len(w) + 1 /\ v[1] = x /\ v[Len(v)] = w[Len(w)]
  BY <1>6, <1>9 DEF IsLed
<1>11. v # <<>>
  BY <1>7, <1>10
<1>12. v[1][1] = start
  BY <1>10
<1> QED
  BY <1>6, <1>10, <1>11, <1>12 DEF WindowsFrom

\* The last window ends where the text does.
LEMMA WindowEnds ==
  ASSUME NEW count, NEW n, NEW budget, AreCounts(count, n, budget), NEW kept,
         NEW start \in 0 .. n - 1, NEW end, end = LargestFittingEnd(count, n, start, budget), end >= n,
         NEW v, v = <<<<start, end>>>>
  PROVE  WindowsFrom(v, start, count, n, budget, kept)
<1> DEFINE E == WindowSet(count, n, budget)
           x == <<start, end>>
<1>1. n \in Nat /\ budget \in Nat \ {0} /\ \A m \in 0 .. n : count[<<start, m>>] \in Int
  BY DEF AreCounts
<1>2. end \in start + 1 .. n /\ (count[<<start, end>>] <= budget \/ end = start + 1)
  BY <1>1, FittingEnd DEF IsWindowEnd
<1>3. end = n /\ start \in 0 .. n /\ end \in 0 .. n /\ start < end
  BY <1>1, <1>2
<1>4. x \in E
  <2>1. x \in (0 .. n) \X (0 .. n) /\ x[1] = start /\ x[2] = end
    BY <1>3
  <2>2. end <= start + 1 \/ count[<<start, end>>] <= budget
    BY <1>2
  <2> HIDE DEF x
  <2> QED
    BY <1>3, <2>1, <2>2 DEF WindowSet
<1>5. v \in Seq(E) /\ Len(v) = 1 /\ v[1] = x /\ v # <<>>
  <2>1. v = <<x>>
    OBVIOUS
  <2> HIDE DEF x, E
  <2> QED
    BY <1>4, <2>1
<1>6. IsChain(v, E, Onward(count, n, kept))
  <2>1. \A i \in 1 .. Len(v) : ~(i > 1)
    BY <1>5
  <2> HIDE DEF E
  <2> QED
    BY <1>5, <2>1 DEF IsChain
<1> QED
  BY <1>3, <1>5, <1>6 DEF WindowsFrom

\* The windows of a text that does not fit the budget.
LEMMA PlanHolds ==
  ASSUME NEW count, NEW n, NEW budget, AreCounts(count, n, budget), NEW overlap \in Nat,
         ~(n = 0 \/ count[<<0, n>>] <= budget)
  PROVE  WindowsFrom(PlanWindows(count, n, budget, overlap), 0, count, n, budget, Min({overlap, budget - 1}))
<1> DEFINE kept == Min({overlap, Max({budget - 1, 0})})
           D == 0 .. n - 1
           end(start) == LargestFittingEnd(count, n, start, budget)
           V == Seq(Nat \X Nat)
           stop == {start \in D : end(start) >= n}
           next == [start \in D \ stop |-> SmallestOverlapStart(count, n, start, end(start), kept)]
           size == [start \in D |-> n - start]
           base == [start \in stop |-> <<<<start, end(start)>>>>]
           step == [start \in D \ stop |-> [w \in V |-> <<<<start, end(start)>>>> \o w]]
<1>1. n \in Nat /\ n # 0 /\ budget \in Nat \ {0} /\ \A start \in D, m \in 0 .. n : count[<<start, m>>] \in Int
  BY DEF AreCounts
<1>2. kept \in Nat /\ kept = Min({overlap, budget - 1})
  <2>1. budget - 1 \in Nat
    BY <1>1
  <2> DEFINE b == budget - 1
  <2> HIDE DEF b
  <2>2. b \in Int /\ 0 \in Int /\ b >= 0 /\ overlap \in Int
    BY <2>1 DEF b
  <2>3. Max({b, 0}) = b
    <3>1. Max({b, 0}) = IF b >= 0 THEN b ELSE 0
      BY <2>2, ExtremesOfTwo
    <3> QED
      BY <2>2, <3>1
  <2>4. Min({overlap, b}) \in Nat
    <3>1. Min({overlap, b}) = IF overlap <= b THEN overlap ELSE b
      BY <2>2, ExtremesOfTwo
    <3> QED
      BY <2>2, <3>1
  <2> QED
    BY <2>3, <2>4 DEF b
<1> HIDE DEF kept
<1>3. \A start \in D : end(start) \in start + 1 .. n
  BY <1>1, FittingEnd DEF IsWindowEnd
<1> HIDE DEF end
<1>4. \A start \in D \ stop : next[start] \in D /\ size[next[start]] < size[start]
  <2> SUFFICES ASSUME NEW start \in D, ~(end(start) >= n)
               PROVE  next[start] \in D /\ size[next[start]] < size[start]
    OBVIOUS
  <2> DEFINE s == SmallestOverlapStart(count, n, start, end(start), kept)
  <2>1. start \in 0 .. n /\ end(start) \in 0 .. n /\ start < end(start) /\ end(start) < n
    BY <1>1, <1>3
  <2>2. s \in start + 1 .. end(start)
    BY <1>1, <1>2, <2>1, OverlapStart
  <2>3. next[start] = s
    OBVIOUS
  <2> HIDE DEF s, next
  <2>4. s \in D /\ size[s] = n - s /\ size[start] = n - start
    BY <1>1, <2>1, <2>2
  <2> HIDE DEF size
  <2>5. n - s < n - start
    BY <1>1, <2>1, <2>2
  <2> QED
    BY <2>3, <2>4, <2>5
<1>5. size \in [D -> 0 .. n] /\ stop \in SUBSET D /\ next \in [D \ stop -> D]
  <2>1. \A start \in D : size[start] \in 0 .. n
    BY <1>1
  <2>2. size \in [D -> 0 .. n]
    BY <2>1
  <2>3. next \in [D \ stop -> D]
    BY <1>4
  <2> QED
    BY <2>2, <2>3
<1>6. base \in [stop -> V] /\ step \in [D \ stop -> [V -> V]]
  <2>1. \A start \in D : <<start, end(start)>> \in Nat \X Nat
    BY <1>1, <1>3
  <2>2. ASSUME NEW A, NEW x \in A PROVE <<x>> \in Seq(A) /\ \A w \in Seq(A) : <<x>> \o w \in Seq(A)
    OBVIOUS
  <2>3. \A start \in D : <<<<start, end(start)>>>> \in V /\ \A w \in V : <<<<start, end(start)>>>> \o w \in V
    BY <2>1, <2>2
  <2>4. stop \subseteq D
    OBVIOUS
  <2> HIDE DEF V, D, stop
  <2> QED
    BY <2>3, <2>4
<1>7. PICK f : IsChase(f, D, stop, next, V, base, step)
  <2> HIDE DEF D, stop, next, size, base, step, V
  <2> QED
    BY <1>1, <1>4, <1>5, <1>6, ChaseExists
<1>8. f \in [D -> V] /\ Plans(f, count, n, budget, kept)
  <2>1. f \in [D -> V] /\ \A start \in D : f[start] = IF start \in stop THEN base[start] ELSE step[start][f[next[start]]]
    BY <1>7 DEF IsChase
  <2>2. ASSUME NEW start \in D, end(start) >= n PROVE f[start] = <<<<start, end(start)>>>>
    <3>1. start \in stop
      BY <2>2
    <3>2. base[start] = <<<<start, end(start)>>>>
      BY <3>1
    <3>3. f[start] = base[start]
      <4> HIDE DEF base, stop, D
      <4> QED
        BY <2>1, <3>1
    <3> QED
      BY <3>2, <3>3
  <2>3. ASSUME NEW start \in D, ~(end(start) >= n)
        PROVE  f[start] = <<<<start, end(start)>>>> \o f[SmallestOverlapStart(count, n, start, end(start), kept)]
    <3>1. start \notin stop /\ start \in D \ stop
      BY <2>3
    <3>2. next[start] = SmallestOverlapStart(count, n, start, end(start), kept) /\ next[start] \in D
      BY <1>4, <3>1
    <3>3. f[next[start]] \in V
      BY <2>1, <3>2
    <3>4. f[start] = step[start][f[next[start]]]
      <4> HIDE DEF base, stop, D, step, next
      <4> QED
        BY <2>1, <3>1
    <3> HIDE DEF V, D, stop, next
    <3>5. step[start][f[next[start]]] = <<<<start, end(start)>>>> \o f[next[start]]
      BY <3>1, <3>3
    <3> QED
      BY <3>2, <3>4, <3>5
  <2> QED
    BY <2>1, <2>2, <2>3 DEF Plans, end
<1>9. IsPlanned(count, n, budget, overlap, kept)
  <2>1. f = [start \in 0 .. n - 1 |-> f[start]]
    BY <1>8
  <2>2. kept = Min({overlap, Max({budget - 1, 0})})
    BY DEF kept
  <2>3. Plans(f, count, n, budget, kept)
    BY <1>8
  <2> HIDE DEF D, V, stop, next, size, base, step
  <2> QED
    BY <2>1, <2>2, <2>3, PlanUnfolds
<1>12. PICK g : Plans(g, count, n, budget, kept) /\ PlanWindows(count, n, budget, overlap) = g[0]
  BY <1>9 DEF IsPlanned
<1> DEFINE P == {start \in D : WindowsFrom(g[start], start, count, n, budget, kept)}
<1>10. ASSUME NEW start \in D, \A y \in D : size[y] < size[start] => y \in P PROVE start \in P
  <2>1. CASE end(start) >= n
    <3>1. g[start] = <<<<start, end(start)>>>>
      BY <1>12, <2>1 DEF Plans, end
    <3>2. WindowsFrom(g[start], start, count, n, budget, kept)
      BY <2>1, <3>1, WindowEnds DEF end
    <3> QED
      BY <3>2
  <2>2. CASE ~(end(start) >= n)
    <3> DEFINE s == SmallestOverlapStart(count, n, start, end(start), kept)
    <3>1. g[start] = <<<<start, end(start)>>>> \o g[s]
      BY <1>12, <2>2 DEF Plans, end
    <3>2. next[start] = s /\ next[start] \in P
      <4>1. start \in D \ stop
        BY <2>2
      <4>2. next[start] \in P
        BY <1>4, <1>10, <4>1
      <4>3. next[start] = s
        BY <4>1
      <4> QED
        BY <4>2, <4>3
    <3>3. WindowsFrom(g[s], s, count, n, budget, kept)
      BY <3>2
    <3>4. end(start) < n
      BY <1>1, <1>3, <2>2
    <3>5. WindowsFrom(g[start], start, count, n, budget, kept)
      BY <1>2, <3>1, <3>3, <3>4, WindowsGrow DEF end
    <3> QED
      BY <3>5
  <2> QED
    BY <2>1, <2>2
<1>11. 0 \in P
  <2>1. D \subseteq P
    <3> HIDE DEF P, D, size
    <3> QED
      BY <1>1, <1>5, <1>10, SizeInduction
  <2> QED
    BY <1>1, <2>1
<1> QED
  BY <1>2, <1>11, <1>12

\* The answer of windows.
LEMMA WindowsHold ==
  ASSUME NEW r, r.n \in Nat, r.budget \in Int, r.overlap \in Nat, r.nctx \in Nat, r.count[<<0, 0>>] \in Nat,
         \A s, e \in 0 .. r.n : r.count[<<s, e>>] \in Int,
         NEW a, a = TokenWindows(r.count, r.n, r.budget, r.overlap, r.nctx), a.ok
  PROVE  WindowsCoverTheText(r, a.value)
<1> DEFINE n == r.n
           out == PlanWindows(r.count, n, r.budget, r.overlap)
           kept == Min({r.overlap, r.budget - 1})
<1>1. ~(r.budget <= r.count[<<0, 0>>])
  <2>1. ~ Fail.ok
    BY DEF Fail
  <2> QED
    BY <2>1 DEF TokenWindows
<1>2. a.value = out
  <2>1. a = Good(out) \/ a = Fail
    BY DEF TokenWindows
  <2>2. ~ Fail.ok /\ Good(out).value = out
    BY DEF Fail, Good
  <2> QED
    BY <2>1, <2>2
<1>3. AreCounts(r.count, n, r.budget)
  BY <1>1 DEF AreCounts
<1> HIDE DEF out
<1>4. ASSUME n = 0 \/ r.count[<<0, n>>] <= r.budget PROVE WindowsCoverTheText(r, out)
  <2>1. out = <<<<0, n>>>>
    BY <1>4, Zenon DEF PlanWindows, out
  <2>2. DOMAIN out = {1} /\ out[1][1] = 0 /\ out[1][2] = n /\ Last(out)[2] = n
    BY <2>1 DEF Last
  <2>3. r.count[<<0, n>>] <= r.budget \/ n <= 0 + 1
    BY <1>4
  <2> HIDE DEF n
  <2>4. \A i \in DOMAIN out : i = 1 /\ ~(i > 1)
    BY <2>2
  <2>5. \A i \in DOMAIN out : r.count[<<out[i][1], out[i][2]>>] <= r.budget \/ out[i][2] <= out[i][1] + 1
    BY <2>2, <2>3, <2>4
  <2> QED
    BY <2>2, <2>4, <2>5, ZenonT(30) DEF WindowsCoverTheText, n
<1>5. ASSUME ~(n = 0 \/ r.count[<<0, n>>] <= r.budget) PROVE WindowsCoverTheText(r, out)
  <2> DEFINE E == WindowSet(r.count, n, r.budget)
             R == Onward(r.count, n, kept)
  <2>1. WindowsFrom(out, 0, r.count, n, r.budget, kept)
    BY <1>3, <1>5, PlanHolds DEF out
  <2>2. /\ out \in Seq(E) /\ \A i \in 1 .. Len(out) : i > 1 => <<out[i - 1], out[i]>> \in R
        /\ out # <<>> /\ out[1][1] = 0 /\ out[Len(out)][2] = n
    BY <2>1 DEF WindowsFrom, IsChain
  <2>3. DOMAIN out = 1 .. Len(out) /\ \A i \in DOMAIN out : out[i] \in E
    <3> HIDE DEF E
    <3> QED
      BY <2>2
  <2>4. \A i \in DOMAIN out : r.count[<<out[i][1], out[i][2]>>] <= r.budget \/ out[i][2] <= out[i][1] + 1
    BY <2>3 DEF WindowSet
  <2>5. ASSUME NEW i \in DOMAIN out, i > 1
        PROVE  /\ out[i - 1][1] < out[i][1] /\ out[i][1] <= out[i - 1][2]
               /\ out[i][1] = out[i - 1][2] \/ r.count[<<out[i][1], out[i - 1][2]>>] <= kept
    <3> DEFINE p == <<out[i - 1], out[i]>>
    <3>1. p \in R
      BY <2>2, <2>3, <2>5
    <3>2. p[1] = out[i - 1] /\ p[2] = out[i]
      OBVIOUS
    <3> HIDE DEF p
    <3>3. /\ p[1][1] < p[2][1] /\ p[2][1] <= p[1][2]
          /\ p[2][1] = p[1][2] \/ r.count[<<p[2][1], p[1][2]>>] <= kept
      BY <3>1 DEF Onward
    <3> QED
      BY <3>2, <3>3
  <2>6. Last(out)[2] = n
    BY <2>2 DEF Last
  <2> HIDE DEF n, E, R
  <2> QED
    BY <2>2, <2>4, <2>5, <2>6, Zenon DEF WindowsCoverTheText, n
<1>6. WindowsCoverTheText(r, out)
  BY <1>4, <1>5
<1> QED
  BY <1>2, <1>6

----------------------------------------------------------------------------
(* Spans. *)

Span == [start : Nat, end : Nat, label : Int, score : Int]
AreSpans(C) == C \subseteq Span /\ IsFiniteSet(C) /\ \A c \in C : c.start < c.end

\* There is a strongest of any spans.
LEMMA StrongestIs ==
  ASSUME NEW C, AreSpans(C), NEW S \in SUBSET C, S # {}
  PROVE  Strongest(S) \in S /\ \A d \in S : Strongest(S).score >= d.score
<1> DEFINE R == {p \in S \X S : StrongerSpan(p[1], p[2]) \/ p[1] = p[2]}
<1>1. \A c \in S : c \in Span
  BY DEF AreSpans
<1>2. ASSUME NEW c \in S, NEW d \in S PROVE <<c, d>> \in R <=> StrongerSpan(c, d) \/ c = d
  <2> DEFINE p == <<c, d>>
  <2>1. p \in S \X S /\ p[1] = c /\ p[2] = d
    OBVIOUS
  <2> HIDE DEF p
  <2>2. p \in R <=> StrongerSpan(p[1], p[2]) \/ p[1] = p[2]
    BY <2>1
  <2> QED
    BY <2>1, <2>2 DEF p
<1>3. ASSUME NEW c \in S, NEW d \in S PROVE StrongerSpan(c, d) \/ StrongerSpan(d, c) \/ c = d
  <2>1. c \in Span /\ d \in Span
    BY <1>1
  <2>2. c.score \in Int /\ c.start \in Nat /\ c.end \in Nat /\ c.label \in Int
    BY <2>1 DEF Span
  <2>3. d.score \in Int /\ d.start \in Nat /\ d.end \in Nat /\ d.label \in Int
    BY <2>1 DEF Span
  <2>4. c.score = d.score /\ c.start = d.start /\ c.end = d.end /\ c.label = d.label => c = d
    BY <2>1 DEF Span
  <2> QED
    BY <2>2, <2>3, <2>4 DEF StrongerSpan
<1>4. ASSUME NEW c \in S, NEW d \in S, NEW e \in S, StrongerSpan(c, d), StrongerSpan(d, e)
      PROVE  StrongerSpan(c, e)
  <2>1. c.score \in Int /\ c.start \in Nat /\ c.end \in Nat /\ c.label \in Int
    BY <1>1 DEF Span
  <2>2. d.score \in Int /\ d.start \in Nat /\ d.end \in Nat /\ d.label \in Int
    BY <1>1 DEF Span
  <2>3. e.score \in Int /\ e.start \in Nat /\ e.end \in Nat /\ e.label \in Int
    BY <1>1 DEF Span
  <2> QED
    BY <1>4, <2>1, <2>2, <2>3 DEF StrongerSpan
<1>5. ASSUME NEW c \in S, NEW d \in S, StrongerSpan(c, d) PROVE c.score >= d.score
  <2>1. c.score \in Int /\ d.score \in Int
    BY <1>1 DEF Span
  <2> QED
    BY <1>5, <2>1 DEF StrongerSpan
<1>6. Orders(R, S)
  <2> HIDE DEF R
  <2> QED
    BY <1>2, <1>3, <1>4 DEF Orders
<1>7. IsFiniteSet(S)
  BY FS_Subset DEF AreSpans
<1>8. PICK x \in S : \A y \in S : <<x, y>> \in R
  <2> HIDE DEF R
  <2> QED
    BY <1>6, <1>7, FirstExists
<1>9. \A d \in S \ {x} : StrongerSpan(x, d)
  <2> HIDE DEF R
  <2> QED
    BY <1>2, <1>8
<1> DEFINE c == Strongest(S)
<1>10. c \in S /\ \A d \in S \ {c} : StrongerSpan(c, d)
  BY <1>9 DEF Strongest
<1> HIDE DEF c
<1>11. c.score \in Int
  BY <1>1, <1>10 DEF Span
<1>12. \A d \in S : c.score >= d.score
  BY <1>5, <1>10, <1>11
<1> QED
  BY <1>10, <1>12 DEF c

\* The recursion of Resolved, once some function satisfies it.
Unresolved(C) == [left |-> C, taken |-> {}]
Takes(f, C) ==
  \A T \in SUBSET DOMAIN Numbers(Cardinality(C)) :
    f[T] = IF T = {} THEN Unresolved(C) ELSE TakeSpan(f[T \ {Max(T)}], Numbers(Cardinality(C))[Max(T)])

\* A function that satisfies the recursion shows that the fold does.
LEMMA TakingUnfolds ==
  ASSUME NEW C, NEW V, NEW f \in [SUBSET DOMAIN Numbers(Cardinality(C)) -> V], Takes(f, C)
  PROVE  \E g : Takes(g, C) /\ Resolved(C) = g[DOMAIN Numbers(Cardinality(C))].taken
<1> DEFINE s == Numbers(Cardinality(C))
           base == Unresolved(C)
<1>1. f = [T \in SUBSET DOMAIN s |-> IF T = {} THEN base ELSE TakeSpan(f[T \ {Max(T)}], s[Max(T)])]
  BY DEF Takes
<1>2. Resolved(C) = FoldLeft(TakeSpan, base, s).taken
  BY DEF Resolved, Unresolved
<1> HIDE DEF s, base
<1>3. PICK g : /\ g = [T \in SUBSET DOMAIN s |-> IF T = {} THEN base ELSE TakeSpan(g[T \ {Max(T)}], s[Max(T)])]
               /\ FoldLeft(TakeSpan, base, s) = g[DOMAIN s]
  BY <1>1, ZenonT(60) DEF FoldLeft, MapThenFoldSet
<1>4. Takes(g, C)
  BY <1>3 DEF Takes, s, base
<1> QED
  BY <1>2, <1>3, <1>4 DEF s

\* What the loop of Resolved makes of the spans, one by one.
IsResolving(h, C) ==
  /\ h[0] = Unresolved(C) /\ \A n \in 1 .. Cardinality(C) : h[n] = TakeSpan(h[n - 1], n)
  /\ Resolved(C) = h[Cardinality(C)].taken
LEMMA ResolvingExists == ASSUME NEW C, AreSpans(C) PROVE \E h : IsResolving(h, C)
<1> DEFINE len == Cardinality(C)
           none == Strongest({})
           V == [left : SUBSET C, taken : SUBSET (C \cup {none})]
           next == [i \in 1 .. len |-> [st \in V |-> TakeSpan(st, i)]]
<1>1. len \in Nat
  BY FS_CardinalityType DEF AreSpans
<1>2. Unresolved(C) \in V
  BY DEF Unresolved
<1>3. ASSUME NEW st \in V, NEW i PROVE TakeSpan(st, i) \in V
  <2> DEFINE c == Strongest(st.left)
  <2>1. st.left \in SUBSET C /\ st.taken \in SUBSET (C \cup {none})
    OBVIOUS
  <2>2. c \in C \cup {none}
    <3>1. CASE st.left = {}
      BY <3>1
    <3>2. CASE st.left # {}
      BY <2>1, <3>2, StrongestIs
    <3> QED
      BY <3>1, <3>2
  <2>3. TakeSpan(st, i) = [left |-> st.left \ {c},
                           taken |-> st.taken \cup (IF \E a \in st.taken : Overlap(c, a) THEN {} ELSE {c})]
    BY DEF TakeSpan
  <2> HIDE DEF c, none
  <2> QED
    BY <2>1, <2>2, <2>3
<1>4. next \in [1 .. len -> [V -> V]]
  <2> HIDE DEF V
  <2> QED
    BY <1>3
<1>5. DOMAIN Numbers(len) = 1 .. len /\ \A i \in 1 .. len : Numbers(len)[i] = i
  BY DEF Numbers
<1> HIDE DEF len, V
<1>6. PICK f : IsLoop(f, len, V, Unresolved(C), next)
  <2> HIDE DEF next
  <2> QED
    BY <1>1, <1>2, <1>4, LoopExists
<1>7. f \in [SUBSET DOMAIN Numbers(len) -> V]
  BY <1>5, <1>6 DEF IsLoop
<1>8. Takes(f, C)
  <2> SUFFICES ASSUME NEW T \in SUBSET (1 .. len), T # {}
               PROVE  f[T] = TakeSpan(f[T \ {Max(T)}], Numbers(len)[Max(T)])
    BY <1>5, <1>6 DEF Takes, IsLoop, len
  <2>1. Max(T) \in 1 .. len
    BY <1>1, LastPlace
  <2>2. f[T \ {Max(T)}] \in V /\ f[T] = next[Max(T)][f[T \ {Max(T)}]]
    BY <1>6 DEF IsLoop
  <2> QED
    BY <1>5, <2>1, <2>2
<1>9. PICK g : Takes(g, C) /\ Resolved(C) = g[1 .. len].taken
  <2>1. \E g : Takes(g, C) /\ Resolved(C) = g[DOMAIN Numbers(len)].taken
    BY <1>7, <1>8, TakingUnfolds DEF len
  <2> QED
    BY <1>5, <2>1
<1>10. Recursing(g, len, V, Unresolved(C), next)
  <2>1. g[{}] = Unresolved(C)
    BY <1>5, <1>9 DEF Takes, len
  <2>2. ASSUME NEW T \in SUBSET (1 .. len), T # {}, g[T \ {Max(T)}] \in V
        PROVE  g[T] = next[Max(T)][g[T \ {Max(T)}]]
    <3>1. Max(T) \in 1 .. len
      BY <1>1, <2>2, LastPlace
    <3>2. g[T] = TakeSpan(g[T \ {Max(T)}], Numbers(len)[Max(T)])
      BY <1>5, <1>9, <2>2 DEF Takes, len
    <3> QED
      BY <1>5, <2>2, <3>1, <3>2
  <2> QED
    BY <2>1, <2>2 DEF Recursing
<1>11. PICK h : IsTaken(h, len, V, Unresolved(C), next) /\ h[len] = g[1 .. len]
  <2> HIDE DEF next
  <2> QED
    BY <1>1, <1>2, <1>4, <1>10, TakenAlong
<1>12. \A n \in 1 .. len : h[n] = TakeSpan(h[n - 1], n)
  BY <1>11 DEF IsTaken
<1>13. IsResolving(h, C)
  BY <1>9, <1>11, <1>12 DEF IsResolving, IsTaken, len
<1> QED
  BY <1>13

\* A span is kept, or overlaps one as strong that is.
Covers(a, c) == a = c \/ (a.start < c.end /\ c.start < a.end /\ a.score >= c.score)
Apart(T) == \A a, b \in T : a # b => ~ Overlap(a, b)

\* The spans that are done with: some taken, the others covered by those.
Settled(st, C) ==
  /\ st.left \subseteq C /\ st.taken \subseteq C \ st.left /\ Apart(st.taken)
  /\ \A c \in C \ st.left : \E a \in st.taken : Covers(a, c)
  /\ \A c \in C \ st.left, d \in st.left : c.score >= d.score

\* One more span is settled.
LEMMA TakingSettles ==
  ASSUME NEW C, AreSpans(C), NEW st, Settled(st, C), st.left # {}, NEW n
  PROVE  /\ Settled(TakeSpan(st, n), C)
         /\ Cardinality(TakeSpan(st, n).left) = Cardinality(st.left) - 1
<1> DEFINE c == Strongest(st.left)
           left == st.left \ {c}
           taken == st.taken \cup (IF \E a \in st.taken : Overlap(c, a) THEN {} ELSE {c})
<1>1. TakeSpan(st, n).left = left /\ TakeSpan(st, n).taken = taken
  BY DEF TakeSpan
<1>2. c \in st.left /\ \A d \in st.left : c.score >= d.score
  BY StrongestIs DEF Settled
<1>3. st.left \subseteq C /\ st.taken \subseteq C \ st.left /\ Apart(st.taken)
  BY DEF Settled
<1>4. /\ \A x \in C \ st.left : \E a \in st.taken : Covers(a, x)
      /\ \A x \in C \ st.left, d \in st.left : x.score >= d.score
  BY DEF Settled
<1> HIDE DEF c
<1>5. left \subseteq C /\ taken \subseteq C \ left
  BY <1>2, <1>3
<1>6. \A x \in C \ left : x \in C \ st.left \/ x = c
  OBVIOUS
<1>7. Apart(taken)
  <2>1. CASE \E a \in st.taken : Overlap(c, a)
    <3>1. taken = st.taken
      BY <2>1
    <3> QED
      BY <1>3, <3>1
  <2>2. CASE ~ \E a \in st.taken : Overlap(c, a)
    <3>1. taken = st.taken \cup {c}
      BY <2>2
    <3>2. \A a \in st.taken : ~ Overlap(c, a) /\ ~ Overlap(a, c)
      BY <2>2 DEF Overlap
    <3> HIDE DEF taken
    <3> QED
      BY <1>3, <3>1, <3>2 DEF Apart
  <2> QED
    BY <2>1, <2>2
<1>8. \A x \in C \ left : \E a \in taken : Covers(a, x)
  <2>1. \A x \in C \ st.left : \E a \in taken : Covers(a, x)
    <3>1. st.taken \subseteq taken
      OBVIOUS
    <3> HIDE DEF taken
    <3> QED
      BY <1>4, <3>1
  <2>2. \E a \in taken : Covers(a, c)
    <3>1. CASE \E a \in st.taken : Overlap(c, a)
      <4>1. PICK a \in st.taken : Overlap(c, a)
        BY <3>1
      <4>2. a.score >= c.score
        BY <1>2, <1>3, <1>4
      <4>3. Covers(a, c)
        BY <4>1, <4>2 DEF Overlap, Covers
      <4>4. a \in taken
        OBVIOUS
      <4> HIDE DEF taken
      <4> QED
        BY <4>3, <4>4
    <3>2. CASE ~ \E a \in st.taken : Overlap(c, a)
      <4>1. c \in taken /\ Covers(c, c)
        BY <3>2 DEF Covers
      <4> HIDE DEF taken
      <4> QED
        BY <4>1
    <3> QED
      BY <3>1, <3>2
  <2> HIDE DEF taken, left
  <2> QED
    BY <1>6, <2>1, <2>2
<1>9. \A x \in C \ left, d \in left : x.score >= d.score
  <2>1. \A d \in left : d \in st.left
    OBVIOUS
  <2> HIDE DEF left
  <2> QED
    BY <1>2, <1>4, <1>6, <2>1
<1>10. Settled(TakeSpan(st, n), C)
  <2> HIDE DEF left, taken
  <2> QED
    BY <1>1, <1>5, <1>7, <1>8, <1>9 DEF Settled
<1>11. Cardinality(left) = Cardinality(st.left) - 1
  <2>1. IsFiniteSet(st.left)
    BY <1>3, FS_Subset DEF AreSpans
  <2> QED
    BY <1>2, <2>1, FS_RemoveElement
<1> QED
  BY <1>1, <1>10, <1>11

\* In the end all spans are.
LEMMA ResolvedHas ==
  ASSUME NEW C, AreSpans(C)
  PROVE  /\ Resolved(C) \in SUBSET C /\ Apart(Resolved(C))
         /\ \A c \in C : \E a \in Resolved(C) : Covers(a, c)
<1> DEFINE len == Cardinality(C)
<1>1. len \in Nat /\ IsFiniteSet(C)
  BY FS_CardinalityType DEF AreSpans
<1>2. PICK h : IsResolving(h, C)
  BY ResolvingExists
<1> DEFINE P == {n \in Nat : Settled(h[n], C) /\ Cardinality(h[n].left) = len - n}
<1>3. 0 \in P
  <2>1. h[0].left = C /\ h[0].taken = {}
    BY <1>2 DEF IsResolving, Unresolved
  <2>2. Settled(h[0], C)
    BY <2>1 DEF Settled, Apart
  <2> QED
    BY <1>1, <2>1, <2>2
<1>4. ASSUME NEW n \in 1 .. len, n - 1 \in P PROVE n \in P
  <2>1. Settled(h[n - 1], C) /\ Cardinality(h[n - 1].left) = len - (n - 1)
    BY <1>4
  <2>2. h[n - 1].left # {}
    <3>1. len - (n - 1) # 0
      BY <1>1
    <3> HIDE DEF len
    <3> QED
      BY <2>1, <3>1, FS_EmptySet
  <2>3. h[n] = TakeSpan(h[n - 1], n)
    BY <1>2 DEF IsResolving
  <2>4. Settled(h[n], C) /\ Cardinality(h[n].left) = Cardinality(h[n - 1].left) - 1
    BY <2>1, <2>2, <2>3, TakingSettles
  <2>5. n \in Nat /\ Cardinality(h[n].left) = len - n
    <3> HIDE DEF len
    <3> QED
      BY <1>1, <2>1, <2>4
  <2> QED
    BY <2>4, <2>5
<1>5. len \in P
  <2> HIDE DEF P, len
  <2> QED
    BY <1>1, <1>3, <1>4, PrefixInduction
<1>6. Settled(h[len], C) /\ Cardinality(h[len].left) = 0
  BY <1>1, <1>5
<1>7. h[len].left = {}
  <2>1. IsFiniteSet(h[len].left)
    BY <1>1, <1>6, FS_Subset DEF Settled
  <2> QED
    BY <1>6, <2>1, FS_EmptySet
<1>8. Resolved(C) = h[len].taken
  BY <1>2 DEF IsResolving
<1> QED
  BY <1>6, <1>7, <1>8 DEF Settled

\* Spans that do not overlap are put in order.
LEMMA InOrderIs ==
  ASSUME NEW T, AreSpans(T), Apart(T)
  PROVE  LET out == InOrder(T)
         IN  /\ out \in [1 .. Cardinality(T) -> T] /\ ToSet(out) = T
             /\ \A i, j \in DOMAIN out : i < j => out[i].end <= out[j].start
<1> DEFINE N == Cardinality(T)
           R == {p \in T \X T : p[1].start <= p[2].start}
           out == InOrder(T)
           Below(c) == {d \in T : d.start < c.start}
<1>1. N \in Nat /\ IsFiniteSet(T) /\ \A c \in T : c.start \in Nat /\ c.end \in Nat /\ c.start < c.end
  BY FS_CardinalityType DEF AreSpans, Span
<1>2. ASSUME NEW c \in T, NEW d \in T PROVE <<c, d>> \in R <=> c.start <= d.start
  <2> DEFINE p == <<c, d>>
  <2>1. p \in T \X T /\ p[1] = c /\ p[2] = d
    OBVIOUS
  <2> HIDE DEF p
  <2>2. p \in R <=> p[1].start <= p[2].start
    BY <2>1
  <2> QED
    BY <2>1, <2>2 DEF p
<1>3. Orders(R, T)
  <2> HIDE DEF R
  <2> QED
    BY <1>1, <1>2 DEF Orders
<1>4. PICK s \in [1 .. N -> T] : \A m, n \in 1 .. N : m < n => s[m] # s[n] /\ <<s[m], s[n]>> \in R
  <2> HIDE DEF R
  <2> QED
    BY <1>1, <1>3, EnumerationExists
<1> HIDE DEF R, N
<1>5. ASSUME NEW c \in T, NEW d \in T, c # d, c.start <= d.start PROVE c.end <= d.start /\ c.start < d.start
  BY <1>1, <1>5 DEF Apart, Overlap
<1>6. \A m, n \in 1 .. N : m < n => s[m].end <= s[n].start /\ s[m].start < s[n].start
  BY <1>2, <1>4, <1>5
<1>7. s \in Seq(T) /\ Distinct(s) /\ Len(s) = N /\ DOMAIN s = 1 .. N
  <2>1. s \in Seq(T) /\ Len(s) = N /\ DOMAIN s = 1 .. N
    BY <1>1, <1>4
  <2>2. \A m, n \in 1 .. N : m # n => m < n \/ n < m
    BY <1>1
  <2>3. \A m, n \in 1 .. N : m # n => s[m] # s[n]
    BY <1>4, <2>2
  <2> QED
    BY <2>1, <2>3 DEF Distinct
<1>8. ToSet(s) = T
  <2>1. IsFiniteSet(ToSet(s)) /\ Cardinality(ToSet(s)) = N
    BY <1>7, DistinctSize
  <2>2. ToSet(s) \in SUBSET T
    BY <1>4, <1>7 DEF ToSet
  <2> QED
    BY <1>1, <2>1, <2>2, FS_Subset DEF N
<1>9. \A c \in T : \E n \in 1 .. N : c = s[n]
  BY <1>7, <1>8 DEF ToSet
<1>10. ASSUME NEW n \in 1 .. N PROVE Cardinality(Below(s[n])) = n - 1
  <2> DEFINE front == [m \in 1 .. n - 1 |-> s[m]]
  <2>1. \A m \in 1 .. n - 1 : m \in 1 .. N /\ m < n
    BY <1>1
  <2>2. front \in Seq(T) /\ Len(front) = n - 1 /\ DOMAIN front = 1 .. n - 1 /\ \A m \in 1 .. n - 1 : front[m] = s[m]
    BY <1>1, <1>4, <2>1
  <2> HIDE DEF front
  <2>3. Distinct(front)
    BY <1>7, <2>1, <2>2 DEF Distinct
  <2>4. Cardinality(ToSet(front)) = n - 1
    BY <2>2, <2>3, DistinctSize
  <2>5. ASSUME NEW m \in 1 .. N PROVE s[m].start < s[n].start <=> m < n
    <3>1. m < n \/ m = n \/ n < m
      BY <1>1
    <3>2. s[m].start \in Nat /\ s[n].start \in Nat
      BY <1>1, <1>4
    <3> QED
      BY <1>6, <3>1, <3>2
  <2>6. \A m \in 1 .. N : m < n => m \in 1 .. n - 1
    BY <1>1
  <2>7. ToSet(front) = {s[m] : m \in 1 .. n - 1}
    BY <2>2 DEF ToSet
  <2>8. \A d \in Below(s[n]) : d \in {s[m] : m \in 1 .. n - 1}
    BY <1>9, <2>5, <2>6
  <2>9. \A m \in 1 .. n - 1 : s[m] \in Below(s[n])
    BY <1>4, <2>1, <2>5
  <2>10. ToSet(front) = Below(s[n])
    <3> HIDE DEF Below
    <3> QED
      BY <2>7, <2>8, <2>9
  <2> HIDE DEF Below
  <2> QED
    BY <2>4, <2>10
<1>11. out = [i \in 1 .. N |-> CHOOSE c \in T : Cardinality(Below(c)) = i - 1]
  BY DEF InOrder, N
<1> HIDE DEF Below, out
<1>12. ASSUME NEW i \in 1 .. N PROVE out[i] = s[i]
  <2> DEFINE c == CHOOSE c \in T : Cardinality(Below(c)) = i - 1
  <2>1. c \in T /\ Cardinality(Below(c)) = i - 1
    BY <1>4, <1>10
  <2>2. out[i] = c
    BY <1>11
  <2> HIDE DEF c
  <2>3. PICK n \in 1 .. N : c = s[n]
    BY <1>9, <2>1
  <2>4. n - 1 = i - 1
    BY <1>10, <2>1, <2>3
  <2>5. n = i
    BY <1>1, <2>4
  <2> QED
    BY <2>2, <2>3, <2>5
<1>13. out = s
  BY <1>4, <1>11, <1>12
<1>14. s \in [1 .. N -> T] /\ ToSet(s) = T /\ \A i, j \in DOMAIN s : i < j => s[i].end <= s[j].start
  BY <1>4, <1>6, <1>7, <1>8
<1> QED
  BY <1>13, <1>14 DEF out, N

\* The answer of spans.
LEMMA SpansHold ==
  ASSUME NEW r, IsFiniteSet(DOMAIN r.scores), DOMAIN r.scores \subseteq Nat \X (Nat \ {0}) \X Int,
         \A c \in DOMAIN r.scores : r.scores[c] \in Int \cup {NaN}, r.threshold \in Int,
         NEW a, a = DecodeSpans(r.scores, r.size, r.threshold), a.ok
  PROVE  SpansAreResolved(r, a.value)
<1> DEFINE C == Candidates(r.scores, r.threshold)
           T == Resolved(C)
           out == InOrder(T)
           all == Spans(r.scores)
           span == [c \in DOMAIN r.scores |-> [start |-> c[1], end |-> c[1] + c[2], label |-> c[3], score |-> r.scores[c]]]
<1>1. a.value = out
  <2>1. a = Good(out) \/ a = Fail
    BY DEF DecodeSpans
  <2>2. ~ Fail.ok /\ Good(out).value = out
    BY DEF Fail, Good
  <2> QED
    BY <2>1, <2>2
<1>2. C \subseteq all /\ \A c \in all : c \in C <=> c.score # NaN /\ c.score >= r.threshold
  BY DEF Candidates
<1>3. all = {span[c] : c \in DOMAIN r.scores}
  BY DEF Spans
<1>4. \A c \in all : c.score # NaN => c \in Span /\ c.start < c.end
  <2> SUFFICES ASSUME NEW c \in DOMAIN r.scores, span[c].score # NaN PROVE span[c] \in Span /\ span[c].start < span[c].end
    BY <1>3
  <2>1. c[1] \in Nat /\ c[2] \in Nat \ {0} /\ c[3] \in Int
    OBVIOUS
  <2>2. span[c] = [start |-> c[1], end |-> c[1] + c[2], label |-> c[3], score |-> r.scores[c]]
    OBVIOUS
  <2>3. r.scores[c] \in Int
    BY <2>2
  <2>4. c[1] + c[2] \in Nat /\ c[1] < c[1] + c[2]
    BY <2>1
  <2> HIDE DEF span
  <2> QED
    BY <2>1, <2>2, <2>3, <2>4 DEF Span
<1>5. IsFiniteSet(all)
  <2>1. DOMAIN span = DOMAIN r.scores
    OBVIOUS
  <2> HIDE DEF all, span
  <2>2. span \in Surjection(DOMAIN r.scores, all)
    <3>1. span = [c \in DOMAIN r.scores |-> span[c]]
      BY <2>1 DEF span
    <3> QED
      BY <1>3, <3>1 DEF Surjection
  <2> QED
    BY <2>2, FS_Surjection
<1> HIDE DEF C, all, span
<1>6. AreSpans(C)
  <2>1. IsFiniteSet(C)
    BY <1>2, <1>5, FS_Subset
  <2> QED
    BY <1>2, <1>4, <2>1 DEF AreSpans
<1>7. T \in SUBSET C /\ Apart(T) /\ \A c \in C : \E t \in T : Covers(t, c)
  BY <1>6, ResolvedHas
<1> HIDE DEF T
<1>8. AreSpans(T)
  <2>1. IsFiniteSet(T)
    BY <1>6, <1>7, FS_Subset DEF AreSpans
  <2> QED
    BY <1>6, <1>7, <2>1 DEF AreSpans
<1>9. ToSet(out) = T /\ \A i, j \in DOMAIN out : i < j => out[i].end <= out[j].start
  BY <1>7, <1>8, InOrderIs
<1> HIDE DEF out
<1>10. \A c \in all : c.score # NaN /\ c.score >= r.threshold =>
         \E t \in T : t = c \/ (t.start < c.end /\ c.start < t.end /\ t.score >= c.score)
  BY <1>2, <1>7 DEF Covers
<1>11. \A t \in T : t \in all /\ t.score # NaN /\ t.score >= r.threshold
  BY <1>2, <1>7
<1> QED
  BY <1>1, <1>9, <1>10, <1>11 DEF SpansAreResolved, all

\* The answer of sizes.
LEMMA SizesHold ==
  ASSUME NEW p, p.ctx \in Int, p.streams \in Int, p.seqMax \in Int, p.nBatch \in Int, p.nUbatch \in Int
  PROVE  SizesHoldAChunk(Floors(Resolve(p)))
<1>1. /\ MinCtx \in Nat /\ DefaultCtx \in Nat /\ DefaultSeqMax \in Nat /\ DefaultStreams \in Nat
  BY WindowsAssumption
<1>2. ASSUME NEW v \in Int, NEW w \in Int, NEW least \in Int PROVE Given(v, w, least) \in Int
  BY <1>2, ExtremesOfTwo DEF Given
<1> DEFINE s == Resolve(p)
           f == Floors(s)
<1>3. s.ctx \in Int /\ s.streams \in Int /\ s.seqMax \in Int /\ s.nBatch \in Int /\ s.nUbatch \in Int
  <2> DEFINE ctx == Given(p.ctx, DefaultCtx, MinCtx)
  <2>0. 1 \in Int /\ MinCtx \in Int /\ DefaultCtx \in Int /\ DefaultSeqMax \in Int /\ DefaultStreams \in Int
    BY <1>1
  <2>1. ctx \in Int
    BY <1>2, <2>0
  <2>2. s.ctx = ctx /\ s.streams = Given(p.streams, DefaultStreams, 1) /\ s.seqMax = Given(p.seqMax, DefaultSeqMax, 1)
        /\ s.nBatch = Given(p.nBatch, ctx, 1) /\ s.nUbatch = Given(p.nUbatch, ctx, 1)
    BY DEF Resolve
  <2> HIDE DEF ctx, s
  <2>3. Given(p.streams, DefaultStreams, 1) \in Int /\ Given(p.seqMax, DefaultSeqMax, 1) \in Int
    BY <1>2, <2>0
  <2>4. Given(p.nBatch, ctx, 1) \in Int /\ Given(p.nUbatch, ctx, 1) \in Int
    BY <1>2, <2>0, <2>1
  <2> QED
    BY <2>1, <2>2, <2>3, <2>4
<1> DEFINE ctx == Max({s.ctx, MinCtx})
           batch == Max({s.nBatch, ctx})
           ubatch == Max({s.nUbatch, ctx})
<1>4. /\ f.ctx = ctx /\ f.nBatch = batch /\ f.nUbatch = Min({ubatch, batch})
      /\ f.streams = Max({s.streams, 1}) /\ f.seqMax = Max({s.seqMax, 1})
  BY DEF Floors, Resolve
<1> HIDE DEF s, f
<1>5. ctx \in Int /\ ctx >= MinCtx
  BY <1>1, <1>3, ExtremesOfTwo
<1> HIDE DEF ctx
<1>6. batch \in Int /\ batch >= ctx /\ ubatch \in Int /\ ubatch >= ctx
  <2>1. batch = IF s.nBatch >= ctx THEN s.nBatch ELSE ctx
    BY <1>3, <1>5, ExtremesOfTwo
  <2>2. ubatch = IF s.nUbatch >= ctx THEN s.nUbatch ELSE ctx
    BY <1>3, <1>5, ExtremesOfTwo
  <2> HIDE DEF batch, ubatch
  <2> QED
    BY <1>3, <1>5, <2>1, <2>2
<1> HIDE DEF batch, ubatch
<1>7. Min({ubatch, batch}) >= ctx /\ Min({ubatch, batch}) <= batch
  <2>1. Min({ubatch, batch}) = IF ubatch <= batch THEN ubatch ELSE batch
    BY <1>6, ExtremesOfTwo
  <2> QED
    BY <1>5, <1>6, <2>1
<1>8. Max({s.streams, 1}) >= 1 /\ Max({s.seqMax, 1}) >= 1
  BY <1>3, ExtremesOfTwo
<1>9. SizesHoldAChunk(f)
  BY <1>4, <1>5, <1>6, <1>7, <1>8 DEF SizesHoldAChunk
<1> QED
  BY <1>9 DEF f, s

----------------------------------------------------------------------------
(* The calls. *)

\* The reply is the answer to the last call.
Replied == request # NoRequest => request \in Requests /\ reply = Answer(request)

\* What is cut out for any of the calls is right.
LEMMA RequestIsCut == Replied => CutsAreRight
<1> SUFFICES ASSUME request \in Requests, request # NoRequest, reply = Answer(request), reply.ok
             PROVE  CutsAreRight
  BY DEF Replied, CutsAreRight
<1> DEFINE r == request
<1>1. CASE r.fn = "windows"
  <2>1. /\ {r.n, r.budget, r.overlap, r.nctx} \subseteq Nat
        /\ \A s, e \in 0 .. r.n : r.count[<<s, e>>] \in Nat
    BY <1>1, LibraryAssumption
  <2>2. reply = TokenWindows(r.count, r.n, r.budget, r.overlap, r.nctx)
    BY <1>1 DEF Answer
  <2>3. r.n \in Nat /\ r.budget \in Int /\ r.overlap \in Nat /\ r.nctx \in Nat
    BY <2>1
  <2>4. r.count[<<0, 0>>] \in Nat /\ \A s, e \in 0 .. r.n : r.count[<<s, e>>] \in Int
    <3>1. 0 \in 0 .. r.n
      BY <2>3
    <3> QED
      BY <2>1, <3>1
  <2>5. WindowsCoverTheText(r, reply.value)
    BY <2>2, <2>3, <2>4, WindowsHold
  <2> QED
    BY <1>1, <2>5 DEF CutsAreRight
<1>2. CASE r.fn = "embed_batch"
  <2>1. r.lens \in Seq(Nat) /\ r.nctx \in Nat /\ r.seqMax \in Nat \ {0}
    BY <1>2, LibraryAssumption
  <2>2. reply = Chunks(r.lens, r.nctx, r.seqMax)
    BY <1>2 DEF Answer
  <2>3. ChunksFit(r, reply.value)
    BY <2>1, <2>2, BatchHolds
  <2> QED
    BY <1>2, <2>3 DEF CutsAreRight
<1>3. CASE r.fn = "sizes"
  <2> DEFINE p == r.params
  <2>1. IsParams(p)
    BY <1>3, LibraryAssumption
  <2>2. /\ p.ctx \in Int /\ p.streams \in Int /\ p.seqMax \in Int
        /\ p.nBatch \in Int /\ p.nUbatch \in Int
    BY <2>1 DEF IsParams, NotGiven
  <2>3. reply.value = Floors(Resolve(p))
    BY <1>3 DEF Answer, Done
  <2> HIDE DEF p
  <2>4. SizesHoldAChunk(Floors(Resolve(p)))
    BY <2>2, SizesHold
  <2> QED
    BY <1>3, <2>3, <2>4 DEF CutsAreRight
<1>4. CASE r.fn = "spans"
  <2>1. IsScores(r.scores) /\ r.threshold \in Int
    BY <1>4, LibraryAssumption
  <2>2. /\ IsFiniteSet(DOMAIN r.scores) /\ DOMAIN r.scores \subseteq Nat \X (Nat \ {0}) \X Int
        /\ \A c \in DOMAIN r.scores : r.scores[c] \in Int \cup {NaN}
    BY <2>1 DEF IsScores
  <2>3. reply = DecodeSpans(r.scores, r.size, r.threshold)
    BY <1>4 DEF Answer
  <2>4. SpansAreResolved(r, reply.value)
    BY <2>1, <2>2, <2>3, SpansHold
  <2> QED
    BY <1>4, <2>4 DEF CutsAreRight
<1> QED
  BY <1>1, <1>2, <1>3, <1>4 DEF CutsAreRight

\* Whatever is called: the windows of a text leave no gap, fit the budget and
\* repeat no more than the overlap, the chunks of a batch are the batch in order
\* and fit a context, a context's sizes hold a full chunk, and the spans kept do
\* not overlap and leave out none that is stronger (m3-embed-llamacpp, m3-ner-ort).
THEOREM EveryCutIsRight == LibInit /\ [][LibNext]_libVars => []CutsAreRight
<1>1. LibInit => Replied
  BY DEF LibInit, Replied
<1>2. Replied /\ [LibNext]_libVars => Replied'
  <2> SUFFICES ASSUME Replied, [LibNext]_libVars PROVE Replied'
    OBVIOUS
  <2>1. ASSUME NEW r \in Requests, Ask(r) PROVE Replied'
    BY <2>1 DEF Ask, Replied
  <2>2. CASE UNCHANGED <<request, reply>>
    BY <2>2 DEF Replied
  <2> QED
    BY <2>1, <2>2 DEF LibNext, libVars
<1>3. Replied => CutsAreRight
  BY RequestIsCut
<1> QED
  BY <1>1, <1>2, <1>3, PTL

=============================================================================
