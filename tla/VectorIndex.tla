---------------------------- MODULE VectorIndex ----------------------------
(***************************************************************************)
(* The resident vector index (m3-vector): rows in a dense table, keys[i]   *)
(* the key of row i, pos[key] its row.  A removal moves the last row into  *)
(* the hole.  A row is kept quantised: of a vector, what its codes and     *)
(* scale give as its score against the query, Approx of it, is kept: the   *)
(* query is one vector, or one of zeros, which finds nothing.              *)
(***************************************************************************)
EXTENDS Integers, FiniteSets, SequencesExt

CONSTANTS Approx,   \* Approx[v]: the score the quantised v gets
          BadVectors, \* vectors with a NaN or infinite component
          ChunkRows   \* rows a rayon task scans, 4096 in the code

ASSUME VectorAssumption == /\ Approx \in [DOMAIN Approx -> Int]
                           /\ BadVectors \subseteq DOMAIN Approx
                           /\ ChunkRows \in Nat \ {0}

EmptyIndex == [keys |-> <<>>, rows |-> <<>>, pos |-> <<>>]

Stored(index) == DOMAIN index.pos

\* Bind one more key, or another value of it.
Bind(f, k, v) == [x \in DOMAIN f \cup {k} |-> IF x = k THEN v ELSE f[x]]
Unbind(f, k)  == [x \in DOMAIN f \ {k} |-> f[x]]

Store(index, key, v) ==
  IF key \in Stored(index)
  THEN [index EXCEPT !.rows[index.pos[key]] = Approx[v]]
  ELSE [keys |-> Append(index.keys, key), rows |-> Append(index.rows, Approx[v]),
        pos  |-> Bind(index.pos, key, Len(index.keys) + 1)]

\* The pairs of one call, in order; a key given twice keeps its last vector.
StoreAll(index, pairs) ==
  FoldLeft(LAMBDA i, p : Store(i, p[1], p[2]), index, pairs)

AcceptableMutStoreUntilBad(pairs) == TRUE
Acceptable(pairs) == \A i \in DOMAIN pairs : pairs[i][2] \notin BadVectors

\* upsert_many: every row is checked before any is stored.
UpsertMany(index, pairs) == IF Acceptable(pairs) THEN StoreAll(index, pairs) ELSE index

MovedPosMutStale(pos, moved, hole) == pos
MovedPos(pos, moved, hole) == Bind(pos, moved, hole)

RemoveRow(index, key) ==
  LET hole  == index.pos[key]
      last  == Len(index.keys)
      moved == index.keys[last]
      rest  == Unbind(index.pos, key)
  IN  [keys |-> Front([index.keys EXCEPT ![hole] = moved]),
       rows |-> Front([index.rows EXCEPT ![hole] = index.rows[last]]),
       pos  |-> IF hole = last THEN rest ELSE MovedPos(rest, moved, hole)]

\* Remove the keys of one call, and count those that were there.
RemoveAll(index, keys) ==
  FoldLeft(LAMBDA acc, k : IF k \in Stored(acc.index)
                           THEN [index |-> RemoveRow(acc.index, k), removed |-> acc.removed + 1]
                           ELSE acc,
           [index |-> index, removed |-> 0], keys)

-----------------------------------------------------------------------------
(* search                                                                  *)

\* The order of the heap: what it gives up first is the lowest score, and of
\* those the lowest key.
Worse(a, b) == \/ a.score < b.score
               \/ a.score = b.score /\ a.key < b.key

\* A heap that never holds more than k of the hits, as the set of their places.
Evict(hits, heap) ==
  heap \ {CHOOSE i \in heap : \A j \in heap \ {i} : ~Worse(hits[j], hits[i])}

Push(hits, heap, i, k) ==
  LET more == heap \cup {i} IN IF Cardinality(more) <= k THEN more ELSE Evict(hits, more)

\* A task pushes its rows into a heap of its own, and that goes into the heap of
\* all; which comes first is rayon's.
Chunk(c, n) == {i \in 1..n : (i - 1) \div ChunkRows = c}
PushAll(hits, S, heap, k) == FoldSet(LAMBDA i, h : Push(hits, h, i, k), heap, S)
MergeChunks(hits, k) ==
  FoldSet(LAMBDA c, heap : PushAll(hits, PushAll(hits, Chunk(c, Len(hits)), {}, k), heap, k),
          {}, 0..(Len(hits) \div ChunkRows))

\* The rows of the allowed keys, in the order given, unknown keys left out; all
\* rows without a filter.  allowed is {} for None and {keys} for Some(keys).
RowsOf(index, allowed) ==
  IF allowed = {} THEN [i \in 1..Len(index.keys) |-> i]
  ELSE FoldLeft(LAMBDA rows, k : IF k \in Stored(index) THEN Append(rows, index.pos[k]) ELSE rows,
                <<>>, CHOOSE keys \in allowed : TRUE)

\* Best first, and of equal scores the lowest key first.
Before(a, b) == \/ a.score > b.score
                \/ a.score = b.score /\ a.key < b.key

\* The places of the heap in that order; equal hits are one key found twice.
Sorted(hits, heap) ==
  CHOOSE s \in [1..Cardinality(heap) -> heap] :
    \A m, n \in DOMAIN s : m < n => \/ Before(hits[s[m]], hits[s[n]])
                                    \/ hits[s[m]] = hits[s[n]] /\ s[m] < s[n]

HitsOf(index, rows) ==
  [i \in DOMAIN rows |-> [key |-> index.keys[rows[i]], score |-> index.rows[rows[i]]]]

\* zero: every component of the query is.
Search(index, k, zero, allowed) ==
  LET hits == HitsOf(index, RowsOf(index, allowed))
      top  == Sorted(hits, MergeChunks(hits, k))
  IN  IF k = 0 \/ zero THEN <<>> ELSE [n \in DOMAIN top |-> hits[top[n]]]

=============================================================================
