------------------------------ MODULE Ranking ------------------------------
(***************************************************************************)
(* Scoring and reranking (m3-vector, m3-rank) as Python calls them: greedy *)
(* MMR, the displacement guard, rank fusion, recency, packed rows.  Scores *)
(* are integers, cosines an input; every sequence is 1-based.              *)
(***************************************************************************)
EXTENDS Integers, SequencesExt

CONSTANTS NaN,
          ParThreshold, \* candidates from which rayon scores, 128 in the code
          Whole,        \* lambda, weights and margins are so many Whole-ths
          Unit          \* a normalised score of 1.0, divisible by the ranges

ASSUME RankingAssumption == Whole \in Nat /\ Unit \in Nat

(* Arguments of their Rust types, and the orders that a sort may leave.    *)
Score == Int \cup {NaN}
Cosines == Seq(Seq(Score))
IsSquare(sim) == sim \in Cosines /\ \A i \in DOMAIN sim : Len(sim[i]) = Len(sim)
Row == [expansion : BOOLEAN, score : Int]
FusionRow == [id : Int, score : Int]
HybridRow == [vec : Int, bm25 : Int, len : Nat, extra : Int]

IsOrder(order, set) == order \in Seq(set) /\ ToSet(order) = set /\ IsInjective(order)
IsFalling(order, rel) ==
  /\ IsOrder(order, DOMAIN rel)
  /\ \A a, b \in DOMAIN order : a < b => rel[order[a]] >= rel[order[b]]
IsById(order, all) ==
  /\ IsOrder(order, DOMAIN all)
  /\ \A a, b \in DOMAIN order : a < b => all[order[a]].id <= all[order[b]].id
IsByDate(order, dates) ==
  /\ IsOrder(order, {i \in DOMAIN dates : dates[i] # NaN})
  /\ \A a, b \in DOMAIN order : a < b => dates[order[a]] <= dates[order[b]]

-----------------------------------------------------------------------------

Fail == [ok |-> FALSE]
Good(v) == [ok |-> TRUE, value |-> v]
Numbers(n) == [i \in 1..n |-> i]
Swap(s, a, b) == [s EXCEPT ![a] = s[b], ![b] = s[a]]

\* Rows in a flat buffer of so many bytes: a whole number of them, or an error.
PackedRows(bytes, dim) ==
  IF dim = 0 \/ bytes % (4 * dim) # 0 THEN Fail ELSE Good(bytes \div (4 * dim))

-----------------------------------------------------------------------------
(* Cosines of packed rows                                                  *)

\* rows[i] has a length in bytes and its cosine with each anchor; a row of
\* another length scores 0, a query of another dimension is an error.
Pooled(row, dim) == IF row.bytes # 4 * dim THEN 0
                    ELSE Max({-Unit} \cup ToSet(row.cos))
CosineMaxpool(anchorDims, rows, dim) ==
  IF \E i \in DOMAIN anchorDims : anchorDims[i] # dim THEN Fail
  ELSE Good([i \in DOMAIN rows |-> Pooled(rows[i], dim)])

-----------------------------------------------------------------------------
(* Maximal marginal relevance                                              *)

\* NaN ranks as minus infinity.
Beats(a, b) == a # NaN /\ (b = NaN \/ a > b)
BetterMutNaNUndecided(a, b) ==
  IF a.score # NaN /\ b.score # NaN /\ ~Beats(b.score, a.score) THEN a ELSE b
Better(a, b) ==
  IF \/ Beats(b.score, a.score)
     \/ ~Beats(a.score, b.score) /\ b.pos < a.pos
  THEN b ELSE a
Best(scored) == FoldLeft(Better, Head(scored), Tail(scored))

\* From ParThreshold on rayon reduces the halves of a cut of its choice.
Pick(scored, cut) ==
  IF Len(scored) < ParThreshold \/ cut \notin 1..(Len(scored) - 1) THEN Best(scored)
  ELSE Better(Best(SubSeq(scored, 1, cut)), Best(SubSeq(scored, cut + 1, Len(scored))))

\* f32::max passes over NaN.
Likest(sim, cand, chosen) == Max({0} \cup ({sim[cand][s] : s \in chosen} \ {NaN}))
Gain(rel, sim, lambda, cand, chosen) ==
  IF rel[cand] = NaN THEN NaN
  ELSE lambda * rel[cand] - (Whole - lambda) * Likest(sim, cand, chosen)

\* What is left without place p, closed up by the last or by moving all up.
Without(s, p, swap) ==
  IF swap THEN Front([s EXCEPT ![p] = Last(s)]) ELSE RemoveAt(s, p)

\* Greedy selection on from what is chosen, until nothing is left.
Gains(rel, sim, lambda, st) ==
  [p \in DOMAIN st.left |-> [pos |-> p, score |-> Gain(rel, sim, lambda, st.left[p], ToSet(st.chosen))]]
TakeBest(rel, sim, lambda, st, swap, cut) ==
  LET best == Pick(Gains(rel, sim, lambda, st), cut).pos
  IN  [chosen |-> Append(st.chosen, st.left[best]), left |-> Without(st.left, best, swap)]
Greedy(rel, sim, lambda, start, count, swap, cut) ==
  FoldLeft(LAMBDA st, n : IF st.left = <<>> THEN st ELSE TakeBest(rel, sim, lambda, st, swap, cut),
           start, Numbers(count)).chosen

Unseeded(n) == [chosen |-> <<>>, left |-> Numbers(n)]
MmrRerank(querySim, sim, lambda, k, cut) ==
  Greedy(querySim, sim, lambda, Unseeded(Len(querySim)), Min({k, Len(querySim)}), TRUE, cut)

Seeded(n) == [chosen |-> <<1>>, left |-> Tail(Numbers(n))]
MmrScored(rel, sim, lambda, k, seed, cut) ==
  LET take  == Min({k, Len(rel)})
      start == IF seed THEN Seeded(Len(rel)) ELSE Unseeded(Len(rel))
  IN  IF Len(sim) # Len(rel) THEN Fail
      ELSE IF take = 0 THEN Good(<<>>)
      ELSE Good(Greedy(rel, sim, lambda, start, take - Len(start.chosen), FALSE, cut))

\* The packed form: the rows of the buffer are as many as the relevances.
MmrScoredPacked(bytes, dim, rel, sim, lambda, k, seed, cut) ==
  IF PackedRows(bytes, dim) # Good(Len(rel)) THEN Fail
  ELSE MmrScored(rel, sim, lambda, k, seed, cut)

-----------------------------------------------------------------------------
(* rank_hybrid: sort by relevance, drop repeated contents, then MMR         *)

Blank == 0     \* a content of white space only
Duplicate(contents, kept, i) ==
  contents[i] # Blank /\ \E j \in ToSet(kept) : contents[j] = contents[i]
EnoughRanked(kept, k) == kept # <<>> /\ Len(kept) >= 3 * k

Preranked(order, contents, k) ==
  FoldLeft(LAMBDA kept, i : IF EnoughRanked(kept, k) \/ Duplicate(contents, kept, i)
                            THEN kept ELSE Append(kept, i),
           <<>>, order)

\* order: the indices by falling relevance; equal ones as the sort leaves them.
RankHybrid(rel, contents, sim, lambda, k, order, cut) ==
  LET pre == Preranked(order, contents, k)
      r   == MmrScored([i \in DOMAIN pre |-> rel[pre[i]]],
                       [i \in DOMAIN pre |-> [j \in DOMAIN pre |-> sim[pre[i]][pre[j]]]],
                       lambda, k, TRUE, cut)
  IN  IF Len(contents) # Len(rel) \/ Len(sim) # Len(rel) THEN Fail
      ELSE IF pre = <<>> THEN Good(<<>>)
      ELSE Good([i \in DOMAIN r.value |-> pre[r.value[i]]])

-----------------------------------------------------------------------------
(* The displacement guard                                                  *)

Dominates(score, primary, margin) ==
  score > 0 /\ primary > 0 /\ Whole * score >= margin * primary

\* One rank of the walk: primaries are the places of primaries that are left.
GuardRank(rows, margin, st, rank) ==
  LET here == rows[st.perm[rank]]
      live == {p \in st.primaries : p > rank}
      next == Min(live)
  IN  IF \/ ~here.expansion \/ live = {}
         \/ Dominates(here.score, rows[st.perm[next]].score, margin)
      THEN [st EXCEPT !.primaries = live]
      ELSE [perm |-> Swap(st.perm, rank, next), primaries |-> live \ {next}]

DisplacementPermutation(rows, protected, margin) ==
  LET all == Numbers(Len(rows))
      st  == [perm |-> all, primaries |-> {p \in DOMAIN rows : ~rows[p].expansion}]
  IN  IF margin <= Whole THEN all
      ELSE FoldLeft(LAMBDA s, rank : GuardRank(rows, margin, s, rank), st,
                    Numbers(Min({protected, Len(rows)}))).perm

\* The same permutation applied in place, a cycle at a time; a place that is
\* done is marked by perm[place] = place.  A cycle closes within so many turns
\* as there are rows.
Turned(st, start, saved) ==
  LET next == st.perm[st.current]
      done == [st EXCEPT !.perm[st.current] = st.current]
  IN  IF next # start THEN [done EXCEPT !.items[st.current] = st.items[next], !.current = next]
      ELSE [done EXCEPT !.items[st.current] = saved, !.closed = TRUE]
Rotated(st, start) ==
  FoldLeft(LAMBDA s, turn : IF s.closed THEN s ELSE Turned(s, start, st.items[start]),
           [st EXCEPT !.current = start, !.closed = st.perm[start] = start], Numbers(Len(st.perm)))
EnforceDisplacementGuard(rows, protected, margin) ==
  FoldLeft(Rotated, [items |-> rows, perm |-> DisplacementPermutation(rows, protected, margin),
                     current |-> 0, closed |-> TRUE],
           Numbers(Len(rows))).items

-----------------------------------------------------------------------------
(* Rank fusion                                                             *)

MinMaxNormalize(rows) ==
  LET scores == {rows[i].score : i \in DOMAIN rows}
      range  == Max(scores) - Min(scores)
  IN  [i \in DOMAIN rows |->
        [rows[i] EXCEPT !.score = IF range = 0 THEN Unit
                                  ELSE ((@ - Min(scores)) * Unit) \div range]]
Weighted(rows, w) == [i \in DOMAIN rows |-> [rows[i] EXCEPT !.score = @ * w]]

\* Consecutive rows of one id become one, with the larger contribution.
Merge(fused, row) ==
  IF fused = <<>> \/ Last(fused).id # row.id THEN Append(fused, row)
  ELSE IF row.score > Last(fused).score THEN [fused EXCEPT ![Len(fused)] = row]
  ELSE fused

Contributions(fts, vector, wFts, wVector) ==
  Weighted(MinMaxNormalize(fts), wFts) \o Weighted(MinMaxNormalize(vector), wVector)

\* Best first, and of equal scores by id; merged rows have each an id of its own.
Above(a, b) == a.score > b.score \/ (a.score = b.score /\ a.id < b.id)
BestFirst(rows) ==
  CHOOSE s \in [DOMAIN rows -> ToSet(rows)] : \A i, j \in DOMAIN s : i < j => Above(s[i], s[j])

\* order: the concatenated rows by id; rows of one id as the sort leaves them.
Merged(all, order) == FoldLeft(Merge, <<>>, [i \in DOMAIN order |-> all[order[i]]])
Fuse(fts, vector, wFts, wVector, order) ==
  BestFirst(Merged(Contributions(fts, vector, wFts, wVector), order))

-----------------------------------------------------------------------------
(* Recency bonus, hybrid scores                                            *)

\* dates[i] is its packed fields, or None; order: the dated by rising date.
RecencyBonusRanks(dates, bias, order) ==
  [i \in DOMAIN dates |->
     IF bias <= 0 \/ Len(order) < 2 \/ i \notin ToSet(order) THEN 0
     ELSE (bias * Unit * ((CHOOSE r \in DOMAIN order : order[r] = i) - 1)) \div (Len(order) - 1)]

\* In tenths: a short content is worth less, but three tenths at least.
LengthPenalty(len, threshold) ==
  IF len < threshold THEN Max({3, (10 * len) \div Max({threshold, 1})}) ELSE 10

\* rows[i] has the scores vec and bm25 (in 1 / (1 + |rank|), an input), a length
\* and what title and importance add.
Relevance(row, w) == row.vec * w + row.bm25 * (Whole - w)
HybridScore(row, w, threshold) ==
  Relevance(row, w) * LengthPenalty(row.len, threshold) + row.extra
HybridScoreBatch(rows, lengths, w, threshold) ==
  IF \E i \in DOMAIN lengths : lengths[i] # Len(rows) THEN Fail
  ELSE Good([i \in DOMAIN rows |-> HybridScore(rows[i], w, threshold)])

=============================================================================
