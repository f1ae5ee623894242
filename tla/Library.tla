------------------------------ MODULE Library ------------------------------
(***************************************************************************)
(* The synchronous calls of m3_core_rs (m3-core-py): a call's arguments    *)
(* go to one of the Rust functions and its reply comes back.  Only the     *)
(* graph and a thread's redactor remember anything between calls.          *)
(***************************************************************************)
EXTENDS Windows, Ner, EntityGraph, Walk, Redaction, FtsQuery, Decisions

CONSTANTS Requests,          \* the calls of pure functions to make
          NoRequest,
          Ids, Edges,        \* what may be added to the graph
          MaxEdges,          \* bound on its edges
          Distances, Limits,     \* the distances and limits to query it with
          Configs, Contents  \* what may be scrubbed

\* Cosines are of all that is ranked, and an order is one that a sort may leave;
\* rank_hybrid's relevances are numbers.
IsRankingCall(r) ==
  /\ r.fn = "mmr_rerank" =>
       /\ r \in [fn : {r.fn}, rel : Seq(Score), sim : Cosines, lambda : Int, k : Nat, cut : Nat]
       /\ IsSquare(r.sim) /\ Len(r.sim) = Len(r.rel)
  /\ r.fn = "mmr_scored" =>
       /\ r \in [fn : {r.fn}, rel : Seq(Score), sim : Cosines, lambda : Int, k : Nat, seed : BOOLEAN, cut : Nat]
       /\ IsSquare(r.sim)
  /\ r.fn = "mmr_packed" =>
       r.rel \in Seq(Score) /\ IsSquare(r.sim) /\ r.lambda \in Int /\ r.k \in Nat /\ r.seed \in BOOLEAN
  /\ r.fn = "rank_hybrid" =>
       /\ r.rel \in Seq(Int) /\ r.contents \in Seq(Nat) /\ IsSquare(r.sim) /\ r.lambda \in Int /\ r.k \in Nat
       /\ IsFalling(r.order, r.rel)
  /\ r.fn = "displacement" => r.rows \in Seq(Row) /\ r.protected \in Nat /\ r.margin \in Int
  /\ r.fn = "fuse" =>
       /\ r.fts \in Seq(FusionRow) /\ r.vector \in Seq(FusionRow) /\ r.wFts \in Int /\ r.wVector \in Int
       /\ IsById(r.order, Contributions(r.fts, r.vector, r.wFts, r.wVector))
  /\ r.fn = "hybrid" => r.rows \in Seq(HybridRow) /\ r.weight \in Int /\ r.threshold \in Nat
  /\ r.fn = "recency" => r.dates \in Seq(Score) /\ r.bias \in Int /\ IsByDate(r.order, r.dates)

\* A reading that is no number is not one, and the calls have arguments of
\* their Rust types.
ASSUME LibraryAssumption ==
  /\ NaN \notin Int /\ MaxDuration \in Nat /\ Distances \subseteq Nat /\ Limits \subseteq Nat
  /\ \A r \in Requests :
       /\ IsRankingCall(r)
       /\ r.fn = "pacing" => r.initial \in Int /\ r.limit \in Int
       /\ r.fn = "route" => IsSignals(r.signals)
       /\ r.fn = "delay" => /\ r.base \in 0..MaxDuration /\ r.most \in 0..MaxDuration
                            /\ r.attempt \in Nat
       /\ r.fn = "fts" => IsQuery(r.query) /\ r.maxLen \in Nat
       /\ r.fn = "windows" => /\ {r.n, r.budget, r.overlap, r.nctx} \subseteq Nat
                              /\ \A s, e \in 0..r.n : r.count[<<s, e>>] \in Nat
       /\ r.fn = "embed_batch" => r.lens \in Seq(Nat) /\ r.nctx \in Nat /\ r.seqMax \in Nat \ {0}
       /\ r.fn = "sizes" => IsParams(r.params)
       /\ r.fn = "spans" => IsScores(r.scores) /\ r.threshold \in Int
       /\ r.fn = "fs_walk" => IsTree(r.tree) /\ IsWalk(r.options) /\ r.root \in DOMAIN r.tree.listing

VARIABLES request, reply,    \* the last pure call and what it returned
          graph              \* a GraphIndex
libVars == <<request, reply, graph, cache, errors, scrubbed>>

Done(v) == [ok |-> TRUE, value |-> v]

Answer(r) ==
  CASE r.fn = "mmr_rerank"   -> Done(MmrRerank(r.rel, r.sim, r.lambda, r.k, r.cut))
    [] r.fn = "mmr_scored"   -> MmrScored(r.rel, r.sim, r.lambda, r.k, r.seed, r.cut)
    [] r.fn = "mmr_packed"   -> MmrScoredPacked(r.bytes, r.dim, r.rel, r.sim, r.lambda, r.k, r.seed, r.cut)
    [] r.fn = "maxpool"      -> CosineMaxpool(r.anchorDims, r.rows, r.dim)
    [] r.fn = "rank_hybrid"  -> RankHybrid(r.rel, r.contents, r.sim, r.lambda, r.k, r.order, r.cut)
    [] r.fn = "displacement" -> Done(EnforceDisplacementGuard(r.rows, r.protected, r.margin))
    [] r.fn = "fuse"         -> Done(Fuse(r.fts, r.vector, r.wFts, r.wVector, r.order))
    [] r.fn = "hybrid"       -> HybridScoreBatch(r.rows, r.lengths, r.weight, r.threshold)
    [] r.fn = "recency"      -> Done(RecencyBonusRanks(r.dates, r.bias, r.order))
    [] r.fn = "windows"      -> TokenWindows(r.count, r.n, r.budget, r.overlap, r.nctx)
    [] r.fn = "embed_batch"  -> Chunks(r.lens, r.nctx, r.seqMax)
    [] r.fn = "sizes"        -> Done(Floors(Resolve(r.params)))
    [] r.fn = "spans"        -> DecodeSpans(r.scores, r.size, r.threshold)
    [] r.fn = "new_ner"      -> NewNer(r.platform, r.faults, r.works)
    [] r.fn = "fs_walk"      -> WalkTree(r.tree, r.options, r.root)
    [] r.fn = "fts"          -> Done(CompileFtsQuery(r.query, r.mode, r.maxLen))
    [] r.fn = "pacing"       -> Done(DecidePacing(GovernorConfig(r.initial, r.limit), r.load, r.elapsed))
    [] r.fn = "route"        -> Done(DecideRoute(r.signals))
    [] r.fn = "delay"        -> Done(DelayForAttempt(r.base, r.most, r.attempt))
    [] r.fn = "raise"        -> Done(ToPyErr(CloneError(r.error)))

LibInit == request = NoRequest /\ reply = NoRequest /\ graph = NoGraph /\ RedactInit

Ask(r) == request' = r /\ reply' = Answer(r)

AddNode(id) == graph' = WithNode(graph, id)
AddEdge(from, to) == Len(graph.edges) < MaxEdges /\ graph' = WithEdge(graph, from, to)

GraphCall == \/ \E id \in Ids : AddNode(id)
             \/ \E e \in Edges : AddEdge(e[1], e[2])

LibNext == \/ (\E r \in Requests : Ask(r)) /\ UNCHANGED <<graph, redactVars>>
           \/ GraphCall /\ UNCHANGED <<request, reply, redactVars>>
           \/ RedactNext(Configs, Contents) /\ UNCHANGED <<request, reply, graph>>

-----------------------------------------------------------------------------
(* Ranking                                                                 *)

NoRepeats(s) == Cardinality(ToSet(s)) = Len(s)

\* Every pick has the best gain over what is left, given what was picked.
PicksAreBest(out, from, rel, sim, lambda) ==
  /\ NoRepeats(out)
  /\ \A i \in from..Len(out) :
       LET chosen == {out[j] : j \in 1..(i - 1)}
           gain(c) == Gain(rel, sim, lambda, c, chosen)
       IN  \A c \in DOMAIN rel \ chosen : ~Beats(gain(c), gain(out[i]))

\* Of equal gains the first candidate is taken.
TiesGoToTheFirst(out, from, rel, sim, lambda) ==
  \A i \in from..Len(out) :
    LET chosen == {out[j] : j \in 1..(i - 1)}
        gain(c) == Gain(rel, sim, lambda, c, chosen)
    IN  \A c \in DOMAIN rel \ chosen : c < out[i] => Beats(gain(out[i]), gain(c))

\* mmr_rerank and mmr_rerank_scored pick greedily, as many as asked for, the
\* seed first, and the same whichever way rayon cuts the candidates.
MmrIsGreedy(r, out) ==
  LET n     == Len(r.rel)
      seed  == r.fn # "mmr_rerank" /\ r.seed
      first == IF seed THEN 2 ELSE 1
  IN  /\ Len(out) = Min({r.k, n})
      /\ PicksAreBest(out, first, r.rel, r.sim, r.lambda)
      /\ r.fn # "mmr_rerank" => TiesGoToTheFirst(out, first, r.rel, r.sim, r.lambda)
      /\ seed /\ out # <<>> => out[1] = 1
      /\ r.fn # "mmr_packed" => \A cut \in 1..n : Answer([r EXCEPT !.cut = cut]) = Done(out)

\* rank_hybrid returns no repeated content but blank ones, the most relevant
\* copy of each, and the most relevant candidate first; no blank is a copy.
HybridHasNoCopies(r, out) ==
  /\ NoRepeats(out) /\ Len(out) <= r.k
  /\ \A i, j \in DOMAIN out : i # j => \/ r.contents[out[i]] = Blank
                                      \/ r.contents[out[i]] # r.contents[out[j]]
  /\ \A i \in DOMAIN r.rel, o \in ToSet(out) :
       i \notin ToSet(out) /\ r.contents[i] = r.contents[o] /\ r.contents[i] # Blank
         => r.rel[i] <= r.rel[o]
  /\ r.k >= Len(r.rel) => {i \in DOMAIN r.rel : r.contents[i] = Blank} \subseteq ToSet(out)
  /\ out # <<>> => \A i \in DOMAIN r.rel : r.rel[i] <= r.rel[out[1]]

\* The displacement guard loses and copies no row, keeps the primaries in their
\* order, and leaves no expansion at a protected rank above a primary it does
\* not dominate; a second application changes nothing.
GuardIsFair(r, out) ==
  LET perm == DisplacementPermutation(r.rows, r.protected, r.margin)
  IN  /\ ToSet(perm) = DOMAIN r.rows /\ out = [i \in DOMAIN perm |-> r.rows[perm[i]]]
      /\ \A i, j \in DOMAIN perm :
           i < j /\ ~r.rows[perm[i]].expansion /\ ~r.rows[perm[j]].expansion => perm[i] < perm[j]
      /\ r.margin > Whole =>
           \A i \in 1..Min({r.protected, Len(out)}), j \in DOMAIN out :
             out[i].expansion /\ ~out[j].expansion /\ i < j
               /\ (\A m \in (i + 1)..(j - 1) : out[m].expansion)
               => Dominates(out[i].score, out[j].score, r.margin)
      /\ EnforceDisplacementGuard(out, r.protected, r.margin) = out

\* Fusion has every id once, with the larger of its contributions, best first
\* and then by id, however the sort left the rows of one id.
FusionIsRight(r, out) ==
  LET all == Contributions(r.fts, r.vector, r.wFts, r.wVector)
  IN  /\ NoRepeats([i \in DOMAIN out |-> out[i].id])
      /\ {out[i].id : i \in DOMAIN out} = {all[i].id : i \in DOMAIN all}
      /\ \A i \in DOMAIN out :
           out[i].score = Max({all[j].score : j \in {x \in DOMAIN all : all[x].id = out[i].id}})
      /\ \A i, j \in DOMAIN out :
           i < j => \/ out[i].score > out[j].score
                    \/ out[i].score = out[j].score /\ out[i].id < out[j].id

\* A row of another length scores 0 and spoils no other row; of dated rows the
\* later never gets the smaller bonus, the latest the whole bias.
PooledRowsAreApart(r, out) ==
  \A i \in DOMAIN r.rows :
    LET alone == CosineMaxpool(r.anchorDims, <<r.rows[i]>>, r.dim)
    IN  out[i] = alone.value[1]
BonusGrowsWithDate(r, out) ==
  \A i, j \in DOMAIN r.dates :
    /\ r.dates[i] # NaN /\ r.dates[j] # NaN /\ r.dates[i] < r.dates[j] => out[i] <= out[j]
    /\ r.dates[i] = NaN => out[i] = 0
    /\ r.bias > 0 /\ Len(r.order) > 1 => out[Last(r.order)] = r.bias * Unit

\* Of contents that differ in length only the longer never scores less, where
\* their relevance is not negative; from the threshold on length does not count.
LengthIsNoPenalty(r, out) ==
  \A i, j \in DOMAIN r.rows :
    /\ r.rows[j] = [r.rows[i] EXCEPT !.len = r.rows[j].len]
    /\ r.rows[i].len <= r.rows[j].len
    => /\ Relevance(r.rows[i], r.weight) >= 0 => out[i] <= out[j]
       /\ r.rows[i].len >= r.threshold => out[i] = out[j]

\* What the ranking calls return (m3-vector, m3-rank): see the parts above.
RankingIsRight ==
  request # NoRequest /\ reply.ok =>
    CASE request.fn \in {"mmr_rerank", "mmr_scored", "mmr_packed"} -> MmrIsGreedy(request, reply.value)
      [] request.fn = "rank_hybrid"  -> HybridHasNoCopies(request, reply.value)
      [] request.fn = "displacement" -> GuardIsFair(request, reply.value)
      [] request.fn = "fuse"         -> FusionIsRight(request, reply.value)
      [] request.fn = "maxpool"      -> PooledRowsAreApart(request, reply.value)
      [] request.fn = "hybrid"       -> LengthIsNoPenalty(request, reply.value)
      [] request.fn = "recency"      -> BonusGrowsWithDate(request, reply.value)
      [] OTHER -> TRUE

-----------------------------------------------------------------------------
(* Texts cut into windows, batches and spans                               *)

\* Windows cover the text in order without a gap, each moves on, fits the
\* budget or is one character, and repeats no more than the overlap allows.
WindowsCoverTheText(r, out) ==
  LET kept == Min({r.overlap, r.budget - 1})
  IN  /\ out[1][1] = 0 /\ Last(out)[2] = r.n
      /\ \A i \in DOMAIN out :
           /\ r.count[<<out[i][1], out[i][2]>>] <= r.budget \/ out[i][2] <= out[i][1] + 1
           /\ i > 1 => /\ out[i - 1][1] < out[i][1] /\ out[i][1] <= out[i - 1][2]
                       /\ \/ out[i][1] = out[i - 1][2]
                          \/ r.count[<<out[i][1], out[i - 1][2]>>] <= kept

\* Chunks are the batch in order, none over the context or the sequences.
ChunksFit(r, out) ==
  /\ IF r.lens = <<>> THEN out = <<>> ELSE out[1][1] = 1 /\ Last(out)[2] = Len(r.lens)
  /\ \A c \in DOMAIN out : /\ out[c][1] <= out[c][2]
                           /\ c > 1 => out[c][1] = out[c - 1][2] + 1
  /\ \A c \in DOMAIN out : /\ out[c][2] - out[c][1] < r.seqMax
                           /\ Total(r.lens, out[c][1], out[c][2]) <= r.nctx

\* A full chunk always fits one ubatch and a ubatch one batch, or the encoder aborts.
SizesHoldAChunk(s) == /\ s.ctx <= s.nUbatch /\ s.nUbatch <= s.nBatch
                      /\ s.streams >= 1 /\ s.seqMax >= 1 /\ s.ctx >= MinCtx

\* The spans do not overlap, are in order, all at the threshold, and each one
\* left out overlaps a span as strong that was kept.
SpansAreResolved(r, out) ==
  LET all == Spans(r.scores)
  IN  /\ \A i, j \in DOMAIN out : i < j => out[i].end <= out[j].start
      /\ \A c \in all : c.score # NaN /\ c.score >= r.threshold =>
           \E a \in ToSet(out) : a = c \/ (a.start < c.end /\ c.start < a.end /\ a.score >= c.score)
      /\ \A a \in ToSet(out) : a \in all /\ a.score # NaN /\ a.score >= r.threshold

\* What is cut out of texts (m3-embed-llamacpp, m3-ner-ort): see the parts above.
CutsAreRight ==
  request # NoRequest /\ reply.ok =>
    CASE request.fn = "windows"     -> WindowsCoverTheText(request, reply.value)
      [] request.fn = "embed_batch" -> ChunksFit(request, reply.value)
      [] request.fn = "sizes"       -> SizesHoldAChunk(reply.value)
      [] request.fn = "spans"       -> SpansAreResolved(request, reply.value)
      [] OTHER -> TRUE

-----------------------------------------------------------------------------
(* Traversals, decisions                                                   *)

\* The graph's searches are shortest and complete for the graph as it is, and a
\* sweep of a tree tells of every entry: listed, recorded as an error, ignored, or a
\* link that is not followed (m3-graph, m3-ingest).
TraversalsAreRight ==
  /\ \A start \in ToSet(graph.nodes), most \in Distances :
       /\ SearchIsShortest(graph, start, most)
       /\ \A other \in Ids, limit \in Limits : ExpandIsComplete(graph, <<start, other>>, most, limit)
  /\ request # NoRequest /\ request.fn = "fs_walk" =>
       SweepIsComplete(request.tree, request.options, request.root)

\* The small decisions (m3-governor, m3-route, m3-resilience, m3-fts): pacing is
\* ordered by load and time, a route has the best score, delays grow to their
\* maximum, a compiled query has no syntax of its typist's.
DecisionsAreRight ==
  request # NoRequest =>
    CASE request.fn = "pacing" -> PacingIsOrdered(GovernorConfig(request.initial, request.limit),
                                                  {0, 9, 10, 15, 20, 50, 95, 99, 100}, {0, 29, 30, 59, 60})
      [] request.fn = "route"  -> RouteIsBest(request.signals)
      [] request.fn = "delay"  -> DelaysGrow(request.base, request.most, request.attempt)
      [] request.fn = "fts"    -> QueryIsSafe(request.query, request.mode, request.maxLen)
      [] OTHER -> TRUE

=============================================================================
