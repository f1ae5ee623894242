------------------------------ MODULE Windows ------------------------------
(***************************************************************************)
(* What goes into one forward pass of the embedder (m3-embed-llamacpp):    *)
(* windows cut out of a long text by exact token counts, texts packed into *)
(* decode chunks, and the sizes the contexts are built with.               *)
(* count[<<s, e>>] is the tokens of the characters s+1..e, its BOS/EOS     *)
(* frame included.                                                         *)
(***************************************************************************)
EXTENDS Ranking

CONSTANTS MaxCharsPerToken,
          MinCtx, DefaultCtx, DefaultSeqMax, DefaultStreams

ASSUME WindowsAssumption ==
  /\ MaxCharsPerToken \in Nat \ {0}
  /\ {MinCtx, DefaultCtx, DefaultSeqMax, DefaultStreams} \subseteq Nat

-----------------------------------------------------------------------------
(* plan_windows                                                            *)

\* By bisection between two places to two that are next to each other, to the
\* left where the middle is one of those in left.
Bisected(n, left) ==
  LET at[p \in (0..n) \X (0..n)] ==
        LET mid == p[1] + (p[2] - p[1]) \div 2
        IN  IF p[2] - p[1] <= 1 THEN p
            ELSE IF mid \in left THEN at[<<p[1], mid>>] ELSE at[<<mid, p[2]>>]
  IN  at

\* Between a start that fits (or is start itself) and an end that does not; one
\* character at least.
LargestFittingEnd(count, n, start, budget) ==
  LET cap == Min({n, start + budget * MaxCharsPerToken})
      low == Bisected(n, {m \in 0..n : count[<<start, m>>] > budget})[<<start, cap>>][1]
  IN  IF count[<<start, cap>>] <= budget THEN cap ELSE Max({low, start + 1})

\* The same for the start of the next window, in (start, end].
SmallestOverlapStartMutSame(count, n, start, end, overlap) ==
  Max({start + 1, end - overlap})
SmallestOverlapStart(count, n, start, end, overlap) ==
  IF overlap = 0 THEN end ELSE Bisected(n, {m \in 0..n : count[<<m, end>>] <= overlap})[<<start, end>>][2]

PlanWindows(count, n, budget, overlap) ==
  LET kept == Min({overlap, Max({budget - 1, 0})})
      from[start \in 0..(n - 1)] ==
        LET end == LargestFittingEnd(count, n, start, budget)
        IN  IF end >= n THEN <<<<start, end>>>>
            ELSE <<<<start, end>>>> \o from[SmallestOverlapStart(count, n, start, end, kept)]
  IN  IF n = 0 \/ count[<<0, n>>] <= budget THEN <<<<0, n>>>> ELSE from[0]

\* A budget must exceed the frame and fit the context.
TokenWindows(count, n, budget, overlap, nctx) ==
  IF budget <= count[<<0, 0>>] \/ budget > nctx THEN Fail
  ELSE Good(PlanWindows(count, n, budget, overlap))

-----------------------------------------------------------------------------
(* embed_on_ctx                                                            *)

Length(lens, i) == Max({lens[i], 1})
Total(lens, from, to) == SumFunctionOnSet(lens, from..to)

\* Text m may join the chunk that begins with text idx.
Joins(lens, idx, m, nctx, seqMax) ==
  /\ m - idx < seqMax
  /\ m = idx \/ Total([i \in DOMAIN lens |-> Length(lens, i)], idx, m) <= nctx

\* The last text of that chunk; one longer than a sequence's share that comes
\* first goes alone.
ChunkLast(lens, idx, nctx, seqMax) ==
  IF Length(lens, idx) > nctx \div seqMax THEN idx
  ELSE Max({m \in idx..Len(lens) : \A j \in idx..m : Joins(lens, idx, j, nctx, seqMax)})

\* The chunks <<first, last>> of a batch; a text over the context refuses it all.
Chunks(lens, nctx, seqMax) ==
  LET from[idx \in 1..(Len(lens) + 1)] ==
        IF idx > Len(lens) THEN <<>>
        ELSE LET last == ChunkLast(lens, idx, nctx, seqMax)
             IN  <<<<idx, last>>>> \o from[last + 1]
  IN  IF \E i \in DOMAIN lens : lens[i] > nctx
      THEN [ok |-> FALSE, tooLong |-> Min({i \in DOMAIN lens : lens[i] > nctx})]
      ELSE Good(from[1])

-----------------------------------------------------------------------------
(* Sizes: the Python parameters, then the constructor's floors              *)

NotGiven == -1
IsParams(p) ==
  \A f \in {"streams", "ctx", "seqMax", "nBatch", "nUbatch", "maxBatchTokens"} : p[f] = NotGiven \/ p[f] \in Nat

Given(v, default, least) == IF v = NotGiven THEN default ELSE Max({v, least})

Resolve(p) ==
  LET streams == Given(p.streams, DefaultStreams, 1)
      ctx     == Given(p.ctx, DefaultCtx, MinCtx)
  IN  [streams |-> streams, ctx |-> ctx, seqMax |-> Given(p.seqMax, DefaultSeqMax, 1),
       nBatch  |-> Given(p.nBatch, ctx, 1), nUbatch |-> Given(p.nUbatch, ctx, 1),
       maxBatchTokens |-> Given(p.maxBatchTokens, streams * ctx, 1)]

\* n_batch and n_ubatch hold at least a context, n_ubatch no more than n_batch.
Floors(s) ==
  LET ctx    == Max({s.ctx, MinCtx})
      nBatch == Max({s.nBatch, ctx})
  IN  [s EXCEPT !.streams = Max({@, 1}), !.seqMax = Max({@, 1}), !.ctx = ctx,
                !.nBatch = nBatch, !.nUbatch = Min({Max({@, ctx}), nBatch})]

\* Tokens never under-counted: the longer of a third of the bytes and the
\* characters, and the frame.
EstimateTokens(bytes, chars) == Max({bytes \div 3, chars}) + 2

=============================================================================
