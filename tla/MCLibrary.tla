----------------------------- MODULE MCLibrary -----------------------------
(* The Python module: the shared index, and the calls that share nothing    *)
(* with it or with each other.  Since they share nothing, a behaviour here  *)
(* is one of the index, of the graph, of one thread's redactor, or a single *)
(* pure call: the sum of their states, not the product.                     *)
EXTENDS PyIndex, Library

CONSTANTS va, vb, vc, vnan

-----------------------------------------------------------------------------
(* The index: three keys, two vectors of equal score and a third, and calls *)
(* that replace, repeat a key, carry a bad vector, move rows, and search.   *)

MCApprox == va :> 1 @@ vb :> 1 @@ vc :> 2 @@ vnan :> 9
Upsert(pairs) == [op |-> "upsert", wellFormed |-> TRUE, pairs |-> pairs]
MCCalls == {Upsert(<<<<1, va>>>>), Upsert(<<<<2, vc>>, <<3, vb>>>>),
            Upsert(<<<<1, va>>, <<1, vc>>>>), Upsert(<<<<3, vc>>, <<2, vnan>>>>),
            [op |-> "upsert", wellFormed |-> FALSE, pairs |-> <<>>],
            [op |-> "remove", keys |-> <<1>>], [op |-> "remove", keys |-> <<2, 1, 2>>],
            [op |-> "search", wellFormed |-> TRUE, k |-> 1, zero |-> FALSE, allowed |-> {}],
            [op |-> "search", wellFormed |-> TRUE, k |-> 2, zero |-> FALSE, allowed |-> {<<4, 3, 1, 2>>}],
            [op |-> "search", wellFormed |-> TRUE, k |-> 2, zero |-> TRUE, allowed |-> {}],
            [op |-> "search", wellFormed |-> FALSE, k |-> 1, zero |-> FALSE, allowed |-> {}],
            [op |-> "len"]}

-----------------------------------------------------------------------------
(* Ranking                                                                  *)

Rels  == {<<2, 2, 2, 2>>, <<1, 2, NaN, 2>>, <<NaN, NaN, 1, 0>>, <<0, 3, 2, 1>>, <<3, 3, 0, 1>>}
Sim(a, b, c) == <<<<2, a, b, 0>>, <<a, 2, c, 1>>, <<b, c, 2, 0>>, <<0, 1, 0, 2>>>>
Sims  == {Sim(0, 0, 0), Sim(2, 1, 0), Sim(1, 2, 2), Sim(2, NaN, 0)}
Contents4 == {<<1, 1, 2, 2>>, <<0, 0, 0, 1>>, <<1, 2, 3, 1>>}

Orders(n, Ordered(_, _)) ==
  {p \in [1..n -> 1..n] : /\ \A i, j \in 1..n : i # j => p[i] # p[j]
                          /\ \A i \in 1..(n - 1) : Ordered(p[i], p[i + 1])}

MmrRequests ==
  [fn : {"mmr_rerank"}, rel : Rels, sim : Sims, lambda : {0, 1, 2}, k : {0, 3, 9}, cut : {2}]
  \cup [fn : {"mmr_scored"}, rel : Rels, sim : Sims, lambda : {0, 1, 2}, k : {0, 1, 3, 9},
        seed : BOOLEAN, cut : {2}]
  \cup [fn : {"mmr_packed"}, bytes : {31, 32, 24}, dim : {0, 2}, rel : Rels, sim : {Sim(2, 1, 0)},
        lambda : {1}, k : {3}, seed : BOOLEAN, cut : {2}]

HybridRequests ==
  UNION {[fn : {"rank_hybrid"}, rel : {rel}, contents : Contents4, sim : Sims, lambda : {1},
          k : {0, 1, 3, 4}, cut : {2}, order : Orders(4, LAMBDA a, b : rel[a] >= rel[b])] :
           rel \in {<<2, 2, 2, 2>>, <<0, 3, 2, 1>>, <<3, 3, 0, 1>>}}

Rows == [expansion : BOOLEAN, score : {1, 2, 3}]
GuardRequests ==
  {[fn |-> "displacement", rows |-> <<a, b, c, d>>, protected |-> p, margin |-> 3] :
     a, b, c, d \in Rows, p \in {2, 9}}
  \cup {[fn |-> "displacement", rows |-> <<a, b>>, protected |-> p, margin |-> m] :
          a, b \in Rows, p \in {0, 1}, m \in {2, 4}}

Scored(ids, scores) == [i \in DOMAIN ids |-> [id |-> ids[i], score |-> scores[i]]]
FuseRequests ==
  UNION {LET ids == a \o b
         IN  {[fn |-> "fuse", fts |-> Scored(a, s), vector |-> Scored(b, t), wFts |-> 1, wVector |-> w,
               order |-> o] : s \in {<<1, 4>>, <<2, 2>>}, t \in {<<3, 1>>, <<1, 4>>}, w \in {1, 2},
                              o \in Orders(4, LAMBDA i, j : ids[i] <= ids[j])} :
           a \in {<<1, 2>>, <<3, 3>>}, b \in {<<2, 1>>, <<3, 4>>, <<3, 3>>}}

HybridScoreRequests ==
  {[fn |-> "hybrid", weight |-> w, threshold |-> t, lengths |-> l,
    rows |-> <<[vec |-> v, bm25 |-> 1, len |-> a, extra |-> 5], [vec |-> v, bm25 |-> 1, len |-> b, extra |-> 5]>>] :
     w \in {0, 1, 2}, t \in {0, 3, 10}, l \in {<<2, 2>>, <<2, 3>>}, v \in {-1, 0, 2}, a, b \in {0, 2, 5, 10}}

OtherScores ==
  [fn : {"maxpool"}, anchorDims : {<<>>, <<2>>, <<2, 2>>, <<2, 3>>}, dim : {2},
   rows : {<<[bytes |-> b, cos |-> <<c, 3>>], [bytes |-> 8, cos |-> <<-4, d>>]>> :
             b \in {0, 7, 8}, c \in {1, 9}, d \in {-2, 5}}]
  \cup UNION {[fn : {"recency"}, dates : {dates}, bias : {0, 2},
               order : LET dated == {i \in DOMAIN dates : dates[i] # NaN}
                       IN  {o \in [1..Cardinality(dated) -> dated] :
                              \A i, j \in DOMAIN o : i < j => o[i] # o[j] /\ dates[o[i]] <= dates[o[j]]}] :
                dates \in {<<3, 1, NaN, 2>>, <<1, 1>>, <<NaN, 5>>, <<2, 9, 2>>}}

-----------------------------------------------------------------------------
(* Cuts: texts of four characters of cost c with a frame of one token       *)

CountOf(costs) == [p \in (0..4) \X (0..4) |->
                     Max({1, 1 + FoldFunctionOnSet(LAMBDA a, b : a + b, 0, costs, (p[1] + 1)..p[2])})]
WindowRequests ==
  {[fn |-> "windows", count |-> CountOf(costs), n |-> n, budget |-> b, overlap |-> o, nctx |-> 4] :
     costs \in [1..4 -> {-1, 0, 1, 3}], n \in {0, 4}, b \in {1, 2, 4}, o \in {0, 2, 9}}
BatchRequests ==
  {[fn |-> "embed_batch", lens |-> <<a, b, c>>, nctx |-> 6, seqMax |-> m] :
     a, b, c \in {0, 1, 3, 4, 6, 7}, m \in {1, 2, 3}}
SizeRequests ==
  [fn : {"sizes"}, params : [streams : {NotGiven, 0}, ctx : {NotGiven, 1, 9}, seqMax : {NotGiven, 0, 2},
                             nBatch : {NotGiven, 1, 12}, nUbatch : {NotGiven, 1, 20},
                             maxBatchTokens : {NotGiven, 0}]]
SpanRequests ==
  [fn : {"spans"}, scores : [(0..2) \X (1..2) \X {1} -> {0, 1, 2, NaN}], size : {6}, threshold : {1}]
  \cup [fn : {"spans"}, scores : [(0..1) \X (1..2) \X {1, 2} -> {0, 2}], size : {7, 8}, threshold : {1}]
NerRequests ==
  [fn : {"new_ner"}, platform : Platforms, works : {{}, {"CUDA", "CPU"}, {"CoreML"}},
   faults : SUBSET {"platform", "tokenizer_file", "session"}]

-----------------------------------------------------------------------------
(* Trees: a cycle and an alias of links, an unreadable directory, a chain,  *)
(* paths that do not resolve                                                *)

File(n) == [name |-> n, kind |-> "file", target |-> FileTarget]
Dir(n)  == [name |-> n, kind |-> "dir", target |-> n]
Link(n, to) == [name |-> n, kind |-> "link", target |-> to]
Odd(n, kind) == [name |-> n, kind |-> kind, target |-> FileTarget]
Trees ==
  {[unreadable |-> u, unresolvable |-> v, listing |-> "root" :> l @@ "a" :> <<Dir("b"), Link("up", "root"), Odd("g", "gone")>>
                                  @@ "b" :> <<Dir("c"), File("f")>> @@ "c" :> <<File("f")>>] :
     u \in {{}, {"b"}, {"root"}}, v \in {{}, {<<>>}, {<<"a", "b">>}},
     l \in {<<File("f"), Dir("a"), Link("z", "b")>>, <<Link("y", "b"), Dir("a"), Link("f", FileTarget)>>,
            <<Link("n", NoTarget), Odd("e", "bad"), Dir("a"), Link("x", "c"), Link("w", "a")>>}}
WalkRequests ==
  [fn : {"fs_walk"}, tree : Trees, root : {"root", "a"},
   options : [follow : BOOLEAN, maxDepth : {Unbounded, 0, 1, 2}, ignores : {{}, {"b"}, {"f"}}]]

-----------------------------------------------------------------------------
(* Texts and decisions                                                      *)

Alphabet == {Lexeme("alnum", "a"), Lexeme("snake", "a_b"), Lexeme("op", "OR"), Blank1,
             Lexeme("punct", "\""), Lexeme("punct", "'"), Lexeme("punct", "?"), Lexeme("punct", "-")}
FtsRequests ==
  [fn : {"fts"}, query : {q \in BoundedSeq(Alphabet, 3) : Written(q)}, mode : {"fts5", "hybrid"}, maxLen : {2, 9}]
PacingRequests ==
  [fn : {"pacing"}, initial : {-5, 15, 50, 200}, limit : {0, 20, 50, 99, 100}, load : {NaN, 50}, elapsed : {NaN, 40}]
RouteRequests ==
  [fn : {"route"}, signals : [tokens : {1, 3, 4, 6}, entity : BOOLEAN, recency : BOOLEAN, question : BOOLEAN,
                              intent : {NoIntent, "find", "explain", "recall"}]]
DelayRequests ==
  [fn : {"delay"}, base : {0, 1, 300, 900}, most : {0, 50, 1000}, attempt : {0, 1, 3, 33}]
ErrorRequests ==
  [fn : {"raise"}, error : [kind : {x.kind : x \in Exceptions}, fields : {<<>>}, errno : {Absent, 2}]]

MCRequests ==
  UNION {MmrRequests, HybridRequests, GuardRequests, FuseRequests, HybridScoreRequests, OtherScores, WindowRequests, BatchRequests,
         SizeRequests, SpanRequests, NerRequests, WalkRequests, FtsRequests, PacingRequests, RouteRequests,
         DelayRequests, ErrorRequests}

-----------------------------------------------------------------------------
(* Texts to scrub: the secrets of two groups, a pattern that matches a      *)
(* marker, one that does not compile; and configurations that differ in one *)
(* field each.                                                              *)

T(x) == <<"text", x>>
Re(matches) == [good |-> TRUE, matches |-> matches]
MCBuiltin == [g \in ToSet(EvaluationOrder) \ {"custom_regex"} |->
                CASE g = "api_keys" -> <<Re({T("key")}), Re({T("key2")})>>
                  [] g = "pii" -> <<Re({T("email"), T("word")})>>
                  [] OTHER -> <<Re({})>>]
BadRe == [good |-> FALSE, matches |-> {}]
Config(on, patterns, custom, pii) ==
  [enabled |-> on, patterns |-> patterns, custom |-> custom, redactPii |-> pii]
MCConfigs == {Config(TRUE, <<"api_keys", "pii">>, <<>>, FALSE), Config(TRUE, <<"api_keys", "pii">>, <<>>, TRUE),
              Config(FALSE, <<"api_keys", "pii">>, <<>>, TRUE), Config(TRUE, <<"pii", "typo">>, <<>>, TRUE),
              Config(TRUE, <<"custom_regex", "api_keys">>, <<Re({<<"marker", "api_keys">>, T("word")}), BadRe>>, TRUE),
              Config(TRUE, <<"custom_regex">>, <<BadRe>>, FALSE), Config(TRUE, <<"api_keys">>, <<BadRe>>, TRUE)}
MCContents == {<<>>, <<T("key"), T("word"), T("key2")>>, <<T("email"), T("other")>>, <<<<"marker", "pii">>, T("word")>>}

MCEdges == {<<"p", "q">>, <<"q", "r">>, <<"p", "r">>, <<"r", "s">>, <<"q", "s">>, <<"s", "p">>}

-----------------------------------------------------------------------------

mcVars == <<piVars, libVars>>
MCInit == PiInit /\ LibInit
Untouched == at = [t \in Threads |-> "idle"] /\ index = EmptyIndex
MCNext ==
  \/ request = NoRequest /\ graph = NoGraph /\ cache = {} /\ PiNext /\ UNCHANGED libVars
  \/ /\ Untouched /\ gil = None /\ UNCHANGED piVars
     /\ \/ /\ request = NoRequest /\ graph = NoGraph /\ cache = {}
           /\ (\E r \in Requests : Ask(r)) /\ UNCHANGED <<graph, redactVars>>
        \/ /\ request = NoRequest /\ cache = {}
           /\ GraphCall /\ UNCHANGED <<request, reply, redactVars>>
        \/ /\ request = NoRequest /\ graph = NoGraph
           /\ RedactNext(Configs, Contents) /\ UNCHANGED <<request, reply, graph>>
MCSpec == MCInit /\ [][MCNext]_mcVars /\ PiFairness
=============================================================================
