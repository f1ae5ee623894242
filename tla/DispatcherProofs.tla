-------------------------- MODULE DispatcherProofs --------------------------
(***************************************************************************)
(* Proofs about Dispatcher and, at the end, about SharedBreaker, the gate  *)
(* it asks in one step: for every set of callers, every length of a        *)
(* text, every bucket list and cap, and any number of slots.               *)
(*                                                                         *)
(* None of its invariants is inductive.  They rest on where the jobs are:  *)
(* a job that was sent and not answered is in exactly one of the channel,  *)
(* a bucket (the one of its length), the scheduler's batch and the running *)
(* tasks, and nowhere else.  No sequence holds a job twice, so a           *)
(* sequence's jobs can be reasoned about as a set and its tokens as the    *)
(* set's sum.                                                              *)
(***************************************************************************)
EXTENDS Dispatcher, SharedBreaker, FoldLemmas

\* The jobs that were sent and are not answered, and where they are.
InFlight == {j \in Jobs : call[j].at \in {"waiting", "gone"}}
InChannel == ToSet(channel)
InBuckets == UNION {ToSet(pending[b]) : b \in DOMAIN Buckets}
InBatch == ToSet(sched.batch)
InTasks == UNION {ToSet(t) : t \in tasks}

\* F is the disjoint union of the other four.
Parts(F, C, B, S, T) ==
  /\ F = C \cup B \cup S \cup T
  /\ C \cap B = {} /\ C \cap S = {} /\ C \cap T = {}
  /\ B \cap S = {} /\ B \cap T = {} /\ S \cap T = {}

\* No job is in two of these, and each that is on its way is in one.
Placed == Parts(InFlight, InChannel, InBuckets, InBatch, InTasks)

\* A batch keeps to the cap and to one bucket, said of its jobs as a set.
Fitting(S) ==
  /\ Cardinality(S) <= 1 \/ SumFunctionOnSet(TokenLen, S) <= MaxBatchTokens
  /\ \A j, k \in S : Bucket(j) = Bucket(k)

\* The callers.
CallsInv == breaker \in Breakers /\ call \in [Jobs -> CallStates] /\ late \subseteq Deadlined

\* The channel.
ChannelInv == channel \in Seq(Jobs) /\ Len(channel) <= QueueCap /\ Distinct(channel)

\* The buckets: a job is in the bucket of its length only.
BucketsInv ==
  /\ pending \in [DOMAIN Buckets -> Seq(Jobs)]
  /\ \A b \in DOMAIN Buckets :
       Distinct(pending[b]) /\ \A j \in ToSet(pending[b]) : Bucket(j) = b

\* The scheduler: it holds a batch exactly while it admits and spawns one.
SchedInv ==
  /\ sched \in [at : {"recv", "window", "flush", "admit", "permit", "stopped"},
                batch : Seq(Jobs), held : Nat]
  /\ IF sched.at \in {"admit", "permit"} THEN sched.batch # <<>>
     ELSE sched.batch = <<>> /\ sched.held = 0
  /\ Distinct(sched.batch) /\ Fitting(ToSet(sched.batch))

\* The batch tasks: no two share a job.
TasksInv ==
  /\ IsFiniteSet(tasks)
  /\ \A t \in tasks : t \in Seq(Jobs) \ {<<>>} /\ Distinct(t) /\ Fitting(ToSet(t))
  /\ \A t, u \in tasks : t # u => ToSet(t) \cap ToSet(u) = {}

\* The stream slots.
SlotsInv ==
  /\ permits \in Nat
  /\ bulk \in [Bulks -> {"away", "permit", "run"}]
  /\ closed \in BOOLEAN
  /\ SlotsAreConserved

\* The counters.
CountersInv == queued \in Nat /\ total_tokens \in Nat /\ QueueDepthIsExact

\* What the counters count.
AboutToSend == {j \in Jobs : call[j].at = "counted"}
Sending == Cardinality(AboutToSend)
Channeled == Len(channel)
Bucketed == SumFunction([b \in DOMAIN Buckets |-> Len(pending[b])])
Held == sched.held
BucketedTokens == SumFunction([b \in DOMAIN Buckets |-> Tokens(pending[b])])

\* The inductive invariant.
DispInv ==
  /\ CallsInv
  /\ ChannelInv
  /\ BucketsInv
  /\ SchedInv
  /\ TasksInv
  /\ Placed
  /\ SlotsInv
  /\ CountersInv
  /\ OnlyTheOverLongAreTooLong
  /\ NothingLeftBehind

----------------------------------------------------------------------------
(* The operators. *)

\* The breaker stays a breaker.
LEMMA BreakerStays ==
  ASSUME NEW b \in Breakers
  PROVE  /\ Admit(b) \in Breakers /\ Older(b) \in Breakers
         /\ RecordSuccess(b) \in Breakers /\ RecordFailure(b) \in Breakers
<1>1. /\ b.failures \in 0 .. MaxCount /\ b.age \in 0 .. Cooldown
      /\ Cooldown \in Nat /\ MaxCount \in Nat
  BY BreakerAssumption DEF Breakers
<1>2. OlderAge(b.age) \in 0 .. Cooldown
  BY <1>1 DEF OlderAge
<1>3. Older(b) \in Breakers
  BY <1>2 DEF Older, Breakers
<1>4. Admit(b) \in Breakers
  <2>1. CASE Admit(b) = b
    BY <2>1
  <2>2. CASE Admit(b) = [b EXCEPT !.phase = "half_open", !.age = 0]
    <3>1. Admit(b) = [failures |-> b.failures, phase |-> "half_open", age |-> 0]
      BY <2>2 DEF Breakers
    <3>. QED BY <1>1, <3>1 DEF Breakers, Phases
  <2>. QED BY <2>1, <2>2 DEF Admit
<1>5. RecordSuccess(b) \in Breakers
  BY <1>1 DEF RecordSuccess, NewBreaker, Breakers, Phases
<1>6. RecordFailure(b) \in Breakers
  BY <1>1 DEF RecordFailure, Breakers, Phases
<1>. QED BY <1>3, <1>4, <1>5, <1>6

\* Every job has a bucket.
LEMMA BucketType == ASSUME NEW j \in Jobs PROVE Bucket(j) \in DOMAIN Buckets
<1> DEFINE below == {b \in DOMAIN Buckets : Buckets[b] < TokenLen[j]}
           n == Cardinality(below)
<1>1. DOMAIN Buckets = 1 .. Len(Buckets) /\ Len(Buckets) \in Nat /\ Len(Buckets) >= 1
  BY DispatcherAssumption
<1>2. IsFiniteSet(DOMAIN Buckets)
  BY <1>1, FS_Interval
<1>3. n \in Nat
  BY <1>2, FS_Subset, FS_CardinalityType
<1> DEFINE S == {n + 1, Len(Buckets)}
<1>4. S \subseteq Nat /\ S # {}
  BY <1>1, <1>3
<1>5. \E m \in S : \A k \in S : m <= k
  <2> HIDE DEF S
  <2>. QED BY <1>4, LeastNatural
<1>6. Min(S) \in S /\ \A k \in S : Min(S) <= k
  <2> HIDE DEF S
  <2>. QED BY <1>5 DEF Min
<1>7. Bucket(j) = Min(S)
  BY DEF Bucket
<1> HIDE DEF n
<1>8. Min(S) \in Nat /\ Min(S) >= 1 /\ Min(S) <= Len(Buckets)
  BY <1>1, <1>3, <1>6
<1>. QED BY <1>1, <1>7, <1>8

\* The lowest bucket with work.
LEMMA LowestFilled == Filled # {} => Min(Filled) \in Filled
<1>1. Filled \subseteq Nat
  BY DispatcherAssumption DEF Filled
<1>2. Filled # {} => \E m \in Filled : \A k \in Filled : m <= k
  BY <1>1, LeastNatural
<1>. QED BY <1>2 DEF Min

\* The tokens of a sequence that holds no job twice are those of its jobs.
LEMMA TokensOfSet ==
  ASSUME NEW s \in Seq(Jobs), Distinct(s)
  PROVE  /\ Tokens(s) = SumFunctionOnSet(TokenLen, ToSet(s))
         /\ Tokens(s) \in Nat
<1>1. TokenLen \in [Jobs -> Nat]
  BY DispatcherAssumption
<1>2. Tokens(s) = SumFunctionOnSet(TokenLen, ToSet(s))
  BY <1>1, SumAlong DEF Tokens
<1>3. IsFiniteSet(ToSet(s)) /\ \A j \in ToSet(s) : TokenLen[j] \in Nat
  BY <1>1, DistinctSize DEF ToSet
<1>. QED BY <1>2, <1>3, SumType

\* A batch takes at least one job, and more only under the cap.
LEMMA TakenFits ==
  ASSUME NEW s \in Seq(Jobs), s # <<>>
  PROVE  /\ Taken(s) \in 1 .. Len(s)
         /\ Taken(s) = 1 \/ Tokens(SubSeq(s, 1, Taken(s))) <= MaxBatchTokens
<1> DEFINE S == {n \in 1 .. Len(s) : n = 1 \/ Tokens(SubSeq(s, 1, n)) <= MaxBatchTokens}
<1>1. Len(s) \in Nat /\ Len(s) >= 1
  OBVIOUS
<1>2. S \subseteq Nat /\ 1 \in S /\ \A m \in S : m <= Len(s)
  BY <1>1
<1>3. Max(S) \in S
  <2> HIDE DEF S
  <2>. QED BY <1>1, <1>2, GreatestNatural
<1>. QED BY <1>3 DEF Taken

\* A part of a batch that fits is one.
LEMMA FittingPart ==
  ASSUME NEW S \in SUBSET Jobs, Fitting(S), NEW T \in SUBSET S
  PROVE  Fitting(T)
<1>1. IsFiniteSet(S) /\ \A j \in S : TokenLen[j] \in Nat
  BY DispatcherAssumption, FS_Subset
<1>2. /\ Cardinality(T) <= Cardinality(S)
      /\ Cardinality(T) \in Nat /\ Cardinality(S) \in Nat
      /\ IsFiniteSet(T)
  BY <1>1, FS_Subset, FS_CardinalityType
<1>3. SumFunctionOnSet(TokenLen, T) <= SumFunctionOnSet(TokenLen, S)
  BY <1>1, SumOfPart
<1>4. SumFunctionOnSet(TokenLen, T) \in Nat /\ SumFunctionOnSet(TokenLen, S) \in Nat
  BY <1>1, <1>2, SumType
<1>5. MaxBatchTokens \in Nat
  BY DispatcherAssumption
<1>. QED BY <1>2, <1>3, <1>4, <1>5 DEF Fitting

\* The split by deadline keeps the jobs that are on time.
LEMMA OnTimeKeeps ==
  ASSUME NEW s \in Seq(Jobs), Distinct(s)
  PROVE  /\ OnTime(s) \in Seq(Jobs)
         /\ ToSet(OnTime(s)) = ToSet(s) \ late
         /\ Distinct(OnTime(s))
<1>1. OnTime(s) = Leaving(s, late)
  BY DEF OnTime, Leaving
<1>. QED BY <1>1, LeavingKeeps

\* A sequence without a job is empty.
LEMMA EmptySet == ASSUME NEW s \in Seq(Jobs) PROVE s = <<>> <=> ToSet(s) = {}
<1>1. CASE s = <<>>
  BY <1>1 DEF ToSet
<1>2. CASE s # <<>>
  <2>1. 1 \in DOMAIN s
    BY <1>2
  <2>. QED BY <1>2, <2>1 DEF ToSet
<1>. QED BY <1>1, <1>2

----------------------------------------------------------------------------
(* What the steps do to the places. *)

\* An answered job is nowhere on its way any more.
LEMMA ReplyMoves ==
  ASSUME CallsInv, NEW S \in SUBSET Jobs, NEW answer \in Answers, Reply(S, answer),
         \A j \in S : call[j].at \in {"counted", "waiting", "gone"}
  PROVE  /\ call' \in [Jobs -> CallStates] /\ late' \subseteq Deadlined
         /\ InFlight' = InFlight \ S
         /\ AboutToSend' = AboutToSend \ S
<1>1. /\ call' = [j \in Jobs |-> IF j \notin S THEN call[j]
                                 ELSE IF call[j].at = "gone" THEN At("away") ELSE Done(answer)]
      /\ late' = late \ S
  BY DEF Reply
<1>2. At("away") \in CallStates /\ Done(answer) \in CallStates
  BY DEF At, Done, CallStates
<1>3. call \in [Jobs -> CallStates] /\ late \subseteq Deadlined
  BY DEF CallsInv
<1>4. call' \in [Jobs -> CallStates] /\ late' \subseteq Deadlined
  BY <1>1, <1>2, <1>3
<1>5. \A j \in Jobs : call'[j] = IF j \notin S THEN call[j]
                                 ELSE IF call[j].at = "gone" THEN At("away") ELSE Done(answer)
  BY <1>1
<1>6. At("away").at = "away" /\ Done(answer).at = "done"
  BY DEF At, Done
<1>7. InFlight' = InFlight \ S
  BY <1>5, <1>6 DEF InFlight
<1>8. AboutToSend' = AboutToSend \ S
  BY <1>5, <1>6 DEF AboutToSend
<1>. QED BY <1>4, <1>7, <1>8

\* Answers keep to the truth about lengths if the answer does.
LEMMA ReplyTrue ==
  ASSUME OnlyTheOverLongAreTooLong, NEW S \in SUBSET Jobs, NEW answer \in Answers,
         Reply(S, answer),
         answer = "too_long" => S \subseteq TooLong, answer = "row" => S \cap TooLong = {}
  PROVE  OnlyTheOverLongAreTooLong'
<1>1. \A j \in Jobs : call'[j] = IF j \notin S THEN call[j]
                                 ELSE IF call[j].at = "gone" THEN At("away") ELSE Done(answer)
  BY DEF Reply
<1>2. At("away").answer = "none" /\ Done(answer).answer = answer
  BY DEF At, Done
<1>. QED BY <1>1, <1>2 DEF OnlyTheOverLongAreTooLong

\* Both sums over the buckets are numbers.
LEMMA SumsType ==
  ASSUME BucketsInv
  PROVE  /\ Bucketed \in Nat /\ BucketedTokens \in Nat
         /\ \A b \in DOMAIN Buckets :
              pending[b] \in Seq(Jobs) /\ Len(pending[b]) \in Nat /\ Tokens(pending[b]) \in Nat
<1> DEFINE D == DOMAIN Buckets
           w == [b \in D |-> Len(pending[b])]
           v == [b \in D |-> Tokens(pending[b])]
<1>1. IsFiniteSet(D)
  <2>1. D = 1 .. Len(Buckets) /\ Len(Buckets) \in Nat
    BY DispatcherAssumption
  <2>. QED BY <2>1, FS_Interval
<1>2. \A b \in D : pending[b] \in Seq(Jobs) /\ Distinct(pending[b])
  BY DEF BucketsInv
<1>3. \A b \in D : Tokens(pending[b]) \in Nat
  BY <1>2, TokensOfSet
<1>4. \A b \in D : Len(pending[b]) \in Nat
  BY <1>2
<1>5. (\A b \in D : w[b] \in Nat) /\ (\A b \in D : v[b] \in Nat) /\ DOMAIN w = D /\ DOMAIN v = D
  BY <1>3, <1>4
<1>6. SumFunctionOnSet(w, D) \in Nat /\ SumFunctionOnSet(v, D) \in Nat
  <2> HIDE DEF w, v, D
  <2>. QED BY <1>1, <1>5, SumType
<1>7. SumFunction(w) \in Nat /\ SumFunction(v) \in Nat
  BY <1>5, <1>6 DEF SumFunction
<1>. QED BY <1>2, <1>3, <1>4, <1>7 DEF Bucketed, BucketedTokens

\* A change of one bucket changes both sums by as much.
LEMMA BucketChange ==
  ASSUME BucketsInv, BucketsInv', NEW b \in DOMAIN Buckets,
         \A c \in DOMAIN Buckets \ {b} : pending'[c] = pending[c]
  PROVE  /\ Bucketed' = Bucketed - Len(pending[b]) + Len(pending'[b])
         /\ BucketedTokens' = BucketedTokens - Tokens(pending[b]) + Tokens(pending'[b])
<1> DEFINE D == DOMAIN Buckets
           w == [c \in D |-> Len(pending[c])]
           w2 == [c \in D |-> Len(pending'[c])]
           v == [c \in D |-> Tokens(pending[c])]
           v2 == [c \in D |-> Tokens(pending'[c])]
<1>1. IsFiniteSet(D)
  <2>1. D = 1 .. Len(Buckets) /\ Len(Buckets) \in Nat
    BY DispatcherAssumption
  <2>. QED BY <2>1, FS_Interval
<1>2. \A c \in D : Len(pending[c]) \in Nat /\ Tokens(pending[c]) \in Nat
  BY SumsType
<1>3. \A c \in D : Len(pending'[c]) \in Nat /\ Tokens(pending'[c]) \in Nat
  <2>1. \A c \in D : pending'[c] \in Seq(Jobs) /\ Distinct(pending'[c])
    BY DEF BucketsInv
  <2>. QED BY <2>1, TokensOfSet
<1>4. b \in D /\ (\A c \in D : w[c] \in Nat /\ w2[c] \in Nat) /\ \A c \in D \ {b} : w2[c] = w[c]
  BY <1>2, <1>3
<1>5. b \in D /\ (\A c \in D : v[c] \in Nat /\ v2[c] \in Nat) /\ \A c \in D \ {b} : v2[c] = v[c]
  BY <1>2, <1>3
<1>6. /\ w[b] = Len(pending[b]) /\ w2[b] = Len(pending'[b])
      /\ v[b] = Tokens(pending[b]) /\ v2[b] = Tokens(pending'[b])
      /\ DOMAIN w = D /\ DOMAIN w2 = D /\ DOMAIN v = D /\ DOMAIN v2 = D
  OBVIOUS
<1>7. /\ SumFunctionOnSet(w2, D) = SumFunctionOnSet(w, D) - w[b] + w2[b]
      /\ SumFunctionOnSet(v2, D) = SumFunctionOnSet(v, D) - v[b] + v2[b]
  <2> HIDE DEF w, v, w2, v2, D
  <2>1. SumFunctionOnSet(w2, D) = SumFunctionOnSet(w, D) - w[b] + w2[b]
    BY <1>1, <1>4, SumChange
  <2>2. SumFunctionOnSet(v2, D) = SumFunctionOnSet(v, D) - v[b] + v2[b]
    BY <1>1, <1>5, SumChange
  <2>. QED BY <2>1, <2>2
<1>8. /\ SumFunction(w2) = SumFunction(w) - Len(pending[b]) + Len(pending'[b])
      /\ SumFunction(v2) = SumFunction(v) - Tokens(pending[b]) + Tokens(pending'[b])
  <2> HIDE DEF w, v, w2, v2, D
  <2>. QED BY <1>6, <1>7 DEF SumFunction
<1>. QED BY <1>8 DEF Bucketed, BucketedTokens

\* push puts a job into its bucket and counts its tokens.
LEMMA PushMoves ==
  ASSUME BucketsInv, NEW j \in Jobs, j \notin InBuckets, Push(j)
  PROVE  /\ BucketsInv' /\ InBuckets' = InBuckets \cup {j}
         /\ Bucketed' = Bucketed + 1
         /\ BucketedTokens' = BucketedTokens + TokenLen[j]
<1> DEFINE b == Bucket(j)
           s == pending[b]
           t == Append(s, j)
<1>1. b \in DOMAIN Buckets
  BY BucketType
<1>2. /\ pending \in [DOMAIN Buckets -> Seq(Jobs)]
      /\ \A c \in DOMAIN Buckets :
           Distinct(pending[c]) /\ \A k \in ToSet(pending[c]) : Bucket(k) = c
  BY DEF BucketsInv
<1>3. s \in Seq(Jobs) /\ Distinct(s) /\ j \notin ToSet(s)
  BY <1>1, <1>2 DEF InBuckets
<1>4. t \in Seq(Jobs) /\ ToSet(t) = ToSet(s) \cup {j} /\ Distinct(t)
  <2> HIDE DEF s
  <2>. QED BY <1>3, DistinctAppend
<1>5. Len(s) \in Nat /\ Len(t) = Len(s) + 1
  BY <1>3
<1> HIDE DEF s, t
<1>6. pending' = [pending EXCEPT ![b] = t]
  BY DEF Push, s, t
<1>7. pending'[b] = t /\ \A c \in DOMAIN Buckets \ {b} : pending'[c] = pending[c]
  BY <1>1, <1>2, <1>6
<1>8. pending' \in [DOMAIN Buckets -> Seq(Jobs)]
  BY <1>1, <1>2, <1>4, <1>6
<1>9. \A c \in DOMAIN Buckets :
        Distinct(pending'[c]) /\ \A k \in ToSet(pending'[c]) : Bucket(k) = c
  <2> TAKE c \in DOMAIN Buckets
  <2>1. CASE c = b
    BY <1>1, <1>2, <1>4, <1>7, <2>1 DEF s
  <2>2. CASE c # b
    BY <1>2, <1>7, <2>2
  <2>. QED BY <2>1, <2>2
<1>10. BucketsInv'
  BY <1>8, <1>9 DEF BucketsInv
<1>11. InBuckets' = InBuckets \cup {j}
  BY <1>1, <1>4, <1>7 DEF InBuckets, s
<1>12. Tokens(t) = Tokens(s) + TokenLen[j]
  <2>1. /\ Tokens(t) = SumFunctionOnSet(TokenLen, ToSet(t))
        /\ Tokens(s) = SumFunctionOnSet(TokenLen, ToSet(s))
    BY <1>3, <1>4, TokensOfSet
  <2>2. ToSet(t) \ {j} = ToSet(s) /\ j \in ToSet(t)
    BY <1>3, <1>4
  <2>3. IsFiniteSet(ToSet(t)) /\ \A k \in ToSet(t) : TokenLen[k] \in Nat
    <3>1. ToSet(t) \in SUBSET Jobs
      BY <1>4 DEF ToSet
    <3>. QED BY <3>1, DispatcherAssumption, FS_Subset
  <2>4. SumFunctionOnSet(TokenLen, ToSet(t))
          = TokenLen[j] + SumFunctionOnSet(TokenLen, ToSet(t) \ {j})
    BY <2>2, <2>3, SumOfElement
  <2>5. TokenLen[j] \in Nat /\ Tokens(s) \in Nat
    BY <1>3, TokensOfSet, DispatcherAssumption
  <2>. QED BY <2>1, <2>2, <2>4, <2>5
<1>13. /\ Bucketed' = Bucketed - Len(s) + Len(t)
       /\ BucketedTokens' = BucketedTokens - Tokens(s) + Tokens(t)
  BY <1>1, <1>7, <1>10, BucketChange DEF s
<1>14. Bucketed \in Nat /\ BucketedTokens \in Nat /\ Tokens(s) \in Nat /\ TokenLen[j] \in Nat
  BY <1>3, SumsType, TokensOfSet, DispatcherAssumption
<1>. QED BY <1>5, <1>10, <1>11, <1>12, <1>13, <1>14

\* drain_one takes jobs off the front of one bucket, and their tokens with them.
LEMMA DrainSplits ==
  ASSUME BucketsInv, NEW b \in DOMAIN Buckets, NEW n \in 0 .. Len(pending[b]),
         pending' = [pending EXCEPT ![b] = SubSeq(@, n + 1, Len(@))]
  PROVE  LET jobs == SubSeq(pending[b], 1, n)
         IN  /\ jobs \in Seq(Jobs) /\ Len(jobs) = n /\ Distinct(jobs)
             /\ \A j \in ToSet(jobs) : Bucket(j) = b
             /\ ToSet(jobs) \subseteq InBuckets
             /\ BucketsInv' /\ InBuckets' = InBuckets \ ToSet(jobs)
             /\ Bucketed' = Bucketed - n
             /\ BucketedTokens' = BucketedTokens - Tokens(jobs)
<1> DEFINE s == pending[b]
           jobs == SubSeq(s, 1, n)
           rest == SubSeq(s, n + 1, Len(s))
<1>2. /\ pending \in [DOMAIN Buckets -> Seq(Jobs)]
      /\ \A c \in DOMAIN Buckets :
           Distinct(pending[c]) /\ \A k \in ToSet(pending[c]) : Bucket(k) = c
  BY DEF BucketsInv
<1>3. s \in Seq(Jobs) /\ Distinct(s) /\ Len(s) \in Nat
  BY <1>2
<1>4. /\ jobs \in Seq(Jobs) /\ Len(jobs) = n
      /\ rest \in Seq(Jobs) /\ Len(rest) = Len(s) - n
      /\ ToSet(jobs) \cup ToSet(rest) = ToSet(s)
      /\ Distinct(jobs) /\ Distinct(rest)
      /\ ToSet(jobs) \cap ToSet(rest) = {}
  <2>1. n \in 0 .. Len(s)
    OBVIOUS
  <2> HIDE DEF s
  <2>. QED BY <1>3, <2>1, DistinctSplit
<1> HIDE DEF jobs, rest
<1>6. pending' = [pending EXCEPT ![b] = rest]
  BY DEF rest
<1>7. pending'[b] = rest /\ \A c \in DOMAIN Buckets \ {b} : pending'[c] = pending[c]
  BY <1>2, <1>6
<1>8. pending' \in [DOMAIN Buckets -> Seq(Jobs)]
  BY <1>2, <1>4, <1>6
<1>9. \A c \in DOMAIN Buckets :
        Distinct(pending'[c]) /\ \A k \in ToSet(pending'[c]) : Bucket(k) = c
  <2> TAKE c \in DOMAIN Buckets
  <2>1. CASE c = b
    BY <1>2, <1>4, <1>7, <2>1
  <2>2. CASE c # b
    BY <1>2, <1>7, <2>2
  <2>. QED BY <2>1, <2>2
<1>10. BucketsInv'
  BY <1>8, <1>9 DEF BucketsInv
<1>11. InBuckets' = InBuckets \ ToSet(jobs)
  <2>1. \A c \in DOMAIN Buckets \ {b} : ToSet(pending[c]) \cap ToSet(jobs) = {}
    BY <1>2, <1>4
  <2>2. InBuckets' = UNION {ToSet(pending'[c]) : c \in DOMAIN Buckets}
    BY DEF InBuckets
  <2>3. \A k : k \in InBuckets' <=> \E c \in DOMAIN Buckets : k \in ToSet(pending'[c])
    BY <2>2
  <2>4. \A k : k \in InBuckets <=> \E c \in DOMAIN Buckets : k \in ToSet(pending[c])
    BY DEF InBuckets
  <2>5. ToSet(rest) = ToSet(s) \ ToSet(jobs)
    BY <1>4
  <2>6. \A k : k \in InBuckets' <=> k \in InBuckets /\ k \notin ToSet(jobs)
    <3> SUFFICES ASSUME NEW k
                 PROVE  k \in InBuckets' <=> k \in InBuckets /\ k \notin ToSet(jobs)
      OBVIOUS
    <3>1. \A c \in DOMAIN Buckets : k \in ToSet(pending'[c]) <=> k \in ToSet(pending[c]) /\ k \notin ToSet(jobs)
      BY <1>7, <2>1, <2>5
    <3>. QED BY <2>3, <2>4, <3>1
  <2>. QED BY <2>6
<1>12. ToSet(jobs) \subseteq InBuckets /\ \A j \in ToSet(jobs) : Bucket(j) = b
  BY <1>2, <1>4 DEF InBuckets
<1>13. /\ Bucketed' = Bucketed - Len(s) + Len(rest)
       /\ BucketedTokens' = BucketedTokens - Tokens(s) + Tokens(rest)
  BY <1>7, <1>10, BucketChange
<1>14. Tokens(s) = Tokens(jobs) + Tokens(rest) /\ Tokens(jobs) \in Nat /\ Tokens(rest) \in Nat
  <2>1. /\ Tokens(s) = SumFunctionOnSet(TokenLen, ToSet(s))
        /\ Tokens(jobs) = SumFunctionOnSet(TokenLen, ToSet(jobs))
        /\ Tokens(rest) = SumFunctionOnSet(TokenLen, ToSet(rest))
        /\ Tokens(jobs) \in Nat /\ Tokens(rest) \in Nat
    BY <1>3, <1>4, TokensOfSet
  <2>2. /\ IsFiniteSet(ToSet(jobs)) /\ IsFiniteSet(ToSet(rest))
        /\ \A k \in ToSet(jobs) \cup ToSet(rest) : TokenLen[k] \in Nat
    <3>1. ToSet(jobs) \in SUBSET Jobs /\ ToSet(rest) \in SUBSET Jobs
      BY <1>4 DEF ToSet
    <3>. QED BY <3>1, DispatcherAssumption, FS_Subset
  <2>3. SumFunctionOnSet(TokenLen, ToSet(jobs) \cup ToSet(rest))
          = SumFunctionOnSet(TokenLen, ToSet(jobs)) + SumFunctionOnSet(TokenLen, ToSet(rest))
    BY <1>4, <2>2, SumOfParts
  <2>. QED BY <1>4, <2>1, <2>3
<1>15. Bucketed \in Nat /\ BucketedTokens \in Nat
  BY SumsType
<1>16. Bucketed' = Bucketed - n /\ BucketedTokens' = BucketedTokens - Tokens(jobs)
  <2>1. \A x, y \in Nat : n \in Nat /\ x - y + (y - n) = x - n
    BY <1>3
  <2>2. \A x, y, z \in Nat : x - (y + z) + z = x - y
    OBVIOUS
  <2>. QED BY <1>3, <1>4, <1>13, <1>14, <1>15, <2>1, <2>2
<1>17. jobs = SubSeq(pending[b], 1, n)
  BY DEF jobs
<1>. QED BY <1>4, <1>10, <1>11, <1>12, <1>16, <1>17

----------------------------------------------------------------------------
(* The invariant and its steps, one lemma for each kind of step. *)

\* The counters in terms of what they count, and that all of it is finite.
LEMMA Counts ==
  ASSUME DispInv
  PROVE  /\ queued = Sending + Channeled + Bucketed + Held
         /\ total_tokens = BucketedTokens
         /\ Sending \in Nat /\ Channeled \in Nat /\ Bucketed \in Nat /\ Held \in Nat
         /\ queued \in Nat /\ BucketedTokens \in Nat
         /\ IsFiniteSet(AboutToSend)
<1>1. IsFiniteSet(AboutToSend) /\ Sending \in Nat
  <2>1. AboutToSend \in SUBSET Jobs
    BY DEF AboutToSend
  <2>. QED BY <2>1, DispatcherAssumption, FS_Subset, FS_CardinalityType DEF Sending
<1>2. Channeled \in Nat /\ Held \in Nat
  BY DEF DispInv, ChannelInv, SchedInv, Channeled, Held
<1>3. Bucketed \in Nat /\ BucketedTokens \in Nat
  BY SumsType DEF DispInv
<1>4. CountersInv
  BY DEF DispInv
<1>5. queued \in Nat /\ queued = Sending + Channeled + Bucketed + Held /\ total_tokens = BucketedTokens
  BY <1>4 DEF CountersInv, QueueDepthIsExact, Sending, AboutToSend, Channeled, Bucketed, Held,
              BucketedTokens
<1>. QED BY <1>1, <1>2, <1>3, <1>5

\* Counters that count right after a step are numbers.
LEMMA CountersHold ==
  ASSUME queued' = Sending' + Channeled' + Bucketed' + Held', total_tokens' = BucketedTokens',
         Sending' \in Nat, Channeled' \in Nat, Bucketed' \in Nat, Held' \in Nat,
         BucketedTokens' \in Nat
  PROVE  CountersInv'
<1>1. \A a, c, x, h \in Nat : a + c + x + h \in Nat
  OBVIOUS
<1>2. queued' \in Nat /\ total_tokens' \in Nat
  BY <1>1, Zenon
<1>. QED BY <1>2 DEF CountersInv, QueueDepthIsExact, Sending, AboutToSend, Channeled, Bucketed,
                     Held, BucketedTokens

\* The counters after a step that leaves alone what they count.
LEMMA CountersKept ==
  ASSUME DispInv, UNCHANGED <<queued, total_tokens, Sending, Channeled, Bucketed, Held, BucketedTokens>>
  PROVE  CountersInv'
<1>1. queued' = Sending' + Channeled' + Bucketed' + Held' /\ total_tokens' = BucketedTokens'
  BY Counts
<1>2. /\ Sending' \in Nat /\ Channeled' \in Nat /\ Bucketed' \in Nat /\ Held' \in Nat
      /\ BucketedTokens' \in Nat
  BY Counts
<1>. QED BY <1>1, <1>2, CountersHold

\* The first state.
LEMMA InitDisp == Init => DispInv
<1> SUFFICES ASSUME Init PROVE DispInv
  OBVIOUS
<1>1. /\ breaker = NewBreaker /\ call = [j \in Jobs |-> At("away")] /\ late = {} /\ queued = 0
      /\ channel = <<>> /\ pending = [b \in DOMAIN Buckets |-> <<>>] /\ total_tokens = 0
      /\ sched = SchedAt("recv") /\ permits = Streams /\ tasks = {}
      /\ bulk = [b \in Bulks |-> "away"] /\ closed = FALSE
  BY DEF Init
<1>2. sched = [at |-> "recv", batch |-> <<>>, held |-> 0]
  BY <1>1 DEF SchedAt
<1>3. At("away") \in CallStates /\ At("away").at = "away" /\ At("away").answer = "none"
  BY DEF At, CallStates
<1>4. <<>> \in Seq(Jobs) /\ Distinct(<<>>) /\ ToSet(<<>>) = {} /\ Len(<<>>) = 0
  BY DEF Distinct, ToSet
<1>5. CallsInv
  <2>1. breaker \in Breakers
    BY <1>1, BreakerAssumption DEF NewBreaker, Breakers, Phases
  <2>. QED BY <1>1, <1>3, <2>1 DEF CallsInv
<1>6. ChannelInv
  <2>1. 0 <= QueueCap
    BY DispatcherAssumption DEF QueueCap
  <2>. QED BY <1>1, <1>4, <2>1 DEF ChannelInv
<1>7. \A b \in DOMAIN Buckets : pending[b] = <<>>
  BY <1>1
<1>8. pending \in [DOMAIN Buckets -> Seq(Jobs)]
  BY <1>1, <1>4
<1>9. BucketsInv
  BY <1>4, <1>7, <1>8 DEF BucketsInv
<1>10. SchedInv
  <2>1. Fitting(ToSet(sched.batch))
    BY <1>2, <1>4, FS_EmptySet DEF Fitting
  <2>. QED BY <1>2, <1>4, <2>1 DEF SchedInv
<1>11. TasksInv
  BY <1>1, FS_EmptySet DEF TasksInv
<1>12. InFlight = {} /\ AboutToSend = {}
  BY <1>1, <1>3 DEF InFlight, AboutToSend
<1>13. Placed
  BY <1>1, <1>2, <1>4, <1>7, <1>12 DEF Placed, Parts, InChannel, InBuckets, InBatch, InTasks
<1>14. SlotsInv
  <2>1. {b \in Bulks : bulk[b] = "run"} = {}
    BY <1>1
  <2>2. /\ Streams \in Nat /\ Cardinality(tasks) = 0
        /\ Cardinality({b \in Bulks : bulk[b] = "run"}) = 0
    BY <1>1, <2>1, FS_EmptySet, DispatcherAssumption
  <2>3. permits + Cardinality(tasks) + Cardinality({b \in Bulks : bulk[b] = "run"}) = Streams
    BY <1>1, <2>2
  <2>4. bulk \in [Bulks -> {"away", "permit", "run"}] /\ permits \in Nat /\ closed \in BOOLEAN
    BY <1>1, <2>2
  <2>. QED BY <2>3, <2>4 DEF SlotsInv, SlotsAreConserved
<1>15. Bucketed = 0 /\ BucketedTokens = 0
  <2> DEFINE D == DOMAIN Buckets
             w == [b \in D |-> Len(pending[b])]
             v == [b \in D |-> Tokens(pending[b])]
  <2>1. IsFiniteSet(D)
    <3>1. D = 1 .. Len(Buckets) /\ Len(Buckets) \in Nat
      BY DispatcherAssumption
    <3>. QED BY <3>1, FS_Interval
  <2>2. Tokens(<<>>) = 0
    <3>1. Tokens(<<>>) = SumFunctionOnSet(TokenLen, {})
      BY <1>4, TokensOfSet
    <3>. QED BY <3>1, SumEmpty
  <2>3. (\A b \in D : w[b] = 0) /\ (\A b \in D : v[b] = 0) /\ DOMAIN w = D /\ DOMAIN v = D
    BY <1>4, <1>7, <2>2
  <2> HIDE DEF w, v, D
  <2>4. ASSUME NEW u, \A b \in D : u[b] = 0 PROVE SumFunctionOnSet(u, D) = 0
    <3>1. Units(u, D) = {}
      <4>1. 1 .. 0 = {}
        OBVIOUS
      <4>. QED BY <2>4, <4>1 DEF Units
    <3>. QED BY <2>1, <2>4, <3>1, SumIsCount, FS_EmptySet
  <2>5. SumFunctionOnSet(w, D) = 0 /\ SumFunctionOnSet(v, D) = 0
    BY <2>3, <2>4
  <2>. QED BY <2>3, <2>5 DEF Bucketed, BucketedTokens, SumFunction, w, v, D
<1>16. CountersInv
  <2>1. Sending = 0 /\ Channeled = 0 /\ Held = 0
    BY <1>1, <1>2, <1>4, <1>12, FS_EmptySet DEF Sending, Channeled, Held
  <2>2. queued = Sending + Channeled + Bucketed + Held /\ total_tokens = BucketedTokens
    BY <1>1, <1>15, <2>1
  <2>3. queued \in Nat /\ total_tokens \in Nat
    BY <1>1
  <2>. QED BY <2>2, <2>3 DEF CountersInv, QueueDepthIsExact, Sending, AboutToSend, Channeled,
                             Bucketed, Held, BucketedTokens
<1>17. OnlyTheOverLongAreTooLong
  BY <1>1, <1>3 DEF OnlyTheOverLongAreTooLong
<1>18. NothingLeftBehind
  BY <1>7 DEF NothingLeftBehind, Filled
<1>. QED BY <1>5, <1>6, <1>9, <1>10, <1>11, <1>13, <1>14, <1>16, <1>17, <1>18 DEF DispInv

\* A caller that comes, waits no more or goes: no job changes its place.
LEMMA CallerStep ==
  ASSUME DispInv, NEW j \in Jobs,
         Embed(j) \/ EmbedTooLate(j) \/ GiveUp(j) \/ Return(j) \/ DeadlinePasses(j)
  PROVE  DispInv'
<1>0. CallsInv /\ OnlyTheOverLongAreTooLong
  BY DEF DispInv
<1>1. UNCHANGED <<breaker, channel, pending, total_tokens, sched, permits, tasks, bulk, closed>>
  BY DEF Embed, EmbedTooLate, GiveUp, Return, DeadlinePasses, queueVars
<1>2. call \in [Jobs -> CallStates] /\ late \subseteq Deadlined /\ breaker \in Breakers
  BY <1>0 DEF CallsInv
<1>3. \A a \in Answers \cup {"none"}, p \in {"away", "counted", "waiting", "gone", "done"} :
        [at |-> p, answer |-> a] \in CallStates
  BY DEF CallStates
<1>4. ASSUME NEW p \in {"away", "counted", "waiting", "gone", "done"},
             NEW a \in {"none", "refused", "expired"},
             call' = [call EXCEPT ![j] = [at |-> p, answer |-> a]]
      PROVE  /\ call' \in [Jobs -> CallStates] /\ OnlyTheOverLongAreTooLong'
             /\ call'[j].at = p /\ \A k \in Jobs \ {j} : call'[k] = call[k]
  <2>1. a \in Answers \cup {"none"}
    BY DEF Answers
  <2>2. call' \in [Jobs -> CallStates] /\ call'[j] = [at |-> p, answer |-> a]
        /\ \A k \in Jobs \ {j} : call'[k] = call[k]
    BY <1>2, <1>3, <1>4, <2>1
  <2>3. call'[j].at = p /\ call'[j].answer = a
    BY <2>2
  <2>. QED BY <1>0, <2>2, <2>3 DEF OnlyTheOverLongAreTooLong
<1>5. /\ CallsInv' /\ OnlyTheOverLongAreTooLong' /\ InFlight' = InFlight
      /\ \/ AboutToSend' = AboutToSend /\ queued' = queued
         \/ AboutToSend' = AboutToSend \cup {j} /\ j \notin AboutToSend /\ queued' = queued + 1
  <2>1. CASE Embed(j)
    <3>1. call[j].at = "away" /\ late' = late
      BY <2>1 DEF Embed
    <3>2. CASE call' = [call EXCEPT ![j] = At("counted")] /\ queued' = Counted
      <4>1. /\ call' = [call EXCEPT ![j] = [at |-> "counted", answer |-> "none"]]
            /\ queued' = queued + 1
        BY <3>2 DEF At, Counted
      <4>. QED BY <1>1, <1>2, <1>4, <3>1, <4>1 DEF CallsInv, InFlight, AboutToSend
    <3>3. CASE call' = [call EXCEPT ![j] = Done("refused")] /\ UNCHANGED queued
      <4>1. call' = [call EXCEPT ![j] = [at |-> "done", answer |-> "refused"]] /\ queued' = queued
        BY <3>3 DEF Done
      <4>. QED BY <1>1, <1>2, <1>4, <3>1, <4>1 DEF CallsInv, InFlight, AboutToSend
    <3>. QED BY <2>1, <3>2, <3>3 DEF Embed
  <2>2. CASE EmbedTooLate(j)
    <3>1. /\ call[j].at = "away" /\ late' = late /\ queued' = queued
          /\ call' = [call EXCEPT ![j] = [at |-> "done", answer |-> "expired"]]
      BY <2>2 DEF EmbedTooLate, Done, queueVars
    <3>. QED BY <1>1, <1>2, <1>4, <3>1 DEF CallsInv, InFlight, AboutToSend
  <2>3. CASE GiveUp(j)
    <3>1. /\ call[j].at = "waiting" /\ late' = late /\ queued' = queued
          /\ call' = [call EXCEPT ![j] = [at |-> "gone", answer |-> "none"]]
      BY <2>3 DEF GiveUp, At, queueVars
    <3>. QED BY <1>1, <1>2, <1>4, <3>1 DEF CallsInv, InFlight, AboutToSend
  <2>4. CASE Return(j)
    <3>1. /\ call[j].at = "done" /\ late' = late /\ queued' = queued
          /\ call' = [call EXCEPT ![j] = [at |-> "away", answer |-> "none"]]
      BY <2>4 DEF Return, At, queueVars
    <3>. QED BY <1>1, <1>2, <1>4, <3>1 DEF CallsInv, InFlight, AboutToSend
  <2>5. CASE DeadlinePasses(j)
    <3>1. call' = call /\ queued' = queued /\ late' = late \cup {j} /\ j \in Deadlined
      BY <2>5 DEF DeadlinePasses, queueVars
    <3>. QED BY <1>0, <1>1, <1>2, <3>1 DEF CallsInv, InFlight, AboutToSend, OnlyTheOverLongAreTooLong
  <2>. QED BY <2>1, <2>2, <2>3, <2>4, <2>5
<1>6. ChannelInv' /\ BucketsInv' /\ SchedInv' /\ TasksInv' /\ SlotsInv' /\ NothingLeftBehind'
  BY <1>1 DEF DispInv, ChannelInv, BucketsInv, SchedInv, TasksInv, SlotsInv, SlotsAreConserved,
              NothingLeftBehind, Filled
<1>7. Placed'
  BY <1>1, <1>5 DEF DispInv, Placed, InChannel, InBuckets, InBatch, InTasks
<1>8. CountersInv'
  <2>1. /\ Channeled' = Channeled /\ Bucketed' = Bucketed /\ Held' = Held
        /\ BucketedTokens' = BucketedTokens /\ total_tokens' = total_tokens
    BY <1>1 DEF Channeled, Bucketed, Held, BucketedTokens
  <2>2. CASE AboutToSend' = AboutToSend /\ queued' = queued
    <3>1. Sending' = Sending
      BY <2>2 DEF Sending
    <3>. QED BY <2>1, <2>2, <3>1, CountersKept
  <2>3. CASE AboutToSend' = AboutToSend \cup {j} /\ j \notin AboutToSend /\ queued' = queued + 1
    <3>1. Sending' = Sending + 1
      BY <2>3, Counts, FS_AddElement DEF Sending
    <3>2. queued' = Sending' + Channeled' + Bucketed' + Held'
      BY <2>1, <2>3, <3>1, Counts
    <3>3. Sending' \in Nat
      BY <3>1, Counts
    <3>. QED BY <2>1, <3>2, <3>3, Counts, CountersHold
  <2>. QED BY <1>5, <2>2, <2>3
<1>. QED BY <1>5, <1>6, <1>7, <1>8 DEF DispInv

\* A job enters the channel, or its caller learns that it is full.
LEMMA SendStep == ASSUME DispInv, NEW j \in Jobs, Send(j) PROVE DispInv'
<1>0. CallsInv /\ ChannelInv /\ OnlyTheOverLongAreTooLong /\ Placed
  BY DEF DispInv
<1>1. UNCHANGED <<breaker, pending, total_tokens, sched, permits, tasks, bulk, closed>>
      /\ call[j].at = "counted"
  BY DEF Send
<1>2. call \in [Jobs -> CallStates] /\ late \subseteq Deadlined /\ breaker \in Breakers
  BY <1>0 DEF CallsInv
<1>3. j \notin InFlight /\ j \in AboutToSend
  BY <1>1 DEF InFlight, AboutToSend
<1>4. channel \in Seq(Jobs) /\ Len(channel) \in Nat /\ Distinct(channel) /\ j \notin ToSet(channel)
  BY <1>0, <1>3 DEF ChannelInv, Placed, Parts, InChannel
<1>5. Bucketed' = Bucketed /\ BucketedTokens' = BucketedTokens
  BY <1>1 DEF Bucketed, BucketedTokens
<1>6. AboutToSend' = AboutToSend \ {j} => Sending' = Sending - 1 /\ Sending' \in Nat
  <2>1. /\ Cardinality(AboutToSend \ {j}) = Cardinality(AboutToSend) - 1
        /\ Cardinality(AboutToSend \ {j}) \in Nat
    <3>1. IsFiniteSet(AboutToSend) /\ IsFiniteSet(AboutToSend \ {j})
      BY Counts, FS_RemoveElement
    <3>. QED BY <1>3, <3>1, FS_RemoveElement, FS_CardinalityType
  <2>. QED BY <2>1 DEF Sending
<1>7. BucketsInv' /\ SchedInv' /\ TasksInv' /\ SlotsInv' /\ NothingLeftBehind'
  BY <1>1 DEF DispInv, BucketsInv, SchedInv, TasksInv, SlotsInv, SlotsAreConserved,
              NothingLeftBehind, Filled
<1>8. InBuckets' = InBuckets /\ InBatch' = InBatch /\ InTasks' = InTasks
  BY <1>1 DEF InBuckets, InBatch, InTasks
<1>9. CASE Len(channel) < QueueCap
  <2>1. /\ channel' = Append(channel, j) /\ queued' = queued /\ late' = late
        /\ call' = [call EXCEPT ![j] = At("waiting")]
    BY <1>9 DEF Send
  <2>2. /\ At("waiting") \in CallStates
        /\ At("waiting").at = "waiting" /\ At("waiting").answer = "none"
    BY DEF At, CallStates
  <2>3. call' \in [Jobs -> CallStates] /\ call'[j] = At("waiting")
        /\ \A k \in Jobs \ {j} : call'[k] = call[k]
    BY <1>2, <2>1, <2>2
  <2>4. CallsInv'
    BY <1>1, <1>2, <2>1, <2>3 DEF CallsInv
  <2>5. InFlight' = InFlight \cup {j} /\ AboutToSend' = AboutToSend \ {j}
    BY <2>2, <2>3 DEF InFlight, AboutToSend
  <2>6. OnlyTheOverLongAreTooLong'
    BY <1>0, <2>2, <2>3 DEF OnlyTheOverLongAreTooLong
  <2>7. /\ channel' \in Seq(Jobs) /\ ToSet(channel') = ToSet(channel) \cup {j} /\ Distinct(channel')
        /\ Len(channel') = Len(channel) + 1
    BY <1>4, <2>1, DistinctAppend
  <2>8. ChannelInv'
    <3>1. QueueCap \in Nat /\ QueueCap' = QueueCap
      BY DispatcherAssumption DEF QueueCap
    <3>. QED BY <1>4, <1>9, <2>7, <3>1 DEF ChannelInv
  <2>9. InChannel' = InChannel \cup {j}
    BY <2>7 DEF InChannel
  <2>10. Placed'
    BY <1>0, <1>3, <1>8, <2>5, <2>9 DEF Placed, Parts
  <2>11. CountersInv'
    <3>1. /\ Sending' = Sending - 1 /\ Sending' \in Nat
          /\ Channeled' = Channeled + 1 /\ Held' = Held /\ total_tokens' = total_tokens
      BY <1>1, <1>6, <2>5, <2>7 DEF Channeled, Held
    <3>2. queued' = Sending' + Channeled' + Bucketed' + Held'
      BY <1>5, <2>1, <3>1, Counts
    <3>3. Channeled' \in Nat
      BY <3>1, Counts
    <3>. QED BY <1>5, <3>1, <3>2, <3>3, Counts, CountersHold
  <2>. QED BY <1>7, <2>4, <2>6, <2>8, <2>10, <2>11 DEF DispInv
<1>10. CASE ~ (Len(channel) < QueueCap)
  <2>1. queued' = queued - 1 /\ Reply({j}, "full") /\ channel' = channel
    BY <1>10 DEF Send
  <2>2. /\ call' \in [Jobs -> CallStates] /\ late' \subseteq Deadlined
        /\ InFlight' = InFlight \ {j} /\ AboutToSend' = AboutToSend \ {j}
        /\ OnlyTheOverLongAreTooLong'
    <3>1. "full" \in Answers /\ {j} \in SUBSET Jobs
      BY DEF Answers
    <3>. QED BY <1>0, <1>1, <2>1, <3>1, ReplyMoves, ReplyTrue
  <2>3. CallsInv' /\ ChannelInv'
    BY <1>0, <1>1, <1>2, <2>1, <2>2 DEF CallsInv, ChannelInv, QueueCap
  <2>4. Placed'
    BY <1>0, <1>3, <1>8, <2>1, <2>2 DEF Placed, InChannel
  <2>5. CountersInv'
    <3>1. /\ Sending' = Sending - 1 /\ Sending' \in Nat
          /\ Channeled' = Channeled /\ Held' = Held /\ total_tokens' = total_tokens
      BY <1>1, <1>6, <2>1, <2>2 DEF Channeled, Held
    <3>2. queued' = Sending' + Channeled' + Bucketed' + Held'
      BY <1>5, <2>1, <3>1, Counts
    <3>. QED BY <1>5, <3>1, <3>2, Counts, CountersHold
  <2>. QED BY <1>7, <2>2, <2>3, <2>4, <2>5 DEF DispInv
<1>. QED BY <1>9, <1>10

\* The scheduler receives a job and pushes it into its bucket.
LEMMA ReceiveStep == ASSUME DispInv, Recv \/ RecvMore PROVE DispInv'
<1>0. /\ CallsInv /\ ChannelInv /\ BucketsInv /\ SchedInv /\ TasksInv /\ Placed
      /\ SlotsInv /\ OnlyTheOverLongAreTooLong
  BY DEF DispInv
<1> DEFINE j == Head(channel)
<1>1. /\ channel # <<>> /\ Push(j) /\ channel' = Tail(channel)
      /\ UNCHANGED <<breaker, call, late, queued, permits, tasks, bulk, closed>>
      /\ sched.at \in {"recv", "window"}
      /\ \E p \in {"window", "flush"} : sched' = SchedAt(p)
  BY DEF Recv, RecvMore, callVars
<1>2. /\ channel \in Seq(Jobs) /\ Len(channel) \in Nat /\ Distinct(channel)
      /\ j \in ToSet(channel) /\ j \in Jobs
      /\ channel' \in Seq(Jobs) /\ Len(channel') = Len(channel) - 1 /\ Len(channel') \in Nat
      /\ ToSet(channel') = ToSet(channel) \ {j} /\ Distinct(channel')
  <2>1. channel \in Seq(Jobs) /\ Len(channel) \in Nat /\ Distinct(channel) /\ channel # <<>>
    BY <1>0, <1>1 DEF ChannelInv
  <2>2. /\ j \in ToSet(channel) /\ j \in Jobs /\ Tail(channel) \in Seq(Jobs)
        /\ Len(Tail(channel)) = Len(channel) - 1
        /\ ToSet(Tail(channel)) = ToSet(channel) \ {j} /\ Distinct(Tail(channel))
    BY <2>1, DistinctTail
  <2>3. Len(Tail(channel)) \in Nat
    BY <2>2
  <2>. QED BY <1>1, <2>1, <2>2, <2>3
<1> HIDE DEF j
<1>3. j \notin InBuckets /\ InChannel' = InChannel \ {j} /\ j \in InChannel
  BY <1>0, <1>2 DEF Placed, Parts, InChannel
<1>4. /\ BucketsInv' /\ InBuckets' = InBuckets \cup {j}
      /\ Bucketed' = Bucketed + 1 /\ BucketedTokens' = BucketedTokens + TokenLen[j]
  BY <1>0, <1>1, <1>2, <1>3, PushMoves
<1>5. CallsInv' /\ TasksInv' /\ SlotsInv' /\ OnlyTheOverLongAreTooLong'
  BY <1>0, <1>1 DEF CallsInv, TasksInv, SlotsInv, SlotsAreConserved, OnlyTheOverLongAreTooLong
<1>6. ChannelInv'
  <2>1. Len(channel) <= QueueCap /\ QueueCap \in Nat /\ QueueCap' = QueueCap
    BY <1>0, DispatcherAssumption DEF ChannelInv, QueueCap
  <2>. QED BY <1>2, <2>1 DEF ChannelInv
<1>7. /\ sched.batch = <<>> /\ sched.held = 0 /\ Fitting(ToSet(sched.batch)) /\ Distinct(sched.batch)
  BY <1>0, <1>1 DEF SchedInv
<1>8. /\ sched' \in [at : {"recv", "window", "flush", "admit", "permit", "stopped"},
                    batch : Seq(Jobs), held : Nat]
      /\ sched'.at \in {"window", "flush"} /\ sched'.batch = <<>> /\ sched'.held = 0
  <2>1. PICK p \in {"window", "flush"} : sched' = SchedAt(p)
    BY <1>1
  <2>2. sched' = [at |-> p, batch |-> <<>>, held |-> 0] /\ <<>> \in Seq(Jobs)
    BY <2>1 DEF SchedAt
  <2>. QED BY <2>2
<1>9. SchedInv'
  BY <1>7, <1>8 DEF SchedInv
<1>10. NothingLeftBehind'
  BY <1>8 DEF NothingLeftBehind
<1>11. InFlight' = InFlight /\ AboutToSend' = AboutToSend /\ InBatch' = InBatch /\ InTasks' = InTasks
  BY <1>1, <1>7, <1>8 DEF InFlight, AboutToSend, InBatch, InTasks
<1>12. Placed'
  BY <1>0, <1>3, <1>4, <1>11 DEF Placed, Parts
<1>13. CountersInv'
  <2>1. total_tokens' = total_tokens + TokenLen[j] /\ TokenLen[j] \in Nat
    BY <1>1, <1>2, DispatcherAssumption DEF Push
  <2>2. /\ Sending' = Sending /\ Channeled' = Channeled - 1 /\ Channeled' \in Nat
        /\ Held' = Held /\ queued' = queued
    BY <1>1, <1>2, <1>7, <1>8, <1>11 DEF Sending, Channeled, Held
  <2>3. queued' = Sending' + Channeled' + Bucketed' + Held' /\ Bucketed' \in Nat
    BY <1>4, <2>2, Counts
  <2>4. total_tokens' = BucketedTokens' /\ BucketedTokens' \in Nat
    BY <1>4, <2>1, Counts
  <2>. QED BY <2>2, <2>3, <2>4, Counts, CountersHold
<1>. QED BY <1>4, <1>5, <1>6, <1>9, <1>10, <1>12, <1>13 DEF DispInv

\* The scheduler turns to another phase with nothing in its hands.
LEMMA TurnStep == ASSUME DispInv, Stop \/ WindowEnds \/ NextWindow PROVE DispInv'
<1>1. /\ UNCHANGED <<breaker, call, late, queued, channel, pending, total_tokens>>
      /\ UNCHANGED <<permits, tasks, bulk, closed>>
      /\ sched.at \in {"recv", "window", "flush"}
      /\ \E p \in {"stopped", "flush", "recv"} : sched' = SchedAt(p)
  BY DEF Stop, WindowEnds, NextWindow, callVars
<1>2. /\ CallsInv' /\ ChannelInv' /\ BucketsInv' /\ TasksInv' /\ SlotsInv'
      /\ OnlyTheOverLongAreTooLong'
  BY <1>1 DEF DispInv, CallsInv, ChannelInv, BucketsInv, TasksInv, SlotsInv, SlotsAreConserved,
              OnlyTheOverLongAreTooLong, QueueCap
<1>3. sched.batch = <<>> /\ sched.held = 0 /\ Fitting(ToSet(sched.batch)) /\ Distinct(sched.batch)
  BY <1>1 DEF DispInv, SchedInv
<1>4. /\ sched' \in [at : {"recv", "window", "flush", "admit", "permit", "stopped"},
                    batch : Seq(Jobs), held : Nat]
      /\ sched'.at \in {"stopped", "flush", "recv"} /\ sched'.batch = <<>> /\ sched'.held = 0
  <2>1. PICK p \in {"stopped", "flush", "recv"} : sched' = SchedAt(p)
    BY <1>1
  <2>2. sched' = [at |-> p, batch |-> <<>>, held |-> 0] /\ <<>> \in Seq(Jobs)
    BY <2>1 DEF SchedAt
  <2>. QED BY <2>2
<1>5. SchedInv'
  BY <1>3, <1>4 DEF SchedInv
<1>6. NothingLeftBehind'
  <2>1. Filled' = Filled
    BY <1>1 DEF Filled
  <2>2. CASE Stop
    <3>1. Filled = {}
      BY <2>2 DEF Stop, DispInv, NothingLeftBehind
    <3>. QED BY <2>1, <3>1 DEF NothingLeftBehind
  <2>3. CASE WindowEnds
    BY <2>3 DEF WindowEnds, SchedAt, NothingLeftBehind
  <2>4. CASE NextWindow
    BY <2>1, <2>4 DEF NextWindow, Flushed, NothingLeftBehind
  <2>. QED BY <2>2, <2>3, <2>4
<1>7. Placed'
  <2>1. InBatch' = InBatch
    BY <1>3, <1>4 DEF InBatch
  <2>. QED BY <1>1, <2>1 DEF DispInv, Placed, InFlight, InChannel, InBuckets, InTasks
<1>8. CountersInv'
  <2>1. UNCHANGED <<queued, total_tokens, Sending, Channeled, Bucketed, Held, BucketedTokens>>
    BY <1>1, <1>3, <1>4 DEF Sending, AboutToSend, Channeled, Bucketed, Held, BucketedTokens
  <2>. QED BY <2>1, CountersKept
<1>. QED BY <1>2, <1>5, <1>6, <1>7, <1>8 DEF DispInv

\* A batch is drained from the lowest bucket with work, the late jobs answered.
LEMMA DrainStep == ASSUME DispInv, Drain PROVE DispInv'
<1>0. /\ CallsInv /\ ChannelInv /\ BucketsInv /\ SchedInv /\ TasksInv /\ Placed
      /\ SlotsInv /\ OnlyTheOverLongAreTooLong
  BY DEF DispInv
<1> DEFINE b == Min(Filled)
           n == Taken(pending[b])
           jobs == SubSeq(pending[b], 1, n)
           ontime == OnTime(jobs)
           J == ToSet(jobs)
<1>1. /\ sched.at = "flush" /\ Filled # {}
      /\ pending' = [pending EXCEPT ![b] = SubSeq(@, n + 1, Len(@))]
      /\ total_tokens' = total_tokens - Tokens(jobs)
      /\ Reply(J \cap late, "expired")
      /\ IF ontime = <<>> THEN queued' = queued - n /\ sched' = sched
         ELSE sched' = [at |-> "admit", batch |-> ontime, held |-> n] /\ queued' = queued
      /\ UNCHANGED <<breaker, channel, permits, tasks, bulk, closed>>
  BY DEF Drain, DrainedTokens
<1>2. b \in DOMAIN Buckets /\ pending[b] \in Seq(Jobs) /\ pending[b] # <<>>
  BY <1>0, <1>1, LowestFilled DEF Filled, BucketsInv
<1>3. /\ n \in 1 .. Len(pending[b])
      /\ n = 1 \/ Tokens(jobs) <= MaxBatchTokens
  BY <1>2, TakenFits
<1>4. n \in Nat /\ n \in 0 .. Len(pending[b])
  BY <1>3
<1> HIDE DEF b, n
<1>5. /\ jobs \in Seq(Jobs) /\ Len(jobs) = n /\ Distinct(jobs)
      /\ \A j \in J : Bucket(j) = b
      /\ J \subseteq InBuckets
      /\ BucketsInv' /\ InBuckets' = InBuckets \ J
      /\ Bucketed' = Bucketed - n
      /\ BucketedTokens' = BucketedTokens - Tokens(jobs)
  BY <1>0, <1>1, <1>2, <1>4, DrainSplits
<1> HIDE DEF jobs
<1>6. ontime \in Seq(Jobs) /\ ToSet(ontime) = J \ late /\ Distinct(ontime)
  BY <1>5, OnTimeKeeps
<1> HIDE DEF J, ontime
<1>7. J \in SUBSET Jobs /\ J \subseteq InFlight /\ IsFiniteSet(J) /\ Cardinality(J) = n
  <2>1. J \subseteq InFlight
    BY <1>0, <1>5 DEF Placed, Parts
  <2>. QED BY <1>5, <2>1, DistinctSize DEF InFlight, J
<1>8. /\ call' \in [Jobs -> CallStates] /\ late' \subseteq Deadlined
      /\ InFlight' = InFlight \ (J \cap late) /\ AboutToSend' = AboutToSend \ (J \cap late)
      /\ OnlyTheOverLongAreTooLong'
  <2>1. J \cap late \in SUBSET Jobs /\ "expired" \in Answers
    BY <1>7 DEF Answers
  <2>2. \A j \in J \cap late : call[j].at \in {"counted", "waiting", "gone"}
    BY <1>7 DEF InFlight
  <2>. QED BY <1>0, <1>1, <2>1, <2>2, ReplyMoves, ReplyTrue
<1>9. AboutToSend' = AboutToSend
  BY <1>7, <1>8 DEF InFlight, AboutToSend
<1>10. CallsInv' /\ ChannelInv' /\ TasksInv' /\ SlotsInv'
  BY <1>0, <1>1, <1>8 DEF CallsInv, ChannelInv, QueueCap, TasksInv, SlotsInv, SlotsAreConserved
<1>11. sched.batch = <<>> /\ sched.held = 0 /\ InBatch = {}
  BY <1>0, <1>1, EmptySet DEF SchedInv, InBatch
<1>12. Fitting(J)
  <2>1. Tokens(jobs) = SumFunctionOnSet(TokenLen, J)
    BY <1>5, TokensOfSet DEF J
  <2>. QED BY <1>3, <1>5, <1>7, <2>1 DEF Fitting
<1>13. InChannel' = InChannel /\ InTasks' = InTasks
  BY <1>1 DEF InChannel, InTasks
<1>14. total_tokens' = BucketedTokens' /\ BucketedTokens' \in Nat /\ Bucketed' \in Nat
  <2>1. total_tokens' = BucketedTokens'
    BY <1>1, <1>5, Counts
  <2>2. BucketedTokens' \in Nat /\ Bucketed' \in Nat
    <3>1. /\ \A c \in DOMAIN Buckets : pending'[c] \in Seq(Jobs) /\ Distinct(pending'[c])
      BY <1>5 DEF BucketsInv
    <3>2. \A c \in DOMAIN Buckets : Len(pending'[c]) \in Nat /\ Tokens(pending'[c]) \in Nat
      BY <3>1, TokensOfSet
    <3> DEFINE D == DOMAIN Buckets
               w == [c \in D |-> Len(pending'[c])]
               v == [c \in D |-> Tokens(pending'[c])]
    <3>3. IsFiniteSet(D)
      <4>1. D = 1 .. Len(Buckets) /\ Len(Buckets) \in Nat
        BY DispatcherAssumption
      <4>. QED BY <4>1, FS_Interval
    <3>4. (\A c \in D : w[c] \in Nat) /\ (\A c \in D : v[c] \in Nat) /\ DOMAIN w = D /\ DOMAIN v = D
      BY <3>2
    <3>5. SumFunction(w) \in Nat /\ SumFunction(v) \in Nat
      <4> HIDE DEF w, v, D
      <4>. QED BY <3>3, <3>4, SumType DEF SumFunction
    <3>. QED BY <3>5 DEF Bucketed, BucketedTokens
  <2>. QED BY <2>1, <2>2
<1>15. CASE ontime = <<>>
  <2>1. queued' = queued - n /\ sched' = sched
    BY <1>1, <1>15
  <2>2. J \cap late = J
    BY <1>6, <1>15, EmptySet
  <2>3. SchedInv' /\ NothingLeftBehind' /\ InBatch' = {}
    BY <1>0, <1>1, <1>11, <2>1 DEF SchedInv, NothingLeftBehind, InBatch
  <2>4. Placed'
    BY <1>0, <1>5, <1>7, <1>8, <1>11, <1>13, <2>2, <2>3 DEF Placed, Parts
  <2>5. CountersInv'
    <3>1. /\ Sending' = Sending /\ Channeled' = Channeled /\ Held' = Held
          /\ queued' = queued - n
      BY <1>1, <1>9, <2>1 DEF Sending, Channeled, Held
    <3>2. queued' = Sending' + Channeled' + Bucketed' + Held'
      <4>1. queued - n = Sending + Channeled + (Bucketed - n) + Held
        <5>1. queued = Sending + Channeled + Bucketed + Held
          BY Counts
        <5>2. Sending \in Nat /\ Channeled \in Nat /\ Bucketed \in Nat /\ Held \in Nat
          BY Counts
        <5>3. (Sending + Channeled + Bucketed + Held) - n = Sending + Channeled + (Bucketed - n) + Held
          BY <1>4, <5>2, SMT
        <5>. QED BY <5>1, <5>3, Zenon
      <4>. QED BY <1>5, <3>1, <4>1
    <3>. QED BY <1>14, <3>1, <3>2, Counts, CountersHold
  <2>. QED BY <1>5, <1>8, <1>10, <2>3, <2>4, <2>5 DEF DispInv
<1>16. CASE ontime # <<>>
  <2>1. /\ queued' = queued
        /\ sched' = [at |-> "admit", batch |-> ontime, held |-> n]
        /\ sched'.at = "admit" /\ sched'.batch = ontime /\ sched'.held = n
    BY <1>1, <1>16
  <2>2. Fitting(ToSet(ontime))
    BY <1>6, <1>7, <1>12, FittingPart
  <2>3. SchedInv'
    <3>1. Fitting(ToSet(sched'.batch))
      BY <2>1, <2>2
    <3>2. sched' \in [at : {"recv", "window", "flush", "admit", "permit", "stopped"},
                      batch : Seq(Jobs), held : Nat]
      BY <1>4, <1>6, <2>1
    <3>. QED BY <1>6, <1>16, <2>1, <3>1, <3>2 DEF SchedInv, Fitting, Bucket
  <2>4. NothingLeftBehind' /\ InBatch' = J \ late
    BY <1>6, <2>1 DEF NothingLeftBehind, InBatch
  <2>5. Placed'
    BY <1>0, <1>5, <1>7, <1>8, <1>11, <1>13, <2>4 DEF Placed, Parts
  <2>6. CountersInv'
    <3>1. /\ Sending' = Sending /\ Channeled' = Channeled /\ Held = 0 /\ Held' = n
          /\ queued' = queued
      BY <1>1, <1>9, <1>11, <2>1 DEF Sending, Channeled, Held
    <3>2. queued' = Sending' + Channeled' + Bucketed' + Held'
      <4>1. \A a, c, x \in Nat : a + c + x + 0 = a + c + (x - n) + n
        BY <1>4
      <4>2. queued = Sending + Channeled + (Bucketed - n) + n
        <5>1. queued = Sending + Channeled + Bucketed + 0
          BY <3>1, Counts
        <5>2. Sending \in Nat /\ Channeled \in Nat /\ Bucketed \in Nat
          BY Counts
        <5>. QED BY <4>1, <5>1, <5>2, Zenon
      <4>. QED BY <1>5, <3>1, <4>2
    <3>. QED BY <1>4, <1>14, <3>1, <3>2, Counts, CountersHold
  <2>. QED BY <1>5, <1>8, <1>10, <2>3, <2>4, <2>5, <2>6 DEF DispInv
<1>. QED BY <1>15, <1>16

\* A batch is admitted, or answered and dropped from the count.
LEMMA AdmitStep == ASSUME DispInv, AdmitBatch PROVE DispInv'
<1>0. /\ CallsInv /\ ChannelInv /\ BucketsInv /\ SchedInv /\ TasksInv /\ Placed
      /\ SlotsInv /\ OnlyTheOverLongAreTooLong
  BY DEF DispInv
<1>1. /\ sched.at = "admit"
      /\ UNCHANGED <<channel, pending, total_tokens, permits, tasks, bulk, closed>>
  BY DEF AdmitBatch
<1>2. ChannelInv' /\ BucketsInv' /\ TasksInv' /\ SlotsInv'
  BY <1>0, <1>1 DEF ChannelInv, QueueCap, BucketsInv, TasksInv, SlotsInv, SlotsAreConserved
<1>3. /\ InChannel' = InChannel /\ InBuckets' = InBuckets /\ InTasks' = InTasks
      /\ Bucketed' = Bucketed /\ BucketedTokens' = BucketedTokens
  BY <1>1 DEF InChannel, InBuckets, InTasks, Bucketed, BucketedTokens
<1>4. CASE Allowed(breaker)
  <2>1. /\ sched' = [sched EXCEPT !.at = "permit"] /\ breaker' = Admit(breaker)
        /\ UNCHANGED <<call, late, queued>>
    BY <1>4 DEF AdmitBatch, callVars
  <2>2. CallsInv' /\ OnlyTheOverLongAreTooLong'
    BY <1>0, <2>1, BreakerStays DEF CallsInv, OnlyTheOverLongAreTooLong
  <2>3. /\ sched'.at = "permit" /\ sched'.batch = sched.batch /\ sched'.held = sched.held
        /\ sched' \in [at : {"recv", "window", "flush", "admit", "permit", "stopped"},
                       batch : Seq(Jobs), held : Nat]
    BY <1>0, <2>1 DEF SchedInv
  <2>4. SchedInv'
    BY <1>0, <1>1, <2>3 DEF SchedInv
  <2>5. NothingLeftBehind' /\ InBatch' = InBatch /\ InFlight' = InFlight /\ AboutToSend' = AboutToSend
    BY <2>1, <2>3 DEF NothingLeftBehind, InBatch, InFlight, AboutToSend
  <2>6. Placed'
    BY <1>0, <1>3, <2>5 DEF Placed
  <2>7. CountersInv'
    <3>1. UNCHANGED <<queued, total_tokens, Sending, Channeled, Held>>
      BY <1>1, <2>1, <2>3, <2>5 DEF Sending, Channeled, Held
    <3>. QED BY <1>3, <3>1, CountersKept
  <2>. QED BY <1>2, <2>2, <2>4, <2>5, <2>6, <2>7 DEF DispInv
<1>5. CASE ~ Allowed(breaker)
  <2>1. /\ sched' = SchedAt("flush") /\ Reply(InBatch, "refused")
        /\ queued' = queued - sched.held /\ breaker' = breaker
    BY <1>5 DEF AdmitBatch, InBatch
  <2>2. InBatch \in SUBSET Jobs /\ InBatch \subseteq InFlight
    BY <1>0 DEF Placed, Parts, InFlight
  <2>3. /\ call' \in [Jobs -> CallStates] /\ late' \subseteq Deadlined
        /\ InFlight' = InFlight \ InBatch /\ AboutToSend' = AboutToSend \ InBatch
        /\ OnlyTheOverLongAreTooLong'
    <3>1. "refused" \in Answers
      BY DEF Answers
    <3>2. \A j \in InBatch : call[j].at \in {"counted", "waiting", "gone"}
      BY <2>2 DEF InFlight
    <3>. QED BY <1>0, <2>1, <2>2, <3>1, <3>2, ReplyMoves, ReplyTrue
  <2>4. AboutToSend' = AboutToSend /\ CallsInv'
    BY <1>0, <2>1, <2>2, <2>3 DEF AboutToSend, InFlight, CallsInv
  <2>5. sched' = [at |-> "flush", batch |-> <<>>, held |-> 0]
    BY <2>1 DEF SchedAt
  <2>6. /\ sched'.at = "flush" /\ sched'.batch = <<>> /\ sched'.held = 0
        /\ <<>> \in Seq(Jobs) /\ ToSet(<<>>) = {} /\ Distinct(<<>>)
    BY <2>5 DEF Distinct, ToSet
  <2>7. SchedInv'
    <3>1. Fitting({})
      BY FS_EmptySet DEF Fitting
    <3>2. Fitting(ToSet(sched'.batch)) /\ Distinct(sched'.batch)
      BY <2>6, <3>1
    <3>. QED BY <2>5, <2>6, <3>2 DEF SchedInv, Fitting, Bucket
  <2>8. NothingLeftBehind' /\ InBatch' = {}
    BY <2>6 DEF NothingLeftBehind, InBatch
  <2>9. Placed'
    BY <1>0, <1>3, <2>3, <2>8 DEF Placed, Parts
  <2>10. CountersInv'
    <3>1. /\ Sending' = Sending /\ Channeled' = Channeled /\ Held' = 0
          /\ queued' = queued - Held /\ total_tokens' = total_tokens
      BY <1>1, <2>1, <2>4, <2>6 DEF Sending, Channeled, Held
    <3>2. queued' = Sending' + Channeled' + Bucketed' + Held'
      BY <1>3, <3>1, Counts
    <3>. QED BY <1>3, <3>1, <3>2, Counts, CountersHold
  <2>. QED BY <1>2, <2>3, <2>4, <2>7, <2>8, <2>9, <2>10 DEF DispInv
<1>. QED BY <1>4, <1>5

\* A batch goes to a task of its own, which takes a slot.
LEMMA SpawnStep == ASSUME DispInv, Spawn PROVE DispInv'
<1>0. /\ CallsInv /\ ChannelInv /\ BucketsInv /\ SchedInv /\ TasksInv /\ Placed
      /\ SlotsInv /\ OnlyTheOverLongAreTooLong
  BY DEF DispInv
<1>1. /\ sched.at = "permit" /\ permits > 0 /\ permits' = permits - 1
      /\ tasks' = tasks \cup {sched.batch} /\ sched' = SchedAt("flush")
      /\ queued' = queued - sched.held
      /\ UNCHANGED <<breaker, call, late, channel, pending, total_tokens, bulk, closed>>
  BY DEF Spawn, Dequeued, callVars
<1>2. /\ sched.batch \in Seq(Jobs) \ {<<>>} /\ Distinct(sched.batch) /\ Fitting(InBatch)
      /\ InBatch # {}
  BY <1>0, <1>1, EmptySet DEF SchedInv, InBatch
<1>3. \A t \in tasks : InBatch \cap ToSet(t) = {}
  BY <1>0 DEF Placed, Parts, InTasks
<1>4. sched.batch \notin tasks
  BY <1>2, <1>3 DEF InBatch
<1>5. CallsInv' /\ ChannelInv' /\ BucketsInv' /\ OnlyTheOverLongAreTooLong'
  BY <1>0, <1>1 DEF CallsInv, ChannelInv, QueueCap, BucketsInv, OnlyTheOverLongAreTooLong
<1>6. sched' = [at |-> "flush", batch |-> <<>>, held |-> 0]
  BY <1>1 DEF SchedAt
<1>7. /\ sched'.at = "flush" /\ sched'.batch = <<>> /\ sched'.held = 0
      /\ <<>> \in Seq(Jobs) /\ ToSet(<<>>) = {} /\ Distinct(<<>>)
  BY <1>6 DEF Distinct, ToSet
<1>8. SchedInv' /\ NothingLeftBehind'
  <2>1. Fitting({})
    BY FS_EmptySet DEF Fitting
  <2>2. Fitting(ToSet(sched'.batch)) /\ Distinct(sched'.batch)
    BY <1>7, <2>1
  <2>. QED BY <1>6, <1>7, <2>2 DEF SchedInv, Fitting, Bucket, NothingLeftBehind
<1>9. IsFiniteSet(tasks') /\ Cardinality(tasks') = Cardinality(tasks) + 1 /\ Cardinality(tasks) \in Nat
  BY <1>0, <1>1, <1>4, FS_AddElement, FS_CardinalityType DEF TasksInv
<1>10. TasksInv'
  <2>1. \A t \in tasks' : t \in Seq(Jobs) \ {<<>>} /\ Distinct(t) /\ Fitting(ToSet(t))
    BY <1>0, <1>1, <1>2 DEF TasksInv, InBatch
  <2>2. \A t, u \in tasks' : t # u => ToSet(t) \cap ToSet(u) = {}
    BY <1>0, <1>1, <1>3 DEF TasksInv, InBatch
  <2>. QED BY <1>9, <2>1, <2>2 DEF TasksInv, Fitting, Bucket
<1>11. SlotsInv'
  <2> DEFINE running == Cardinality({b \in Bulks : bulk[b] = "run"})
  <2>1. running \in Nat
    <3>1. {b \in Bulks : bulk[b] = "run"} \in SUBSET Bulks
      OBVIOUS
    <3>. QED BY <3>1, DispatcherAssumption, FS_Subset, FS_CardinalityType
  <2>2. permits + Cardinality(tasks) + running = Streams /\ permits \in Nat
    BY <1>0 DEF SlotsInv, SlotsAreConserved
  <2>3. Cardinality({b \in Bulks : bulk'[b] = "run"}) = running
    BY <1>1
  <2> HIDE DEF running
  <2>4. permits' + Cardinality(tasks') + running = Streams /\ permits' \in Nat
    BY <1>1, <1>9, <2>1, <2>2
  <2>. QED BY <1>0, <1>1, <2>3, <2>4 DEF SlotsInv, SlotsAreConserved
<1>12. /\ InFlight' = InFlight /\ InChannel' = InChannel /\ InBuckets' = InBuckets
       /\ AboutToSend' = AboutToSend /\ Bucketed' = Bucketed /\ BucketedTokens' = BucketedTokens
       /\ InBatch' = {} /\ InTasks' = InTasks \cup InBatch
  BY <1>1, <1>7 DEF InFlight, InChannel, InBuckets, AboutToSend, Bucketed, BucketedTokens,
                    InBatch, InTasks
<1>13. Placed'
  BY <1>0, <1>12 DEF Placed, Parts
<1>14. CountersInv'
  <2>1. /\ Sending' = Sending /\ Channeled' = Channeled /\ Held' = 0
        /\ queued' = queued - Held /\ total_tokens' = total_tokens
    BY <1>1, <1>7, <1>12 DEF Sending, Channeled, Held
  <2>2. queued' = Sending' + Channeled' + Bucketed' + Held'
    BY <1>12, <2>1, Counts
  <2>. QED BY <1>12, <2>1, <2>2, Counts, CountersHold
<1>. QED BY <1>5, <1>8, <1>10, <1>11, <1>13, <1>14 DEF DispInv

\* How a task may end: its jobs are answered alike, and truly about lengths.
EndsWith(t, answer) ==
  /\ Reply(ToSet(t), answer) /\ Ended(t)
  /\ breaker' \in Breakers
  /\ answer = "too_long" => ToSet(t) \subseteq TooLong
  /\ answer = "row" => ToSet(t) \cap TooLong = {}
  /\ UNCHANGED <<queueVars, bulk, closed>>

\* Every end of a task but the removal of one text is of that kind.
LEMMA EndsAlike ==
  ASSUME DispInv, NEW t \in tasks, Rows(t) \/ RefuseOverLong(t) \/ Fail(t) \/ Panic(t)
  PROVE  \E answer \in Answers : EndsWith(t, answer)
<1>1. breaker \in Breakers /\ t \in Seq(Jobs)
  BY DEF DispInv, CallsInv, TasksInv
<1>2. {"row", "too_long", "failed", "dropped"} \subseteq Answers
  BY DEF Answers
<1>3. CASE Rows(t)
  <2>1. ToSet(t) \cap TooLong = {}
    BY <1>3 DEF Rows, OverLong, ToSet
  <2>2. EndsWith(t, "row")
    BY <1>1, <1>3, <2>1, BreakerStays DEF Rows, EndsWith
  <2>. QED BY <1>2, <2>2
<1>4. CASE RefuseOverLong(t)
  <2>1. ToSet(t) \subseteq TooLong
    BY <1>1, <1>4 DEF RefuseOverLong, OverLong, ToSet
  <2>2. EndsWith(t, "too_long")
    BY <1>1, <1>4, <2>1 DEF RefuseOverLong, EndsWith
  <2>. QED BY <1>2, <2>2
<1>5. CASE Fail(t)
  <2>1. EndsWith(t, "failed")
    BY <1>1, <1>5, BreakerStays DEF Fail, EndsWith
  <2>. QED BY <1>2, <2>1
<1>6. CASE Panic(t)
  <2>1. EndsWith(t, "dropped")
    BY <1>1, <1>6 DEF Panic, EndsWith
  <2>. QED BY <1>2, <2>1
<1>. QED BY <1>3, <1>4, <1>5, <1>6

\* A task that ends gives its slot back.
LEMMA EndStep ==
  ASSUME DispInv, NEW t \in tasks, NEW answer \in Answers, EndsWith(t, answer)
  PROVE  DispInv'
<1>0. /\ CallsInv /\ ChannelInv /\ BucketsInv /\ SchedInv /\ TasksInv /\ Placed
      /\ SlotsInv /\ OnlyTheOverLongAreTooLong /\ NothingLeftBehind
  BY DEF DispInv
<1>1. /\ Reply(ToSet(t), answer) /\ tasks' = tasks \ {t} /\ permits' = permits + 1
      /\ breaker' \in Breakers
      /\ UNCHANGED <<queued, channel, pending, total_tokens, sched, bulk, closed>>
  BY DEF EndsWith, Ended, queueVars
<1>2. ToSet(t) \in SUBSET Jobs /\ ToSet(t) \subseteq InFlight /\ ToSet(t) \subseteq InTasks
  BY <1>0 DEF Placed, Parts, InTasks, InFlight
<1>3. /\ call' \in [Jobs -> CallStates] /\ late' \subseteq Deadlined
      /\ InFlight' = InFlight \ ToSet(t) /\ AboutToSend' = AboutToSend \ ToSet(t)
      /\ OnlyTheOverLongAreTooLong'
  <2>1. \A j \in ToSet(t) : call[j].at \in {"counted", "waiting", "gone"}
    BY <1>2 DEF InFlight
  <2>2. /\ answer = "too_long" => ToSet(t) \subseteq TooLong
        /\ answer = "row" => ToSet(t) \cap TooLong = {}
    BY DEF EndsWith
  <2>. QED BY <1>0, <1>1, <1>2, <2>1, <2>2, ReplyMoves, ReplyTrue
<1>4. AboutToSend' = AboutToSend /\ CallsInv'
  BY <1>1, <1>2, <1>3 DEF AboutToSend, InFlight, CallsInv
<1>5. ChannelInv' /\ BucketsInv' /\ SchedInv' /\ NothingLeftBehind'
  BY <1>0, <1>1 DEF ChannelInv, QueueCap, BucketsInv, SchedInv, Fitting, Bucket,
                    NothingLeftBehind, Filled
<1>6. TasksInv'
  <2>1. IsFiniteSet(tasks')
    BY <1>0, <1>1, FS_RemoveElement DEF TasksInv
  <2>. QED BY <1>0, <1>1, <2>1 DEF TasksInv, Fitting, Bucket
<1>7. SlotsInv'
  <2> DEFINE running == Cardinality({b \in Bulks : bulk[b] = "run"})
  <2>1. running \in Nat
    <3>1. {b \in Bulks : bulk[b] = "run"} \in SUBSET Bulks
      OBVIOUS
    <3>. QED BY <3>1, DispatcherAssumption, FS_Subset, FS_CardinalityType
  <2>2. permits + Cardinality(tasks) + running = Streams /\ permits \in Nat
    BY <1>0 DEF SlotsInv, SlotsAreConserved
  <2>3. Cardinality({b \in Bulks : bulk'[b] = "run"}) = running
    BY <1>1
  <2>4. Cardinality(tasks') = Cardinality(tasks) - 1 /\ Cardinality(tasks) \in Nat
    BY <1>0, <1>1, FS_RemoveElement, FS_CardinalityType DEF TasksInv
  <2> HIDE DEF running
  <2>5. permits' + Cardinality(tasks') + running = Streams /\ permits' \in Nat
    BY <1>1, <2>1, <2>2, <2>4
  <2>. QED BY <1>0, <1>1, <2>3, <2>5 DEF SlotsInv, SlotsAreConserved
<1>8. InTasks' = InTasks \ ToSet(t)
  <2>1. \A j : j \in InTasks <=> \E u \in tasks : j \in ToSet(u)
    BY DEF InTasks
  <2>2. InTasks' = UNION {ToSet(u) : u \in tasks'}
    BY DEF InTasks
  <2>3. \A j : j \in InTasks' <=> \E u \in tasks \ {t} : j \in ToSet(u)
    BY <1>1, <2>2
  <2>4. \A u \in tasks \ {t} : ToSet(u) \cap ToSet(t) = {}
    BY <1>0 DEF TasksInv
  <2>. QED BY <2>1, <2>3, <2>4
<1>9. Placed'
  <2>1. InChannel' = InChannel /\ InBuckets' = InBuckets /\ InBatch' = InBatch
    BY <1>1 DEF InChannel, InBuckets, InBatch
  <2>. QED BY <1>0, <1>2, <1>3, <1>8, <2>1 DEF Placed, Parts
<1>10. CountersInv'
  <2>1. UNCHANGED <<queued, total_tokens, Sending, Channeled, Bucketed, Held, BucketedTokens>>
    BY <1>1, <1>4 DEF Sending, Channeled, Bucketed, Held, BucketedTokens
  <2>. QED BY <2>1, CountersKept
<1>. QED BY <1>3, <1>4, <1>5, <1>6, <1>7, <1>9, <1>10 DEF DispInv

\* The text a task's backend names is too long, and only its caller is answered.
LEMMA RemoveStep ==
  ASSUME DispInv, NEW t \in tasks, RemoveOverLong(t) PROVE DispInv'
<1>0. /\ CallsInv /\ ChannelInv /\ BucketsInv /\ SchedInv /\ TasksInv /\ Placed
      /\ SlotsInv /\ OnlyTheOverLongAreTooLong /\ NothingLeftBehind
  BY DEF DispInv
<1> DEFINE i == Named(t)
           j == t[i]
           u == RemoveAt(t, i)
<1>1. /\ OverLong(t) # {} /\ Len(t) > 1 /\ Reply({j}, "too_long")
      /\ tasks' = (tasks \ {t}) \cup {u}
      /\ UNCHANGED <<breaker, queued, channel, pending, total_tokens, sched, permits, bulk, closed>>
  BY DEF RemoveOverLong, queueVars
<1>2. t \in Seq(Jobs) /\ Distinct(t) /\ Len(t) \in Nat
  BY <1>0 DEF TasksInv
<1>3. i \in OverLong(t)
  <2>1. OverLong(t) \subseteq Nat
    BY <1>2 DEF OverLong
  <2>2. \E m \in OverLong(t) : \A k \in OverLong(t) : m <= k
    BY <1>1, <2>1, LeastNatural
  <2>. QED BY <2>2 DEF Min, Named
<1>4. i \in DOMAIN t /\ j \in TooLong /\ j \in Jobs /\ j \in ToSet(t)
  BY <1>2, <1>3 DEF OverLong, ToSet
<1> HIDE DEF i
<1>5. u \in Seq(Jobs) /\ Len(u) = Len(t) - 1 /\ ToSet(u) = ToSet(t) \ {j} /\ Distinct(u)
  BY <1>2, <1>4, DistinctRemoveAt
<1> HIDE DEF u, j
<1>6. u # <<>> /\ ToSet(u) # {}
  BY <1>1, <1>2, <1>5, EmptySet
<1>7. ToSet(t) \in SUBSET Jobs /\ j \in InFlight /\ j \in InTasks
  BY <1>0, <1>4 DEF Placed, Parts, InTasks, InFlight
<1>8. \A v \in tasks \ {t} : ToSet(v) \cap ToSet(t) = {}
  BY <1>0 DEF TasksInv
<1>9. /\ call' \in [Jobs -> CallStates] /\ late' \subseteq Deadlined
      /\ InFlight' = InFlight \ {j} /\ AboutToSend' = AboutToSend \ {j}
      /\ OnlyTheOverLongAreTooLong'
  <2>1. "too_long" \in Answers /\ {j} \in SUBSET Jobs /\ {j} \subseteq TooLong
    BY <1>4 DEF Answers
  <2>2. \A k \in {j} : call[k].at \in {"counted", "waiting", "gone"}
    BY <1>7 DEF InFlight
  <2>. QED BY <1>0, <1>1, <2>1, <2>2, ReplyMoves, ReplyTrue
<1>10. AboutToSend' = AboutToSend /\ CallsInv'
  BY <1>0, <1>1, <1>7, <1>9 DEF AboutToSend, InFlight, CallsInv
<1>11. ChannelInv' /\ BucketsInv' /\ SchedInv' /\ NothingLeftBehind'
  BY <1>0, <1>1 DEF ChannelInv, QueueCap, BucketsInv, SchedInv, Fitting, Bucket,
                    NothingLeftBehind, Filled
<1>12. u \notin tasks \ {t}
  BY <1>5, <1>6, <1>8
<1>13. IsFiniteSet(tasks') /\ Cardinality(tasks') = Cardinality(tasks)
  <2>1. /\ IsFiniteSet(tasks \ {t}) /\ Cardinality(tasks \ {t}) = Cardinality(tasks) - 1
        /\ Cardinality(tasks) \in Nat /\ IsFiniteSet(tasks)
    BY <1>0, FS_RemoveElement, FS_CardinalityType DEF TasksInv
  <2>2. /\ IsFiniteSet((tasks \ {t}) \cup {u})
        /\ Cardinality((tasks \ {t}) \cup {u}) = Cardinality(tasks \ {t}) + 1
    BY <1>12, <2>1, FS_AddElement
  <2>. QED BY <1>1, <2>1, <2>2
<1>14. TasksInv'
  <2>1. Fitting(ToSet(u))
    <3>1. Fitting(ToSet(t))
      BY <1>0 DEF TasksInv
    <3>. QED BY <1>5, <1>7, <3>1, FittingPart
  <2>2. \A v \in tasks' : v \in Seq(Jobs) \ {<<>>} /\ Distinct(v) /\ Fitting(ToSet(v))
    BY <1>0, <1>1, <1>5, <1>6, <2>1 DEF TasksInv
  <2>3. \A v, w \in tasks' : v # w => ToSet(v) \cap ToSet(w) = {}
    <3>1. \A v \in tasks \ {t} : ToSet(v) \cap ToSet(u) = {}
      BY <1>5, <1>8
    <3>. QED BY <1>0, <1>1, <3>1 DEF TasksInv
  <2>. QED BY <1>13, <2>2, <2>3 DEF TasksInv, Fitting, Bucket
<1>15. SlotsInv'
  <2>1. permits + Cardinality(tasks) + Cardinality({b \in Bulks : bulk[b] = "run"}) = Streams
    BY <1>0 DEF SlotsInv, SlotsAreConserved
  <2>2. permits' + Cardinality(tasks') + Cardinality({b \in Bulks : bulk'[b] = "run"}) = Streams
    BY <1>1, <1>13, <2>1
  <2>. QED BY <1>0, <1>1, <2>2 DEF SlotsInv, SlotsAreConserved
<1>16. InTasks' = InTasks \ {j}
  <2>1. \A k : k \in InTasks <=> \E v \in tasks : k \in ToSet(v)
    BY DEF InTasks
  <2>2. InTasks' = UNION {ToSet(v) : v \in tasks'}
    BY DEF InTasks
  <2>3. \A k : k \in InTasks' <=> (\E v \in tasks \ {t} : k \in ToSet(v)) \/ k \in ToSet(u)
    BY <1>1, <2>2
  <2>. QED BY <1>4, <1>5, <1>8, <2>1, <2>3
<1>17. Placed'
  <2>1. InChannel' = InChannel /\ InBuckets' = InBuckets /\ InBatch' = InBatch
    BY <1>1 DEF InChannel, InBuckets, InBatch
  <2>. QED BY <1>0, <1>7, <1>9, <1>16, <2>1 DEF Placed, Parts
<1>18. CountersInv'
  <2>1. UNCHANGED <<queued, total_tokens, Sending, Channeled, Bucketed, Held, BucketedTokens>>
    BY <1>1, <1>10 DEF Sending, Channeled, Bucketed, Held, BucketedTokens
  <2>. QED BY <2>1, CountersKept
<1>. QED BY <1>9, <1>10, <1>11, <1>14, <1>15, <1>17, <1>18 DEF DispInv

\* What a step that leaves the callers and the queue alone must still show.
LEMMA RestStep ==
  ASSUME DispInv, UNCHANGED <<callVars, queueVars, tasks>>, breaker' \in Breakers, SlotsInv'
  PROVE  DispInv'
<1>1. UNCHANGED <<call, late, queued, channel, pending, total_tokens, sched, tasks>>
  BY DEF callVars, queueVars
<1>2. CallsInv' /\ ChannelInv' /\ BucketsInv' /\ SchedInv' /\ TasksInv'
  BY <1>1 DEF DispInv, CallsInv, ChannelInv, QueueCap, BucketsInv, SchedInv, TasksInv, Fitting, Bucket
<1>3. Placed'
  BY <1>1 DEF DispInv, Placed, InFlight, InChannel, InBuckets, InBatch, InTasks
<1>4. CountersInv'
  BY <1>1 DEF DispInv, CountersInv, QueueDepthIsExact, Tokens
<1>5. OnlyTheOverLongAreTooLong' /\ NothingLeftBehind'
  BY <1>1 DEF DispInv, OnlyTheOverLongAreTooLong, NothingLeftBehind, Filled
<1>. QED BY <1>2, <1>3, <1>4, <1>5 DEF DispInv

\* A bulk caller takes a slot while it runs, and none otherwise.
LEMMA BulkStep ==
  ASSUME DispInv, NEW b \in Bulks,
         \/ BulkAdmit(b) \/ BulkAcquire(b) \/ BulkGivesUp(b)
         \/ \E outcome \in Outcomes : BulkEnds(b, outcome)
  PROVE  DispInv'
<1> DEFINE R == {c \in Bulks : bulk[c] = "run"}
           R2 == {c \in Bulks : bulk'[c] = "run"}
<1>1. /\ breaker \in Breakers /\ permits \in Nat /\ closed \in BOOLEAN
      /\ bulk \in [Bulks -> {"away", "permit", "run"}]
      /\ permits + Cardinality(tasks) + Cardinality(R) = Streams
      /\ IsFiniteSet(tasks)
  BY DEF DispInv, CallsInv, SlotsInv, SlotsAreConserved, TasksInv
<1>2. IsFiniteSet(R) /\ Cardinality(R) \in Nat /\ Cardinality(tasks) \in Nat
  <2>1. R \in SUBSET Bulks
    OBVIOUS
  <2>. QED BY <1>1, <2>1, DispatcherAssumption, FS_Subset, FS_CardinalityType
<1>3. UNCHANGED <<callVars, queueVars, tasks, closed>>
  BY DEF BulkAdmit, BulkAcquire, BulkGivesUp, BulkEnds
<1>4. breaker' \in Breakers
  <2>1. CASE BulkAdmit(b)
    BY <1>1, <2>1, BreakerStays DEF BulkAdmit
  <2>2. CASE BulkAcquire(b) \/ BulkGivesUp(b)
    BY <1>1, <2>2 DEF BulkAcquire, BulkGivesUp
  <2>3. ASSUME NEW outcome \in Outcomes, BulkEnds(b, outcome) PROVE breaker' \in Breakers
    <3>1. breaker' \in {RecordSuccess(breaker), RecordFailure(breaker), breaker}
      <4>1. outcome \in {"rows", "failed", "unreported"}
        BY DEF Outcomes
      <4>2. CASE outcome = "rows"
        BY <2>3, <4>2 DEF BulkEnds
      <4>3. CASE outcome = "failed"
        BY <2>3, <4>3 DEF BulkEnds
      <4>4. CASE outcome = "unreported"
        BY <2>3, <4>4 DEF BulkEnds
      <4>. QED BY <4>1, <4>2, <4>3, <4>4
    <3>. QED BY <1>1, <3>1, BreakerStays
  <2>. QED BY <2>1, <2>2, <2>3
<1>5. /\ bulk' \in [Bulks -> {"away", "permit", "run"}] /\ permits' \in Nat
      /\ permits' + Cardinality(tasks) + Cardinality(R2) = Streams
  <2>1. CASE BulkAdmit(b)
    <3>1. /\ bulk' \in [Bulks -> {"away", "permit", "run"}] /\ permits' = permits
          /\ \A c \in Bulks : bulk'[c] = "run" <=> bulk[c] = "run"
      BY <1>1, <2>1 DEF BulkAdmit
    <3>2. R2 = R
      BY <3>1
    <3>. QED BY <1>1, <3>1, <3>2
  <2>2. CASE BulkGivesUp(b)
    <3>1. /\ bulk' \in [Bulks -> {"away", "permit", "run"}] /\ permits' = permits
          /\ \A c \in Bulks : bulk'[c] = "run" <=> bulk[c] = "run"
      BY <1>1, <2>2 DEF BulkGivesUp
    <3>2. R2 = R
      BY <3>1
    <3>. QED BY <1>1, <3>1, <3>2
  <2>3. CASE BulkAcquire(b)
    <3>1. /\ bulk' = [bulk EXCEPT ![b] = "run"] /\ bulk[b] = "permit"
          /\ permits > 0 /\ permits' = permits - 1
      BY <2>3 DEF BulkAcquire
    <3>2. bulk' \in [Bulks -> {"away", "permit", "run"}] /\ R2 = R \cup {b} /\ b \notin R
      BY <1>1, <3>1
    <3> HIDE DEF R, R2
    <3>3. Cardinality(R2) = Cardinality(R) + 1
      BY <1>2, <3>2, FS_AddElement
    <3>. QED BY <1>1, <1>2, <3>1, <3>2, <3>3
  <2>4. ASSUME NEW outcome \in Outcomes, BulkEnds(b, outcome)
        PROVE  /\ bulk' \in [Bulks -> {"away", "permit", "run"}] /\ permits' \in Nat
               /\ permits' + Cardinality(tasks) + Cardinality(R2) = Streams
    <3>1. bulk' = [bulk EXCEPT ![b] = "away"] /\ bulk[b] = "run" /\ permits' = permits + 1
      BY <2>4 DEF BulkEnds
    <3>2. bulk' \in [Bulks -> {"away", "permit", "run"}] /\ R2 = R \ {b} /\ b \in R
      BY <1>1, <3>1
    <3> HIDE DEF R, R2
    <3>3. Cardinality(R2) = Cardinality(R) - 1
      BY <1>2, <3>2, FS_RemoveElement
    <3>. QED BY <1>1, <1>2, <3>1, <3>2, <3>3
  <2>. QED BY <2>1, <2>2, <2>3, <2>4
<1>6. SlotsInv'
  <2>1. tasks' = tasks /\ closed' = closed
    BY <1>3
  <2>. QED BY <1>1, <1>5, <2>1 DEF SlotsInv, SlotsAreConserved
<1>. QED BY <1>3, <1>4, <1>6, RestStep

\* Time passes, or the dispatcher is dropped.
LEMMA WorldStep == ASSUME DispInv, Tick \/ Close PROVE DispInv'
<1>1. breaker \in Breakers /\ SlotsInv
  BY DEF DispInv, CallsInv
<1>2. UNCHANGED <<callVars, queueVars, tasks, permits, bulk>>
  BY DEF Tick, Close
<1>3. breaker' \in Breakers
  BY <1>1, BreakerStays DEF Tick, Close
<1>4. closed' \in BOOLEAN
  BY <1>1 DEF Tick, Close, SlotsInv
<1>5. SlotsInv'
  BY <1>1, <1>2, <1>4 DEF SlotsInv, SlotsAreConserved
<1>. QED BY <1>2, <1>3, <1>5, RestStep

\* Every step preserves the invariant.
LEMMA DispStep == DispInv /\ [Next]_vars => DispInv'
<1> SUFFICES ASSUME DispInv, [Next]_vars PROVE DispInv'
  OBVIOUS
<1>1. ASSUME NEW j \in Jobs,
             \/ Embed(j) \/ EmbedTooLate(j) \/ Send(j) \/ GiveUp(j) \/ Return(j)
             \/ DeadlinePasses(j)
      PROVE  DispInv'
  BY <1>1, CallerStep, SendStep
<1>2. CASE Schedule
  BY <1>2, ReceiveStep, TurnStep, DrainStep, AdmitStep DEF Schedule
<1>3. CASE Spawn
  BY <1>3, SpawnStep
<1>4. ASSUME NEW t \in tasks, RunBatch(t) PROVE DispInv'
  <2>1. CASE RemoveOverLong(t)
    BY <2>1, RemoveStep
  <2>2. CASE Rows(t) \/ RefuseOverLong(t) \/ Fail(t) \/ Panic(t)
    <3>1. PICK answer \in Answers : EndsWith(t, answer)
      BY <2>2, EndsAlike
    <3>. QED BY <3>1, EndStep
  <2>. QED BY <1>4, <2>1, <2>2 DEF RunBatch
<1>5. ASSUME NEW b \in Bulks,
             \/ BulkAdmit(b) \/ BulkAcquire(b) \/ BulkGivesUp(b)
             \/ \E outcome \in Outcomes : BulkEnds(b, outcome)
      PROVE  DispInv'
  BY <1>5, BulkStep
<1>6. CASE Tick \/ Close
  BY <1>6, WorldStep
<1>7. CASE UNCHANGED vars
  <2>1. UNCHANGED <<breaker, callVars, queueVars, permits, tasks, bulk, closed>>
    BY <1>7 DEF vars
  <2>2. breaker \in Breakers /\ SlotsInv
    BY DEF DispInv, CallsInv
  <2>3. SlotsInv'
    BY <2>1, <2>2 DEF SlotsInv, SlotsAreConserved
  <2>. QED BY <2>1, <2>2, <2>3, RestStep
<1>. QED BY <1>1, <1>2, <1>3, <1>4, <1>5, <1>6, <1>7 DEF Next

\* The invariant holds.
LEMMA DispHolds == Spec => []DispInv
<1>. QED BY InitDisp, DispStep, PTL DEF Spec

----------------------------------------------------------------------------
(* The theorems. *)

\* Every value keeps its type, the channel its bound, and the slots stay within
\* their number.
THEOREM TypeCorrect == Spec => []TypeOK
<1>1. DispInv => TypeOK
  <2> SUFFICES ASSUME DispInv PROVE TypeOK
    OBVIOUS
  <2>1. breaker \in Breakers /\ call \in [Jobs -> CallStates] /\ late \subseteq Deadlined
    BY DEF DispInv, CallsInv
  <2>2. channel \in Seq(Jobs) /\ Len(channel) <= QueueCap
    BY DEF DispInv, ChannelInv
  <2>3. pending \in [DOMAIN Buckets -> Seq(Jobs)]
    BY DEF DispInv, BucketsInv
  <2>4. /\ sched.at \in {"recv", "window", "flush", "admit", "permit", "stopped"}
        /\ sched.batch \in Seq(Jobs) /\ sched.held \in Nat
    BY DEF DispInv, SchedInv
  <2>5. /\ IsFiniteSet(tasks) /\ \A t \in tasks : t \in Seq(Jobs) \ {<<>>}
    BY DEF DispInv, TasksInv
  <2>6. /\ permits \in Nat /\ bulk \in [Bulks -> {"away", "permit", "run"}] /\ closed \in BOOLEAN
        /\ permits + Cardinality(tasks) + Cardinality({b \in Bulks : bulk[b] = "run"}) = Streams
    BY DEF DispInv, SlotsInv, SlotsAreConserved
  <2>7. permits \in 0 .. Streams
    <3>1. {b \in Bulks : bulk[b] = "run"} \in SUBSET Bulks
      OBVIOUS
    <3>2. Cardinality({b \in Bulks : bulk[b] = "run"}) \in Nat /\ Cardinality(tasks) \in Nat
      BY <2>5, <3>1, DispatcherAssumption, FS_Subset, FS_CardinalityType
    <3>3. \A p, x, y, z \in Nat : p + x + y = z => p \in 0 .. z
      OBVIOUS
    <3>. QED BY <2>6, <3>2, <3>3, DispatcherAssumption
  <2>8. queued \in Nat /\ total_tokens \in Nat
    BY DEF DispInv, CountersInv
  <2>. QED BY <2>1, <2>2, <2>3, <2>4, <2>5, <2>6, <2>7, <2>8 DEF TypeOK
<1>. QED BY <1>1, DispHolds, PTL

\* A job is at one place of a sequence that holds it and no job twice.
LEMMA WhereOnce ==
  ASSUME NEW s \in Seq(Jobs), Distinct(s), NEW j
  PROVE  IF j \in ToSet(s) THEN \E i : Where(j, s) = {i} ELSE Where(j, s) = {}
<1>1. CASE j \in ToSet(s)
  <2>1. PICK i \in DOMAIN s : s[i] = j
    BY <1>1 DEF ToSet
  <2>2. Where(j, s) = {i}
    BY <2>1 DEF Where, Distinct
  <2>. QED BY <1>1, <2>2
<1>2. CASE j \notin ToSet(s)
  BY <1>2 DEF Where, ToSet
<1>. QED BY <1>1, <1>2

\* The invariant says where each job is.
LEMMA OnePlace ==
  ASSUME DispInv, NEW j \in Jobs
  PROVE  Cardinality(Places(j)) = IF j \in InFlight THEN 1 ELSE 0
<1>0. Placed /\ BucketsInv /\ TasksInv
  BY DEF DispInv
<1>1. /\ channel \in Seq(Jobs) /\ Distinct(channel)
      /\ sched.batch \in Seq(Jobs) /\ Distinct(sched.batch)
      /\ \A b \in DOMAIN Buckets : pending[b] \in Seq(Jobs) /\ Distinct(pending[b])
      /\ \A t \in tasks : t \in Seq(Jobs) /\ Distinct(t)
  BY DEF DispInv, ChannelInv, SchedInv, BucketsInv, TasksInv
<1>2. \A p : p \in Places(j) <=>
        \/ p \in {<<"channel">>} \X Where(j, channel)
        \/ p \in {<<"scheduler">>} \X Where(j, sched.batch)
        \/ \E b \in DOMAIN Buckets : p \in {<<"bucket", b>>} \X Where(j, pending[b])
        \/ \E t \in tasks : p \in {<<"task", t>>} \X Where(j, t)
  BY DEF Places
<1>3. /\ InFlight = InChannel \cup InBuckets \cup InBatch \cup InTasks
      /\ InChannel \cap InBuckets = {} /\ InChannel \cap InBatch = {} /\ InChannel \cap InTasks = {}
      /\ InBuckets \cap InBatch = {} /\ InBuckets \cap InTasks = {} /\ InBatch \cap InTasks = {}
  BY <1>0 DEF Placed, Parts
<1>4. /\ j \notin InChannel => Where(j, channel) = {}
      /\ j \notin InBatch => Where(j, sched.batch) = {}
      /\ j \notin InBuckets => \A b \in DOMAIN Buckets : Where(j, pending[b]) = {}
      /\ j \notin InTasks => \A t \in tasks : Where(j, t) = {}
  BY <1>1, WhereOnce DEF InChannel, InBatch, InBuckets, InTasks
<1>5. ASSUME NEW place, NEW i, \A p : p \in Places(j) <=> p \in {place} \X {i}
      PROVE  Cardinality(Places(j)) = 1
  <2>1. Places(j) = {<<place, i>>}
    BY <1>5
  <2>. QED BY <2>1, FS_Singleton
<1>6. CASE j \notin InFlight
  <2>1. Places(j) = {}
    BY <1>2, <1>3, <1>4, <1>6
  <2>. QED BY <1>6, <2>1, FS_EmptySet
<1>7. CASE j \in InChannel
  <2>1. PICK i : Where(j, channel) = {i}
    BY <1>1, <1>7, WhereOnce DEF InChannel
  <2>2. \A p : p \in Places(j) <=> p \in {<<"channel">>} \X {i}
    BY <1>2, <1>3, <1>4, <1>7, <2>1
  <2>. QED BY <1>3, <1>5, <1>7, <2>2
<1>8. CASE j \in InBatch
  <2>1. PICK i : Where(j, sched.batch) = {i}
    BY <1>1, <1>8, WhereOnce DEF InBatch
  <2>2. \A p : p \in Places(j) <=> p \in {<<"scheduler">>} \X {i}
    BY <1>2, <1>3, <1>4, <1>8, <2>1
  <2>. QED BY <1>3, <1>5, <1>8, <2>2
<1>9. CASE j \in InBuckets
  <2>1. PICK b \in DOMAIN Buckets : j \in ToSet(pending[b])
    BY <1>9 DEF InBuckets
  <2>2. \A c \in DOMAIN Buckets \ {b} : j \notin ToSet(pending[c])
    BY <1>0, <2>1 DEF BucketsInv
  <2>3. \A c \in DOMAIN Buckets \ {b} : Where(j, pending[c]) = {}
    BY <1>1, <2>2, WhereOnce
  <2>4. PICK i : Where(j, pending[b]) = {i}
    BY <1>1, <2>1, WhereOnce
  <2>5. \A p : p \in Places(j) <=> p \in {<<"bucket", b>>} \X {i}
    BY <1>2, <1>3, <1>4, <1>9, <2>3, <2>4
  <2>. QED BY <1>3, <1>5, <1>9, <2>5
<1>10. CASE j \in InTasks
  <2>1. PICK t \in tasks : j \in ToSet(t)
    BY <1>10 DEF InTasks
  <2>2. \A u \in tasks \ {t} : j \notin ToSet(u)
    BY <1>0, <2>1 DEF TasksInv
  <2>3. \A u \in tasks \ {t} : Where(j, u) = {}
    BY <1>1, <2>2, WhereOnce
  <2>4. PICK i : Where(j, t) = {i}
    BY <1>1, <2>1, WhereOnce
  <2>5. \A p : p \in Places(j) <=> p \in {<<"task", t>>} \X {i}
    BY <1>2, <1>3, <1>4, <1>10, <2>3, <2>4
  <2>. QED BY <1>3, <1>5, <1>10, <2>5
<1>. QED BY <1>3, <1>6, <1>7, <1>8, <1>9, <1>10

\* No job is lost, duplicated or run twice, whatever the order of sends, windows,
\* deadlines, refusals, removals, panics and cancellations.
THEOREM JobsAreSomewhereOnce == Spec => []EachJobIsSomewhereOnce
<1>1. DispInv /\ TypeOK => EachJobIsSomewhereOnce
  <2> SUFFICES ASSUME DispInv, TypeOK PROVE EachJobIsSomewhereOnce
    OBVIOUS
  <2>1. \A j \in Jobs : j \in InFlight <=> call[j].at \in {"waiting", "gone"}
    BY DEF InFlight
  <2>. QED BY <2>1, OnePlace DEF EachJobIsSomewhereOnce
<1>. QED BY <1>1, DispHolds, TypeCorrect, PTL

\* stats().queue_depth and the running total of tokens are exact at every moment.
THEOREM DepthIsExact == Spec => []QueueDepthIsExact
<1>1. DispInv => QueueDepthIsExact
  BY DEF DispInv, CountersInv
<1>. QED BY <1>1, DispHolds, PTL

\* No batch exceeds max_batch_tokens unless it is one job, or mixes buckets.
THEOREM BatchesKeepToTheCap == Spec => []BatchesFit
<1>1. DispInv => BatchesFit
  <2> SUFFICES ASSUME DispInv, NEW t \in tasks \cup {sched.batch}
               PROVE  /\ Len(t) <= 1 \/ Tokens(t) <= MaxBatchTokens
                      /\ \A i, k \in DOMAIN t : Bucket(t[i]) = Bucket(t[k])
    BY DEF BatchesFit
  <2>1. t \in Seq(Jobs) /\ Distinct(t) /\ Fitting(ToSet(t))
    BY DEF DispInv, TasksInv, SchedInv
  <2>2. Cardinality(ToSet(t)) = Len(t) /\ Tokens(t) = SumFunctionOnSet(TokenLen, ToSet(t))
    BY <2>1, DistinctSize, TokensOfSet
  <2>3. \A i \in DOMAIN t : t[i] \in ToSet(t)
    BY DEF ToSet
  <2>. QED BY <2>1, <2>2, <2>3 DEF Fitting
<1>. QED BY <1>1, DispHolds, PTL

\* An over-long text fails its own caller only, whatever batch it was in.
THEOREM TooLongIsTrue == Spec => []OnlyTheOverLongAreTooLong
<1>1. DispInv => OnlyTheOverLongAreTooLong
  BY DEF DispInv
<1>. QED BY <1>1, DispHolds, PTL

\* The scheduler never waits, or stops, over jobs in its buckets.
THEOREM NothingWaitsBehind == Spec => []NothingLeftBehind
<1>1. DispInv => NothingLeftBehind
  BY DEF DispInv
<1>. QED BY <1>1, DispHolds, PTL

\* Free slots, batch tasks and running bulk calls always add up to the slots.
THEOREM SlotsAreKept == Spec => []SlotsAreConserved
<1>1. DispInv => SlotsAreConserved
  BY DEF DispInv, SlotsInv
<1>. QED BY <1>1, DispHolds, PTL

-----------------------------------------------------------------------------
(* The breaker that callers share, for every set of callers, threshold,     *)
(* cooldown and counter width.                                              *)
(*                                                                          *)
(* AtMostOneLiveProbe is not inductive: it needs that no outstanding probe  *)
(* is younger than the breaker's last transition, so that an admission,     *)
(* which needs the breaker a cooldown old, finds every earlier probe        *)
(* presumed lost.  FlagTellsThePhase needs that the mutex is held exactly   *)
(* by the caller that is about to publish.                                  *)

\* While the breaker is tripped, every outstanding probe was admitted no later
\* than its last transition.
ProbesPrecedeTransition ==
  core.phase # "closed" =>
    \A c \in Callers : caller[c].role = "probe" => caller[c].age >= core.age

\* The mutex is held by the caller between its transition and its publishing.
HolderPublishes ==
  \A c \in Callers : caller[c].at = "publish" <=> holder = c

SharedIInv ==
  /\ SharedTypeOK
  /\ AtMostOneLiveProbe
  /\ TrippedMeansThreshold
  /\ FlagTellsThePhase
  /\ ProbesPrecedeTransition
  /\ HolderPublishes

----------------------------------------------------------------------------
(* The breaker's operators. *)

\* Time passes up to the cooldown.
LEMMA OlderAgeType ==
  ASSUME NEW age \in 0 .. Cooldown
  PROVE  /\ OlderAge(age) \in 0 .. Cooldown
         /\ OlderAge(age) >= age
         /\ \A old \in 0 .. Cooldown : old >= age => OlderAge(old) >= OlderAge(age)
         /\ OlderAge(age) < Cooldown => age < Cooldown
BY BreakerAssumption DEF OlderAge

\* A breaker that gets older is a breaker.
LEMMA OlderType ==
  ASSUME NEW b \in Breakers
  PROVE  /\ Older(b) \in Breakers
         /\ Older(b).failures = b.failures
         /\ Older(b).phase = b.phase
         /\ Older(b).age = OlderAge(b.age)
<1>1. b.age \in 0 .. Cooldown
  BY DEF Breakers
<1>2. OlderAge(b.age) \in 0 .. Cooldown
  BY <1>1, OlderAgeType
<1>. QED BY <1>2 DEF Older, Breakers

\* An admitting ask restarts the age of a tripped breaker that had cooled down,
\* and leaves any other breaker alone.
LEMMA AskedType ==
  ASSUME NEW b \in Breakers, NEW ask \in Asks
  PROVE  /\ Asked(b, ask) \in Breakers
         /\ Asked(b, ask).failures = b.failures
         /\ Asked(b, ask).phase = "closed" <=> b.phase = "closed"
         /\ \/ Asked(b, ask) = b
            \/ ask = "check" /\ b.phase # "closed" /\ b.age >= Cooldown /\ Asked(b, ask).age = 0
<1>1. CASE ask # "check" \/ b.phase = "closed" \/ ~ Elapsed(b)
  BY <1>1 DEF Asked, Admit, Allowed
<1>2. CASE ask = "check" /\ b.phase # "closed" /\ Elapsed(b)
  <2>1. Asked(b, ask) = [b EXCEPT !.phase = "half_open", !.age = 0]
    BY <1>2 DEF Asked, Admit, Allowed
  <2>2. Asked(b, ask) = [failures |-> b.failures, phase |-> "half_open", age |-> 0]
    BY <2>1 DEF Breakers
  <2>. QED BY <1>2, <2>2, BreakerAssumption DEF Elapsed, Breakers, Phases
<1>. QED BY <1>1, <1>2

\* A report leaves a breaker: closed by a success, out of Closed by a failure
\* only with the threshold reached.
LEMMA RecordType ==
  ASSUME NEW b \in Breakers
  PROVE  /\ RecordSuccess(b) \in Breakers
         /\ RecordSuccess(b).phase = "closed"
         /\ RecordFailure(b) \in Breakers
         /\ b.phase # "closed" => RecordFailure(b).failures >= b.failures
         /\ RecordFailure(b).phase # "closed" =>
              \/ RecordFailure(b).age = 0 /\ RecordFailure(b).failures >= Threshold
              \/ RecordFailure(b).age = 0 /\ b.phase # "closed"
              \/ RecordFailure(b).age = b.age /\ b.phase # "closed"
BY BreakerAssumption DEF RecordSuccess, NewBreaker, RecordFailure, Breakers, Phases

----------------------------------------------------------------------------
(* The invariant. *)

\* A caller between two calls has the type.
LEMMA IdleType ==
  /\ Idle \in CallerStates
  /\ Idle.at = "idle" /\ Idle.role = "plain"
BY BreakerAssumption DEF Idle, CallerStates, CallerPlaces, Asks

\* The invariant holds of a new breaker.
LEMMA InitIInv == SharedInit => SharedIInv
<1>. SUFFICES ASSUME SharedInit PROVE SharedIInv
  OBVIOUS
<1>1. /\ core \in Breakers /\ core.phase = "closed"
      /\ state_fast = "closed" /\ "closed" \in Phases
  BY BreakerAssumption DEF SharedInit, NewBreaker, Breakers, Phases
<1>2. \A c \in Callers : caller[c] = Idle
  BY DEF SharedInit
<1>3. caller \in [Callers -> CallerStates]
  BY IdleType DEF SharedInit
<1>4. SharedTypeOK
  BY <1>1, <1>3 DEF SharedInit, SharedTypeOK
<1>. QED BY <1>1, <1>2, <1>4, IdleType, CallersAssumption DEF SharedInit, SharedIInv, Probes, 
       AtMostOneLiveProbe, TrippedMeansThreshold, FlagTellsThePhase,
       ProbesPrecedeTransition, HolderPublishes

\* A caller that moves on has the type.
LEMMA MoveType ==
  ASSUME caller \in [Callers -> CallerStates],
         NEW c \in Callers, NEW s \in CallerStates, Move(c, s)
  PROVE  /\ caller' \in [Callers -> CallerStates]
         /\ caller'[c] = s
         /\ \A d \in Callers : d # c => caller'[d] = caller[d]
BY DEF Move

\* A caller that moves outside the mutex, keeping or giving up its role.
LEMMA QuietMove ==
  ASSUME SharedIInv, NEW c \in Callers, NEW s \in CallerStates, Move(c, s),
         UNCHANGED <<core, state_fast, holder, calm>>,
         caller[c].at # "publish", s.at # "publish",
         s.role = "plain" \/ (s.role = caller[c].role /\ s.age = caller[c].age)
  PROVE  SharedIInv'
<1>. USE DEF SharedIInv, Probes
<1>1. /\ caller' \in [Callers -> CallerStates]
      /\ caller'[c] = s
      /\ \A d \in Callers : d # c => caller'[d] = caller[d]
  BY MoveType DEF SharedTypeOK
<1>2. SharedTypeOK'
  BY <1>1 DEF SharedTypeOK
<1>3. AtMostOneLiveProbe' /\ ProbesPrecedeTransition'
  BY <1>1 DEF AtMostOneLiveProbe, ProbesPrecedeTransition
<1>4. TrippedMeansThreshold' /\ FlagTellsThePhase'
  BY DEF TrippedMeansThreshold, FlagTellsThePhase
<1>5. HolderPublishes'
  BY <1>1 DEF HolderPublishes
<1>. QED BY <1>2, <1>3, <1>4, <1>5

\* Every step of the breaker and its callers keeps the invariant.
LEMMA StepIInv == SharedIInv /\ [SharedNext]_sharedVars => SharedIInv'
<1>. SUFFICES ASSUME SharedIInv, [SharedNext]_sharedVars PROVE SharedIInv'
  OBVIOUS
<1>. USE BreakerAssumption, CallersAssumption
<1>1. ASSUME NEW c \in Callers, NEW ask \in Asks, Start(c, ask)
      PROVE  SharedIInv'
  <2>. DEFINE s == [Idle EXCEPT !.at = "load", !.ask = ask]
  <2>1. s \in CallerStates /\ s.role = "plain" /\ s.at = "load"
    BY IdleType DEF Idle, CallerStates, CallerPlaces, Asks
  <2>. HIDE DEF s
  <2>. QED BY <1>1, <2>1, QuietMove DEF Start, s
<1>2. ASSUME NEW c \in Callers, Load(c)
      PROVE  SharedIInv'
  <2>1. caller[c] \in CallerStates
    BY DEF SharedIInv, SharedTypeOK
  <2>2. CASE state_fast = "closed"
    <3>. DEFINE s == [caller[c] EXCEPT !.at = Onward(c), !.ask = "check"]
    <3>1. s \in CallerStates /\ s.role = caller[c].role /\ s.age = caller[c].age
      BY <2>1 DEF CallerStates, CallerPlaces, Asks, Onward
    <3>2. s.at # "publish"
      BY <2>1 DEF CallerStates, Onward
    <3>. HIDE DEF s
    <3>. QED BY <1>2, <2>2, <3>1, <3>2, QuietMove DEF Load, s
  <2>3. CASE state_fast # "closed"
    <3>. DEFINE s == [caller[c] EXCEPT !.at = "lock"]
    <3>1. s \in CallerStates /\ s.role = caller[c].role /\ s.age = caller[c].age /\ s.at = "lock"
      BY <2>1 DEF CallerStates, CallerPlaces
    <3>. HIDE DEF s
    <3>. QED BY <1>2, <2>3, <3>1, QuietMove DEF Load, s
  <2>. QED BY <2>2, <2>3
<1>3. ASSUME NEW c \in Callers, Gate(c)
      PROVE  SharedIInv'
  <2>. USE DEF Probes
  <2>1. /\ core \in Breakers /\ caller \in [Callers -> CallerStates]
        /\ caller[c] \in CallerStates /\ caller[c].ask \in Asks
    BY DEF SharedIInv, SharedTypeOK, CallerStates
  <2>2. /\ core' \in Breakers
        /\ core'.failures = core.failures
        /\ core'.phase = "closed" <=> core.phase = "closed"
        /\ \/ core' = core
           \/ caller[c].ask = "check" /\ core.phase # "closed" /\ core.age >= Cooldown /\ core'.age = 0
    BY <1>3, <2>1, AskedType DEF Gate
  <2>3. core.age \in 0 .. Cooldown /\ core'.age \in 0 .. Cooldown
    BY <2>1, <2>2 DEF Breakers
  <2>4. CASE Allowed(core)
    <3>. DEFINE s == [at |-> "publish", ask |-> "check", next |-> Onward(c),
                      role |-> RoleGranted(c), age |-> 0]
    <3>1. /\ s \in CallerStates /\ s.at = "publish" /\ s.age = 0
          /\ s.role = RoleGranted(c)
      <4>1. /\ Onward(c) \in {"run", "load"} /\ RoleGranted(c) \in {"plain", "probe"}
            /\ 0 \in 0 .. Cooldown
        BY DEF Onward, RoleGranted
      <4>. QED BY <4>1 DEF CallerStates, CallerPlaces, Asks
    <3>. HIDE DEF s
    <3>2. /\ caller' \in [Callers -> CallerStates]
          /\ caller'[c] = s
          /\ \A d \in Callers : d # c => caller'[d] = caller[d]
      BY <1>3, <2>1, <2>4, <3>1, MoveType DEF Gate, s
    <3>3. s.role = "probe" =>
            caller[c].ask = "check" /\ core.phase # "closed" /\ core.age >= Cooldown
      BY <2>4, <3>1 DEF RoleGranted, Allowed, Elapsed
    <3>4. s.role = "probe" => core'.age = 0
      <4>1. s.role = "probe" => core' = [core EXCEPT !.phase = "half_open", !.age = 0]
        BY <1>3, <2>4, <3>3 DEF Gate, Asked, Admit
      <4>. QED BY <2>1, <4>1 DEF Breakers
    <3>5. SharedTypeOK'
      BY <1>3, <2>2, <3>2 DEF Gate, SharedIInv, SharedTypeOK
    <3>6. AtMostOneLiveProbe'
      <4>1. ASSUME s.role = "probe", NEW d \in Callers, d # c, caller[d].role = "probe"
            PROVE  ~ (caller[d].age < Cooldown)
        <5>1. caller[d].age \in 0 .. Cooldown
          BY <2>1 DEF CallerStates
        <5>2. caller[d].age >= core.age /\ core.age >= Cooldown
          BY <3>3, <4>1 DEF SharedIInv, ProbesPrecedeTransition
        <5>. QED BY <2>3, <5>1, <5>2
      <4>2. ASSUME NEW d \in Callers, NEW e \in Callers, d # e,
                   caller'[d].role = "probe", caller'[d].age < Cooldown,
                   caller'[e].role = "probe", caller'[e].age < Cooldown
            PROVE  FALSE
        <5>1. CASE d = c
          BY <3>2, <4>1, <4>2, <5>1
        <5>2. CASE e = c
          BY <3>2, <4>1, <4>2, <5>2
        <5>3. CASE d # c /\ e # c
          BY <3>2, <4>2, <5>3 DEF SharedIInv, AtMostOneLiveProbe
        <5>. QED BY <5>1, <5>2, <5>3
      <4>. QED BY <4>2 DEF AtMostOneLiveProbe
    <3>7. ProbesPrecedeTransition'
      BY <3>1, <3>2, <3>3, <3>4, <2>2, <2>3, <2>1 DEF SharedIInv, ProbesPrecedeTransition, CallerStates
    <3>8. HolderPublishes' /\ FlagTellsThePhase'
      BY <1>3, <3>1, <3>2 DEF Gate, SharedIInv, HolderPublishes, FlagTellsThePhase
    <3>. QED BY <2>2, <3>5, <3>6, <3>7, <3>8 DEF SharedIInv, TrippedMeansThreshold
  <2>5. CASE ~ Allowed(core)
    <3>. DEFINE s == [caller[c] EXCEPT !.at = "publish", !.next = "idle"]
    <3>1. /\ s \in CallerStates /\ s.at = "publish"
          /\ s.role = caller[c].role /\ s.age = caller[c].age
      BY <2>1 DEF CallerStates, CallerPlaces
    <3>. HIDE DEF s
    <3>2. /\ caller' \in [Callers -> CallerStates]
          /\ caller'[c] = s
          /\ \A d \in Callers : d # c => caller'[d] = caller[d]
      BY <1>3, <2>1, <2>5, <3>1, MoveType DEF Gate, s
    <3>3. core' = core
      BY <1>3, <2>5 DEF Gate, Asked, Admit
    <3>4. SharedTypeOK'
      BY <1>3, <2>2, <3>2 DEF Gate, SharedIInv, SharedTypeOK
    <3>5. AtMostOneLiveProbe' /\ ProbesPrecedeTransition' /\ TrippedMeansThreshold'
      BY <3>1, <3>2, <3>3
      DEF SharedIInv, AtMostOneLiveProbe, ProbesPrecedeTransition, TrippedMeansThreshold
    <3>6. HolderPublishes' /\ FlagTellsThePhase'
      BY <1>3, <3>1, <3>2 DEF Gate, SharedIInv, HolderPublishes, FlagTellsThePhase
    <3>. QED BY <3>4, <3>5, <3>6 DEF SharedIInv
  <2>. QED BY <2>4, <2>5
<1>4. ASSUME NEW c \in Callers, Publish(c)
      PROVE  SharedIInv'
  <2>. USE DEF Probes
  <2>. DEFINE s == IF caller[c].next = "idle"
                   THEN Idle ELSE [caller[c] EXCEPT !.at = caller[c].next]
  <2>1. caller \in [Callers -> CallerStates] /\ caller[c] \in CallerStates
    BY DEF SharedIInv, SharedTypeOK
  <2>2. /\ s \in CallerStates /\ s.at # "publish"
        /\ s.role = "plain" \/ (s.role = caller[c].role /\ s.age = caller[c].age)
    BY <2>1, IdleType DEF CallerStates, CallerPlaces
  <2>3. Move(c, s)
    BY <1>4 DEF Publish
  <2>. HIDE DEF s
  <2>4. /\ caller' \in [Callers -> CallerStates]
        /\ caller'[c] = s
        /\ \A d \in Callers : d # c => caller'[d] = caller[d]
    BY <2>1, <2>2, <2>3, MoveType
  <2>5. SharedTypeOK'
    BY <1>4, <2>4 DEF Publish, Published, SharedIInv, SharedTypeOK, Breakers
  <2>6. AtMostOneLiveProbe' /\ ProbesPrecedeTransition' /\ TrippedMeansThreshold'
    BY <1>4, <2>2, <2>4
    DEF Publish, SharedIInv, AtMostOneLiveProbe, ProbesPrecedeTransition, TrippedMeansThreshold
  <2>7. HolderPublishes' /\ FlagTellsThePhase'
    BY <1>4, <2>2, <2>4 DEF Publish, Published, SharedIInv, HolderPublishes, FlagTellsThePhase
  <2>. QED BY <2>5, <2>6, <2>7 DEF SharedIInv
<1>5. ASSUME NEW c \in Callers, NEW at \in CallerPlaces, Answer(c, at)
      PROVE  SharedIInv'
  <2>. DEFINE s == IF at = "idle" THEN Idle ELSE [caller[c] EXCEPT !.at = at]
  <2>1. caller[c] \in CallerStates /\ at # "publish"
    BY <1>5 DEF SharedIInv, SharedTypeOK, Answer
  <2>2. /\ s \in CallerStates /\ s.at # "publish"
        /\ s.role = "plain" \/ (s.role = caller[c].role /\ s.age = caller[c].age)
    BY <2>1, IdleType DEF CallerStates
  <2>. HIDE DEF s
  <2>. QED BY <1>5, <2>2, QuietMove DEF Answer, s
<1>6. ASSUME NEW c \in Callers, Report(c)
      PROVE  SharedIInv'
  <2>. USE DEF Probes
  <2>. DEFINE s == [caller[c] EXCEPT !.at = "publish", !.next = "idle", !.role = "plain"]
  <2>1. /\ core \in Breakers /\ caller \in [Callers -> CallerStates]
        /\ caller[c] \in CallerStates
    BY DEF SharedIInv, SharedTypeOK
  <2>2. s \in CallerStates /\ s.at = "publish" /\ s.role = "plain"
    BY <2>1 DEF CallerStates, CallerPlaces
  <2>. HIDE DEF s
  <2>3. /\ caller' \in [Callers -> CallerStates]
        /\ caller'[c] = s
        /\ \A d \in Callers : d # c => caller'[d] = caller[d]
    BY <1>6, <2>1, <2>2, MoveType DEF Report, s
  <2>4. /\ core' \in Breakers
        /\ core'.phase # "closed" => core'.failures >= Threshold
        /\ core'.phase # "closed" =>
             core'.age = 0 \/ (core'.age = core.age /\ core.phase # "closed")
    <3>1. core' = RecordSuccess(core) \/ core' = RecordFailure(core)
      BY <1>6 DEF Report
    <3>2. core.failures \in Nat /\ RecordFailure(core).failures \in Nat /\ Threshold \in Nat
      BY <2>1, RecordType DEF Breakers
    <3>. QED BY <2>1, <3>1, <3>2, RecordType DEF SharedIInv, TrippedMeansThreshold
  <2>5. SharedTypeOK'
    BY <1>6, <2>3, <2>4 DEF Report, SharedIInv, SharedTypeOK
  <2>6. AtMostOneLiveProbe' /\ TrippedMeansThreshold'
    BY <2>2, <2>3, <2>4 DEF SharedIInv, AtMostOneLiveProbe, TrippedMeansThreshold
  <2>7. ProbesPrecedeTransition'
    BY <2>1, <2>2, <2>3, <2>4 DEF SharedIInv, ProbesPrecedeTransition, CallerStates
  <2>8. HolderPublishes' /\ FlagTellsThePhase'
    BY <1>6, <2>2, <2>3 DEF Report, SharedIInv, HolderPublishes, FlagTellsThePhase
  <2>. QED BY <2>5, <2>6, <2>7, <2>8 DEF SharedIInv
<1>7. ASSUME NEW c \in Callers, Cancel(c)
      PROVE  SharedIInv'
  BY <1>7, IdleType, QuietMove DEF Cancel
<1>8. CASE TimePasses
  <2>. USE DEF SharedIInv, SharedTypeOK, CallerStates, Probes
  <2>1. /\ core' \in Breakers /\ core'.failures = core.failures
        /\ core'.phase = core.phase /\ core'.age = OlderAge(core.age)
    BY <1>8, OlderType DEF TimePasses
  <2>2. \A c \in Callers :
          /\ caller'[c].at = caller[c].at /\ caller'[c].role = caller[c].role
          /\ caller'[c].age = IF caller[c].role = "probe" THEN OlderAge(caller[c].age) ELSE caller[c].age
    BY <1>8 DEF TimePasses
  <2>3. SharedTypeOK'
    BY <1>8, <2>1, OlderAgeType DEF TimePasses
  <2>4. AtMostOneLiveProbe'
    BY <2>2, OlderAgeType DEF AtMostOneLiveProbe
  <2>5. ProbesPrecedeTransition'
    <3>1. core.age \in 0 .. Cooldown
      BY DEF Breakers
    <3>. QED BY <2>1, <2>2, <3>1, OlderAgeType DEF ProbesPrecedeTransition
  <2>6. HolderPublishes' /\ FlagTellsThePhase' /\ TrippedMeansThreshold'
    BY <1>8, <2>1, <2>2 DEF TimePasses, HolderPublishes, FlagTellsThePhase, TrippedMeansThreshold
  <2>. QED BY <2>3, <2>4, <2>5, <2>6
<1>9. CASE Heal
  BY <1>9 DEF Heal, SharedIInv, SharedTypeOK, Probes, AtMostOneLiveProbe, TrippedMeansThreshold,
         FlagTellsThePhase, ProbesPrecedeTransition, HolderPublishes
<1>10. CASE UNCHANGED sharedVars
  BY <1>10 DEF sharedVars, SharedIInv, SharedTypeOK, Probes, AtMostOneLiveProbe, TrippedMeansThreshold,
         FlagTellsThePhase, ProbesPrecedeTransition, HolderPublishes
<1>. QED
  BY <1>1, <1>2, <1>3, <1>4, <1>5, <1>6, <1>7, <1>8, <1>9, <1>10 DEF SharedNext

\* The invariant holds in every state.
LEMMA IInvHolds == SharedSpec => []SharedIInv
BY InitIInv, StepIInv, PTL DEF SharedSpec

----------------------------------------------------------------------------
(* The theorems. *)

\* Every state is one of the breaker's and its callers'; the failure count
\* stays within usize however many failures are reported.
THEOREM SharedTypeCorrect == SharedSpec => []SharedTypeOK
<1>1. SharedIInv => SharedTypeOK
  BY DEF SharedIInv
<1>. QED BY <1>1, IInvHolds, PTL

\* admit_at never lets a second probe through before the first is presumed lost.
THEOREM ProbeIsExclusive == SharedSpec => []AtMostOneLiveProbe
<1>1. SharedIInv => AtMostOneLiveProbe
  BY DEF SharedIInv
<1>. QED BY <1>1, IInvHolds, PTL

\* The breaker is out of Closed only on Threshold failures since a success.
THEOREM TrippedOnlyOnThreshold == SharedSpec => []TrippedMeansThreshold
<1>1. SharedIInv => TrippedMeansThreshold
  BY DEF SharedIInv
<1>. QED BY <1>1, IInvHolds, PTL

\* The flag read without the lock is the recorded phase whenever nobody is
\* inside the lock.
THEOREM FlagIsTruthful == SharedSpec => []FlagTellsThePhase
<1>1. SharedIInv => FlagTellsThePhase
  BY DEF SharedIInv
<1>. QED BY <1>1, IInvHolds, PTL

----------------------------------------------------------------------------
(* The claim. *)

\* A report never leaves a half-open breaker it did not find as it is.
LEMMA ReportClaimsNothing ==
  ASSUME NEW b \in Breakers
  PROVE  /\ RecordSuccess(b).phase # "half_open"
         /\ RecordFailure(b).phase # "half_open"
BY DEF RecordSuccess, NewBreaker, RecordFailure, Breakers, Phases

\* Of the steps that take the mutex, only the ask of a caller that goes on to
\* its backend call leaves a changed breaker half open.
LEMMA ClaimStep ==
  ASSUME SharedTypeOK, [SharedNext]_sharedVars,
         NEW c \in Callers, holder = Nobody, holder' = c,
         core'.phase = "half_open", core' # core
  PROVE  caller'[c].next = "run"
<1>1. \A d \in Callers : Gate(d) \/ Report(d) => d = c
  BY DEF Gate, Report
<1>2. Gate(c) \/ Report(c)
  <2>1. c # Nobody
    BY CallersAssumption
  <2>. QED BY <1>1, <2>1 DEF SharedNext, sharedVars, Start, Load, Publish, Answer, Cancel, TimePasses, Heal
<1>3. /\ core \in Breakers /\ caller \in [Callers -> CallerStates]
  BY DEF SharedTypeOK
<1>4. ~ Report(c)
  BY <1>3, ReportClaimsNothing DEF Report
<1>5. Gate(c)
  BY <1>2, <1>4
<1>6. caller[c].ask = "check" /\ Allowed(core)
  BY <1>5 DEF Gate, Asked, Admit
<1>. DEFINE s == [at |-> "publish", ask |-> "check", next |-> Onward(c),
                  role |-> RoleGranted(c), age |-> 0]
<1>7. caller'[c] = s
  BY <1>3, <1>5, <1>6 DEF Gate, Move
<1>. QED BY <1>6, <1>7 DEF Onward

\* The half-open probe is claimed by check on the way to the backend alone;
\* an early peek leaves it to the consumer of its own queue.
THEOREM OnlyCallsClaim == SharedSpec => OnlyACallClaims
<1>1. SharedIInv /\ [SharedNext]_sharedVars =>
        [\A c \in Callers :
           (holder = Nobody /\ holder' = c /\ core'.phase = "half_open" /\ core' # core)
             => caller'[c].next = "run"]_sharedVars
  BY ClaimStep DEF SharedIInv
<1>. QED BY <1>1, IInvHolds, PTL DEF SharedSpec, OnlyACallClaims
=============================================================================
