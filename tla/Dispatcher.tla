----------------------------- MODULE Dispatcher -----------------------------
(***************************************************************************)
(* m3-dispatcher: single-shot jobs are queued, coalesced by length and run *)
(* in batches by one scheduler task and the batch tasks it spawns; bulk    *)
(* calls bypass the queue.  Both share the breaker and the stream slots.   *)
(*                                                                         *)
(* A job stands for one caller of embed, embed_with_token_count or         *)
(* embed_with_deadline and the Job it sends; a bulk for one caller of      *)
(* embed_batch.  Both call again and again.  Asking the breaker is one     *)
(* step here: SharedBreaker shows what is between the flag and the mutex.  *)
(* Left out: latencies, the wording of errors, and which floats a row has. *)
(***************************************************************************)
EXTENDS Breaker, SequencesExt

CONSTANTS
  Jobs,            \* callers of a single-shot embed
  Bulks,           \* callers of a bulk embed
  TokenLen,        \* per job, its length in tokens
  Buckets,         \* length_buckets: ceilings, ascending
  MaxBatchTokens,  \* max_batch_tokens
  Streams,         \* stream slots
  PerStream,       \* places in the channel per stream; 4 in the code
  Deadlined,       \* jobs that have a deadline
  TooLong          \* jobs whose text the backend refuses as too long

ASSUME DispatcherAssumption ==
  /\ IsFiniteSet(Jobs) /\ IsFiniteSet(Bulks)
  /\ TokenLen \in [Jobs -> Nat]
  /\ Buckets \in Seq(Nat) \ {<<>>}
  /\ MaxBatchTokens \in Nat
  /\ Streams \in Nat \ {0}
  /\ PerStream \in Nat \ {0}
  /\ Deadlined \subseteq Jobs
  /\ TooLong \subseteq Jobs

QueueCap == PerStream * Streams

VARIABLES
  breaker,       \* the breaker
  call,          \* per job: where its caller is, and what it was answered
  late,          \* jobs on their way whose deadline has passed
  queued,        \* the queued counter
  channel,       \* the bounded channel to the scheduler
  pending,       \* LengthBucketQueue: per bucket, jobs in order
  total_tokens,  \* its running total
  sched,         \* the scheduler: where it is, the batch it holds, its Dequeue
  permits,       \* free stream slots
  tasks,         \* the batches of the running batch tasks
  bulk,          \* per bulk caller: where it is
  closed         \* the dispatcher was dropped

queueVars == <<queued, channel, pending, total_tokens, sched>>
callVars == <<call, late>>
vars == <<breaker, callVars, queueVars, permits, tasks, bulk, closed>>

Answers == {"row", "too_long", "failed", "refused", "full", "expired", "dropped"}

\* "counted": between fetch_add on queued and try_send.  "gone": its caller was
\* cancelled, the job it sent goes on.
CallStates == [at : {"away", "counted", "waiting", "gone", "done"}, answer : Answers \cup {"none"}]

At(place) == [at |-> place, answer |-> "none"]

Done(answer) == [at |-> "done", answer |-> answer]

\* held: how many jobs its Dequeue guard takes off queued when the iteration ends.
SchedAt(place) == [at |-> place, batch |-> <<>>, held |-> 0]

Init ==
  /\ breaker = NewBreaker
  /\ call = [j \in Jobs |-> At("away")]
  /\ late = {}
  /\ queued = 0
  /\ channel = <<>>
  /\ pending = [b \in DOMAIN Buckets |-> <<>>]
  /\ total_tokens = 0
  /\ sched = SchedAt("recv")
  /\ permits = Streams
  /\ tasks = {}
  /\ bulk = [b \in Bulks |-> "away"]
  /\ closed = FALSE

----------------------------------------------------------------------------
(* A single-shot caller. *)

\* The replies of the jobs S are sent.  Nobody receives a gone caller's.
Reply(S, answer) ==
  /\ call' = [j \in Jobs |->
               IF j \notin S THEN call[j]
               ELSE IF call[j].at = "gone" THEN At("away") ELSE Done(answer)]
  /\ late' = late \ S

\* fetch_add comes before try_send.
Counted == queued + 1

\* embed_inner: peek, then count the job.
Embed(j) ==
  /\ ~ closed
  /\ call[j].at = "away"
  /\ IF Allowed(breaker)
     THEN call' = [call EXCEPT ![j] = At("counted")] /\ queued' = Counted
     ELSE call' = [call EXCEPT ![j] = Done("refused")] /\ UNCHANGED queued
  /\ UNCHANGED <<breaker, late, channel, pending, total_tokens, sched, permits, tasks, bulk, closed>>

\* embed_with_deadline with a deadline already past.
EmbedTooLate(j) ==
  /\ ~ closed
  /\ j \in Deadlined
  /\ call[j].at = "away"
  /\ call' = [call EXCEPT ![j] = Done("expired")]
  /\ UNCHANGED <<breaker, late, queueVars, permits, tasks, bulk, closed>>

\* try_send: backpressure when the channel is full.
Send(j) ==
  /\ call[j].at = "counted"
  /\ IF Len(channel) < QueueCap
     THEN /\ channel' = Append(channel, j)
          /\ call' = [call EXCEPT ![j] = At("waiting")]
          /\ UNCHANGED <<queued, late>>
     ELSE /\ queued' = queued - 1
          /\ Reply({j}, "full")
          /\ UNCHANGED channel
  /\ UNCHANGED <<breaker, pending, total_tokens, sched, permits, tasks, bulk, closed>>

\* The caller's future is dropped while it waits for the reply.
GiveUp(j) ==
  /\ call[j].at = "waiting"
  /\ call' = [call EXCEPT ![j] = At("gone")]
  /\ UNCHANGED <<breaker, late, queueVars, permits, tasks, bulk, closed>>

Return(j) ==
  /\ call[j].at = "done"
  /\ call' = [call EXCEPT ![j] = At("away")]
  /\ UNCHANGED <<breaker, late, queueVars, permits, tasks, bulk, closed>>

----------------------------------------------------------------------------
(* LengthBucketQueue. *)

\* The first bucket whose ceiling holds the job, or the last one.
Bucket(j) ==
  LET below == Cardinality({b \in DOMAIN Buckets : Buckets[b] < TokenLen[j]})
  IN  Min({below + 1, Len(Buckets)})

Tokens(jobs) == SumFunction([i \in DOMAIN jobs |-> TokenLen[jobs[i]]])

\* push
Push(j) ==
  /\ pending' = [pending EXCEPT ![Bucket(j)] = Append(@, j)]
  /\ total_tokens' = total_tokens + TokenLen[j]

Filled == {b \in DOMAIN Buckets : pending[b] # <<>>}

\* A bug the properties must catch: the cap is compared before the job is added.
TakenMutOneTooMany(jobs) ==
  Max({n \in 1 .. Len(jobs) : n = 1 \/ Tokens(SubSeq(jobs, 1, n - 1)) <= MaxBatchTokens})

\* drain_one: as many jobs off the front as fit under the cap, at least one.
Taken(jobs) ==
  Max({n \in 1 .. Len(jobs) : n = 1 \/ Tokens(SubSeq(jobs, 1, n)) <= MaxBatchTokens})

----------------------------------------------------------------------------
(* scheduler_loop *)

\* The first job of a window.
Recv ==
  /\ sched.at = "recv"
  /\ channel # <<>>
  /\ Push(Head(channel))
  /\ channel' = Tail(channel)
  /\ sched' = SchedAt("window")
  /\ UNCHANGED <<breaker, callVars, queued, permits, tasks, bulk, closed>>

\* Every sender is gone and the channel is empty.
Stop ==
  /\ sched.at = "recv"
  /\ channel = <<>>
  /\ closed
  /\ sched' = SchedAt("stopped")
  /\ UNCHANGED <<breaker, callVars, queued, channel, pending, total_tokens, permits, tasks, bulk, closed>>

\* Another job within the window, which ends when the tokens fill a batch.
RecvMore ==
  /\ sched.at = "window"
  /\ channel # <<>>
  /\ Push(Head(channel))
  /\ channel' = Tail(channel)
  /\ sched' = SchedAt(IF total_tokens' >= MaxBatchTokens THEN "flush" ELSE "window")
  /\ UNCHANGED <<breaker, callVars, queued, permits, tasks, bulk, closed>>

\* The window's deadline, at any time after its first job.
WindowEnds ==
  /\ sched.at = "window"
  /\ sched' = SchedAt("flush")
  /\ UNCHANGED <<breaker, callVars, queued, channel, pending, total_tokens, permits, tasks, bulk, closed>>

DrainedTokens(jobs) == Tokens(jobs)

\* The jobs of a batch whose deadline has not passed, in order.
OnTime(jobs) ==
  FoldLeft(LAMBDA kept, j : IF j \in late THEN kept ELSE Append(kept, j), <<>>, jobs)

\* drain_one of the lowest bucket with work, then the split by deadline.  An
\* iteration that is left without a job ends there.
Drain ==
  LET b == Min(Filled)
      n == Taken(pending[b])
      jobs == SubSeq(pending[b], 1, n)
      ontime == OnTime(jobs)
  IN  /\ sched.at = "flush"
      /\ Filled # {}
      /\ pending' = [pending EXCEPT ![b] = SubSeq(@, n + 1, Len(@))]
      /\ total_tokens' = total_tokens - DrainedTokens(jobs)
      /\ Reply(ToSet(jobs) \cap late, "expired")
      /\ IF ontime = <<>>
         THEN queued' = queued - n /\ UNCHANGED sched
         ELSE sched' = [at |-> "admit", batch |-> ontime, held |-> n] /\ UNCHANGED queued
      /\ UNCHANGED <<breaker, channel, permits, tasks, bulk, closed>>

\* A bug the properties must catch: one batch is flushed per window.
FlushedMutOneBatch == TRUE

\* drain_one found nothing.
Flushed == Filled = {}

NextWindow ==
  /\ sched.at = "flush"
  /\ Flushed
  /\ sched' = SchedAt("recv")
  /\ UNCHANGED <<breaker, callVars, queued, channel, pending, total_tokens, permits, tasks, bulk, closed>>

\* A bug the properties must catch: a refused batch is dropped unanswered.
AdmitBatchMutUnanswered ==
  /\ sched.at = "admit"
  /\ IF Allowed(breaker)
     THEN sched' = [sched EXCEPT !.at = "permit"] /\ breaker' = Admit(breaker) /\ UNCHANGED queued
     ELSE sched' = SchedAt("flush") /\ queued' = queued - sched.held /\ UNCHANGED breaker
  /\ UNCHANGED <<callVars, channel, pending, total_tokens, permits, tasks, bulk, closed>>

\* check, which may claim the half-open probe for the batch.
AdmitBatch ==
  /\ sched.at = "admit"
  /\ IF Allowed(breaker)
     THEN /\ sched' = [sched EXCEPT !.at = "permit"]
          /\ breaker' = Admit(breaker)
          /\ UNCHANGED <<callVars, queued>>
     ELSE /\ sched' = SchedAt("flush")
          /\ Reply(ToSet(sched.batch), "refused")
          /\ queued' = queued - sched.held
          /\ UNCHANGED breaker
  /\ UNCHANGED <<channel, pending, total_tokens, permits, tasks, bulk, closed>>

\* A bug the properties must catch: only the jobs that run leave the count.
DequeuedMutLiveOnly == queued - Len(sched.batch)

Dequeued == queued - sched.held

\* acquire_owned, spawn; the iteration ends and drops its Dequeue.
Spawn ==
  /\ sched.at = "permit"
  /\ permits > 0
  /\ permits' = permits - 1
  /\ tasks' = tasks \cup {sched.batch}
  /\ sched' = SchedAt("flush")
  /\ queued' = Dequeued
  /\ UNCHANGED <<breaker, callVars, channel, pending, total_tokens, bulk, closed>>

----------------------------------------------------------------------------
(* A batch task: one call of the backend, or one more per over-long text.  *)
(* Its permit is dropped when it ends.                                     *)

Ended(t) ==
  /\ tasks' = tasks \ {t}
  /\ permits' = permits + 1

\* The backend refuses the first text that is too long, before it runs any.
OverLong(t) == {i \in DOMAIN t : t[i] \in TooLong}

\* One row per text.
Rows(t) ==
  /\ OverLong(t) = {}
  /\ breaker' = RecordSuccess(breaker)
  /\ Reply(ToSet(t), "row")
  /\ Ended(t)
  /\ UNCHANGED <<queueVars, bulk, closed>>

\* A bug the properties must catch: the named text's neighbour is removed.
NamedMutNext(t) == IF Min(OverLong(t)) < Len(t) THEN Min(OverLong(t)) + 1 ELSE 1

\* The index InputTooLong names.
Named(t) == Min(OverLong(t))

\* InputTooLong in a batch of several: its caller is answered, the rest runs
\* again.  Nothing is reported to the breaker.
RemoveOverLong(t) ==
  /\ OverLong(t) # {}
  /\ Len(t) > 1
  /\ Reply({t[Named(t)]}, "too_long")
  /\ tasks' = (tasks \ {t}) \cup {RemoveAt(t, Named(t))}
  /\ UNCHANGED <<breaker, queueVars, permits, bulk, closed>>

\* InputTooLong of a single text is the batch's answer, and no failure.
RefuseOverLong(t) ==
  /\ OverLong(t) # {}
  /\ Len(t) = 1
  /\ Reply(ToSet(t), "too_long")
  /\ Ended(t)
  /\ UNCHANGED <<breaker, queueVars, bulk, closed>>

\* Any other error, a wrong number of rows included.
Fail(t) ==
  /\ breaker' = RecordFailure(breaker)
  /\ Reply(ToSet(t), "failed")
  /\ Ended(t)
  /\ UNCHANGED <<queueVars, bulk, closed>>

\* A bug the properties must catch: a panic leaks the stream slot.
PanicMutKeepsPermit(t) ==
  /\ Reply(ToSet(t), "dropped")
  /\ tasks' = tasks \ {t}
  /\ UNCHANGED <<breaker, queueVars, permits, bulk, closed>>

\* The backend panics: the task's reply channels are dropped with it.
Panic(t) ==
  /\ Reply(ToSet(t), "dropped")
  /\ Ended(t)
  /\ UNCHANGED <<breaker, queueVars, bulk, closed>>

RunBatch(t) == Rows(t) \/ RemoveOverLong(t) \/ RefuseOverLong(t) \/ Fail(t) \/ Panic(t)

----------------------------------------------------------------------------
(* A bulk caller, run_direct. *)

\* check; a refusal returns at once.
BulkAdmit(b) ==
  /\ ~ closed
  /\ bulk[b] = "away"
  /\ Allowed(breaker)
  /\ breaker' = Admit(breaker)
  /\ bulk' = [bulk EXCEPT ![b] = "permit"]
  /\ UNCHANGED <<callVars, queueVars, permits, tasks, closed>>

BulkAcquire(b) ==
  /\ bulk[b] = "permit"
  /\ permits > 0
  /\ permits' = permits - 1
  /\ bulk' = [bulk EXCEPT ![b] = "run"]
  /\ UNCHANGED <<breaker, callVars, queueVars, tasks, closed>>

\* The backend answers, "unreported" for a client error, or the caller is
\* cancelled in its call or panics with it.
BulkEnds(b, outcome) ==
  /\ bulk[b] = "run"
  /\ breaker' = CASE outcome = "rows" -> RecordSuccess(breaker)
               [] outcome = "failed" -> RecordFailure(breaker)
               [] outcome = "unreported" -> breaker
  /\ permits' = permits + 1
  /\ bulk' = [bulk EXCEPT ![b] = "away"]
  /\ UNCHANGED <<callVars, queueVars, tasks, closed>>

\* The caller is cancelled in front of the slots.
BulkGivesUp(b) ==
  /\ bulk[b] = "permit"
  /\ bulk' = [bulk EXCEPT ![b] = "away"]
  /\ UNCHANGED <<breaker, callVars, queueVars, permits, tasks, closed>>

----------------------------------------------------------------------------
(* The world. *)

Tick ==
  /\ breaker' = Older(breaker)
  /\ UNCHANGED <<callVars, queueVars, permits, tasks, bulk, closed>>

DeadlinePasses(j) ==
  /\ j \in Deadlined \ late
  /\ call[j].at \in {"counted", "waiting", "gone"}
  /\ late' = late \cup {j}
  /\ UNCHANGED <<breaker, call, queueVars, permits, tasks, bulk, closed>>

\* Callers borrow the dispatcher, so nobody is in a call when it is dropped.
Close ==
  /\ ~ closed
  /\ \A j \in Jobs : call[j].at \in {"away", "gone"}
  /\ \A b \in Bulks : bulk[b] = "away"
  /\ closed' = TRUE
  /\ UNCHANGED <<breaker, callVars, queueVars, permits, tasks, bulk>>

Schedule == Recv \/ Stop \/ RecvMore \/ WindowEnds \/ Drain \/ NextWindow \/ AdmitBatch

Outcomes == {"rows", "failed", "unreported"}

Next ==
  \/ \E j \in Jobs :
       Embed(j) \/ EmbedTooLate(j) \/ Send(j) \/ GiveUp(j) \/ Return(j) \/ DeadlinePasses(j)
  \/ Schedule
  \/ Spawn
  \/ \E t \in tasks : RunBatch(t)
  \/ \E b \in Bulks :
       BulkAdmit(b) \/ BulkAcquire(b) \/ BulkGivesUp(b) \/ \E outcome \in Outcomes : BulkEnds(b, outcome)
  \/ Tick
  \/ Close

Spec == Init /\ [][Next]_vars

\* The runtime polls every ready task, every backend call ends, and the tokio
\* semaphore serves in order, so the scheduler gets a slot although bulk
\* callers come and go.
FairSpec ==
  /\ Spec
  /\ WF_vars(Schedule)
  /\ SF_vars(Spawn)
  /\ \A j \in Jobs : WF_vars(\E t \in tasks : Contains(t, j) /\ RunBatch(t))
  /\ \A b \in Bulks : WF_vars(\E outcome \in Outcomes : BulkEnds(b, outcome))

----------------------------------------------------------------------------
(* Properties. *)

TypeOK ==
  /\ breaker \in Breakers
  /\ call \in [Jobs -> CallStates]
  /\ late \subseteq Deadlined
  /\ queued \in Nat
  /\ channel \in Seq(Jobs) /\ Len(channel) <= QueueCap
  /\ pending \in [DOMAIN Buckets -> Seq(Jobs)]
  /\ total_tokens \in Nat
  /\ sched.at \in {"recv", "window", "flush", "admit", "permit", "stopped"}
  /\ sched.batch \in Seq(Jobs) /\ sched.held \in Nat
  /\ permits \in 0 .. Streams
  /\ \A t \in tasks : t \in Seq(Jobs) \ {<<>>}
  /\ bulk \in [Bulks -> {"away", "permit", "run"}]
  /\ closed \in BOOLEAN

\* Where a job is in a sequence of jobs.
Where(j, s) == {i \in DOMAIN s : s[i] = j}

\* Where it is in the program: in the channel, the buckets, the scheduler's
\* hands and the batch tasks.
Places(j) ==
  UNION ({{<<"channel">>} \X Where(j, channel), {<<"scheduler">>} \X Where(j, sched.batch)}
         \cup {{<<"bucket", b>>} \X Where(j, pending[b]) : b \in DOMAIN Buckets}
         \cup {{<<"task", t>>} \X Where(j, t) : t \in tasks})

\* No job is lost or run twice: one that was sent and not answered is in exactly
\* one place of one of the queues or batches, any other is in none.
EachJobIsSomewhereOnce ==
  /\ TypeOK
  /\ \A j \in Jobs : Cardinality(Places(j)) = IF call[j].at \in {"waiting", "gone"} THEN 1 ELSE 0

\* The counters are what they count.  stats().queue_depth: jobs accepted and not
\* yet handed to the backend, the ones about to be sent and those the scheduler
\* holds included.  The running total, read without the queue's lock: the sum
\* over the buckets.
QueueDepthIsExact ==
  /\ queued = Cardinality({j \in Jobs : call[j].at = "counted"}) + Len(channel)
               + SumFunction([b \in DOMAIN Buckets |-> Len(pending[b])]) + sched.held
  /\ total_tokens = SumFunction([b \in DOMAIN Buckets |-> Tokens(pending[b])])

\* A batch stays under the cap unless it is a single job, and mixes no buckets.
BatchesFit ==
  \A t \in tasks \cup {sched.batch} :
    /\ Len(t) <= 1 \/ Tokens(t) <= MaxBatchTokens
    /\ \A i, k \in DOMAIN t : Bucket(t[i]) = Bucket(t[k])

\* An over-long text fails only its own caller, which always learns it was the
\* text: no caller whose text fits is told it was too long, and no over-long
\* text has a row.
OnlyTheOverLongAreTooLong ==
  \A j \in Jobs :
    /\ call[j].answer = "too_long" => j \in TooLong
    /\ call[j].answer = "row" => j \notin TooLong

\* Stream slots are neither leaked nor invented, whatever ends a call.
SlotsAreConserved ==
  permits + Cardinality(tasks) + Cardinality({b \in Bulks : bulk[b] = "run"}) = Streams

\* The scheduler waits for a first job, or stops, with nothing left behind in
\* the buckets: what is left there would wait for another caller to come.
NothingLeftBehind == sched.at \in {"recv", "stopped"} => Filled = {}

\* Every job that was sent is answered, or its caller has gone; and once the
\* dispatcher is dropped its scheduler stops, nothing left to run.
EveryJobIsAnswered ==
  /\ \A j \in Jobs : (call[j].at = "waiting") ~> (call[j].at # "waiting")
  /\ closed ~> (sched.at = "stopped" /\ tasks = {})

\* Job's doc: past-deadline jobs are dropped before they are dispatched to the
\* backend.
NoLateDispatch ==
  [][sched.at = "permit" /\ sched'.at # "permit" => ToSet(sched.batch) \cap late = {}]_vars
=============================================================================
