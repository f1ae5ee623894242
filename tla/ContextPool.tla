---------------------------- MODULE ContextPool ----------------------------
(***************************************************************************)
(* The embedded llama.cpp backend (m3-embed-llamacpp): the first call      *)
(* loads the model and starts a pool of worker threads, each of which owns *)
(* a context; calls put a job on one queue and block until a worker has    *)
(* replied; a worker that panics replies and exits.                        *)
(*                                                                         *)
(* Pools are numbered by load: a failed load leaves a pool behind whose    *)
(* threads are told to end and joined by nobody.  The forward pass is      *)
(* external: it returns, fails or panics.                                  *)
(***************************************************************************)
EXTENDS Naturals, Sequences, FiniteSets

CONSTANTS Callers,      \* calls of run(), and of tokenizer()
          Streams,      \* M3_EMBED_STREAMS
          MaxLoads,     \* bound: loads that get as far as starting threads
          None

ASSUME PoolAssumption == /\ MaxLoads \in Nat \ {0} /\ Streams \in Nat \ {0}
                          /\ IsFiniteSet(Callers) /\ None \notin Callers

VARIABLES
  calls,     \* calls[c]: where the call is, or its answer
  pool,      \* pool[c]: the pool whose Arc the call holds, 0 for none
  running,   \* calls that borrow the backend
  backend,   \* is there an EmbeddedBackend?
  llama,     \* the process-wide backend: set once, its failure too
  lock,      \* load_lock
  cached,    \* state: the pool it was set to, 0 for none
  loads,     \* loads begun: the number of the last pool
  worker,    \* worker[p][w]: the thread w of pool p
  job,       \* job[w]: the job the worker w of the cached pool runs
  tx,        \* tx[p]: does the pool's Sender exist?
  queue,     \* the jobs sent to the cached pool and not taken
  ready,     \* readiness reports not read yet
  collected  \* readiness reports the loader has read

vars == <<calls, pool, running, backend, llama, lock, cached, loads, worker,
          job, tx, queue, ready, collected>>
loading == <<llama, lock, cached, loads, ready, collected>>

Workers == 1..Streams
Pools   == 1..MaxLoads

Steps   == {"idle", "look", "lock", "locked", "collect", "send", "wait"}
Answers == {"result", "tokenizer", "panicked", "not_loaded", "no_workers",
            "no_reply", "shut_down"}
Threads == {"none", "starting", "idle", "busy", "leaving", "exited"}

Live(p) == {w \in Workers : worker[p][w] \notin {"none", "exited"}}

Init ==
  /\ calls = [c \in Callers |-> "idle"] /\ pool = [c \in Callers |-> 0]
  /\ running = {} /\ backend = TRUE /\ llama = "unset" /\ lock = None
  /\ cached = 0 /\ loads = 0 /\ collected = 0
  /\ worker = [p \in Pools |-> [w \in Workers |-> "none"]]
  /\ job = [w \in Workers |-> None] /\ tx = [p \in Pools |-> FALSE]
  /\ queue = <<>> /\ ready = <<>>

Move(c, from, to) == calls[c] = from /\ calls' = [calls EXCEPT ![c] = to]
Moved(p, w, from, to) == worker[p][w] = from
                         /\ worker' = [worker EXCEPT ![p][w] = to]

-----------------------------------------------------------------------------
(* pool(): get or load                                                     *)

Run(c) ==
  /\ backend /\ Move(c, "idle", "look")
  /\ running' = running \cup {c}
  /\ UNCHANGED <<pool, backend, worker, job, tx, queue, loading>>

\* The call has its clone of the Arc; a Tokenizer is what it was called for.
Have(c, p) ==
  /\ pool' = [pool EXCEPT ![c] = p]
  /\ \E step \in {"send", "tokenizer"} : calls' = [calls EXCEPT ![c] = step]

Look(c) ==
  /\ calls[c] = "look"
  /\ IF cached # 0
     THEN Have(c, cached)
     ELSE Move(c, "look", "lock") /\ UNCHANGED pool
  /\ UNCHANGED <<running, backend, worker, job, tx, queue, loading>>

SecondLookMutNone == 0
SecondLook == cached

\* With the lock a call looks again, and loads if there is still nothing.
Lock(c) ==
  /\ calls[c] = "lock" /\ lock = None
  /\ IF SecondLook # 0
     THEN Have(c, SecondLook) /\ UNCHANGED lock
     ELSE Move(c, "lock", "locked") /\ lock' = c /\ UNCHANGED pool
  /\ UNCHANGED <<running, backend, llama, cached, loads, worker, job, tx,
                 queue, ready, collected>>

NotLoaded(c) == calls' = [calls EXCEPT ![c] = "not_loaded"] /\ lock' = None

\* No such file, a failed init of the process-wide backend, which is kept for
\* good, or a model that cannot be read.
LoadFails(c) ==
  /\ calls[c] = "locked" /\ NotLoaded(c)
  /\ llama' \in IF llama = "unset" THEN {"unset", "ok", "failed"} ELSE {llama}
  /\ UNCHANGED <<pool, running, backend, cached, loads, worker, job, tx, queue,
                 ready, collected>>

\* The threads are spawned in order.  One that cannot be spawned ends the load;
\* the Sender goes with it, and nobody joins those before it.
Spawn(c) ==
  /\ calls[c] = "locked" /\ llama # "failed" /\ llama' = "ok"
  /\ loads < MaxLoads
  /\ loads' = loads + 1 /\ ready' = <<>> /\ collected' = 0
  /\ \E n \in 0..Streams :
       /\ worker' = [worker EXCEPT ![loads'] =
                       [w \in Workers |-> IF w <= n \/ n = Streams
                                            THEN "starting" ELSE "none"]]
       /\ IF n = Streams
          THEN /\ tx' = [tx EXCEPT ![loads'] = TRUE]
               /\ Move(c, "locked", "collect") /\ UNCHANGED lock
          ELSE NotLoaded(c) /\ UNCHANGED tx
  /\ UNCHANGED <<pool, running, backend, cached, job, queue>>

\* get_or_init: the first value set stays.
Cache == IF cached = 0 THEN loads ELSE cached

\* One readiness report read, the last of which makes the pool.
CollectReady(c) ==
  /\ calls[c] = "collect" /\ ready # <<>> /\ Head(ready) = "up"
  /\ ready' = Tail(ready) /\ collected' = collected + 1
  /\ IF collected' = Streams
     THEN cached' = Cache /\ Have(c, Cache) /\ lock' = None
     ELSE UNCHANGED <<cached, calls, pool, lock>>
  /\ UNCHANGED <<running, backend, llama, loads, worker, job, tx, queue>>

\* A context that cannot be created, or a worker that died before it reported:
\* every other has reported by then and its end of the channel is gone.
CollectFailure(c) ==
  /\ calls[c] = "collect"
  /\ \/ ready # <<>> /\ Head(ready) = "down"
     \/ ready = <<>> /\ \A w \in Workers : worker[loads][w] # "starting"
  /\ NotLoaded(c) /\ tx' = [tx EXCEPT ![loads] = FALSE] /\ ready' = <<>>
  /\ UNCHANGED <<pool, running, backend, llama, cached, loads, worker, job,
                 queue, collected>>

-----------------------------------------------------------------------------
(* embed: one job, one reply                                               *)

EmbedNothing(c) ==
  /\ Move(c, "send", "result")
  /\ UNCHANGED <<pool, running, backend, worker, job, tx, queue, loading>>

Send(c) ==
  /\ calls[c] = "send"
  /\ IF ~tx[pool[c]] THEN Move(c, "send", "shut_down") /\ UNCHANGED queue
     ELSE IF Live(pool[c]) = {}
     THEN Move(c, "send", "no_workers") /\ UNCHANGED queue
     ELSE Move(c, "send", "wait") /\ queue' = Append(queue, c)
  /\ UNCHANGED <<pool, running, backend, worker, job, tx, loading>>

\* The future of run() is dropped; the blocking task it started goes on.
Cancel(c) ==
  /\ c \in running /\ calls[c] \in {"send", "wait"}
  /\ running' = running \ {c}
  /\ UNCHANGED <<calls, pool, backend, worker, job, tx, queue, loading>>

\* The call returns and gives up its Arc; a Tokenizer outlives its call and
\* gives it up later.
Return(c) ==
  /\ calls[c] \in Answers /\ c \in running
  /\ running' = running \ {c}
  /\ pool' = IF calls[c] = "tokenizer" THEN pool ELSE [pool EXCEPT ![c] = 0]
  /\ UNCHANGED <<calls, backend, worker, job, tx, queue, loading>>

DropHandle(c) ==
  /\ calls[c] \in Answers /\ c \notin running /\ pool[c] # 0
  /\ pool' = [pool EXCEPT ![c] = 0]
  /\ UNCHANGED <<calls, running, backend, worker, job, tx, queue, loading>>

-----------------------------------------------------------------------------
(* worker_loop                                                             *)

Report(p, r) ==
  ready' = IF p = loads /\ tx[p] /\ cached # p THEN Append(ready, r) ELSE ready

\* The context is created and warmed up, or not; a panic reports nothing.
Start(p, w) ==
  /\ \/ Moved(p, w, "starting", "idle") /\ Report(p, "up")
     \/ Moved(p, w, "starting", "exited") /\ Report(p, "down")
     \/ Moved(p, w, "starting", "exited") /\ UNCHANGED ready
  /\ UNCHANGED <<calls, pool, running, backend, llama, lock, cached, loads, job,
                 tx, queue, collected>>

Take(w) ==
  /\ cached # 0 /\ queue # <<>>
  /\ Moved(cached, w, "idle", "busy")
  /\ job' = [job EXCEPT ![w] = Head(queue)] /\ queue' = Tail(queue)
  /\ UNCHANGED <<calls, pool, running, backend, tx, loading>>

AnsweredMutSilentPanic(w, a) == IF a = "panicked" THEN calls
                                ELSE [calls EXCEPT ![job[w]] = a]
Answered(w, a) == [calls EXCEPT ![job[w]] = a]

Reply(w) ==
  /\ cached # 0
  /\ \E a \in {"result", "panicked"} :
       /\ Moved(cached, w, "busy", IF a = "panicked" THEN "leaving" ELSE "idle")
       /\ calls' = Answered(w, a)
  /\ job' = [job EXCEPT ![w] = None]
  /\ UNCHANGED <<pool, running, backend, tx, queue, loading>>

LastReceiverMutKeptByPool(p, w) == FALSE
LastReceiver(p, w) == Live(p) = {w}

\* The thread ends: after a panic, or when every Sender is gone and the queue is
\* empty.  With the last receiver the queue goes, and the reply channels in it.
Exit(p, w) ==
  /\ \/ Moved(p, w, "leaving", "exited")
     \/ /\ Moved(p, w, "idle", "exited")
        /\ ~tx[p] /\ (p = cached => queue = <<>>)
  /\ IF p = cached /\ LastReceiver(p, w)
     THEN /\ calls' = [c \in Callers |->
                         IF \E i \in DOMAIN queue : queue[i] = c
                         THEN "no_reply" ELSE calls[c]]
          /\ queue' = <<>>
     ELSE UNCHANGED <<calls, queue>>
  /\ UNCHANGED <<pool, running, backend, job, tx, loading>>

-----------------------------------------------------------------------------
(* Drop                                                                    *)

DropBackend ==
  /\ backend /\ running = {} /\ backend' = FALSE
  /\ UNCHANGED <<calls, pool, running, worker, job, tx, queue, loading>>

HeldMutByBackend == backend
Held == backend \/ \E c \in Callers : pool[c] # 0

\* ContextPool::drop, when the last Arc is gone: it takes the Sender, which
\* ends the workers it then joins.
DropPool ==
  /\ cached # 0 /\ ~Held /\ tx[cached]
  /\ tx' = [tx EXCEPT ![cached] = FALSE]
  /\ UNCHANGED <<calls, pool, running, backend, worker, job, queue, loading>>

-----------------------------------------------------------------------------
Call(c) == \/ Look(c) \/ Lock(c) \/ LoadFails(c) \/ Spawn(c)
           \/ CollectReady(c) \/ CollectFailure(c)
           \/ EmbedNothing(c) \/ Send(c) \/ Return(c)

Serve(p, w) == Start(p, w) \/ Exit(p, w) \/ (p = cached /\ (Take(w) \/ Reply(w)))

\* Nothing is left to do: no call is under way and none can come.
Done == /\ \A c \in Callers : calls[c] \in Answers \/ (calls[c] = "idle" /\ ~backend)
        /\ UNCHANGED vars

Next == \/ \E c \in Callers : Run(c) \/ Call(c) \/ Cancel(c) \/ DropHandle(c)
        \/ \E p \in Pools, w \in Workers : Serve(p, w)
        \/ DropBackend \/ DropPool \/ Done

\* Threads run: a call goes on, a worker goes on, the forward pass ends one way
\* or another, and a blocking task that has its answer lets go of the pool.
Fairness == /\ \A c \in Callers : WF_vars(Call(c) \/ (calls[c] # "tokenizer" /\ DropHandle(c)))
            /\ \A p \in Pools, w \in Workers : WF_vars(Serve(p, w))
            /\ WF_vars(DropPool)

Spec == Init /\ [][Next]_vars /\ Fairness

-----------------------------------------------------------------------------
(* Properties                                                              *)

\* Every variable keeps its type, and every pool its number of threads.
TypeOK ==
  /\ calls \in [Callers -> Steps \cup Answers]
  /\ pool \in [Callers -> {0} \cup Pools] /\ running \subseteq Callers
  /\ backend \in BOOLEAN /\ llama \in {"unset", "ok", "failed"}
  /\ lock \in Callers \cup {None} /\ cached \in 0..loads
  /\ loads \in {0} \cup Pools /\ collected \in 0..Streams
  /\ worker \in [Pools -> [Workers -> Threads]]
  /\ job \in [Workers -> Callers \cup {None}] /\ tx \in [Pools -> BOOLEAN]
  /\ queue \in Seq(Callers) /\ ready \in Seq({"up", "down"})

Places(c) == {<<"queue", i>> : i \in {i \in DOMAIN queue : queue[i] = c}}
             \cup {<<"worker", w>> : w \in {w \in Workers : job[w] = c}}

\* A call that waits is in the queue or with one worker, and once: a panic, a
\* drop or the end of the last worker neither loses it nor runs it twice
\* (embed, worker_loop).
EachWaitingCallIsHeldOnce ==
  \A c \in Callers :
    Cardinality(Places(c)) = IF calls[c] = "wait" THEN 1 ELSE 0

\* However many calls race for the first load there is one usable pool at a
\* time, everybody has the cached one, and it was cached with every thread up
\* (pool()).
OnePool ==
  /\ TypeOK
  /\ \A p, q \in Pools : tx[p] /\ tx[q] => p = q
  /\ \A c \in Callers : pool[c] \in {0, cached}
  /\ cached # 0 => \A w \in Workers : worker[cached][w] \notin {"none", "starting"}

Panicked == {w \in Workers : worker[cached][w] \in {"leaving", "exited"}}

\* What a caller is told is so: a caller that holds the pool never finds it shut
\* down, every worker lost cost one caller a panic reply, and jobs are given up
\* only when no worker is left (embed's errors).
ErrorsAreTrue ==
  /\ \A c \in Callers : calls[c] # "shut_down"
  /\ cached # 0 /\ tx[cached] =>
       Cardinality(Panicked) = Cardinality({c \in Callers : calls[c] = "panicked"})
  /\ (\E c \in Callers : calls[c] \in {"no_workers", "no_reply"}) => Live(cached) = {}

\* Every call is answered, although workers panic one after another, loads fail
\* and the backend is dropped meanwhile.
EveryCallReturns ==
  \A c \in Callers : calls[c] = "look" ~> calls[c] \in Answers

Abandoned(p) == p \in 1..loads /\ (~tx[p] \/ (p = cached /\ ~Held))

\* The threads of a pool that nobody can reach end: those of a failed load, and
\* those of a pool whose last Arc is dropped.
AbandonedThreadsEnd == \A p \in Pools : Abandoned(p) ~> Live(p) = {}

\* Nothing is stuck on the other side of a channel: no call on its workers, no
\* worker on its callers (the two above).
NothingWaitsForever == EveryCallReturns /\ AbandonedThreadsEnd

=============================================================================
