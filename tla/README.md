# Verification of m3-core-rs

TLA+ models of this workspace, its concurrent core in most detail, model-checked with
TLC, and proofs about the core checked with TLAPS. The modules are translated from the source
under `crates/`; PROJECT.json maps every definition to the lines it stands for.

## The system

m3-core-rs is the native core of m3, a memory system for agents. Its crates:

| component | state it keeps | operations | where it is hard |
|---|---|---|---|
| circuit breaker (`m3-resilience`, async face in `m3-dispatcher`) | failure count, phase and the instant of its last transition; a lock-free copy of the phase | `check`, `peek`, `record_success`, `record_failure` | late reports, lost probes, a flag read outside the lock |
| dispatcher (`m3-dispatcher`) | bounded channel, length buckets, running token total, `queued`, stream slots | `embed*`, `embed_batch*`, the scheduler task and the batch tasks it spawns | cancelled callers, panics, refusals between queue and backend, deadlines, over-long texts of others |
| doorbell hub (`m3-dispatchd`: `hub.rs`, `addressing.rs`, `api.rs`) | log of rings, a cursor, a loss count and a waiter count per reader set, a `Notify` | `ring`, `wait` | trimming under sleeping waiters, lost wake-ups, coalescing, several connections of one reader set, dropped futures |
| doorbell endpoint (`ipc.rs`, `main.rs`, `client.rs`) | the socket file, the listener | start, accept, shutdown, connect | stale sockets, two daemons starting, removal of somebody else's file |
| `m3-wait` | its deadline | wait, run CMD, wait again | daemon restarts, reply lost after the cursor moved |
| context pool (`m3-embed-llamacpp`) | the loaded pool, worker threads, their job channel, the load lock | lazy load, `embed`, `tokenizer`, shutdown; `plan_windows`, packing | panicking workers, load races, cancelled callers, failed loads |
| embed server process (`m3-embed-server`: `main`, `server`, `config`, `security`) | its settings, its listeners, a log of rejections | start, serve, drain; the routes | which status a failure becomes, what a start refuses, two listeners of which one faces the network |
| embed server as a service (`service_unix`, `service`, `unit_render`) | the unit, plist or SCM entry; the manager's job; the process | `install`, `uninstall`, `start`, `stop` | the manager restarts while a command looks; somebody else's port; exits no restart cures |
| settings (`m3-config`) | loaded file, overrides | `locate`, `load`, `get`, `parse_set`, `read_secret`, `check_private` | precedence, all-or-nothing refusal, who else can read a file |
| vector index (`m3-vector`) | packed rows, key to slot | `upsert_many`, `remove`, `search` | swap-removal, all-or-nothing batches |
| scoring, fusion (`m3-vector`, `m3-rank`) | none | MMR, hybrid rank, displacement guard, max-pool, `fuse` | ties, NaN, parallel cuts, copies |
| graph, ingest | a graph; none | searches; a directory walk | cycles, limits, unreadable directories |
| NER, redact, fts, governor, route, retry delays | none | pure functions | overlaps, order of application, boundaries |
| Python binding (`m3-core-py`) | the index behind a read-write lock, one redactor for each thread | all of the above, without the GIL where it is long | GIL against lock, a stale cached redactor |

The embed server's handlers, and the Python binding, call one `Dispatcher`. It asks
its breaker before it queues a job and again before a batch runs, and calls a
`ModelBackend`, which for embeddings hands the batch to the context pool. The
doorbell daemon is separate: m3's writers POST `/ring`, `m3-wait` POSTs `/wait` on
the local endpoint, and both meet in one `Hub`. The embed server is run by systemd,
launchd or the Windows service manager, which an operator talks to through the
server's own commands. The rest of the crates are called by Python and share nothing.

What makes each correct, in a sentence. Breaker: it opens only on its threshold,
lets one probe through, and recovers. Dispatcher: every accepted job is answered
once, with what its own text deserves, and nothing it counts or holds leaks. Hub:
a ring is told, to whoever it concerns, counted right, or its reader set is told
to resync. Endpoint and m3-wait: a client reaches a live daemon or knows there is
none. Pool: every caller is answered whatever its workers do, from the one pool.
Index: search sees exactly the last vector of each key, however threads interleave.
Server: it serves only what its settings allow, what an install or a check accepts a
start accepts, and what a command reports is so. Pure functions: each is what its
definition says, at every tie and boundary.

## Modules

The core, each a state machine with its properties:

- **Breaker**: the breaker of `m3-resilience` as a record `[failures, phase, age]` and
  its transitions as operators. `age` stands for `now - t` of `Phase::Open(t)` and
  `Phase::HalfOpen(t)`, and stops at the cooldown, where the code stops telling it
  apart. `last_error` is left out.
- **SharedBreaker** (extends Breaker): the async face. One breaker under a mutex, the
  flag `state_fast`, and callers: a bulk caller asks once with `check`, a coalesced one
  asks with `peek` and then with `check`. The load of the flag, the section under the
  mutex, and the publication are separate steps, since others come in between. A
  caller may be cancelled at every await.
- **Addressing**, **Hub**: an id is the sequence of its segments between `@`; `Sees` is
  `addressing::sees`. Hub has one action per stretch of code that runs under its mutex
  and one per step between two of them: `RingBegin` (the clock is read before the lock),
  `RingLocked` (push, trim, mark losses), `RingNotify`; `WaitNew`, `WaitLost`,
  `WaitKnown` (the three answers of the first section of `wait`), `Enable`, `Check`,
  `FirstMatch`/`NoMatch`, `Decide`, `WindowEnds`, `Take`, `WakeUp`, `DeadlinePasses`,
  `Leave`. `Disconnect` is a future dropped at its await.
- **Dispatcher** (extends Breaker): `Embed`, `Send`, `GiveUp`, `Return` are a caller of
  `embed`; `Recv`, `RecvMore`, `WindowEnds`, `Drain`, `NextWindow`, `AdmitBatch`,
  `Spawn`, `Stop` are `scheduler_loop`; `Rows`, `RemoveOverLong`, `RefuseOverLong`,
  `Fail`, `Panic` are the ends of a backend call in a batch task; `BulkAdmit`,
  `BulkAcquire`, `BulkEnds`, `BulkGivesUp` are `run_direct`. Asking the breaker is one
  step here, since SharedBreaker is about what is inside it. The end of a backend call,
  its report and its replies are one step: nothing the properties look at can come
  between them.
- **Endpoint**: the doorbell's life on its socket. `Start` (the `exists`), `Probe` (the
  `connect`), `Remove`, `Bind`, `Listen` (the two calls in `UnixListener::bind`: in between the file is
  there and refuses), `Chmod`, `Shutdown`, `Unlink`, `Exit` are the system calls of
  `serve`, a step each, and `Crash` may come at any of them. m3-wait is `Connect`, `Accept`,
  `Receive` and the ends of CMD; `StdinCloses` is its watchdog thread. What a Hub knows of the
  one reader set is abstracted to `new`, `quiet` or `news`, which is what its next answer
  (`Wake`, `HubGivesUp`) depends on. Writers `Commit` to m3's store and then `Ring`, late or
  again or never.
- **ContextPool**: callers of `run()` and of `tokenizer()`, the load under its lock
  (`Load`, the readiness reports, the store in the `OnceLock`), workers that take a job,
  run it, panic and exit, cancelled callers, the drop of the backend and of the pool's last
  handle. A load may fail before or after it has started threads, and is tried again by
  the next caller. Pools are numbered by load.

The Python module:

- **VectorIndex**: the index as `keys`, `rows` and `pos`, with every operation of it; **PyIndex**:
  the threads that share it, step by step through the GIL and the lock (`Enter`, `Prepare`,
  `ReadDim`, `Acquire`, `Work`, `Attach`, `Leave`). **KeyedVectors** is the abstract
  specification: a map from keys to vectors on which each call takes effect at one moment
  between its start and its return. PyIndex implements it (`ImplementsKeyedVectors`), its
  liveness included; the map is `rows` read through `pos`, and a call has taken effect when
  its answer is known.
- **Ranking** (`mmr_*`, `rank_hybrid`, the displacement guard, `fuse`, hybrid scores, recency),
  **Windows** (`plan_windows`, chunk packing, the pool's sizes, `estimate_tokens`), **Ner**
  (`decode_spans`, provider selection), **EntityGraph**, **Walk**, **Redaction**, **FtsQuery**,
  **Decisions** (governor, routing, retry delays, errors): pure functions. A number is an integer or
  `NaN`; a text is a sequence of the classes its function tells apart; a cosine, a regular
  expression's matches and a sort's order among equals are inputs. Of a search's query only whether it is
  zero matters (no hits, then); any other is one fixed vector, to which the stored ones have scores.
- **Library**: one state machine that calls them (`Ask`), a `GraphIndex` that grows, and the
  per-thread cache of one redactor; and the definitions their answers are compared with.

The embed server:

- **Settings** (`m3-config`) and **ServerPlan** (`main`, `config`, `security`): the command line, the
  location of the file, `--set` over file over default, what each key accepts, the secrets file
  and who else may read it, the listeners a start goes on to bind or the error it ends with,
  the exit statuses, the token check.
- **EmbedService**: the process (`ReadConfig`, `BindLocal`, `BindRemote`, `LoadModel`, `Drain`),
  the manager (`Restarts`, `Restart`, `StopJob`) and one operator's commands, a step for each call
  of `systemctl`, `launchctl` or the SCM and for each look at `/health` or at a pid. `Kill`, `Theft` of an
  address, `EditConfig` and `Interrupt` are the outside. `op.raced` and `op.moved` remember that the
  service or an address changed between two looks of one command.
- **EmbedApi**: the routes, their statuses, and embedding calls against the breaker, where recording
  a failure and reading the breaker's status are two acquisitions of its lock.
- **RejectionLog**: the two atomics behind "at most one warning in ten seconds".
- **Service**: the four beside each other, and their properties. They share no variable, so
  **MCService** lets a behaviour be one of them: their states add up. **MCLibrary** does the same.

**MCHub** and **MCDispatcher** are values of small instances. **HubProofs**, **EndpointProofs**,
**ContextPoolProofs**, **DispatcherProofs** (Dispatcher and SharedBreaker), **PythonProofs** and
**LibraryProofs** (both about what Python calls) and **ServiceProofs** hold the theorems, **FoldLemmas** what several of them need about sums, bounded
sets of numbers and selections. Operators with `Mut` in their name are not part
of the models. Each is a plausible bug of the definition below it, kept to show that a
property notices it.

## Runs

| run | instance | states | shows |
|---|---|---|---|
| breaker | 2 callers, threshold 2, cooldown 2, count up to 3 | 15 thousand | one live probe, no opening without its failures, a truthful flag, the claim only by a call, recovery |
| hub | 2 writers, 2 waiters with overlapping readers, 3 rings and a log of 2, window 1 | 2.5 million | nothing missed, no lost wake-up, exact counts, coalescing |
| hub_liveness | 1 writer, 2 connections of one reader set, one may break | 23 thousand | every ring told, every wait returns |
| hub_ghost_waiter | 1 connection that breaks | | status keeps it for good |
| dispatcher | 4 jobs, 3 lengths, 2 buckets, 2 slots, 2 places in the channel | 0.9 million | each job in one place, exact depth, caps, own answers, nothing left behind |
| dispatcher_liveness | 2 jobs, 1 bulk caller, 1 slot | 12 thousand | every job answered, no slot leaked, the scheduler stops |
| dispatcher_late | 2 jobs, one with a deadline, 1 slot | | a job is dispatched past its deadline |
| endpoint | 2 daemons, 3 stops or crashes, 1 m3-wait, 1 message | 0.3 million | listeners at the path, the path served again or starts that remove each other's socket for ever, rung mail read, honest exit codes |
| endpoint_theft | 2 daemons, 1 crash at most (none is needed) | | a starting daemon removes a live one's socket |
| pool | 3 callers, 2 workers, 2 loads | 92 thousand | each waiting call held once, one pool, true errors, nobody waits for ever |
| library | 2 threads on an index of 3 keys; 19 thousand pure calls; graphs of up to 4 edges; 7 redactors | 79 thousand | the index implements the map; each function keeps its promise |
| service | 2 commands, 1 mishap, 4 files, 3 managers, 2 versions; about 11 thousand startups; 2 clients on a breaker; 3 rejections | 272 thousand | commands tell the truth, no useless restart but on launchd, the service settles; starts, replies and the log are right |

The exact constants are in the `.cfg` files, the inputs of `library` and `service` in MCLibrary and MCService.

Bounds and why they are enough. The breaker has no bound besides its constants: a
threshold of 2 tells a first failure from the last, a saturation at 3 lets the count go
past the threshold and stop. In Hub `MaxRings`, `MaxNow` and `MaxDrops` bound a run's
length; the log holds one ring less than a run rings (two of three in `hub`, one of two in
`hub_liveness`), so that it is trimmed under a waiter, which takes 100000 rings in
production, and two waiters are enough for every pair of cursors a ring can fall between.
`hub` lets no connection break; `hub_liveness` does. The clock stops only after every window
and deadline has had room to pass. In Dispatcher nothing is bounded: callers come again
for ever and the state space is finite. `PerStream` is 4 in the code and 1 here, so that
four callers overflow the channel; the three lengths give a pair that fits a batch, a
pair that does not, and a job over the cap on its own; the cooldown and the threshold
of 1 let the breaker refuse a batch whose jobs were accepted. In Endpoint `MaxEnds` bounds the
stops and crashes: one leaves a stale socket, a second and a third hit the daemons that
start over it. One message is enough, since CMD reads all there is and a Hub keeps a burst as
one wake; it may be rung again after it was read. 300 among CMD's codes does not fit a status.

In ContextPool `MaxLoads` bounds the loads that get as far as starting threads: one fails
and one succeeds. Three callers on two workers leave a job in the queue when the last worker
panics. The index takes two threads, three keys, two vectors of equal score, one above them
and one that is refused; chunks of two rows and a parallel threshold of 3 give cuts at
every place of a search. The pure functions get every combination of the ties, boundary values and NaN they
tell apart on up to four elements; lengths beyond that repeat a loop the bound already
enters twice. In EmbedService two commands are what it takes for one to meet what the other
left (an install over a running service, a stop during a start), and one mishap (a kill, a
theft of an address, an edit of the file, an interrupt) is enough to come between any two steps;
process numbers go round in a cycle of three, as nothing compares more than two. `U32Max` and `I64Max` in ServerPlan
are stand-ins, TLC's integers being of 32 bits. In RejectionLog the clock
may say anything up to `MaxNow`, also less than before.

## Fairness

Only liveness uses it, and only for what the runtime or the system does on its own: a
ready tokio task is polled again (weak fairness of each task's next step), time passes,
and tokio's `Mutex` and `Semaphore` serve their waiters in order (strong fairness of
taking them, in SharedBreaker and for `Spawn` in Dispatcher). Nobody is assumed to ring,
to call, to be cancelled or to fail. The other assumptions are about the outside. In
SharedBreaker recovery is promised once the backend answers and callers keep coming
(`calm`). In Hub a waiter comes back after a wake. In Endpoint somebody starts a daemon that is down and CMD ends; a
wait that begins with a ring already there is answered with it (strong fairness of `Wake`),
as Hub's first look at the log comes before its deadline. No fairness keeps two starts from
coming between each other's `bind(2)` and `listen(2)` again and again, so `AlwaysServedAgain` has that one way out. In Dispatcher every backend call
ends: a backend that hangs keeps its slot and its callers, as the code has no timeout
for it.

In ContextPool a call's own thread runs on (weak fairness of its next step), workers serve, and the
forward pass ends; nobody is assumed to be cancelled or to panic. In PyIndex a thread steps
on, and the GIL and the lock are given in the end to a thread that asks for them again and
again (strong fairness): neither promises turns.
In EmbedService weak fairness of the manager's restart, of the process and of the
operator's program stands for their timers and for the waits in the commands; a draining
process ends because requests end or the manager kills it after its stop timeout. That the service
settles is promised only once nothing more goes wrong (`calm`).

## What is proved

All of it for every value of the constants that satisfies the named assumption of the
module: `BreakerAssumption`, `CallersAssumption`, `HubAssumption`, `EndpointAssumption`,
`PoolAssumption`, `DispatcherAssumption`, `VectorAssumption`, `PyIndexAssumption`, `ServiceAssumption`,
`ApiAssumption`, `RejectionAssumption`, `PlanAssumption`, `RedactionAssumption`, `WindowsAssumption`, `RankingAssumption`, `WalkAssumption`, `LibraryAssumption`. They give types, positive
limits and, where something is counted, that the callers are finitely many; of the service, that every
address a settings file can lead to is one of `Addresses`, and that no binary has version 0; of a start, that
there is one `--set` at most (the command line has its second refused), that a value said to be a
boolean is one, and that an argument with `=` behind it is `--config` or `--set`; of a redactor, that every
group but `custom_regex` has built-in expressions, none of which matches a marker (custom ones may); of the pure
calls, the types of their arguments, that a sweep's tree is one and its root in it (`IsTree`), that NaN is no number, that no word of a query is written with the
characters that count as punctuation, that cosines are given for every pair of what is ranked, that the order a
sort leaves is one of those it may (`IsFalling`, `IsById`, `IsByDate`), and that `rank_hybrid`'s relevances are numbers.

`DispatcherProofs`, of SharedBreaker: `SharedTypeCorrect`, `ProbeIsExclusive`, `TrippedOnlyOnThreshold`,
`FlagIsTruthful`. Exclusion of probes is not inductive. What is: the breaker's own age is
never older than that of a live probe, so a caller let through as a probe either is
what the breaker's half-open phase stands for or has been out a whole cooldown. The
mutex invariant (who holds it is about to publish) carries the flag. `OnlyCallsClaim` is the
action property: only an ask that lets its caller through to the backend moves the breaker to half-open.

`HubProofs`: `TypeCorrect`, `NothingIsMissed`, `NoWakeupIsLost`, `MailIsCounted`, `BurstIsOneMail`. `NothingMissed` rests on
`LogIsTail` (the log is the last part of all that was rung, under consecutive numbers) and
`TrimmedIsLost` (what is not in it any more and was not told is marked); `NoLostWakeup` on
`InsideIsKnown` (a connection inside `wait` has a cursor) and `NewsIsAnnounced`, what is
true of a connection between enabling its `Notified`, looking at the log and sleeping: if
there is news it has not looked at yet, it was notified or a writer is about to notify.
Lemmas give the least elements that the trim and the window choose. The two action properties:
`MailIsCounted` needs `TellInv`: no cursor is ahead of the newest ring and a wait that goes on has no
answer yet. `BurstIsOneMail` needs `Due` (a connection that found a ring still has one to hand out, or
its readers are marked, and sleeps to the end of that ring's window or to its deadline) and is
stated for one connection of each reader set (`OneConnectionEach`, a hypothesis): with two it is false,
see the observations.

`EndpointProofs`: `TypeCorrect`, `ListenersAreReachable`, `NothingIsForgotten`,
`ExitCodesAreTrue`, for any number of daemons, messages, stops and crashes. The first is
inductive as it stands. What a ring left behind is not forgotten because no daemon knows a
reader set before it accepts (`HubIsServed`), m3-wait waits only in processes that run and a
wake is in transit only once it was answered (`ConnectionIsLive`), and the path names a daemon
only while it is bound, listening or not yet (`FileIsLive`).

`ContextPoolProofs`: `PoolIsOne`, `WaitingCallsAreHeldOnce`, `ErrorsTellTheTruth`, for any
number of workers, loads and (finitely many) callers. They need one invariant of six parts:
who holds the lock is loading and there is no pool yet (`LoadLock`); a caller with a handle
keeps the pool's Sender (`Handles`); a worker lost while starting left a "down" unread or is
a report too few, so a pool is cached only with every worker up (`Reports`, `Staff`); the
queue and the workers' hands share no job (`Jobs`); each panic was told to one caller
(`Losses`). The types are its first conjunct.

`DispatcherProofs`, of Dispatcher: `TypeCorrect` and the six safety invariants of the `dispatcher` run. `DispInv` has
named parts: types (`CallsInv`, `ChannelInv`); a bucket holds jobs of its length only
(`BucketsInv`); the scheduler has a batch exactly while it admits and spawns one, and it fits
(`SchedInv`); so do the batch tasks', no two of which share a job (`TasksInv`); the jobs in flight are
the disjoint union of those in the channel, the buckets, the scheduler's batch and the tasks (`Placed`);
and the counters (`SlotsInv`, `CountersInv`). `Placed` carries the rest: a job leaves one place for one other or
for its answer. Batches and counters are reasoned about as sets and sums over sets, for
which FoldLemmas has the lemmas. The code's `queued` includes jobs about to be sent; so does the sum.

`PythonProofs`: `IndexKeepsSound`, `ScrubsAreTheirOwn`, `EveryDecisionIsRight`, `EveryCutIsRight` and `EveryCallIsAtomic`. `PiInv` is types, who has the GIL and the lock
(`Gil`, `Lock`), and what a thread on its way has read (`Way`). What an operation returns is proved
first for the pure operators of VectorIndex: their loops and folds are functions on numbers, or folds over
intervals, taken one step at a time by induction over finite sets; so `Indexes` (distinct keys, one row
a key, `pos` the inverse of `keys`) outlives swap-removal and batches with a key twice. A search keeps a heap of k
for each chunk and merges them: `IsTop` says that a list is k best of a set of candidates, and
`PushTop`, `MergeTop`, `SortedTop` that each step keeps it, hence `SearchSound`. The refinement: every step is one of
KeyedVectors or a stutter, the call taking effect when its answer is known
(`Answered`, `Promised`), under `AllowedOnce`: no allow-list names a key twice (the code returns such a
key twice, which KeyedVectors does not allow; the run's lists are such). The redactor: `CacheInv` has the cached redactor
built for the configuration beside it, and the last text scrubbed by such a one, so what is left is a lemma about
redactors (`ScrubIsRight`). A text on its way (`Drafts`) has no more tokens changed than were counted, which with a
clean result counts every secret; once an expression has cleaned it (`Clean`), the markers of later ones do not soil it
(`Cleaner`); and the groups that fired come in the order of those gone through (`FiredOf`). What a redactor is made of
follows from what its loops leave out (`SkippingKeeps`). The decisions are about every argument: the ties among four scores
(`LeaderIs`), the doublings that saturate (`ScaledSteps`), and for a query of any length that sanitizing, clearing
punctuation and trimming pick the same words in the same order (`CleanKeepsWords`: `PickedSame`,
`TrimPicks`), while doubling its quotes doubles their number (`QuotesDouble`).
The cuts are about every tokenizer, since a count of tokens need not grow with the text: a bisection ends between two
neighbours of which one is its start or was seen to fit and the other its end or was seen not to (`BisectionHolds`), so an end fits
or is a single character on, and an overlap starts inside its window (`FittingEnd`, `OverlapStart`). A window grows from
the last of those after it (`WindowsGrow`), which makes the plan finite and a chain from 0 to the text's end. The packing of a
batch is a fold whose chunks so far fit and are the batch so far (`BatchHolds`). Candidate spans are taken strongest first: one is
settled once it is kept or overlaps a kept one at least as strong, and settled spans stay so (`TakingSettles`).

`LibraryProofs`: `EveryRankingIsRight` and `EveryTraversalIsRight`. The first has one lemma for each kind of call. All are loops over sequences, taken turn by turn
with an invariant of the loop. MMR: the chosen and the left part the candidates (`Parted`), each pick so far was the best of
what was left then (`AfterTurns`), and `Better` gives the first in a total order of gain and place, so that the best of two
halves is the best of all and rayon's cut does not matter (`PickIsFirst`); while candidates move up and are not swapped, what is left stays
in order, so the first of equals is taken. `rank_hybrid` keeps, going down the relevances, the first of each content
(`AreKept`). The guard's walk keeps the primaries left to come in their order and the ranks it passed fair (`Guarded`), and a
list that is fair is left alone (`FairStays`), hence idempotence. That the rows are rotated in place along the permutation, a cycle at a time
with done places marked in the permutation itself, is `Rotating` and inside a cycle `Turning`: places up to the
start of a cycle are settled, a cycle is closed when it comes back, which it does within as many turns as there are rows
because no place is visited twice. Fusion: rows in the order of their ids merge to each id once with its largest score (`Fused`),
and distinct rows have an order best first (`BestFirstHolds`), so the `CHOOSE` that stands for the sort has a value.

`EveryTraversalIsRight` is about any graph that add_node and add_edge build (`GraphOK`, which every step keeps) and any
tree (`IsTree`: names in a directory differ, links lead anywhere). The search's queue spans two distances, is nearest first,
each node in it was found along an edge from an earlier one, and the ends of what was visited are found (`Searching`); it ends,
every turn having visited a node and there being no more than the graph's (`FoundAreNodes`). What it found within a
distance is then the ball around its start (`BallIsFound`), and the way back from a node a path with as many edges as its distance
(`WaysHold`), which no path undercuts. The sweep is a recursion over calls of `recurse`. That a function of the calls satisfies it and
is the only one is by induction on how far a call is from the ceiling (`RecurseExists`, `WalkIs`). The invariant
carries the set of the paths being walked (`Sweeping`): each path is listed once and in its place, every entry of the root and of each listed
directory is told of, or the directory is being walked or there is a reason why it is not (`Told`, `Accounted`), and those being walked or descended into are different directories,
all of them visited. A call adds nothing but paths under its own, under names it has come to (`InDir`), so what it lists next
is new; opening a directory adds a path to the set and its call's end takes it away (`ChildKeeps`), and at the end of the
root's call the set is empty.

`ServiceProofs`: `CommandsTellTheTruth`, `StartsAreRight`, `RetryAfterIsEnough`, `NoRejectionIsLost`, one for
each of the machines in Service that share no variable, and `StartupAndRepliesHold`, the last three at once. The first rests on `ServiceInv`, which has a manager's side and an
operator's. `JobsOK`: a process is alive exactly while its job runs or stops (`JobInv`), on systemd and Windows no restart
is due for what no restart cures (`BackoffInv`), and a process at each step holds the addresses it has bound so far
(`PlanInv`). `OpsOK`: which step belongs to which command (`StepInv`), what the look before a command's work
promises of the answer after it (`AskInv`), that a stop that waits has told the manager (`StopInv`), and what an
install on its way may count on, up to `raced` (`InstallInv`, `Fresh`). A step of the process or the manager
may only fade what a command counts on (`Fades`), which is proved once for them all. A Retry-After is enough
because what is left of the wait and what has passed of the cooldown make up the cooldown, as long as no one moves
the breaker (`Sufficient`). The log: no warning is later than `lastWarn`, who may warn read a `last` at least
`WarnEvery` ago, so a claim that still finds it is apart from every warning; and each access moves one unit between
`unreported` and what the warnings told. `StartsAreRight` is about what one start, install, check or command line
comes to, whatever the settings, and says it of the operators of Settings and ServerPlan: a key is read as
what --set and the file give it (`GetIsGiven`), a start that is prepared has read each of its settings so (`StartsAsSet`)
and depends on no secret without a remote listener (`LocalStartsReadNoSecrets`); what `secure --check` passed and was
recorded reads back the same, the other keys being untouched (`CheckedIsAcceptedThen`); and the fold over the
arguments is taken step by step (`TakingSteps`) to show that --set stays given (`SetIsGiven`).

Model-checked only: the findings, and all liveness, the fairness of `ImplementsKeyedVectors` included; every safety invariant
and every safety action property of a passing run has its theorem. Liveness under fairness is out of the prover's reach; so are
the library's theorems that take an operator, and with them what `SelectSeq` and `SortSeq` compute. No module declares a RECURSIVE operator: a loop is a fold or
a recursive function.

## Findings

1. A waiter that disconnects is counted as connected by `status` for good
   (`hub_ghost_waiter`).
2. A job whose deadline passes while its batch waits for the breaker or a stream slot is
   dispatched (`dispatcher_late`), where `Job`'s doc has it dropped.
3. A daemon that starts takes a refused `connect` for a stale socket and removes whatever the
   path names by then. Another start's socket refuses between `bind(2)` and `listen(2)`, and a stale one
   may have been replaced meanwhile; its daemon then goes on serving where no client finds it
   (`endpoint_theft`, with no crash needed). Everything the `endpoint` run and the proofs say of
   reachability and of mail is up to this one step (`stolen`), which is thus the only way to lose them.

## Observations

What came up while the code was modelled, and is built into the models as the code has it. None is
a run of its own.

Breaker and hub
- A success admitted before the breaker opened closes it inside its cooldown
  (m3-resilience/src/lib.rs:189), where the doc of `BreakerState::Open` (:15) has it refuse.
- With two connections of one reader set `Timeout` can come early and after a ring (hub.rs:258),
  where `Wake::Timeout` (:66) is documented as nothing having arrived. m3-wait waits again.
- With two such connections one may take the ring the other is sleeping a window for; the other
  then takes the next ring at the end of its old window, inside the new ring's own (hub.rs:243),
  where the doc of the module (:12) has a burst make one wake. Hence the hypothesis of `BurstIsOneMail`.

Endpoint
- Two daemons that somebody keeps starting can keep each other from serving with no crash at all: one has bound
  and does not listen yet, the other is refused and removes its file, the first fails at `set_permissions` and
  goes down, and so on in turn (ipc.rs:45-82). Each round takes a start that comes between two system calls
  of the other, so it will not last in practice, but nothing in the code ends it. `AlwaysServedAgain` says that
  it is the only way: a daemon serves at the path again and again, or starts remove other starts' sockets
  for ever. A daemon that shuts down after its socket was taken removes its successor's (ipc.rs:109).

Pool
- A failure to initialise llama.cpp is cached for the process; a failed load's threads are told to
  end and joined by nobody. A call holds the pool's `Arc`, so "shut down" is an error nobody gets.
- The comment of `embed_on_ctx` has a long text decoded alone; it joins the chunk before it
  if it fits. `plan_windows` can return a window that lies within the previous one.

Scores
- At a search's cut, ties keep the larger key, while the output orders ties by the
  smaller. A key given twice in `allowed` is found twice.
- `rank_hybrid` is documented to answer "in original index order"; it answers in selection order.
- A negative raw score is raised by the penalty on short contents. Which source a fused
  row names is left to the sort where both contribute the same. Sorting by a comparison in which NaN
  equals all is no total order.
- Routing: "recency cues dominate", but a semantic 4.1, or a lexical tie at 3.0, beats a temporal 3.0.
- A retry's factor stops at 2^31: the "exponential" delay of a tiny base stays below its maximum from the 32nd
  attempt on without doubling (`DelaysGrow` claims it up to there).
- Governor: within 30 seconds of a halt, a higher load gives Throttled, which restricts less;
  with the limit 100 a NaN load is not the most restricted.
- Walk: a link that reaches a directory near the maximal depth first hides what is deeper in it
  from the visit by its own path. A root that `canonicalize` fails on is not marked as walked, so a link
  back to it lists it once more, one level down.
- A custom pattern of the redactor may match the markers of earlier groups. A clone of
  `M3Error::Io` loses its errno.

Server
- launchd's plist says KeepAlive without a condition (unit_render.rs:48), so it restarts after exits 69 and 78
  too, where security.rs:44 and main.rs:287 have supervisors told not to retry. The model has it so:
  `RestartsAreOfUse` asks `SupervisorsDoNotRetry` of systemd and Windows only; as an invariant of `service`
  with `Platforms = {"launchd"}` it is violated. A missing model is a plain error, exit 1, retried by systemd every 5 s.
- `install` checks that the file resolves, not that `security::plan` admits it: a host the
  start refuses is installed. `secure --check` takes the server to listen on 127.0.0.1 whatever
  the file says.
- On Linux a restart between `install`'s look and its `daemon-reload` leaves the old binary running
  (`InstalledRuns` excepts it with `raced`). `start` of a unit that runs, or is just relaunched, skips
  the question who answered before, so a server without a pid can be taken for it. A restart
  between `/health`'s answer and the question for the main pid makes the service's own answer foreign.
- An uninstall that dies between removal and `daemon-reload` leaves systemd's cached unit, "not installed" to
  the commands. `report_serving` uses the port now in the file.
- Windows: `start` while it is starting says "already running"; `stop` while the recovery action waits
  says "already stopped", and the SCM starts it again; `stop` while the model loads is refused.
- The local listener's drain has no time limit, the TLS one's 10 s. A request the breaker refused gets 500 without
  Retry-After if the cooldown ends before the status is read.
- An absolute `M3_CONFIG_ROOT` keeps its `..`, `--config` does not. Docs of `DispatcherConfig` say that legacy
  environment names are honoured, which `config.rs` denies.
- `LatencyRing` counts a sample before it stores it, so a percentile can read a slot not yet written.

## Not modelled, and why

PROJECT.json lists every component with what is left out of it. In short:

- Out of TLC's reach: the float kernels, quantisation, the forward pass, the ONNX session, TLS and its
  handshake, what a regular expression matches.
- Reads and reports: `status`, `/metrics`, percentiles and the ring of latencies, the device
  report, conversions of the Python binding, log files and their pruning, warnings about legacy names.
- Dispatcher: `InputTooLong` without an index, which its own arm handles like any client error
  and the llama.cpp backend never answers. In the service the server's own degraded health is left out, and systemd that
  does not answer, and lingering. `carets_to_toml` in m3-config rewrites quotes: a text `--set`
  parses or it does not.
- Endpoint: the named pipe of Windows, connections of other users, m3-wait without CMD.
  A wake that nobody acts on (CMD fails, or m3-wait's parent dies with the wake in transit) is
  lost by design, the cursor having moved: `dropped` marks it, and the properties promise
  nothing more until CMD next reads the store.

## Plan

1. *Abstract specifications*: a breaker that is a counter and a permission, implemented
   by SharedBreaker; a queue that answers each job once, implemented by
   Dispatcher; the three states of a reader set that Endpoint uses, implemented by Hub.
