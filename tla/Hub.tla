-------------------------------- MODULE Hub --------------------------------
(***************************************************************************)
(* The doorbell of m3-dispatchd, hub.rs: writers ring recipients, waiters  *)
(* wait for their readers.  A log of rings, one cursor per reader set, and *)
(* a Notify that wakes who is waiting when a ring arrives.                 *)
(*                                                                         *)
(* A ring is one call of Hub::ring; a conn is one HTTP connection that     *)
(* calls Hub::wait again and again for the same readers.  Each stretch the *)
(* code runs under its mutex is one action, and so is each step between    *)
(* two of them that another thread can come between.                       *)
(* Left out: the origins of a ring (carried along with its recipient) and  *)
(* the status page's wording.                                              *)
(***************************************************************************)
EXTENDS Addressing, FiniteSetsExt

CONSTANTS
  Ringers,    \* writers that ring, each one call at a time
  Batches,    \* the recipients of one call, empty ids skipped
  Conns,      \* connections that wait
  ReadersOf,  \* the readers each connection waits for
  Timeouts,   \* how long a wait may block
  Window,     \* the coalescing window
  Keep,       \* how long a ring stays in the log
  MaxLog,     \* the most rings the log keeps
  MaxNow,     \* bound: the clock stops here
  MaxRings,   \* bound: recipients ever rung
  MaxDrops    \* bound: connections that break while waiting

\* A reader set, which is the key its cursor is kept under.
Keys == {ReadersOf[w] : w \in Conns}

Ids == UNION {{batch[i] : i \in DOMAIN batch} : batch \in Batches}

ASSUME HubAssumption ==
  /\ Batches \subseteq Seq(Ids) \ {<<>>}
  /\ Timeouts \subseteq Nat
  /\ Window \in Nat /\ Keep \in Nat /\ MaxLog \in Nat
  /\ MaxNow \in Nat /\ MaxRings \in Nat /\ MaxDrops \in Nat

VARIABLES
  now,      \* the clock
  seq,      \* rings ever logged
  log,      \* the rings kept: [seq, recipient, at]
  known,    \* reader sets that have a cursor
  cursors,  \* per reader set, the newest ring it was told of
  lost,     \* per reader set, rings trimmed before it was told
  waiting,  \* per reader set, waits in progress as status counts them
  ringing,  \* per ringer: where it is in ring, what it rings, its timestamp
  pc,       \* per connection: where it is in wait
  until,    \* per connection: its deadline and when its window ends
  notified, \* connections whose Notified future has fired
  reply,    \* per connection: what wait returns
  rung,     \* history: every recipient rung, in order
  drops     \* connections that broke so far

hubVars == <<seq, log, known, cursors, lost>>
connVars == <<waiting, pc, until, notified, reply, drops>>
vars == <<now, hubVars, ringing, connVars, rung>>

Rings == [seq : Nat, recipient : Ids, at : Nat]

\* "start": about to enable its Notified.  "check" to "park": enabled.
\* "window": asleep until the window ends.  "leave": about to decrement
\* waiting.  "done": returned before it was ever counted in waiting.
Places == {"away", "start", "check", "match", "decide", "park", "window", "take", "leave", "done"}

Resync == [wake |-> "resync"]
Timeout == [wake |-> "timeout"]
Mail(count, recipients) == [wake |-> "mail", count |-> count, recipients |-> recipients]
NoReply == [wake |-> "none"]

\* A connection that is not in wait has no deadline and no window.
NoLimits == [deadline |-> 0, window |-> 0]

\* Nothing of a ringer is in progress.
Silent == [at |-> "idle", batch |-> <<>>, clock |-> 0]

\* The first match is the smallest of a nonempty set of positions.
Least(S) == CHOOSE n \in S : \A m \in S : n <= m

Init ==
  /\ now = 0
  /\ seq = 0
  /\ log = <<>>
  /\ known = {}
  /\ cursors = [k \in Keys |-> 0]
  /\ lost = [k \in Keys |-> 0]
  /\ waiting = [k \in Keys |-> 0]
  /\ ringing = [r \in Ringers |-> Silent]
  /\ pc = [w \in Conns |-> "away"]
  /\ until = [w \in Conns |-> NoLimits]
  /\ notified = {}
  /\ reply = [w \in Conns |-> NoReply]
  /\ rung = <<>>
  /\ drops = 0

----------------------------------------------------------------------------
(* ring *)

\* Recipients of calls that have begun and are not in the log yet.
InFlight == MapThenSumSet(LAMBDA r : Len(ringing[r].batch), {r \in Ringers : ringing[r].at = "lock"})

\* ring reads the clock before it takes the mutex.  Bounds: MaxRings, and the
\* clock never stops before the window of a ring has passed.
RingBegin(r, batch) ==
  /\ ringing[r].at = "idle"
  /\ seq + InFlight + Len(batch) <= MaxRings
  /\ now + Window <= MaxNow
  /\ ringing' = [ringing EXCEPT ![r] = [at |-> "lock", batch |-> batch, clock |-> now]]
  /\ UNCHANGED <<now, hubVars, connVars, rung>>

Pushed(r) ==
  [i \in 1 .. Len(ringing[r].batch) |->
     [seq |-> seq + i, recipient |-> ringing[r].batch[i], at |-> ringing[r].clock]]

\* A bug the properties must catch: only age trims the log.
TrimmedMutByAgeOnly(all, clock) ==
  Least({n \in 0 .. Len(all) : n < Len(all) => clock <= all[n + 1].at + Keep})

\* How many rings the loop pops off the front: no more than it takes to be
\* within MaxLog and to have a front no older than Keep.
Trimmed(all, clock) ==
  Least({n \in 0 .. Len(all) :
           /\ Len(all) - n <= MaxLog
           /\ n < Len(all) => clock <= all[n + 1].at + Keep})

\* A bug the properties must catch: only rings a waiter has been told of count
\* as lost to it.
LostToMutTold(k, all, n) ==
  {i \in 1 .. n : all[i].seq <= cursors[k] /\ SeenByAny(k, all[i].recipient)}

\* Popped rings that the reader set k would have seen and was not told of.
LostTo(k, all, n) ==
  {i \in 1 .. n : all[i].seq > cursors[k] /\ SeenByAny(k, all[i].recipient)}

\* Under the mutex: push every recipient, then trim.
RingLocked(r) ==
  LET all == log \o Pushed(r)
      n == Trimmed(all, ringing[r].clock)
  IN  /\ ringing[r].at = "lock"
      /\ seq' = seq + Len(ringing[r].batch)
      /\ log' = SubSeq(all, n + 1, Len(all))
      /\ lost' = [k \in Keys |->
                   IF k \in known THEN lost[k] + Cardinality(LostTo(k, all, n)) ELSE lost[k]]
      /\ rung' = rung \o ringing[r].batch
      /\ ringing' = [ringing EXCEPT ![r].at = "notify"]
      /\ UNCHANGED <<now, known, cursors, connVars>>

\* A bug the properties must catch: a Notified counts from its first poll,
\* not from enable.
EnabledMutAtFirstPoll(w) == pc[w] = "park"

\* The Notified of w is enabled and has not been dropped.
Enabled(w) == pc[w] \in {"check", "match", "decide", "park"}

\* notify_waiters, after the mutex is released.
RingNotify(r) ==
  /\ ringing[r].at = "notify"
  /\ notified' = notified \cup {w \in Conns : Enabled(w)}
  /\ ringing' = [ringing EXCEPT ![r] = Silent]
  /\ UNCHANGED <<now, hubVars, waiting, pc, until, reply, drops, rung>>

----------------------------------------------------------------------------
(* wait *)

Key(w) == ReadersOf[w]

GoTo(w, place) == pc' = [pc EXCEPT ![w] = place]

Dropped(w) == notified' = notified \ {w}

Return(w, place, wake) ==
  /\ GoTo(w, place)
  /\ reply' = [reply EXCEPT ![w] = wake]
  /\ Dropped(w)

\* A bug the properties must catch: the mark is never looked at.
MissedSomeMutIgnored(k) == FALSE

\* Rings of the reader set were trimmed before it was told of them.
MissedSome(k) == lost[k] > 0

\* resync_if_lost, when rings were lost: the cursor moves to now.
CaughtUp(k) ==
  /\ lost' = [lost EXCEPT ![k] = 0]
  /\ cursors' = [cursors EXCEPT ![k] = seq]

\* The first wait of a reader set.
WaitNew(w) ==
  /\ pc[w] = "away"
  /\ Key(w) \notin known
  /\ known' = known \cup {Key(w)}
  /\ cursors' = [cursors EXCEPT ![Key(w)] = seq]
  /\ Return(w, "done", Resync)
  /\ UNCHANGED <<now, seq, log, lost, ringing, waiting, until, rung, drops>>

\* A wait that finds rings of its readers trimmed.
WaitLost(w) ==
  /\ pc[w] = "away"
  /\ Key(w) \in known
  /\ MissedSome(Key(w))
  /\ CaughtUp(Key(w))
  /\ Return(w, "done", Resync)
  /\ UNCHANGED <<now, seq, log, known, ringing, waiting, until, rung, drops>>

\* Any other wait is counted and starts.  Bound: the clock reaches its deadline.
WaitKnown(w, timeout) ==
  /\ pc[w] = "away"
  /\ Key(w) \in known
  /\ ~ MissedSome(Key(w))
  /\ now + timeout <= MaxNow
  /\ waiting' = [waiting EXCEPT ![Key(w)] = @ + 1]
  /\ until' = [until EXCEPT ![w].deadline = now + timeout]
  /\ GoTo(w, "start")
  /\ UNCHANGED <<now, hubVars, ringing, notified, reply, rung, drops>>

\* wait_known: a new Notified, enabled before anything is looked at.
Enable(w) ==
  /\ pc[w] = "start"
  /\ GoTo(w, "check")
  /\ UNCHANGED <<now, hubVars, ringing, waiting, until, notified, reply, rung, drops>>

\* resync_if_lost in the loop.
Check(w) ==
  /\ pc[w] = "check"
  /\ IF MissedSome(Key(w))
     THEN CaughtUp(Key(w)) /\ Return(w, "leave", Resync)
     ELSE GoTo(w, "match") /\ UNCHANGED <<lost, cursors, reply, notified>>
  /\ UNCHANGED <<now, seq, log, known, ringing, waiting, until, rung, drops>>

\* A bug the properties must catch: the ring after the cursor is skipped.
MatchesMutSkipsOne(k) ==
  {i \in DOMAIN log : log[i].seq > cursors[k] + 1 /\ SeenByAny(k, log[i].recipient)}

\* The rings kept that the reader set k would see and was not told of.
Matches(k) ==
  {i \in DOMAIN log : log[i].seq > cursors[k] /\ SeenByAny(k, log[i].recipient)}

\* A bug the properties must catch: no coalescing.
ReadyMutAtOnce(k) == log[Least(Matches(k))].at

\* The window of a burst ends Window after its first ring.
Ready(k) == log[Least(Matches(k))].at + Window

\* first_match finds a ring.
FirstMatch(w) ==
  /\ pc[w] = "match"
  /\ Matches(Key(w)) # {}
  /\ IF now < Ready(Key(w))
     THEN /\ until' = [until EXCEPT ![w].window = Least({Ready(Key(w)), until[w].deadline})]
          /\ GoTo(w, "window")
     ELSE until' = until /\ GoTo(w, "take")
  /\ Dropped(w)
  /\ UNCHANGED <<now, hubVars, ringing, waiting, reply, rung, drops>>

NoMatch(w) ==
  /\ pc[w] = "match"
  /\ Matches(Key(w)) = {}
  /\ GoTo(w, "decide")
  /\ UNCHANGED <<now, hubVars, ringing, waiting, until, notified, reply, rung, drops>>

Expired(w) == now >= until[w].deadline

\* Nothing found: without the mutex, give up or poll the Notified.
Decide(w) ==
  /\ pc[w] = "decide"
  /\ IF Expired(w)
     THEN Return(w, "leave", Timeout)
     ELSE GoTo(w, "park") /\ UNCHANGED <<reply, notified>>
  /\ UNCHANGED <<now, hubVars, ringing, waiting, until, rung, drops>>

WindowEnds(w) ==
  /\ pc[w] = "window"
  /\ now >= until[w].window
  /\ until' = [until EXCEPT ![w].window = 0]
  /\ GoTo(w, "take")
  /\ UNCHANGED <<now, hubVars, ringing, waiting, notified, reply, rung, drops>>

\* take: what the log still holds for the readers, unless some was trimmed
\* while the connection slept; nothing when another connection of the same
\* readers took it meanwhile.
Take(w) ==
  LET k == Key(w)
      told == Matches(k)
      last == CHOOSE i \in told : \A j \in told : j <= i
  IN  /\ pc[w] = "take"
      /\ \/ /\ MissedSome(k)
            /\ CaughtUp(k)
            /\ Return(w, "leave", Resync)
         \/ /\ ~ MissedSome(k) /\ told = {}
            /\ Return(w, "leave", Timeout)
            /\ UNCHANGED <<cursors, lost>>
         \/ /\ ~ MissedSome(k) /\ told # {}
            /\ cursors' = [cursors EXCEPT ![k] = log[last].seq]
            /\ Return(w, "leave", Mail(Cardinality(told), {log[i].recipient : i \in told}))
            /\ UNCHANGED lost
      /\ UNCHANGED <<now, seq, log, known, ringing, waiting, until, rung, drops>>

\* select!: either branch when both are ready.
WakeUp(w) ==
  /\ pc[w] = "park"
  /\ w \in notified
  /\ GoTo(w, "start")
  /\ Dropped(w)
  /\ UNCHANGED <<now, hubVars, ringing, waiting, until, reply, rung, drops>>

\* A bug the properties must catch: a parked wait has no timer.
DeadlinePassesMutNoTimer(w) == FALSE

DeadlinePasses(w) ==
  /\ pc[w] = "park"
  /\ Expired(w)
  /\ Return(w, "leave", Timeout)
  /\ UNCHANGED <<now, hubVars, ringing, waiting, until, rung, drops>>

\* wait returned before or after it was counted in waiting.
Counted(w) == pc[w] = "leave"

\* wait returns and its reply is sent.
Leave(w) ==
  /\ pc[w] \in {"leave", "done"}
  /\ waiting' = IF Counted(w) /\ waiting[Key(w)] > 0
                THEN [waiting EXCEPT ![Key(w)] = @ - 1]
                ELSE waiting
  /\ until' = [until EXCEPT ![w] = NoLimits]
  /\ Return(w, "away", NoReply)
  /\ UNCHANGED <<now, hubVars, ringing, rung, drops>>

\* The client goes away while wait sleeps, and the server drops its future:
\* what follows the await, the discount of waiting, never runs.
Disconnect(w) ==
  /\ pc[w] \in {"window", "park"}
  /\ drops < MaxDrops
  /\ drops' = drops + 1
  /\ until' = [until EXCEPT ![w] = NoLimits]
  /\ Return(w, "away", NoReply)
  /\ UNCHANGED <<now, hubVars, ringing, waiting, rung>>

----------------------------------------------------------------------------

Tick ==
  /\ now < MaxNow
  /\ now' = now + 1
  /\ UNCHANGED <<hubVars, ringing, connVars, rung>>

Ring(r) == (\E batch \in Batches : RingBegin(r, batch)) \/ RingLocked(r) \/ RingNotify(r)

\* A wait that has begun goes on.
Proceed(w) ==
  \/ Enable(w)
  \/ Check(w)
  \/ FirstMatch(w)
  \/ NoMatch(w)
  \/ Decide(w)
  \/ WindowEnds(w)
  \/ Take(w)
  \/ WakeUp(w)
  \/ DeadlinePasses(w)
  \/ Leave(w)

Wait(w) == WaitNew(w) \/ WaitLost(w) \/ \E timeout \in Timeouts : WaitKnown(w, timeout)

Next ==
  \/ Tick
  \/ \E r \in Ringers : Ring(r)
  \/ \E w \in Conns : Wait(w) \/ Proceed(w) \/ Disconnect(w)

Spec == Init /\ [][Next]_vars

\* The runtime polls every ready task, calls of ring finish, time passes, and
\* a waiter comes back once it has handled a wake.  Nobody has to ring.
FairSpec ==
  /\ Spec
  /\ WF_vars(Tick)
  /\ \A r \in Ringers : WF_vars(RingLocked(r)) /\ WF_vars(RingNotify(r))
  /\ \A w \in Conns : WF_vars(Proceed(w)) /\ WF_vars(Wait(w))

----------------------------------------------------------------------------
(* Properties. *)

Replies ==
  [wake : {"resync", "timeout", "none"}]
    \cup [wake : {"mail"}, count : Nat \ {0}, recipients : SUBSET Ids]

TypeOK ==
  /\ now \in Nat
  /\ seq \in Nat
  /\ log \in Seq(Rings) /\ Len(log) <= MaxLog
  /\ known \subseteq Keys
  /\ cursors \in [Keys -> Nat]
  /\ lost \in [Keys -> Nat]
  /\ waiting \in [Keys -> Nat]
  /\ ringing \in [Ringers -> [at : {"idle", "lock", "notify"}, batch : Batches \cup {<<>>}, clock : Nat]]
  /\ pc \in [Conns -> Places]
  /\ until \in [Conns -> [deadline : Nat, window : Nat]]
  /\ notified \subseteq Conns
  /\ reply \in [Conns -> Replies]
  /\ rung \in Seq(Ids)
  /\ drops \in Nat

\* Rings the reader set k would have seen and has not been told of.
Untold(k) == {s \in cursors[k] + 1 .. seq : SeenByAny(k, rung[s])}

\* Nothing missed between waits: every ring a known reader set was not told of
\* is still in the log, under its number, or the set is marked to resync.
NothingMissed ==
  \A k \in known : \A s \in Untold(k) :
    \/ lost[k] > 0
    \/ \E i \in DOMAIN log : log[i].seq = s /\ log[i].recipient = rung[s]

\* A connection does not sleep on news: while it is parked and its readers
\* have untold rings, its wake-up has fired or a ringer is about to fire it.
NoLostWakeup ==
  \A w \in Conns :
    pc[w] = "park" /\ (Untold(Key(w)) # {} \/ lost[Key(w)] > 0)
      => w \in notified \/ \E r \in Ringers : ringing[r].at = "notify"

\* One outstanding wake per waiter, and an exact one: a known set's cursor moves
\* forward, in a step that answers one of its waits, and a Mail counts exactly the
\* rings between the old and the new cursor and names their recipients, however
\* the log was trimmed while the waiter slept.
MailCountsExactly ==
  [][/\ \A k \in known :
          cursors'[k] # cursors[k] =>
            /\ cursors'[k] > cursors[k]
            /\ \E w \in Conns : /\ Key(w) = k /\ pc'[w] # pc[w]
                               /\ reply'[w].wake \in {"mail", "resync"}
     /\ \A w \in Conns :
          pc[w] = "take" /\ reply'[w].wake = "mail" =>
            LET k == Key(w)
                told == {s \in cursors[k] + 1 .. cursors'[k] : SeenByAny(k, rung[s])}
            IN  /\ reply'[w].count = Cardinality(told)
                /\ reply'[w].recipients = {rung[s] : s \in told}
                /\ \A s \in cursors'[k] + 1 .. seq : ~ SeenByAny(k, rung[s])]_vars

\* One wake per burst: Mail is handed out only when the window after the first
\* ring of it has passed, or the wait is at its deadline.
MailIsCoalesced ==
  [][\A w \in Conns :
       pc[w] = "take" /\ reply'[w].wake = "mail" =>
         \/ now >= log[Least(Matches(Key(w)))].at + Window
         \/ now >= until[w].deadline]_vars

\* The waits in progress for a reader set.
Inside(k) == {w \in Conns : Key(w) = k /\ pc[w] \notin {"away", "done"}}

\* status: "whether a waiter is connected".
WaitingMeansConnected == \A k \in Keys : waiting[k] > 0 => Inside(k) # {}

\* Every ring a known reader set would see is told to it, by a Mail that counts
\* it or by a Resync, at the latest at a wait after it.
EveryRingIsTold ==
  \A k \in Keys : \A s \in 1 .. MaxRings :
    (k \in known /\ s \in Untold(k)) ~> (s <= cursors[k])

\* Every wait returns: at a wake, or at its deadline.
EveryWaitReturns ==
  \A w \in Conns : (pc[w] # "away") ~> (pc[w] = "away")
============================================================================
