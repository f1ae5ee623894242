--------------------------- MODULE SharedBreaker ---------------------------
(***************************************************************************)
(* m3-dispatcher's async face of the breaker: a tokio Mutex around the     *)
(* breaker of m3-resilience, and state_fast, a copy of its recorded phase  *)
(* that callers read without the lock.  Callers are the tasks of the       *)
(* dispatcher: one on the bulk path asks once (check), one on the          *)
(* coalesced path asks twice, without claiming in front of the queue       *)
(* (peek) and then at its end (check).                                     *)
(***************************************************************************)
EXTENDS Breaker

CONSTANTS
  Callers,   \* tasks that call the backend through the breaker
  Nobody     \* the mutex is free

ASSUME CallersAssumption == Nobody \notin Callers

VARIABLES
  core,        \* the breaker under the mutex
  state_fast,  \* the published copy of core.phase
  holder,      \* who holds the mutex
  caller,      \* per caller: where it is and what it was granted
  calm         \* from now on the backend answers and nobody cancels

sharedVars == <<core, state_fast, holder, caller, calm>>

\* Where a caller is: outside; about to read state_fast; waiting for the mutex
\* to ask; in its backend call; waiting for the mutex to report success or
\* failure; holding the mutex, about to publish.
CallerPlaces == {"idle", "load", "lock", "run", "ok", "err", "publish"}

\* ask: how it asks, claiming the probe or not.  next: where it goes after
\* publishing.  role, age: whether it was let through as the half-open probe,
\* and how long ago.
Asks == {"check", "peek"}

CallerStates ==
  [at : CallerPlaces, ask : Asks, next : {"idle", "load", "run"}, role : {"plain", "probe"}, age : 0 .. Cooldown]

Idle == [at |-> "idle", ask |-> "check", next |-> "idle", role |-> "plain", age |-> 0]

\* c was let through as the half-open probe and has not reported.
Probes(c) == caller[c].role = "probe"

\* Admission answered Ok: the bulk path and the queue's consumer call the
\* backend, an early peek only joins the queue, whose consumer asks again.
Onward(c) == IF caller[c].ask = "check" THEN "run" ELSE "load"

Move(c, s) == caller' = [caller EXCEPT ![c] = s]

SharedInit ==
  /\ core = NewBreaker
  /\ state_fast = "closed"
  /\ holder = Nobody
  /\ caller = [c \in Callers |-> Idle]
  /\ calm = FALSE

----------------------------------------------------------------------------
(* One caller. *)

\* run_direct starts with check, embed_inner with peek.
Start(c, ask) ==
  /\ caller[c].at = "idle"
  /\ Move(c, [Idle EXCEPT !.at = "load", !.ask = ask])
  /\ UNCHANGED <<core, state_fast, holder, calm>>

\* gate, first lines: closed is answered from the flag alone.
Load(c) ==
  /\ caller[c].at = "load"
  /\ IF state_fast = "closed"
     THEN Move(c, [caller[c] EXCEPT !.at = Onward(c), !.ask = "check"])
     ELSE Move(c, [caller[c] EXCEPT !.at = "lock"])
  /\ UNCHANGED <<core, state_fast, holder, calm>>

\* A bug the properties must catch: every ask claims, the early peek too.
AskedMutPeekClaims(b, ask) == Admit(b)

\* check claims through admit, peek only looks.
Asked(b, ask) == IF ask = "check" THEN Admit(b) ELSE b

\* A claim on a tripped breaker makes the caller its half-open probe.
RoleGranted(c) ==
  IF caller[c].ask = "check" /\ core.phase # "closed" THEN "probe" ELSE "plain"

\* gate under the mutex.  A refusal returns to the caller once published.
Gate(c) ==
  /\ caller[c].at = "lock"
  /\ holder = Nobody
  /\ holder' = c
  /\ core' = Asked(core, caller[c].ask)
  /\ IF Allowed(core)
     THEN Move(c, [at |-> "publish", ask |-> "check", next |-> Onward(c),
                   role |-> RoleGranted(c), age |-> 0])
     ELSE Move(c, [caller[c] EXCEPT !.at = "publish", !.next = "idle"])
  /\ UNCHANGED <<state_fast, calm>>

\* A bug the properties must catch: the flag is published after a report only,
\* not after a claim.
PublishedMutStale(c) == IF caller[c].next = "run" THEN state_fast ELSE core.phase

Published(c) == core.phase

\* publish, still under the mutex, then its release.
Publish(c) ==
  /\ caller[c].at = "publish"
  /\ state_fast' = Published(c)
  /\ holder' = Nobody
  /\ IF caller[c].next = "idle"
     THEN Move(c, Idle)
     ELSE Move(c, [caller[c] EXCEPT !.at = caller[c].next])
  /\ UNCHANGED <<core, calm>>

\* The backend answers.  A client error records nothing.
Answer(c, at) ==
  /\ caller[c].at = "run"
  /\ at \in {"ok", "err", "idle"}
  /\ calm => at = "ok"
  /\ Move(c, IF at = "idle" THEN Idle ELSE [caller[c] EXCEPT !.at = at])
  /\ UNCHANGED <<core, state_fast, holder, calm>>

\* record_success and record_failure_because, under the mutex.
Report(c) ==
  /\ caller[c].at \in {"ok", "err"}
  /\ holder = Nobody
  /\ holder' = c
  /\ core' = IF caller[c].at = "ok" THEN RecordSuccess(core) ELSE RecordFailure(core)
  /\ Move(c, [caller[c] EXCEPT !.at = "publish", !.next = "idle", !.role = "plain"])
  /\ UNCHANGED <<state_fast, calm>>

\* The caller's future is dropped at an await: the mutex, the backend call or
\* the slot in front of it.  What it claimed is never reported.
Cancel(c) ==
  /\ ~ calm
  /\ caller[c].at \in {"lock", "run", "ok", "err"}
  /\ Move(c, Idle)
  /\ UNCHANGED <<core, state_fast, holder, calm>>

----------------------------------------------------------------------------
(* The world. *)

TimePasses ==
  /\ core' = Older(core)
  /\ caller' = [c \in Callers |->
                  [caller[c] EXCEPT !.age = IF Probes(c) THEN OlderAge(@) ELSE @]]
  /\ UNCHANGED <<state_fast, holder, calm>>

\* The backend has healed and callers stay.
Heal ==
  /\ ~ calm
  /\ calm' = TRUE
  /\ UNCHANGED <<core, state_fast, holder, caller>>

SharedNext ==
  \/ \E c \in Callers, ask \in Asks : Start(c, ask)
  \/ \E c \in Callers : Load(c)
  \/ \E c \in Callers : Gate(c)
  \/ \E c \in Callers : Publish(c)
  \/ \E c \in Callers, at \in CallerPlaces : Answer(c, at)
  \/ \E c \in Callers : Report(c)
  \/ \E c \in Callers : Cancel(c)
  \/ TimePasses
  \/ Heal

SharedSpec == SharedInit /\ [][SharedNext]_sharedVars

\* Tasks are polled until they finish and time passes; the tokio Mutex serves
\* its waiters in order, so a waiter gets it although others come and go.
\* Some caller keeps coming.
FairSharedSpec ==
  /\ SharedSpec
  /\ WF_sharedVars(TimePasses)
  /\ \A c \in Callers :
       /\ WF_sharedVars(\E ask \in Asks : Start(c, ask))
       /\ WF_sharedVars(Load(c))
       /\ WF_sharedVars(Publish(c))
       /\ WF_sharedVars(Answer(c, "ok"))
       /\ SF_sharedVars(Gate(c))
       /\ SF_sharedVars(Report(c))

----------------------------------------------------------------------------
(* Properties. *)

SharedTypeOK ==
  /\ core \in Breakers
  /\ state_fast \in Phases
  /\ holder \in Callers \cup {Nobody}
  /\ caller \in [Callers -> CallerStates]
  /\ calm \in BOOLEAN

\* At most one probe that is not yet presumed lost (admit_at's HalfOpen(now)):
\* of two callers let through as probes, one has been out for a whole cooldown.
AtMostOneLiveProbe ==
  \A c, d \in Callers :
    /\ c # d
    /\ Probes(c) /\ caller[c].age < Cooldown
    => ~ (Probes(d) /\ caller[d].age < Cooldown)

\* The breaker is out of Closed only on Threshold failures with no success
\* between them and now, whatever late reports of older calls did meanwhile.
TrippedMeansThreshold == core.phase # "closed" => core.failures >= Threshold

\* Whenever the mutex is free the lock-free flag tells the recorded phase, so
\* a caller that skips the lock sees every transition that has completed.
FlagTellsThePhase == holder = Nobody => state_fast = core.phase

\* The probe is claimed only by an ask that goes on to call the backend: an
\* early peek that claimed it would see its own queue's consumer refused.
OnlyACallClaims ==
  [][\A c \in Callers :
       (holder = Nobody /\ holder' = c /\ core'.phase = "half_open" /\ core' # core)
         => caller'[c].next = "run"]_sharedVars

\* Once the backend answers and callers stay, the breaker closes for good,
\* whatever probes were lost and whatever late failures are still to report.
Recovers == calm ~> [](core.phase = "closed")
============================================================================
