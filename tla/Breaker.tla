------------------------------ MODULE Breaker ------------------------------
(***************************************************************************)
(* The circuit breaker of m3-resilience: one record and its transitions.   *)
(*                                                                         *)
(* A breaker is [failures, phase, age].  The code keeps the instant of the *)
(* last transition (Phase::Open(t), Phase::HalfOpen(t)) and compares it    *)
(* with Instant::now(); here the instant is kept as its age, which Older   *)
(* advances and which stops mattering, so stops counting, at Cooldown.     *)
(* last_error is left out: it is the text of refusals only.                *)
(***************************************************************************)
EXTENDS Naturals

CONSTANTS
  Threshold,   \* failures that open the breaker
  Cooldown,    \* time units the breaker stays open
  MaxCount     \* usize::MAX, where consecutive_failures saturates

\* CircuitBreaker::new raises a threshold of 0 to 1, and both are usize.
ASSUME BreakerAssumption ==
  /\ Threshold \in Nat \ {0}
  /\ Cooldown \in Nat
  /\ MaxCount \in Nat
  /\ Threshold <= MaxCount

Phases == {"closed", "open", "half_open"}

Breakers == [failures : 0 .. MaxCount, phase : Phases, age : 0 .. Cooldown]

NewBreaker == [failures |-> 0, phase |-> "closed", age |-> 0]

\* Time passes: an age grows until it reaches the cooldown.
OlderAge(age) == IF age < Cooldown THEN age + 1 ELSE age

Older(b) == [b EXCEPT !.age = OlderAge(@)]

----------------------------------------------------------------------------
(* Asking. *)

\* A bug the properties must catch: an outstanding probe is never presumed lost.
ElapsedMutNoPresumption(b) == b.phase = "open" /\ b.age >= Cooldown

\* A bug the properties must catch: a half-open breaker lets every call through.
ElapsedMutHalfOpenPasses(b) == b.phase = "half_open" \/ b.age >= Cooldown

\* gate: nothing is left of the cooldown.  The same for an open breaker and
\* for an outstanding probe, which is presumed lost when it elapses.
Elapsed(b) == b.age >= Cooldown

\* check_at: may a call go through now?
Allowed(b) == b.phase = "closed" \/ Elapsed(b)

\* status_at: refusals are being answered.
ReadsOpen(b) == ~ Allowed(b)

----------------------------------------------------------------------------
(* Transitions. *)

\* admit_at: past the cooldown the caller becomes the half-open probe.
Admit(b) ==
  IF Allowed(b) /\ b.phase # "closed"
  THEN [b EXCEPT !.phase = "half_open", !.age = 0]
  ELSE b

\* A bug the properties must catch: a success resets the count, not the phase.
RecordSuccessMutKeepsPhase(b) == [b EXCEPT !.failures = 0]

\* record_success: whatever the phase was.
RecordSuccess(b) == NewBreaker

\* A bug the properties must catch: the count does not saturate.
RecordFailureMutNoSaturation(b) ==
  IF b.failures + 1 >= Threshold \/ b.phase = "half_open"
  THEN [failures |-> b.failures + 1, phase |-> "open", age |-> 0]
  ELSE [b EXCEPT !.failures = @ + 1]

\* record_failure_at: counted whatever the phase, so a late failure of a call
\* admitted before the opening restarts the cooldown.
RecordFailure(b) ==
  LET n == IF b.failures < MaxCount THEN b.failures + 1 ELSE b.failures
  IN  IF n >= Threshold \/ b.phase = "half_open"
      THEN [failures |-> n, phase |-> "open", age |-> 0]
      ELSE [b EXCEPT !.failures = n]
============================================================================
