---------------------------- MODULE RejectionLog ----------------------------
(***************************************************************************)
(* warn_rejected of the embed server: rejected requests are warned of at   *)
(* most once in ten seconds, and the ones in between are counted into the  *)
(* next warning, with two atomic words and no lock.  Each action is one    *)
(* atomic access.  The clock is the system's: it may say anything.         *)
(***************************************************************************)
EXTENDS Naturals, FiniteSets

CONSTANTS Rejections,      \* each rejected once
          WarnEvery,     \* REJECT_WARN_EVERY_S
          MaxNow         \* bound on the clock

ASSUME RejectionAssumption ==
  /\ IsFiniteSet(Rejections)
  /\ WarnEvery \in Nat \ {0} /\ MaxNow \in Nat

VARIABLES lastWarn,      \* LAST_REJECT_WARN_S
          unreported,    \* REJECTS_UNREPORTED
          rejected,      \* per request: where it is, what it read, how many it reported
          warnings       \* the times of the warnings

logVars == <<lastWarn, unreported, rejected, warnings>>

LogInit ==
  /\ lastWarn = 0 /\ unreported = 0 /\ warnings = {}
  /\ rejected = [r \in Rejections |-> [at |-> "read", now |-> 0, last |-> 0, told |-> 0]]

SinceWarning(now, last) == IF now >= last THEN now - last ELSE 0

\* The clock, then the last warning's time.
ReadLast(r) ==
  /\ rejected[r].at = "read"
  /\ \E now \in 0..MaxNow :
       rejected' = [rejected EXCEPT ![r] =
                      [at |-> IF SinceWarning(now, lastWarn) >= WarnEvery THEN "claim" ELSE "count",
                       now |-> now, last |-> lastWarn, told |-> 0]]
  /\ UNCHANGED <<lastWarn, unreported, warnings>>

\* compare_exchange: of those who read the same time, one warns.
ClaimWarning(r) ==
  /\ rejected[r].at = "claim"
  /\ IF lastWarn = rejected[r].last
     THEN /\ lastWarn' = rejected[r].now
          /\ warnings' = warnings \cup {rejected[r].now}
          /\ rejected' = [rejected EXCEPT ![r].at = "warn"]
     ELSE /\ rejected' = [rejected EXCEPT ![r].at = "count"]
          /\ UNCHANGED <<lastWarn, warnings>>
  /\ UNCHANGED unreported

\* swap(0): this one, and the quiet ones before it.
Warn(r) ==
  /\ rejected[r].at = "warn"
  /\ rejected' = [rejected EXCEPT ![r].at = "done", ![r].told = unreported + 1]
  /\ unreported' = 0
  /\ UNCHANGED <<lastWarn, warnings>>

\* fetch_add.
CountQuietly(r) ==
  /\ rejected[r].at = "count"
  /\ rejected' = [rejected EXCEPT ![r].at = "done"]
  /\ unreported' = unreported + 1
  /\ UNCHANGED <<lastWarn, warnings>>

LogNext == \E r \in Rejections : ReadLast(r) \/ ClaimWarning(r) \/ Warn(r) \/ CountQuietly(r)
=============================================================================
