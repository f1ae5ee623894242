----------------------------- MODULE Decisions -----------------------------
(***************************************************************************)
(* The core's small decisions: pacing (m3-governor), query routing         *)
(* (m3-route), retry delays and rounding (m3-resilience), and the Python   *)
(* exception each error becomes (m3-error, m3-core-py).  Scores are in     *)
(* tenths, loads in percent.                                               *)
(***************************************************************************)
EXTENDS Ranking

CONSTANT MaxDuration

Clamp(v, lo, hi) == Max({lo, Min({v, hi})})

-----------------------------------------------------------------------------
(* Governor                                                                *)

GovernorConfig(initial, limit) ==
  LET i == Clamp(initial, 10, 99)
      l == Clamp(limit, 20, 100)
  IN  [limit |-> l, initial |-> IF i >= l /\ l # 100 THEN l - 5 ELSE i]

Absent == -1      \* no background_delay in the dictionary
Pacing(mode, background, interactive) ==
  [mode |-> mode, backgroundDelay |-> background, interactiveDelay |-> interactive]

\* A reading that is no number counts as the worst; delays in tenths of a second.
ReadingMutZero(v, worst) == IF v = NaN THEN 0 ELSE v
Reading(v, worst) == IF v = NaN THEN worst ELSE v
DecidePacing(g, load, elapsed) ==
  LET l == Reading(load, 100)
      e == Reading(elapsed, 0)
  IN  CASE g.limit # 100 /\ l >= g.limit                    -> Pacing("HALTED", Absent, 300)
        [] ~(g.limit # 100 /\ l >= g.limit) /\ l >= g.initial -> Pacing("THROTTLED", 100, 0)
        [] OTHER -> IF e < 30 THEN Pacing("HALTED", Absent, 0)
                    ELSE IF e < 60 THEN Pacing("TAPERED", 50, 0)
                    ELSE Pacing("CONTINUOUS", 1, 0)

Restraint(mode) == CASE mode = "HALTED" -> 3 [] mode = "THROTTLED" -> 2
                     [] mode = "TAPERED" -> 1 [] mode = "CONTINUOUS" -> 0

\* For every pair of thresholds: throttling begins below halting; past the
\* first half minute a higher load never gets more background work, at no load
\* does a later time get less, and an unreadable load never gets a free run.
PacingIsOrdered(g, loads, times) ==
  LET mode(l, e) == Restraint(DecidePacing(g, l, e).mode)
  IN  /\ g.initial < g.limit
      /\ \A l, m \in loads, e \in times : l <= m /\ e >= 30 => mode(l, e) <= mode(m, e)
      /\ \A l \in loads, e, f \in times : e <= f => mode(l, f) <= mode(l, e)
      /\ \A l \in loads, e \in times : mode(NaN, e) >= 2 /\ mode(l, NaN) >= mode(l, e)

-----------------------------------------------------------------------------
(* Routing                                                                 *)

Branches == <<"entity", "lexical", "semantic", "temporal">>
If(cond, points) == IF cond THEN points ELSE 0

Recalling == {"recall", "remember"}
Explaining == {"compare", "explain", "define", "summarize", "summarise"}

\* What the caller says of a query.
IsSignals(s) ==
  /\ s.tokens \in Int /\ s.entity \in BOOLEAN /\ s.recency \in BOOLEAN /\ s.question \in BOOLEAN

\* The four scores, in the order of Branches; NoIntent is no intent marker.
NoIntent == ""
RouteScores(s) ==
  << If(s.entity, 30),
     If(s.tokens <= 3, 20) + If(~s.question, 10),
     If(s.question, 20) + If(s.tokens >= 6, 20) + 1
       + If(s.intent \in Explaining, 15)
       + If(s.intent \notin Explaining \cup Recalling \cup {NoIntent}, 5),
     If(s.recency, 30) + If(s.intent \in Recalling, 10) >>

\* Only a strictly greater score takes the lead: ties go to the first name.
Leads(scores, best, i) == IF scores[i] > scores[best] THEN i ELSE best
Leader(scores) == FoldLeft(LAMBDA best, i : Leads(scores, best, i), 1, <<2, 3, 4>>)
DecideRoute(s) ==
  LET scores == RouteScores(s)
      best   == Leader(scores)
  IN  [branch |-> Branches[best], best |-> scores[best],
       total |-> scores[1] + scores[2] + scores[3] + scores[4]]

\* The branch has the best score, and of several the first by name; a bare
\* recency or entity cue on a short non-question never loses to semantic.
RouteIsBest(s) ==
  LET scores == RouteScores(s)
      r      == DecideRoute(s)
      b      == CHOOSE i \in 1..4 : Branches[i] = r.branch
  IN  /\ \A i \in 1..4 : scores[i] < scores[b] \/ (scores[i] = scores[b] /\ i >= b)
      /\ r.total > 0 /\ r.best <= r.total
      /\ (s.recency \/ s.entity) /\ ~s.question /\ s.tokens < 6 => r.branch # "semantic"

-----------------------------------------------------------------------------
(* Retries and waits                                                       *)

\* base * 2^(attempt-1), saturating in both steps, no more than the maximum.
Shift(attempt) == Min({Max({attempt - 1, 0}), 31})
SaturatingMul(d, k) == IF d > MaxDuration \div k THEN MaxDuration ELSE d * k
Scaled(base) ==
  LET k[n \in 0..31] == IF n = 0 THEN base ELSE SaturatingMul(k[n - 1], 2) IN k
DelayForAttempt(base, most, attempt) == Min({Scaled(base)[Shift(attempt)], most})

\* A retry's delay never shrinks or passes the maximum, and doubles until it
\* does or the factor is at its greatest, 2^31.
DelaysGrow(base, most, attempts) ==
  \A a \in 1..attempts :
    LET d == DelayForAttempt(base, most, a)
        e == DelayForAttempt(base, most, a + 1)
    IN  /\ d <= e /\ e <= most
        /\ DelayForAttempt(base, most, 0) = DelayForAttempt(base, most, 1)
        /\ a <= 31 /\ e < most => e = 2 * d
        /\ a = 1 => d = Min({base, most})

-----------------------------------------------------------------------------
(* Errors                                                                  *)

\* Each kind of error, its Python class and the builtin that is its base.
Exceptions ==
  { [kind |-> "InputTooLong", class |-> "InputTooLong", builtin |-> "ValueError"],
    [kind |-> "VectorDimMismatch", class |-> "VectorDimMismatch", builtin |-> "ValueError"],
    [kind |-> "Config", class |-> "ConfigError", builtin |-> "ValueError"],
    [kind |-> "Backend", class |-> "BackendError", builtin |-> "OSError"],
    [kind |-> "Io", class |-> "IoError", builtin |-> "OSError"],
    [kind |-> "DatabaseLocked", class |-> "DatabaseLockedError", builtin |-> "OSError"],
    [kind |-> "Parity", class |-> "ParityError", builtin |-> "ValueError"],
    [kind |-> "Other", class |-> "M3ValueError", builtin |-> "ValueError"] }

\* One error handed to several waiters keeps everything but an errno.
CloneError(e) == IF e.kind = "Io" THEN [e EXCEPT !.errno = Absent] ELSE e
ToPyErr(e) == LET x == CHOOSE x \in Exceptions : x.kind = e.kind
              IN  [class |-> x.class, builtin |-> x.builtin, fields |-> e.fields, errno |-> e.errno]

=============================================================================
