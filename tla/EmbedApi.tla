------------------------------ MODULE EmbedApi ------------------------------
(***************************************************************************)
(* The embed server's HTTP interface: what each route answers, the token   *)
(* check in front of the remote listener, and the replies the circuit      *)
(* breaker shapes.  A failed embedding has its failure recorded and the    *)
(* breaker's status read in two steps, under two acquisitions of its lock; *)
(* other requests come between them.                                       *)
(*                                                                         *)
(* A request is [path, remote, header, digest, body, tokenizer].  The      *)
(* inside of embed_batch (queue, batches, slots) is Dispatcher's and       *)
(* SharedBreaker's subject: here it is admission, then its result.         *)
(***************************************************************************)
EXTENDS ServerPlan, Breaker

CONSTANTS Clients,       \* one request at a time each
          ApiRequests,   \* what they can send
          Second         \* ticks of the clock in a second

ASSUME ApiAssumption == Second \in Nat \ {0}

VARIABLES breaker,       \* the dispatcher's
          client         \* per client: where its request is and what it was answered

apiVars == <<breaker, client>>

\* at: idle, admit (in front of the breaker), run, failed.  said: the
\* Retry-After, in seconds.  left: ticks until it is over.  moved: since the
\* reply, a caller has claimed the probe or has failed.
NoReply == [at |-> "idle", status |-> 0, said |-> 0, left |-> 0, moved |-> FALSE]

ApiInit == breaker = NewBreaker /\ client = [c \in Clients |-> NoReply]

\* What a step makes of client c, while the breaker did or did not move on
\* under the others.
Becomes(c, s, moves) ==
  client' = [d \in Clients |-> IF d = c THEN s ELSE [client[d] EXCEPT !.moved = @ \/ (moves /\ client[d].status = 503)]]
Arrive(c, at)    == Becomes(c, [NoReply EXCEPT !.at = at], FALSE)
Reply(c, status) == Becomes(c, [NoReply EXCEPT !.status = status], FALSE)

-----------------------------------------------------------------------------
(* Replies                                                                 *)

\* ceil_secs.
CeilSecs(left) == (left \div Second) + (IF left % Second > 0 THEN 1 ELSE 0)

\* backend_failure_reply, health_reply: 503 and the wait while calls are refused.
Refuse(c) ==
  LET said == CeilSecs(Cooldown - breaker.age)
  IN  Becomes(c, [NoReply EXCEPT !.status = 503, !.said = said, !.left = said * Second], FALSE)

\* ApiJson, then texts_from.
BodyStatus(body) ==
  CASE body = "too_large"   -> 413
    [] body = "not_json"    -> 400
    [] body = "wrong_type"  -> 422
    [] body = "not_strings" -> 400
    [] OTHER -> 200

\* tokenize_outcome: only a Config error is the caller's.
TokenizeStatus(outcome) == CASE outcome = "ok" -> 200 [] outcome = "config" -> 400 [] OTHER -> 500

\* require_bearer (remote), then the route, then its body.
Receive(c, r) ==
  /\ client[c].at = "idle"
  /\ CASE r.remote /\ ~RequireBearer(r.path, r.header, r.digest) -> Reply(c, 401)
       [] r.path = "/health" -> IF ReadsOpen(breaker) THEN Refuse(c) ELSE Reply(c, 200)
       [] r.path = "/metrics" /\ (r.remote => RequireBearer(r.path, r.header, r.digest)) -> Reply(c, 200)
       [] OTHER -> CASE BodyStatus(r.body) # 200 -> Reply(c, BodyStatus(r.body))
                     [] BodyStatus(r.body) = 200 /\ r.path = "/tokenize" -> Reply(c, TokenizeStatus(r.tokenizer))
                     [] OTHER -> IF r.body = "no_texts" THEN Reply(c, 400) ELSE Arrive(c, "admit")
  /\ UNCHANGED breaker

\* embed_batch: the breaker lets it through, or it fails; so does a text that
\* finds the queue full or waits there past its deadline, before the breaker.
AskBreaker(c) ==
  /\ client[c].at = "admit"
  /\ \/ /\ breaker' = Admit(breaker)
        /\ Becomes(c, [NoReply EXCEPT !.at = IF Allowed(breaker) THEN "run" ELSE "failed"], breaker' # breaker)
     \/ /\ breaker' = breaker
        /\ Becomes(c, [NoReply EXCEPT !.at = "failed"], FALSE)

\* The backend answers; a text longer than the model's context says nothing of
\* the backend's health.
EmbedResult(c) ==
  /\ client[c].at = "run"
  /\ \/ breaker' = RecordSuccess(breaker) /\ Reply(c, 200)
     \/ breaker' = breaker /\ Reply(c, 413)
     \/ breaker' = RecordFailure(breaker) /\ Becomes(c, [NoReply EXCEPT !.at = "failed"], TRUE)

\* backend_failure: the status is read afterwards.
BackendFailure(c) ==
  /\ client[c].at = "failed"
  /\ IF ReadsOpen(breaker) THEN Refuse(c) ELSE Reply(c, 500)
  /\ UNCHANGED breaker

\* Time passes for the breaker and for those told to wait.
Tick ==
  /\ breaker' = Older(breaker)
  /\ client' = [c \in Clients |-> [client[c] EXCEPT !.left = IF @ > 0 THEN @ - 1 ELSE 0]]

ApiNext ==
  \/ \E c \in Clients, r \in ApiRequests : Receive(c, r)
  \/ \E c \in Clients : AskBreaker(c) \/ EmbedResult(c) \/ BackendFailure(c)
  \/ Tick
=============================================================================
