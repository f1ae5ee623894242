---------------------------- MODULE MCDispatcher ----------------------------
(* Small instances of Dispatcher. *)
EXTENDS Dispatcher

CONSTANTS ja, jb, jc, jd

\* jb and jc fit a batch of 2 tokens together, jd only alone, and ja is over it.
MCTokenLen == [j \in Jobs |-> CASE j = ja -> 3 [] j = jd -> 2 [] OTHER -> 1]

\* ja has a bucket of its own.
MCBuckets == <<2, 3>>
=============================================================================
