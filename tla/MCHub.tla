------------------------------- MODULE MCHub -------------------------------
(* Small instances of the doorbell. *)
EXTENDS Hub

CONSTANTS w1, w2

A == <<"a">>
A1 == <<"a", "1">>
B == <<"b">>

\* A ring for one instance, and one for another agent and the whole type.
MCBatches == {<<A1>>, <<B, A>>}

MCOneBatch == {<<A1>>}

\* One waiter fans out over a type; the other is one of its instances and
\* another agent.
MCReadersOf == [w \in {w1, w2} |-> IF w = w1 THEN {A} ELSE {A1, B}]

\* Two connections of the same waiter.
MCSharedReaders == [w \in {w1, w2} |-> {A}]
============================================================================
