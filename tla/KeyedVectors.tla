---------------------------- MODULE KeyedVectors ----------------------------
(***************************************************************************)
(* What the vector index promises the Python threads that share it: a map  *)
(* of keys to (quantised) vectors on which every call takes effect at one  *)
(* moment between its start and its return, and a call that is refused has *)
(* no effect.                                                              *)
(***************************************************************************)
EXTENDS Integers, FiniteSets, SequencesExt

CONSTANTS Threads, Calls, Approx, BadVectors

VARIABLES map,    \* key -> approximate score of its vector
          phase   \* phase[t]: "idle", a call under way, or its answer

kvVars == <<map, phase>>

Init == map = <<>> /\ phase = [t \in Threads |-> [at |-> "idle"]]

Start(t, c) == /\ phase[t].at = "idle"
               /\ phase' = [phase EXCEPT ![t] = [at |-> "called", call |-> c]]
               /\ UNCHANGED map

\* All the pairs of the call, a key's last one counting.
Written(pairs) ==
  LET keys == {pairs[i][1] : i \in DOMAIN pairs}
      last(k) == CHOOSE i \in DOMAIN pairs :
                   pairs[i][1] = k /\ \A j \in DOMAIN pairs : j > i => pairs[j][1] # k
  IN  [k \in keys \cup DOMAIN map |->
         IF k \in keys THEN Approx[pairs[last(k)][2]] ELSE map[k]]

Without(keys) == [k \in DOMAIN map \ ToSet(keys) |-> map[k]]

\* The k best of the allowed keys, best first: nothing left out beats what is in.
\* To a query of zeros none is near.
IsBest(hits, k, allowed) ==
  LET candidates == {x \in DOMAIN map : allowed # {} => \E keys \in allowed : x \in ToSet(keys)}
      found == {hits[i].key : i \in DOMAIN hits}
  IN  /\ Len(hits) = IF Cardinality(candidates) < k THEN Cardinality(candidates) ELSE k
      /\ Cardinality(found) = Len(hits) /\ found \subseteq candidates
      /\ \A i \in DOMAIN hits : hits[i].score = map[hits[i].key]
      /\ \A i, j \in DOMAIN hits : i < j => hits[i].score >= hits[j].score
      /\ \A x \in candidates \ found, i \in DOMAIN hits : hits[i].score >= map[x]

Answer(t, a) == phase' = [phase EXCEPT ![t] = [at |-> "answered", call |-> phase[t].call,
                                               answer |-> a]]

\* The one moment a call takes effect.
TakeEffect(t) ==
  /\ phase[t].at = "called"
  /\ LET c == phase[t].call IN
     \/ /\ c.op \in {"upsert", "search"} /\ ~c.wellFormed
        /\ Answer(t, "error") /\ UNCHANGED map
     \/ /\ c.op = "upsert" /\ c.wellFormed
        /\ IF \E i \in DOMAIN c.pairs : c.pairs[i][2] \in BadVectors
           THEN Answer(t, "error") /\ UNCHANGED map
           ELSE Answer(t, "ok") /\ map' = Written(c.pairs)
     \/ /\ c.op = "remove" /\ map' = Without(c.keys)
        /\ Answer(t, Cardinality(ToSet(c.keys) \cap DOMAIN map))
     \/ /\ c.op = "len" /\ UNCHANGED map /\ Answer(t, Cardinality(DOMAIN map))
     \/ /\ c.op = "search" /\ c.wellFormed /\ UNCHANGED map
        /\ phase'[t].at = "answered" /\ phase'[t].call = c
        /\ IsBest(phase'[t].answer, IF c.zero THEN 0 ELSE c.k, c.allowed)
        /\ \A u \in Threads \ {t} : phase'[u] = phase[u]

Return(t) == /\ phase[t].at = "answered" /\ UNCHANGED map
             /\ phase' = [phase EXCEPT ![t] = [at |-> "idle"]]

Next == \E t \in Threads : \/ \E c \in Calls : Start(t, c)
                           \/ TakeEffect(t) \/ Return(t)

\* Every call returns.
Returns == \A t \in Threads : phase[t].at = "called" ~> phase[t].at = "idle"

Spec == Init /\ [][Next]_kvVars /\ Returns

=============================================================================
