------------------------- MODULE ContextPoolProofs -------------------------
(***************************************************************************)
(* Proofs about the context pool: its types, one pool, each job in one      *)
(* place, true errors, for any number of callers, workers and loads.       *)
(*                                                                         *)
(* Who holds the lock is loading and there is no pool yet (LoadLock); who  *)
(* has a handle keeps the pool's Sender (Handles); a load counts its       *)
(* workers' reports (Reports); the workers' states say where jobs are      *)
(* (Staff, Jobs); a reply says what became of the worker (Losses).         *)
(***************************************************************************)
EXTENDS ContextPool, FiniteSetTheorems, TLAPS

-----------------------------------------------------------------------------
(* The inductive invariant                                                 *)

Inside == {"look", "lock", "locked", "collect"}

LoadLock ==
  /\ \A c \in Callers : calls[c] \in {"locked", "collect"} <=> lock = c
  /\ lock # None => cached = 0
  /\ \A c \in Callers : calls[c] = "collect" => loads # 0 /\ tx[loads]
  /\ \A p \in Pools : tx[p] => p = cached \/ (p = loads /\ lock # None /\ calls[lock] = "collect")

Handles ==
  /\ \A c \in Callers : pool[c] \in {0, cached}
  /\ \A c \in Callers : calls[c] \in {"send", "wait"} => pool[c] # 0
  /\ \A c \in Callers : calls[c] \in Inside => c \in running
  /\ running # {} => backend
  /\ cached # 0 /\ Held => tx[cached]

With(p, states) == {w \in Workers : worker[p][w] \in states}
Down == \E i \in DOMAIN ready : ready[i] = "down"

\* A worker that was lost left a "down" to be read or is a report too few.
Reports ==
  \A c \in Callers : calls[c] = "collect" =>
    /\ \A w \in Workers : worker[loads][w] \in {"starting", "idle", "exited"}
    /\ collected < Streams
    /\ collected + Len(ready) + Cardinality(With(loads, {"starting"})) <= Streams
    /\ Down \/ collected + Len(ready) + Cardinality(With(loads, {"starting", "exited"})) <= Streams

Staff ==
  /\ cached # 0 => \A w \in Workers : worker[cached][w] \notin {"none", "starting"}
  /\ \A p \in Pools : p # cached => \A w \in Workers : worker[p][w] \notin {"busy", "leaving"}

Queued(c) == \E i \in DOMAIN queue : queue[i] = c

Jobs ==
  /\ cached = 0 => queue = <<>> /\ \A w \in Workers : job[w] = None
  /\ cached # 0 => \A w \in Workers : job[w] # None <=> worker[cached][w] = "busy"
  /\ \A c \in Callers : calls[c] = "wait" <=> Queued(c) \/ \E w \in Workers : job[w] = c
  /\ \A i, j \in DOMAIN queue : queue[i] = queue[j] => i = j
  /\ \A v, w \in Workers : job[v] = job[w] /\ job[v] # None => v = w
  /\ \A w \in Workers : ~Queued(job[w])

Told(answer) == {c \in Callers : calls[c] = answer}

Losses ==
  /\ Told("shut_down") = {}
  /\ cached = 0 => Told("panicked") = {}
  /\ cached # 0 /\ tx[cached] => Cardinality(Panicked) = Cardinality(Told("panicked"))
  /\ Told("no_workers") \cup Told("no_reply") # {} => cached # 0 /\ Live(cached) = {}

PoolInv == TypeOK /\ LoadLock /\ Handles /\ Reports /\ Staff /\ Jobs /\ Losses

-----------------------------------------------------------------------------
(* Types                                                                   *)

\* A worker's step changes its own state and no other's.
LEMMA MovedWorker ==
  ASSUME TypeOK, NEW p \in Pools, NEW w \in Workers, NEW from, NEW to \in Threads,
         Moved(p, w, from, to)
  PROVE  /\ worker[p][w] = from
         /\ worker' \in [Pools -> [Workers -> Threads]]
         /\ \A q \in Pools, v \in Workers :
              worker'[q][v] = IF q = p /\ v = w THEN to ELSE worker[q][v]
BY DEF TypeOK, Moved

\* Every step keeps the types; a load reads no more reports than workers.
LEMMA TypeStep == TypeOK /\ Reports /\ [Next]_vars => TypeOK'
<1> SUFFICES ASSUME TypeOK /\ Reports, [Next]_vars PROVE TypeOK'
  OBVIOUS
<1> USE PoolAssumption DEF TypeOK, Pools, Workers, loading
<1>1. ASSUME NEW c \in Callers, Run(c) PROVE TypeOK'
  BY <1>1 DEF Run, Move, Steps
<1>2. ASSUME NEW c \in Callers, Look(c) PROVE TypeOK'
  <2>1. calls' \in [Callers -> Steps \cup Answers]
    BY <1>2 DEF Look, Have, Move, Steps, Answers
  <2>2. pool' \in [Callers -> {0} \cup Pools]
    BY <1>2 DEF Look, Have
  <2> QED
    BY <1>2, <2>1, <2>2 DEF Look
<1>3. ASSUME NEW c \in Callers, Lock(c) PROVE TypeOK'
  <2>1. calls' \in [Callers -> Steps \cup Answers]
    BY <1>3 DEF Lock, Have, SecondLook, Move, Steps, Answers
  <2>2. pool' \in [Callers -> {0} \cup Pools]
    BY <1>3 DEF Lock, Have, SecondLook
  <2> QED
    BY <1>3, <2>1, <2>2 DEF Lock
<1>4. ASSUME NEW c \in Callers, LoadFails(c) PROVE TypeOK'
  BY <1>4 DEF LoadFails, NotLoaded, Answers
<1>5. ASSUME NEW c \in Callers, Spawn(c) PROVE TypeOK'
  <2>1. /\ loads' \in Pools /\ cached' \in 0..loads' /\ llama' = "ok"
        /\ ready' = <<>> /\ collected' = 0
    BY <1>5 DEF Spawn
  <2>2. worker' \in [Pools -> [Workers -> Threads]]
    BY <1>5 DEF Spawn, Threads
  <2>3. PICK step \in {"collect", "not_loaded"} : calls' = [calls EXCEPT ![c] = step]
    BY <1>5 DEF Spawn, NotLoaded, Move
  <2>4. calls' \in [Callers -> Steps \cup Answers]
    BY <2>3 DEF Steps, Answers
  <2>5. lock' \in Callers \cup {None}
    BY <1>5 DEF Spawn, NotLoaded
  <2>6. tx' \in [Pools -> BOOLEAN]
    BY <1>5, <2>1 DEF Spawn
  <2>7. UNCHANGED <<pool, running, backend, job, queue>>
    BY <1>5 DEF Spawn
  <2> QED
    BY <2>1, <2>2, <2>4, <2>5, <2>6, <2>7
<1>6. ASSUME NEW c \in Callers, CollectReady(c) PROVE TypeOK'
  <2>1. /\ lock' \in Callers \cup {None} /\ ready' \in Seq({"up", "down"})
        /\ cached' \in 0..loads
    BY <1>6 DEF CollectReady, Cache
  <2>2. collected' \in 0..Streams
    BY <1>6 DEF CollectReady, Reports
  <2>3. calls' \in [Callers -> Steps \cup Answers]
    BY <1>6 DEF CollectReady, Have, Steps, Answers
  <2>4. Cache \in {0} \cup Pools
    BY DEF Cache
  <2>5. pool' \in [Callers -> {0} \cup Pools]
    BY <1>6, <2>4 DEF CollectReady, Have
  <2>6. UNCHANGED <<running, backend, llama, loads, worker, job, tx, queue>>
    BY <1>6 DEF CollectReady
  <2> QED
    BY <2>1, <2>2, <2>3, <2>5, <2>6
<1>7. ASSUME NEW c \in Callers, CollectFailure(c) PROVE TypeOK'
  <2>1. calls' \in [Callers -> Steps \cup Answers]
    BY <1>7 DEF CollectFailure, NotLoaded, Answers
  <2>2. tx' \in [Pools -> BOOLEAN]
    BY <1>7 DEF CollectFailure
  <2>3. ready' = <<>>
    BY <1>7 DEF CollectFailure
  <2> QED
    BY <1>7, <2>1, <2>2, <2>3 DEF CollectFailure, NotLoaded
<1>8. ASSUME NEW c \in Callers, EmbedNothing(c) PROVE TypeOK'
  BY <1>8 DEF EmbedNothing, Move, Steps, Answers
<1>9. ASSUME NEW c \in Callers, Send(c) PROVE TypeOK'
  <2>1. PICK step \in {"shut_down", "no_workers", "wait"} : calls' = [calls EXCEPT ![c] = step]
    BY <1>9 DEF Send, Move
  <2>2. calls' \in [Callers -> Steps \cup Answers]
    BY <2>1 DEF Steps, Answers
  <2>3. queue' = queue \/ queue' = Append(queue, c)
    BY <1>9 DEF Send
  <2>4. Append(queue, c) \in Seq(Callers)
    OBVIOUS
  <2>5. queue' \in Seq(Callers)
    BY <2>3, <2>4
  <2> QED
    BY <1>9, <2>2, <2>5 DEF Send
<1>10. ASSUME NEW c \in Callers, Return(c) PROVE TypeOK'
  BY <1>10 DEF Return
<1>11. ASSUME NEW c \in Callers, Cancel(c) PROVE TypeOK'
  BY <1>11 DEF Cancel
<1>12. ASSUME NEW c \in Callers, DropHandle(c) PROVE TypeOK'
  BY <1>12 DEF DropHandle
<1>13. ASSUME NEW p \in Pools, NEW w \in Workers, Start(p, w) PROVE TypeOK'
  <2>1. worker' \in [Pools -> [Workers -> Threads]]
    BY <1>13, MovedWorker DEF Start, Threads
  <2>2. ready' = ready \/ \E r \in {"up", "down"} : ready' = Append(ready, r)
    BY <1>13 DEF Start, Report
  <2>3. \A r \in {"up", "down"} : Append(ready, r) \in Seq({"up", "down"})
    OBVIOUS
  <2>4. ready' \in Seq({"up", "down"})
    BY <2>2, <2>3
  <2> QED
    BY <1>13, <2>1, <2>4 DEF Start
<1>14. ASSUME NEW p \in Pools, NEW w \in Workers, Exit(p, w) PROVE TypeOK'
  <2>1. worker' \in [Pools -> [Workers -> Threads]]
    BY <1>14, MovedWorker DEF Exit, Threads
  <2>2. calls' \in [Callers -> Steps \cup Answers]
    BY <1>14 DEF Exit, Answers
  <2>3. queue' = queue \/ queue' = <<>>
    BY <1>14 DEF Exit
  <2>4. <<>> \in Seq(Callers)
    OBVIOUS
  <2>5. queue' \in Seq(Callers)
    BY <2>3, <2>4
  <2> QED
    BY <1>14, <2>1, <2>2, <2>5 DEF Exit
<1>15. ASSUME NEW w \in Workers, Take(w) PROVE TypeOK'
  <2>1. cached \in Pools
    BY <1>15 DEF Take
  <2>2. worker' \in [Pools -> [Workers -> Threads]]
    BY <1>15, <2>1, MovedWorker DEF Take, Threads
  <2>3. queue' \in Seq(Callers) /\ job' \in [Workers -> Callers \cup {None}]
    BY <1>15 DEF Take
  <2> QED
    BY <1>15, <2>2, <2>3 DEF Take
<1>16. ASSUME NEW w \in Workers, Reply(w) PROVE TypeOK'
  <2>1. cached \in Pools
    BY <1>16 DEF Reply
  <2>2. worker' \in [Pools -> [Workers -> Threads]]
    BY <1>16, <2>1, MovedWorker DEF Reply, Threads
  <2>3. calls' \in [Callers -> Steps \cup Answers]
    BY <1>16 DEF Reply, Answered, Answers
  <2> QED
    BY <1>16, <2>2, <2>3 DEF Reply
<1>17. ASSUME DropBackend PROVE TypeOK'
  BY <1>17 DEF DropBackend
<1>18. ASSUME DropPool PROVE TypeOK'
  BY <1>18 DEF DropPool
<1>19. CASE UNCHANGED vars
  BY <1>19 DEF vars, loading
<1>20. QED
  BY <1>1, <1>2, <1>3, <1>4, <1>5, <1>6, <1>7, <1>8, <1>9, <1>10,
     <1>11, <1>12, <1>13, <1>14, <1>15, <1>16, <1>17, <1>18, <1>19 DEF Next, Call, Serve, Done

\* Only who holds the lock is loading, and until the pool is cached.
LEMMA LockStep == TypeOK /\ LoadLock /\ Handles /\ Jobs /\ [Next]_vars => LoadLock'
<1> SUFFICES ASSUME TypeOK /\ LoadLock /\ Handles /\ Jobs, [Next]_vars PROVE LoadLock'
  OBVIOUS
<1> USE PoolAssumption DEF TypeOK, LoadLock, Pools, Workers, loading
<1>1. ASSUME NEW c \in Callers, Run(c) PROVE LoadLock'
  BY <1>1 DEF Run, Move
<1>2. ASSUME NEW c \in Callers, Look(c) PROVE LoadLock'
  BY <1>2 DEF Look, Have, Move
<1>3. ASSUME NEW c \in Callers, Lock(c) PROVE LoadLock'
  BY <1>3 DEF Lock, Have, Move, SecondLook
<1>4. ASSUME NEW c \in Callers, LoadFails(c) PROVE LoadLock'
  BY <1>4 DEF LoadFails, NotLoaded
<1>5. ASSUME NEW c \in Callers, Spawn(c) PROVE LoadLock'
  <2>1. /\ lock = c /\ cached = 0 /\ cached' = 0 /\ loads' = loads + 1 /\ loads' \in Pools
        /\ \A p \in Pools : ~tx[p]
    BY <1>5 DEF Spawn
  <2>2. PICK n \in 0..Streams :
          IF n = Streams THEN /\ tx' = [tx EXCEPT ![loads'] = TRUE]
                              /\ calls' = [calls EXCEPT ![c] = "collect"] /\ lock' = lock
                         ELSE /\ calls' = [calls EXCEPT ![c] = "not_loaded"]
                              /\ lock' = None /\ tx' = tx
    BY <1>5 DEF Spawn, NotLoaded, Move
  <2>3. CASE n = Streams
    BY <2>1, <2>2, <2>3
  <2>4. CASE n # Streams
    BY <2>1, <2>2, <2>4
  <2> QED
    BY <2>3, <2>4
<1>6. ASSUME NEW c \in Callers, CollectReady(c) PROVE LoadLock'
  <2>1. /\ lock = c /\ cached = 0 /\ loads \in Pools /\ UNCHANGED <<loads, tx>>
        /\ calls[c] = "collect"
    BY <1>6 DEF CollectReady
  <2>2. CASE collected' = Streams
    <3>1. PICK step \in {"send", "tokenizer"} : calls' = [calls EXCEPT ![c] = step]
      BY <1>6, <2>2 DEF CollectReady, Have
    <3>2. cached' = loads /\ lock' = None
      BY <1>6, <2>1, <2>2 DEF CollectReady, Cache
    <3> QED
      BY <2>1, <3>1, <3>2
  <2>3. CASE collected' # Streams
    BY <1>6, <2>1, <2>3 DEF CollectReady
  <2> QED
    BY <2>2, <2>3
<1>7. ASSUME NEW c \in Callers, CollectFailure(c) PROVE LoadLock'
  BY <1>7 DEF CollectFailure, NotLoaded
<1>8. ASSUME NEW c \in Callers, EmbedNothing(c) PROVE LoadLock'
  BY <1>8 DEF EmbedNothing, Move
<1>9. ASSUME NEW c \in Callers, Send(c) PROVE LoadLock'
  BY <1>9 DEF Send, Move
<1>10. ASSUME NEW c \in Callers, Return(c) PROVE LoadLock'
  BY <1>10 DEF Return, Answers
<1>11. ASSUME NEW c \in Callers, Cancel(c) PROVE LoadLock'
  BY <1>11 DEF Cancel
<1>12. ASSUME NEW c \in Callers, DropHandle(c) PROVE LoadLock'
  BY <1>12 DEF DropHandle
<1>13. ASSUME NEW p \in Pools, NEW w \in Workers, Start(p, w) PROVE LoadLock'
  BY <1>13 DEF Start
<1>14. ASSUME NEW p \in Pools, NEW w \in Workers, Exit(p, w) PROVE LoadLock'
  <2>1. \A c \in Callers : \/ calls'[c] = calls[c]
                           \/ calls'[c] = "no_reply" /\ calls[c] = "wait"
    BY <1>14 DEF Exit, Jobs, Queued
  <2>2. UNCHANGED <<lock, cached, loads, tx>>
    BY <1>14 DEF Exit
  <2> QED
    BY <2>1, <2>2
<1>15. ASSUME NEW w \in Workers, Take(w) PROVE LoadLock'
  BY <1>15 DEF Take
<1>16. ASSUME NEW w \in Workers, Reply(w) PROVE LoadLock'
  BY <1>16 DEF Reply, Answered, Jobs
<1>17. ASSUME DropBackend PROVE LoadLock'
  BY <1>17 DEF DropBackend
<1>18. ASSUME DropPool PROVE LoadLock'
  BY <1>18 DEF DropPool, Held, Handles
<1>19. CASE UNCHANGED vars
  BY <1>19 DEF vars, loading
<1>20. QED
  BY <1>1, <1>2, <1>3, <1>4, <1>5, <1>6, <1>7, <1>8, <1>9, <1>10,
     <1>11, <1>12, <1>13, <1>14, <1>15, <1>16, <1>17, <1>18, <1>19 DEF Next, Call, Serve, Done

\* Who is inside keeps the backend, who has a handle keeps the Sender.
LEMMA HandlesStep == TypeOK /\ LoadLock /\ Handles /\ Jobs /\ [Next]_vars => Handles'
<1> SUFFICES ASSUME TypeOK /\ LoadLock /\ Handles /\ Jobs, [Next]_vars PROVE Handles'
  OBVIOUS
<1> USE PoolAssumption DEF TypeOK, LoadLock, Handles, Held, Inside, Pools, Workers, loading
<1>1. ASSUME NEW c \in Callers, Run(c) PROVE Handles'
  BY <1>1 DEF Run, Move
<1>2. ASSUME NEW c \in Callers, Look(c) PROVE Handles'
  <2>1. UNCHANGED <<running, backend, cached, tx>> /\ calls[c] \in Inside
    BY <1>2 DEF Look
  <2>2. CASE cached # 0
    <3>1. PICK step \in {"send", "tokenizer"} : calls' = [calls EXCEPT ![c] = step]
      BY <1>2, <2>2 DEF Look, Have
    <3>2. pool' = [pool EXCEPT ![c] = cached]
      BY <1>2, <2>2 DEF Look, Have
    <3> QED
      BY <2>1, <2>2, <3>1, <3>2
  <2>3. CASE cached = 0
    <3>1. UNCHANGED pool /\ \E step \in Inside : calls' = [calls EXCEPT ![c] = step]
      BY <1>2, <2>3 DEF Look, Move
    <3> QED
      BY <2>1, <2>3, <3>1
  <2> QED
    BY <2>2, <2>3
<1>3. ASSUME NEW c \in Callers, Lock(c) PROVE Handles'
  <2>1. UNCHANGED <<running, backend, cached, tx>> /\ calls[c] \in Inside
    BY <1>3 DEF Lock
  <2>2. CASE cached # 0
    <3>1. PICK step \in {"send", "tokenizer"} : calls' = [calls EXCEPT ![c] = step]
      BY <1>3, <2>2 DEF Lock, Have, SecondLook
    <3>2. pool' = [pool EXCEPT ![c] = cached]
      BY <1>3, <2>2 DEF Lock, Have, SecondLook
    <3> QED
      BY <2>1, <2>2, <3>1, <3>2
  <2>3. CASE cached = 0
    <3>1. UNCHANGED pool /\ \E step \in Inside : calls' = [calls EXCEPT ![c] = step]
      BY <1>3, <2>3 DEF Lock, Move, SecondLook
    <3> QED
      BY <2>1, <2>3, <3>1
  <2> QED
    BY <2>2, <2>3
<1>4. ASSUME NEW c \in Callers, LoadFails(c) PROVE Handles'
  BY <1>4 DEF LoadFails, NotLoaded
<1>5. ASSUME NEW c \in Callers, Spawn(c) PROVE Handles'
  BY <1>5 DEF Spawn, NotLoaded, Move
<1>6. ASSUME NEW c \in Callers, CollectReady(c) PROVE Handles'
  <2>1. /\ cached = 0 /\ loads \in Pools /\ tx[loads] /\ UNCHANGED <<running, backend, tx>>
        /\ calls[c] = "collect" /\ \A d \in Callers : pool[d] = 0
    BY <1>6 DEF CollectReady
  <2>2. CASE collected' = Streams
    <3>1. PICK step \in {"send", "tokenizer"} : calls' = [calls EXCEPT ![c] = step]
      BY <1>6, <2>2 DEF CollectReady, Have
    <3>2. cached' = loads /\ pool' = [pool EXCEPT ![c] = loads]
      BY <1>6, <2>1, <2>2 DEF CollectReady, Have, Cache
    <3> QED
      BY <2>1, <3>1, <3>2
  <2>3. CASE collected' # Streams
    BY <1>6, <2>1, <2>3 DEF CollectReady
  <2> QED
    BY <2>2, <2>3
<1>7. ASSUME NEW c \in Callers, CollectFailure(c) PROVE Handles'
  BY <1>7 DEF CollectFailure, NotLoaded
<1>8. ASSUME NEW c \in Callers, EmbedNothing(c) PROVE Handles'
  BY <1>8 DEF EmbedNothing, Move
<1>9. ASSUME NEW c \in Callers, Send(c) PROVE Handles'
  BY <1>9 DEF Send, Move
<1>10. ASSUME NEW c \in Callers, Return(c) PROVE Handles'
  BY <1>10 DEF Return, Answers
<1>11. ASSUME NEW c \in Callers, Cancel(c) PROVE Handles'
  BY <1>11 DEF Cancel
<1>12. ASSUME NEW c \in Callers, DropHandle(c) PROVE Handles'
  BY <1>12 DEF DropHandle, Answers
<1>13. ASSUME NEW p \in Pools, NEW w \in Workers, Start(p, w) PROVE Handles'
  BY <1>13 DEF Start
<1>14. ASSUME NEW p \in Pools, NEW w \in Workers, Exit(p, w) PROVE Handles'
  BY <1>14 DEF Exit, Jobs, Queued
<1>15. ASSUME NEW w \in Workers, Take(w) PROVE Handles'
  BY <1>15 DEF Take
<1>16. ASSUME NEW w \in Workers, Reply(w) PROVE Handles'
  BY <1>16 DEF Reply, Answered, Jobs
<1>17. ASSUME DropBackend PROVE Handles'
  BY <1>17 DEF DropBackend
<1>18. ASSUME DropPool PROVE Handles'
  BY <1>18 DEF DropPool
<1>19. CASE UNCHANGED vars
  BY <1>19 DEF vars, loading
<1>20. QED
  BY <1>1, <1>2, <1>3, <1>4, <1>5, <1>6, <1>7, <1>8, <1>9, <1>10,
     <1>11, <1>12, <1>13, <1>14, <1>15, <1>16, <1>17, <1>18, <1>19 DEF Next, Call, Serve, Done

-----------------------------------------------------------------------------
(* Workers                                                                 *)

\* A set of workers is finite.
LEMMA WithIsFinite ==
  \A p, states : IsFiniteSet(With(p, states)) /\ Cardinality(With(p, states)) \in Nat
<1> TAKE p, states
<1>1. IsFiniteSet(Workers)
  BY PoolAssumption, FS_Interval DEF Workers
<1>2. With(p, states) \subseteq Workers
  BY DEF With
<1> QED
  BY <1>1, <1>2, FS_Subset, FS_CardinalityType

\* The cached pool was cached with every worker up; only its workers have jobs.
LEMMA StaffStep == PoolInv /\ [Next]_vars => Staff'
<1> SUFFICES ASSUME PoolInv, [Next]_vars PROVE Staff'
  OBVIOUS
<1>0. TypeOK /\ LoadLock /\ Staff
  BY DEF PoolInv
<1> USE PoolAssumption DEF Pools, Workers, loading
<1>1. ASSUME NEW c \in Callers, Run(c) PROVE Staff'
  BY <1>0, <1>1 DEF TypeOK, LoadLock, Staff, Run, Move
<1>2. ASSUME NEW c \in Callers, Look(c) PROVE Staff'
  BY <1>0, <1>2 DEF TypeOK, LoadLock, Staff, Look, Have, Move
<1>3. ASSUME NEW c \in Callers, Lock(c) PROVE Staff'
  BY <1>0, <1>3 DEF TypeOK, LoadLock, Staff, Lock, Have, Move, SecondLook
<1>4. ASSUME NEW c \in Callers, LoadFails(c) PROVE Staff'
  BY <1>0, <1>4 DEF TypeOK, LoadLock, Staff, LoadFails, NotLoaded
<1>5. ASSUME NEW c \in Callers, Spawn(c) PROVE Staff'
  BY <1>0, <1>5 DEF TypeOK, LoadLock, Staff, Spawn, NotLoaded, Move
<1>6. ASSUME NEW c \in Callers, CollectReady(c) PROVE Staff'
  <2>1. /\ cached = 0 /\ loads \in Pools /\ UNCHANGED worker
        /\ collected' = collected + 1 /\ collected \in Nat /\ Len(ready) \in Nat \ {0}
    BY <1>0, <1>6 DEF TypeOK, LoadLock, Staff, CollectReady
  <2>2. CASE collected' = Streams
    <3>1. cached' = loads
      BY <1>0, <1>6, <2>1, <2>2 DEF TypeOK, LoadLock, Staff, CollectReady, Cache
    <3>2. /\ \A w \in Workers : worker[loads][w] \in {"starting", "idle", "exited"}
          /\ collected + Len(ready) + Cardinality(With(loads, {"starting"})) <= Streams
      BY <1>0, <1>6 DEF CollectReady, Reports, PoolInv
    <3>3. IsFiniteSet(With(loads, {"starting"})) /\ Cardinality(With(loads, {"starting"})) \in Nat
      BY WithIsFinite
    <3>4. Cardinality(With(loads, {"starting"})) = 0
      BY <1>0, <2>1, <2>2, <3>2, <3>3 DEF Staff
    <3>5. With(loads, {"starting"}) = {}
      BY <3>3, <3>4, FS_EmptySet
    <3>6. \A w \in Workers : worker[loads][w] \in {"idle", "exited"}
      BY <1>0, <3>2, <3>5 DEF TypeOK, LoadLock, Staff, With
    <3>7. \A p \in Pools, w \in Workers : worker[p][w] \notin {"busy", "leaving"}
      BY <1>0, <2>1 DEF Staff
    <3> QED
      BY <1>0, <2>1, <3>1, <3>6, <3>7 DEF Staff
  <2>3. CASE collected' # Streams
    BY <1>0, <1>6, <2>1, <2>3 DEF TypeOK, LoadLock, Staff, CollectReady
  <2> QED
    BY <1>0, <2>2, <2>3 DEF Staff
<1>7. ASSUME NEW c \in Callers, CollectFailure(c) PROVE Staff'
  BY <1>0, <1>7 DEF TypeOK, LoadLock, Staff, CollectFailure, NotLoaded
<1>8. ASSUME NEW c \in Callers, EmbedNothing(c) PROVE Staff'
  BY <1>0, <1>8 DEF TypeOK, LoadLock, Staff, EmbedNothing, Move
<1>9. ASSUME NEW c \in Callers, Send(c) PROVE Staff'
  BY <1>0, <1>9 DEF TypeOK, LoadLock, Staff, Send, Move
<1>10. ASSUME NEW c \in Callers, Return(c) PROVE Staff'
  BY <1>0, <1>10 DEF TypeOK, LoadLock, Staff, Return
<1>11. ASSUME NEW c \in Callers, Cancel(c) PROVE Staff'
  BY <1>0, <1>11 DEF TypeOK, LoadLock, Staff, Cancel
<1>12. ASSUME NEW c \in Callers, DropHandle(c) PROVE Staff'
  BY <1>0, <1>12 DEF TypeOK, LoadLock, Staff, DropHandle
<1>13. ASSUME NEW p \in Pools, NEW w \in Workers, Start(p, w) PROVE Staff'
  <2>1. PICK from \in Threads, to \in Threads :
          Moved(p, w, from, to) /\ from = "starting" /\ to \in {"idle", "exited"}
    BY <1>0, <1>13 DEF TypeOK, LoadLock, Staff, Start, Threads
  <2>2. /\ worker[p][w] = from
        /\ \A q \in Pools, v \in Workers :
             worker'[q][v] = IF q = p /\ v = w THEN to ELSE worker[q][v]
    BY <1>0, <2>1, MovedWorker DEF Staff
  <2>3. UNCHANGED cached /\ (cached # 0 => cached \in Pools)
    BY <1>0, <1>13 DEF TypeOK, LoadLock, Staff, Start
  <2>4. cached # 0 => \A v \in Workers : worker'[cached][v] \notin {"none", "starting"}
    BY <1>0, <2>1, <2>2, <2>3 DEF Staff
  <2>5. \A q \in Pools : q # cached => \A v \in Workers : worker'[q][v] \notin {"busy", "leaving"}
    BY <1>0, <2>1, <2>2 DEF Staff
  <2> QED
    BY <1>0, <2>3, <2>4, <2>5 DEF Staff
<1>14. ASSUME NEW p \in Pools, NEW w \in Workers, Exit(p, w) PROVE Staff'
  <2>1. PICK from \in Threads, to \in Threads :
          Moved(p, w, from, to) /\ to = "exited"
    BY <1>0, <1>14 DEF TypeOK, LoadLock, Staff, Exit, Threads
  <2>2. /\ worker[p][w] = from
        /\ \A q \in Pools, v \in Workers :
             worker'[q][v] = IF q = p /\ v = w THEN to ELSE worker[q][v]
    BY <1>0, <2>1, MovedWorker DEF Staff
  <2>3. UNCHANGED cached /\ (cached # 0 => cached \in Pools)
    BY <1>0, <1>14 DEF TypeOK, LoadLock, Staff, Exit
  <2>4. cached # 0 => \A v \in Workers : worker'[cached][v] \notin {"none", "starting"}
    BY <1>0, <2>1, <2>2, <2>3 DEF Staff
  <2>5. \A q \in Pools : q # cached => \A v \in Workers : worker'[q][v] \notin {"busy", "leaving"}
    BY <1>0, <2>1, <2>2 DEF Staff
  <2> QED
    BY <1>0, <2>3, <2>4, <2>5 DEF Staff
<1>15. ASSUME NEW w \in Workers, Take(w) PROVE Staff'
  <2>1. cached \in Pools /\ Moved(cached, w, "idle", "busy")
    BY <1>0, <1>15 DEF TypeOK, LoadLock, Staff, Take
  <2> "busy" \in Threads
    BY DEF Threads
  <2>2. /\ worker[cached][w] = "idle"
        /\ \A q \in Pools, v \in Workers :
             worker'[q][v] = IF q = cached /\ v = w THEN "busy" ELSE worker[q][v]
    BY <1>0, <2>1, MovedWorker
  <2>3. UNCHANGED cached /\ (cached # 0 => cached \in Pools)
    BY <1>0, <1>15 DEF TypeOK, LoadLock, Staff, Take
  <2>4. cached # 0 => \A v \in Workers : worker'[cached][v] \notin {"none", "starting"}
    BY <1>0, <2>1, <2>2, <2>3 DEF Staff
  <2>5. \A q \in Pools : q # cached => \A v \in Workers : worker'[q][v] \notin {"busy", "leaving"}
    BY <1>0, <2>1, <2>2 DEF Staff
  <2> QED
    BY <1>0, <2>3, <2>4, <2>5 DEF Staff
<1>16. ASSUME NEW w \in Workers, Reply(w) PROVE Staff'
  <2>1. PICK from \in Threads, to \in Threads :
          Moved(cached, w, from, to) /\ cached \in Pools /\ to \in {"leaving", "idle"}
    BY <1>0, <1>16 DEF TypeOK, LoadLock, Staff, Reply, Threads
  <2>2. /\ worker[cached][w] = from
        /\ \A q \in Pools, v \in Workers :
             worker'[q][v] = IF q = cached /\ v = w THEN to ELSE worker[q][v]
    BY <1>0, <2>1, MovedWorker DEF Staff
  <2>3. UNCHANGED cached /\ (cached # 0 => cached \in Pools)
    BY <1>0, <1>16 DEF TypeOK, LoadLock, Staff, Reply
  <2>4. cached # 0 => \A v \in Workers : worker'[cached][v] \notin {"none", "starting"}
    BY <1>0, <2>1, <2>2, <2>3 DEF Staff
  <2>5. \A q \in Pools : q # cached => \A v \in Workers : worker'[q][v] \notin {"busy", "leaving"}
    BY <1>0, <2>1, <2>2 DEF Staff
  <2> QED
    BY <1>0, <2>3, <2>4, <2>5 DEF Staff
<1>17. ASSUME DropBackend PROVE Staff'
  BY <1>0, <1>17 DEF TypeOK, LoadLock, Staff, DropBackend
<1>18. ASSUME DropPool PROVE Staff'
  BY <1>0, <1>18 DEF TypeOK, LoadLock, Staff, DropPool
<1>19. CASE UNCHANGED vars
  BY <1>0, <1>19 DEF Staff, vars, loading
<1>20. QED
  BY <1>1, <1>2, <1>3, <1>4, <1>5, <1>6, <1>7, <1>8, <1>9, <1>10,
     <1>11, <1>12, <1>13, <1>14, <1>15, <1>16, <1>17, <1>18, <1>19 DEF Next, Call, Serve, Done

\* A load hears of each of its workers at most once.
LEMMA ReportsStep == PoolInv /\ [Next]_vars => Reports'
<1> SUFFICES ASSUME PoolInv, [Next]_vars PROVE Reports'
  OBVIOUS
<1>0. TypeOK /\ LoadLock /\ Staff /\ Reports
  BY DEF PoolInv
<1> USE PoolAssumption DEF Pools, Workers, loading
<1>1. ASSUME NEW c \in Callers, Run(c) PROVE Reports'
  BY <1>0, <1>1 DEF TypeOK, LoadLock, Reports, With, Down, Run, Move
<1>2. ASSUME NEW c \in Callers, Look(c) PROVE Reports'
  BY <1>0, <1>2 DEF TypeOK, LoadLock, Reports, With, Down, Look, Have, Move
<1>3. ASSUME NEW c \in Callers, Lock(c) PROVE Reports'
  BY <1>0, <1>3 DEF TypeOK, LoadLock, Reports, With, Down, Lock, Have, Move, SecondLook
<1>4. ASSUME NEW c \in Callers, LoadFails(c) PROVE Reports'
  BY <1>0, <1>4 DEF TypeOK, LoadLock, Reports, With, Down, LoadFails, NotLoaded
<1>5. ASSUME NEW c \in Callers, Spawn(c) PROVE Reports'
  <2>1. PICK n \in 0..Streams :
          /\ worker' = [worker EXCEPT ![loads'] =
                          [w \in Workers |-> IF w <= n \/ n = Streams THEN "starting" ELSE "none"]]
          /\ n # Streams => calls' = [calls EXCEPT ![c] = "not_loaded"]
    BY <1>5 DEF Spawn, NotLoaded
  <2>2. /\ loads' \in Pools /\ ready' = <<>> /\ collected' = 0
        /\ \A d \in Callers : calls[d] # "collect"
    BY <1>0, <1>5 DEF Spawn, TypeOK, LoadLock
  <2>3. CASE n # Streams
    BY <1>0, <2>1, <2>2, <2>3 DEF Reports, TypeOK
  <2>4. CASE n = Streams
    <3>1. \A w \in Workers : worker'[loads'][w] = "starting"
      BY <1>0, <2>1, <2>2, <2>4 DEF TypeOK
    <3>2. With(loads, {"starting"})' = Workers /\ With(loads, {"starting", "exited"})' = Workers
      BY <3>1 DEF With
    <3>3. Cardinality(Workers) = Streams
      BY FS_Interval DEF Workers
    <3>4. Len(ready') = 0
      BY <2>2
    <3> QED
      BY <2>2, <3>1, <3>2, <3>3, <3>4 DEF Reports
  <2> QED
    BY <2>3, <2>4
<1>6. ASSUME NEW c \in Callers, CollectReady(c) PROVE Reports'
  <2>1. CASE collected' = Streams
    <3>1. PICK step \in {"send", "tokenizer"} : calls' = [calls EXCEPT ![c] = step]
      BY <1>6, <2>1 DEF CollectReady, Have
    <3>2. \A d \in Callers : calls'[d] # "collect"
      BY <1>0, <1>6, <3>1 DEF CollectReady, TypeOK, LoadLock
    <3> QED
      BY <3>2 DEF Reports
  <2>2. CASE collected' # Streams
    <3>1. /\ collected' = collected + 1 /\ ready' = Tail(ready) /\ UNCHANGED <<calls, loads, worker>>
          /\ ready # <<>> /\ ready[1] = "up" /\ calls[c] = "collect"
      BY <1>6, <2>2 DEF CollectReady
    <3>2. /\ ready \in Seq({"up", "down"}) /\ Len(ready) \in Nat \ {0} /\ Len(ready') = Len(ready) - 1
          /\ \A i \in DOMAIN ready \ {1} : i - 1 \in DOMAIN ready' /\ ready'[i - 1] = ready[i]
      BY <1>0, <3>1 DEF TypeOK
    <3>3. Down => Down'
      BY <3>1, <3>2 DEF Down
    <3>4. \A states : With(loads, states)' = With(loads, states)
      BY <3>1 DEF With
    <3>5. /\ \A w \in Workers : worker[loads][w] \in {"starting", "idle", "exited"}
          /\ collected + Len(ready) + Cardinality(With(loads, {"starting"})) <= Streams
          /\ Down \/ collected + Len(ready) + Cardinality(With(loads, {"starting", "exited"})) <= Streams
      BY <1>0, <3>1 DEF Reports
    <3>6. collected \in Nat
      BY <1>0 DEF TypeOK
    <3>7. collected' + Len(ready') = collected + Len(ready) /\ collected' \in Nat /\ Len(ready') \in Nat
      BY <3>1, <3>2, <3>6
    <3>8. collected' < Streams
      BY <2>2, <3>5, <3>7, WithIsFinite
    <3> QED
      BY <3>1, <3>3, <3>4, <3>5, <3>7, <3>8 DEF Reports
  <2> QED
    BY <2>1, <2>2
<1>7. ASSUME NEW c \in Callers, CollectFailure(c) PROVE Reports'
  BY <1>0, <1>7 DEF TypeOK, LoadLock, Reports, With, Down, CollectFailure, NotLoaded
<1>8. ASSUME NEW c \in Callers, EmbedNothing(c) PROVE Reports'
  BY <1>0, <1>8 DEF TypeOK, LoadLock, Reports, With, Down, EmbedNothing, Move
<1>9. ASSUME NEW c \in Callers, Send(c) PROVE Reports'
  BY <1>0, <1>9 DEF TypeOK, LoadLock, Reports, With, Down, Send, Move
<1>10. ASSUME NEW c \in Callers, Return(c) PROVE Reports'
  BY <1>0, <1>10 DEF TypeOK, LoadLock, Reports, With, Down, Return, Answers
<1>11. ASSUME NEW c \in Callers, Cancel(c) PROVE Reports'
  BY <1>0, <1>11 DEF TypeOK, LoadLock, Reports, With, Down, Cancel
<1>12. ASSUME NEW c \in Callers, DropHandle(c) PROVE Reports'
  BY <1>0, <1>12 DEF TypeOK, LoadLock, Reports, With, Down, DropHandle
<1>13. ASSUME NEW p \in Pools, NEW w \in Workers, Start(p, w) PROVE Reports'
  <2> SUFFICES ASSUME NEW c \in Callers, calls[c] = "collect" PROVE Reports'
    BY <1>13 DEF Start, Reports
  <2> DEFINE A == With(loads, {"starting"})
             B == With(loads, {"starting", "exited"})
  <2>1. /\ \A v \in Workers : worker[loads][v] \in {"starting", "idle", "exited"}
        /\ collected < Streams /\ collected + Len(ready) + Cardinality(A) <= Streams
        /\ Down \/ collected + Len(ready) + Cardinality(B) <= Streams
    BY <1>0 DEF Reports
  <2>2. loads \in Pools /\ tx[loads] /\ cached = 0 /\ UNCHANGED <<calls, loads, collected>>
    BY <1>0, <1>13 DEF Start, TypeOK, LoadLock
  <2>3. collected \in Nat /\ Len(ready) \in Nat /\ ready \in Seq({"up", "down"})
    BY <1>0 DEF TypeOK
  <2>4. PICK to \in {"idle", "exited"} :
          /\ Moved(p, w, "starting", to)
          /\ IF to = "idle" THEN Report(p, "up") ELSE Report(p, "down") \/ UNCHANGED ready
    BY <1>13 DEF Start
  <2> to \in Threads
    BY <2>4 DEF Threads
  <2>5. /\ worker[p][w] = "starting"
        /\ \A q \in Pools, v \in Workers :
             worker'[q][v] = IF q = p /\ v = w THEN to ELSE worker[q][v]
    BY <1>0, <2>4, MovedWorker
  <2>6. CASE p # loads
    <3>1. UNCHANGED ready
      BY <2>4, <2>6 DEF Report
    <3>2. \A v \in Workers : worker'[loads][v] = worker[loads][v]
      BY <2>2, <2>5, <2>6
    <3>3. A' = A /\ B' = B
      BY <2>2, <3>2 DEF With
    <3> QED
      BY <1>0, <2>2, <3>1, <3>2, <3>3 DEF Reports, Down
  <2>7. CASE p = loads
    <3>1. \A v \in Workers : worker'[loads][v] = IF v = w THEN to ELSE worker[loads][v]
      BY <2>2, <2>5, <2>7
    <3>2. A' = A \ {w} /\ w \in A /\ w \in B
      BY <2>2, <2>4, <2>5, <2>7, <3>1 DEF With
    <3>a. /\ IsFiniteSet(A) /\ Cardinality(A) \in Nat
          /\ IsFiniteSet(B) /\ Cardinality(B) \in Nat
      BY WithIsFinite
    <3> HIDE DEF A, B
    <3>3. Cardinality(A') = Cardinality(A) - 1
      BY <3>2, <3>a, FS_RemoveElement
    <3>4. Cardinality(B \ {w}) = Cardinality(B) - 1
      BY <3>2, <3>a, FS_RemoveElement
    <3> USE DEF A, B
    <3>5. \A v \in Workers : worker'[loads'][v] \in {"starting", "idle", "exited"}
      BY <2>1, <2>2, <3>1
    <3>6. CASE to = "idle"
      <4>1. ready' = Append(ready, "up")
        BY <2>2, <2>4, <2>7, <3>6 DEF Report
      <4>2. B' = B \ {w}
        BY <2>2, <3>1, <3>6 DEF With
      <4>3. Len(ready') = Len(ready) + 1 /\ (Down => Down')
        BY <2>3, <4>1 DEF Down
      <4>4. collected + Len(ready') + Cardinality(A') <= Streams
        BY <2>1, <2>3, <3>a, <3>3, <4>3
      <4>5. Cardinality(B') = Cardinality(B) - 1
        BY <3>4, <4>2
      <4>6. Down' \/ collected + Len(ready') + Cardinality(B') <= Streams
        <5>1. CASE Down
          BY <4>3, <5>1
        <5>2. CASE ~Down
          BY <2>1, <2>3, <3>a, <4>3, <4>5, <5>2
        <5> QED
          BY <5>1, <5>2
      <4> QED
        BY <2>1, <2>2, <3>5, <4>4, <4>6 DEF Reports
    <3>7. CASE to = "exited" /\ Report(p, "down")
      <4>1. ready' = Append(ready, "down")
        BY <2>2, <2>7, <3>7 DEF Report
      <4>2. Len(ready') = Len(ready) + 1 /\ Down'
        BY <2>3, <4>1 DEF Down
      <4> QED
        BY <2>1, <2>2, <2>3, <3>a, <3>3, <3>5, <4>2 DEF Reports
    <3>8. CASE to = "exited" /\ UNCHANGED ready
      <4>1. B' = B
        BY <2>2, <2>5, <2>7, <3>1, <3>8 DEF With
      <4> QED
        BY <2>1, <2>2, <2>3, <3>a, <3>3, <3>5, <3>8, <4>1 DEF Reports, Down
    <3> QED
      BY <2>4, <3>6, <3>7, <3>8
  <2> QED
    BY <2>6, <2>7
<1>14. ASSUME NEW p \in Pools, NEW w \in Workers, Exit(p, w) PROVE Reports'
  <2> SUFFICES ASSUME NEW c \in Callers, calls'[c] = "collect" PROVE Reports'
    BY DEF Reports
  <2>1. UNCHANGED <<loads, collected, ready>> /\ \A d \in Callers : calls'[d] = "collect" => calls[d] = "collect"
    BY <1>0, <1>14 DEF Exit, TypeOK
  <2>2. PICK from \in {"leaving", "idle"} : Moved(p, w, from, "exited") /\ (from = "idle" => ~tx[p])
    BY <1>14 DEF Exit
  <2>3. /\ worker[p][w] = from
        /\ \A q \in Pools, v \in Workers :
             worker'[q][v] = IF q = p /\ v = w THEN "exited" ELSE worker[q][v]
    BY <1>0, <2>2, MovedWorker DEF Threads
  <2>4. loads \in Pools /\ tx[loads] /\ cached = 0
    BY <1>0, <2>1 DEF TypeOK, LoadLock
  <2>5. p # loads
    BY <1>0, <2>2, <2>3, <2>4 DEF Staff
  <2>6. \A v \in Workers : worker'[loads][v] = worker[loads][v]
    BY <2>3, <2>4, <2>5
  <2>7. \A states : With(loads, states)' = With(loads, states)
    BY <2>1, <2>6 DEF With
  <2> QED
    BY <1>0, <2>1, <2>6, <2>7 DEF Reports, Down
<1>15. ASSUME NEW w \in Workers, Take(w) PROVE Reports'
  BY <1>0, <1>15 DEF TypeOK, LoadLock, Reports, With, Down, Take
<1>16. ASSUME NEW w \in Workers, Reply(w) PROVE Reports'
  BY <1>0, <1>16 DEF TypeOK, LoadLock, Reports, With, Down, Reply, Answered
<1>17. ASSUME DropBackend PROVE Reports'
  BY <1>0, <1>17 DEF TypeOK, LoadLock, Reports, With, Down, DropBackend
<1>18. ASSUME DropPool PROVE Reports'
  BY <1>0, <1>18 DEF TypeOK, LoadLock, Reports, With, Down, DropPool
<1>19. CASE UNCHANGED vars
  BY <1>0, <1>19 DEF TypeOK, LoadLock, Reports, With, Down, vars, loading
<1>20. QED
  BY <1>1, <1>2, <1>3, <1>4, <1>5, <1>6, <1>7, <1>8, <1>9, <1>10,
     <1>11, <1>12, <1>13, <1>14, <1>15, <1>16, <1>17, <1>18, <1>19 DEF Next, Call, Serve, Done

-----------------------------------------------------------------------------
(* Jobs                                                                    *)

\* What nobody's job depends on may change.
LEMMA JobsKept ==
  ASSUME Jobs, UNCHANGED <<queue, job, cached>>,
         \A c \in Callers : calls'[c] = "wait" <=> calls[c] = "wait",
         cached # 0 => \A w \in Workers : worker'[cached][w] = "busy" <=> worker[cached][w] = "busy"
  PROVE  Jobs'
BY DEF Jobs, Queued

\* A job is queued or with one worker as long as its call waits.
LEMMA JobsStep == PoolInv /\ [Next]_vars => Jobs'
<1> SUFFICES ASSUME PoolInv, [Next]_vars PROVE Jobs'
  OBVIOUS
<1>0. TypeOK /\ LoadLock /\ Staff /\ Jobs
  BY DEF PoolInv
<1> USE PoolAssumption DEF Pools, Workers, loading
<1>1. ASSUME NEW c \in Callers, Run(c) PROVE Jobs'
  BY <1>0, <1>1, JobsKept DEF TypeOK, Run, Move
<1>2. ASSUME NEW c \in Callers, Look(c) PROVE Jobs'
  BY <1>0, <1>2, JobsKept DEF TypeOK, Look, Have, Move
<1>3. ASSUME NEW c \in Callers, Lock(c) PROVE Jobs'
  BY <1>0, <1>3, JobsKept DEF TypeOK, Lock, Have, Move, SecondLook
<1>4. ASSUME NEW c \in Callers, LoadFails(c) PROVE Jobs'
  BY <1>0, <1>4, JobsKept DEF TypeOK, LoadFails, NotLoaded
<1>5. ASSUME NEW c \in Callers, Spawn(c) PROVE Jobs'
  <2>1. cached = 0 /\ UNCHANGED <<queue, job, cached>>
    BY <1>0, <1>5 DEF Spawn, TypeOK, LoadLock
  <2>2. \A d \in Callers : calls'[d] = "wait" <=> calls[d] = "wait"
    BY <1>0, <1>5 DEF Spawn, NotLoaded, Move, TypeOK
  <2> QED
    BY <1>0, <2>1, <2>2, JobsKept
<1>6. ASSUME NEW c \in Callers, CollectReady(c) PROVE Jobs'
  <2>1. /\ cached = 0 /\ loads \in Pools /\ UNCHANGED <<queue, job, worker>>
        /\ calls[c] = "collect" /\ cached' \in {cached, loads}
    BY <1>0, <1>6 DEF CollectReady, Cache, TypeOK, LoadLock
  <2>2. \A d \in Callers : calls'[d] = "wait" <=> calls[d] = "wait"
    BY <1>0, <1>6 DEF CollectReady, Have, TypeOK
  <2>3. queue = <<>> /\ \A w \in Workers : job[w] = None /\ worker[loads][w] # "busy"
    BY <1>0, <2>1 DEF Jobs, Staff
  <2> QED
    BY <1>0, <2>1, <2>2, <2>3 DEF Jobs, Queued
<1>7. ASSUME NEW c \in Callers, CollectFailure(c) PROVE Jobs'
  BY <1>0, <1>7, JobsKept DEF TypeOK, CollectFailure, NotLoaded
<1>8. ASSUME NEW c \in Callers, EmbedNothing(c) PROVE Jobs'
  BY <1>0, <1>8, JobsKept DEF TypeOK, EmbedNothing, Move
<1>9. ASSUME NEW c \in Callers, Send(c) PROVE Jobs'
  <2>1. /\ calls[c] = "send" /\ UNCHANGED <<job, cached, worker>> /\ queue \in Seq(Callers)
        /\ \A d \in Callers \ {c} : calls'[d] = calls[d]
    BY <1>0, <1>9 DEF Send, Move, TypeOK
  <2>2. CASE calls'[c] # "wait"
    <3>1. UNCHANGED queue
      BY <1>0, <1>9, <2>2 DEF Send, Move, TypeOK
    <3> QED
      BY <1>0, <2>1, <2>2, <3>1, JobsKept
  <2>3. CASE calls'[c] = "wait"
    <3>1. queue' = Append(queue, c)
      BY <1>0, <1>9, <2>3 DEF Send, Move, TypeOK
    <3>2. ~Queued(c) /\ \A w \in Workers : job[w] # c
      BY <1>0, <2>1 DEF Jobs
    <3>3. /\ Len(queue) \in Nat /\ DOMAIN queue' = 1..(Len(queue) + 1) /\ DOMAIN queue = 1..Len(queue)
          /\ \A i \in DOMAIN queue : queue'[i] = queue[i]
          /\ queue'[Len(queue) + 1] = c
      BY <2>1, <3>1
    <3>4. \A d : Queued(d)' <=> Queued(d) \/ d = c
      BY <3>3 DEF Queued
    <3>5. \A i, j \in DOMAIN queue' : queue'[i] = queue'[j] => i = j
      BY <1>0, <3>2, <3>3 DEF Jobs, Queued
    <3>6. cached # 0
      BY <1>0, <1>9, <2>1, <2>3 DEF Send, Handles, PoolInv
    <3> QED
      BY <1>0, <2>1, <2>3, <3>2, <3>4, <3>5, <3>6 DEF Jobs
  <2> QED
    BY <2>2, <2>3
<1>10. ASSUME NEW c \in Callers, Return(c) PROVE Jobs'
  BY <1>0, <1>10, JobsKept DEF TypeOK, Return
<1>11. ASSUME NEW c \in Callers, Cancel(c) PROVE Jobs'
  BY <1>0, <1>11, JobsKept DEF TypeOK, Cancel
<1>12. ASSUME NEW c \in Callers, DropHandle(c) PROVE Jobs'
  BY <1>0, <1>12, JobsKept DEF TypeOK, DropHandle
<1>13. ASSUME NEW p \in Pools, NEW w \in Workers, Start(p, w) PROVE Jobs'
  <2>1. UNCHANGED <<calls, queue, job, cached>>
    BY <1>13 DEF Start
  <2>2. PICK to \in {"idle", "exited"} : Moved(p, w, "starting", to)
    BY <1>13 DEF Start
  <2> to \in Threads
    BY <2>2 DEF Threads
  <2>3. /\ worker[p][w] = "starting"
        /\ \A q \in Pools, v \in Workers :
             worker'[q][v] = IF q = p /\ v = w THEN to ELSE worker[q][v]
    BY <1>0, <2>2, MovedWorker
  <2>4. cached # 0 => cached \in Pools
    BY <1>0 DEF TypeOK
  <2>5. cached # 0 => \A v \in Workers : worker'[cached][v] = "busy" <=> worker[cached][v] = "busy"
    BY <2>2, <2>3, <2>4
  <2> QED
    BY <1>0, <2>1, <2>5, JobsKept
<1>14. ASSUME NEW p \in Pools, NEW w \in Workers, Exit(p, w) PROVE Jobs'
  <2>1. UNCHANGED <<job, cached>> /\ (cached # 0 => cached \in Pools)
    BY <1>0, <1>14 DEF Exit, TypeOK
  <2>2. PICK from \in {"leaving", "idle"} : Moved(p, w, from, "exited")
    BY <1>14 DEF Exit
  <2>3. /\ worker[p][w] = from
        /\ \A q \in Pools, v \in Workers :
             worker'[q][v] = IF q = p /\ v = w THEN "exited" ELSE worker[q][v]
    BY <1>0, <2>2, MovedWorker DEF Threads
  <2>4. cached # 0 => \A v \in Workers : worker'[cached][v] = "busy" <=> worker[cached][v] = "busy"
    BY <2>1, <2>2, <2>3
  <2>5. CASE p = cached /\ LastReceiver(p, w)
    <3>1. queue' = <<>> /\ \A c \in Callers : calls'[c] = IF Queued(c) THEN "no_reply" ELSE calls[c]
      BY <1>14, <2>5 DEF Exit, Queued
    <3>2. \A v \in Workers : worker[cached][v] # "busy"
      BY <2>2, <2>3, <2>5 DEF LastReceiver, Live
    <3>3. \A v \in Workers : job[v] = None
      BY <1>0, <2>5, <3>2 DEF Jobs
    <3>4. \A c \in Callers : calls'[c] # "wait"
      BY <1>0, <3>1, <3>3 DEF Jobs
    <3>5. \A c : ~Queued(c)'
      BY <3>1 DEF Queued
    <3> QED
      BY <2>1, <2>4, <2>5, <3>1, <3>2, <3>3, <3>4, <3>5 DEF Jobs
  <2>6. CASE ~(p = cached /\ LastReceiver(p, w))
    <3>1. UNCHANGED <<calls, queue>>
      BY <1>14, <2>6 DEF Exit
    <3> QED
      BY <1>0, <2>1, <2>4, <3>1, JobsKept
  <2> QED
    BY <2>5, <2>6
<1>15. ASSUME NEW w \in Workers, Take(w) PROVE Jobs'
  <2> DEFINE h == Head(queue)
  <2>1. /\ cached \in Pools /\ queue # <<>> /\ queue \in Seq(Callers) /\ queue' = Tail(queue)
        /\ job' = [job EXCEPT ![w] = h] /\ UNCHANGED <<calls, cached>>
    BY <1>0, <1>15 DEF Take, TypeOK
  <2>a. cached \in Pools /\ Moved(cached, w, "idle", "busy")
    BY <2>1, <1>15 DEF Take
  <2> "busy" \in Threads
    BY DEF Threads
  <2>2. /\ worker[cached][w] = "idle"
        /\ \A q \in Pools, v \in Workers :
             worker'[q][v] = IF q = cached /\ v = w THEN "busy" ELSE worker[q][v]
    BY <1>0, <2>a, MovedWorker
  <2>3. /\ 1 \in DOMAIN queue /\ queue[1] = h /\ h \in Callers
        /\ \A i \in DOMAIN queue' : i + 1 \in DOMAIN queue /\ queue'[i] = queue[i + 1]
        /\ \A i \in DOMAIN queue \ {1} : i - 1 \in DOMAIN queue' /\ queue'[i - 1] = queue[i]
    BY <2>1
  <2>4. \A v \in Workers : job'[v] = IF v = w THEN h ELSE job[v]
    BY <1>0, <2>1 DEF TypeOK
  <2>5. \A d : Queued(d)' <=> Queued(d) /\ d # h
    <3>1. \A i, j \in DOMAIN queue : queue[i] = queue[j] => i = j
      BY <1>0 DEF Jobs
    <3>2. \A i \in DOMAIN queue' : i \in Nat \ {0}
      BY <2>1
    <3>3. ASSUME NEW d, Queued(d)' PROVE Queued(d) /\ d # h
      BY <2>3, <3>1, <3>2, <3>3 DEF Queued
    <3>4. ASSUME NEW d, Queued(d), d # h PROVE Queued(d)'
      BY <2>3, <3>4 DEF Queued
    <3> QED
      BY <3>3, <3>4
  <2>6. \A i, j \in DOMAIN queue' : queue'[i] = queue'[j] => i = j
    <3>1. \A i, j \in DOMAIN queue' : queue'[i] = queue'[j] => i + 1 = j + 1
      BY <1>0, <2>3 DEF Jobs
    <3>2. \A i \in DOMAIN queue' : i \in Nat
      BY <2>1
    <3> QED
      BY <3>1, <3>2
  <2>7. Queued(h) /\ \A v \in Workers : job[v] # h
    BY <1>0, <2>3 DEF Jobs, Queued
  <2>8. job[w] = None /\ h # None
    BY <1>0, <2>1, <2>2, <2>3 DEF Jobs
  <2>9. \A v \in Workers : job'[v] # None <=> worker'[cached][v] = "busy"
    BY <1>0, <2>1, <2>2, <2>4, <2>8 DEF Jobs
  <2>10. \A c \in Callers : calls[c] = "wait" <=> Queued(c)' \/ \E v \in Workers : job'[v] = c
    BY <1>0, <2>4, <2>5, <2>7, <2>8 DEF Jobs
  <2>11. \A u, v \in Workers : job'[u] = job'[v] /\ job'[u] # None => u = v
    BY <1>0, <2>4, <2>7 DEF Jobs
  <2>12. \A v \in Workers, i \in DOMAIN queue' : queue'[i] # job'[v]
    <3>1. \A v \in Workers, i \in DOMAIN queue : queue[i] # job[v]
      BY <1>0 DEF Jobs, Queued
    <3>2. \A i \in DOMAIN queue' : queue'[i] # h
      BY <2>5 DEF Queued
    <3> QED
      BY <2>3, <2>4, <3>1, <3>2
  <2> QED
    BY <2>1, <2>6, <2>9, <2>10, <2>11, <2>12 DEF Jobs, Queued
<1>16. ASSUME NEW w \in Workers, Reply(w) PROVE Jobs'
  <2>1. PICK a \in {"result", "panicked"} :
          /\ Moved(cached, w, "busy", IF a = "panicked" THEN "leaving" ELSE "idle")
          /\ calls' = [calls EXCEPT ![job[w]] = a]
    BY <1>16 DEF Reply, Answered
  <2>2. cached \in Pools /\ job' = [job EXCEPT ![w] = None] /\ UNCHANGED <<queue, cached>>
    BY <1>0, <1>16 DEF Reply, TypeOK
  <2> DEFINE to == IF a = "panicked" THEN "leaving" ELSE "idle"
  <2> to \in Threads
    BY DEF Threads
  <2>3. /\ worker[cached][w] = "busy"
        /\ \A q \in Pools, v \in Workers :
             worker'[q][v] = IF q = cached /\ v = w THEN to ELSE worker[q][v]
    BY <1>0, <2>1, <2>2, MovedWorker
  <2>4. job[w] \in Callers /\ calls[job[w]] = "wait" /\ ~Queued(job[w])
    BY <1>0, <2>2, <2>3 DEF Jobs, TypeOK
  <2>5. \A c \in Callers : calls'[c] = IF c = job[w] THEN a ELSE calls[c]
    BY <1>0, <2>1, <2>4 DEF TypeOK
  <2>6. \A v \in Workers : job'[v] = IF v = w THEN None ELSE job[v]
    BY <1>0, <2>2 DEF TypeOK
  <2>7. \A v \in Workers : job'[v] # None <=> worker'[cached][v] = "busy"
    BY <1>0, <2>2, <2>3, <2>6 DEF Jobs
  <2>8. \A c \in Callers : calls'[c] = "wait" <=> Queued(c) \/ \E v \in Workers : job'[v] = c
    BY <1>0, <2>4, <2>5, <2>6 DEF Jobs
  <2>9. ~Queued(None)
    BY <1>0 DEF Queued, TypeOK
  <2>10. /\ \A u, v \in Workers : job'[u] = job'[v] /\ job'[u] # None => u = v
         /\ \A v \in Workers : ~Queued(job'[v])
    BY <1>0, <2>6, <2>9 DEF Jobs
  <2>11. \A i, j \in DOMAIN queue : queue[i] = queue[j] => i = j
    BY <1>0 DEF Jobs
  <2> QED
    BY <2>2, <2>7, <2>8, <2>10, <2>11 DEF Jobs, Queued
<1>17. ASSUME DropBackend PROVE Jobs'
  BY <1>0, <1>17, JobsKept DEF DropBackend
<1>18. ASSUME DropPool PROVE Jobs'
  BY <1>0, <1>18, JobsKept DEF DropPool
<1>19. CASE UNCHANGED vars
  BY <1>0, <1>19, JobsKept DEF vars
<1>20. QED
  BY <1>1, <1>2, <1>3, <1>4, <1>5, <1>6, <1>7, <1>8, <1>9, <1>10,
     <1>11, <1>12, <1>13, <1>14, <1>15, <1>16, <1>17, <1>18, <1>19 DEF Next, Call, Serve, Done

-----------------------------------------------------------------------------
(* What callers are told                                                   *)

Said == {"shut_down", "panicked", "no_workers", "no_reply"}

\* Nobody is told of a loss, and no worker is lost.
LEMMA LossesKept ==
  ASSUME Losses, cached' = cached, cached # 0 /\ tx'[cached] => tx[cached],
         \A c \in Callers, a \in Said : calls'[c] = a <=> calls[c] = a,
         cached # 0 => Panicked' = Panicked /\ (Live(cached) = {} => Live(cached)' = {})
  PROVE  Losses'
<1>1. \A a \in Said : Told(a)' = Told(a)
  BY DEF Told
<1>2. /\ Told("shut_down")' = Told("shut_down") /\ Told("panicked")' = Told("panicked")
      /\ Told("no_workers")' = Told("no_workers") /\ Told("no_reply")' = Told("no_reply")
  BY <1>1 DEF Said
<1> QED
  BY <1>2 DEF Losses

\* A reply tells what became of the worker.
LEMMA LossesStep == PoolInv /\ [Next]_vars => Losses'
<1> SUFFICES ASSUME PoolInv, [Next]_vars PROVE Losses'
  OBVIOUS
<1>0. TypeOK /\ LoadLock /\ Staff /\ Losses
  BY DEF PoolInv
<1>a. UNCHANGED <<cached, worker>> => Panicked' = Panicked /\ Live(cached)' = Live(cached)
  BY DEF Panicked, Live
<1> USE PoolAssumption DEF Pools, Workers, loading
<1>1. ASSUME NEW c \in Callers, Run(c) PROVE Losses'
  <2>1. \A d \in Callers, a \in Said : calls'[d] = a <=> calls[d] = a
    BY <1>0, <1>1 DEF TypeOK, Said, Run, Move
  <2>2. UNCHANGED <<cached, worker, tx>>
    BY <1>1 DEF Run
  <2> QED
    BY <1>0, <1>a, <2>1, <2>2, LossesKept
<1>2. ASSUME NEW c \in Callers, Look(c) PROVE Losses'
  <2>1. \A d \in Callers, a \in Said : calls'[d] = a <=> calls[d] = a
    BY <1>0, <1>2 DEF TypeOK, Said, Look, Have, Move
  <2>2. UNCHANGED <<cached, worker, tx>>
    BY <1>2 DEF Look
  <2> QED
    BY <1>0, <1>a, <2>1, <2>2, LossesKept
<1>3. ASSUME NEW c \in Callers, Lock(c) PROVE Losses'
  <2>1. \A d \in Callers, a \in Said : calls'[d] = a <=> calls[d] = a
    BY <1>0, <1>3 DEF TypeOK, Said, Lock, Have, Move, SecondLook
  <2>2. UNCHANGED <<cached, worker, tx>>
    BY <1>3 DEF Lock
  <2> QED
    BY <1>0, <1>a, <2>1, <2>2, LossesKept
<1>4. ASSUME NEW c \in Callers, LoadFails(c) PROVE Losses'
  <2>1. \A d \in Callers, a \in Said : calls'[d] = a <=> calls[d] = a
    BY <1>0, <1>4 DEF TypeOK, Said, LoadFails, NotLoaded
  <2>2. UNCHANGED <<cached, worker, tx>>
    BY <1>4 DEF LoadFails
  <2> QED
    BY <1>0, <1>a, <2>1, <2>2, LossesKept
<1>5. ASSUME NEW c \in Callers, Spawn(c) PROVE Losses'
  <2>1. cached = 0 /\ cached' = 0
    BY <1>0, <1>5 DEF Spawn, TypeOK, LoadLock
  <2>2. \A d \in Callers, a \in Said : calls'[d] = a <=> calls[d] = a
    BY <1>0, <1>5 DEF Spawn, NotLoaded, Move, TypeOK, Said
  <2> QED
    BY <1>0, <2>1, <2>2, LossesKept
<1>6. ASSUME NEW c \in Callers, CollectReady(c) PROVE Losses'
  <2>1. /\ cached = 0 /\ loads \in Pools /\ UNCHANGED worker /\ calls[c] = "collect"
        /\ collected \in Nat /\ collected' = collected + 1
        /\ ready \in Seq({"up", "down"}) /\ ready # <<>> /\ ready[1] = "up"
    BY <1>0, <1>6 DEF CollectReady, TypeOK, LoadLock
  <2>2. \A d \in Callers, a \in Said : calls'[d] = a <=> calls[d] = a
    BY <1>0, <1>6 DEF CollectReady, Have, TypeOK, Said
  <2>3. CASE collected' # Streams
    <3>1. cached' = 0
      BY <1>6, <2>1, <2>3 DEF CollectReady
    <3> QED
      BY <1>0, <2>1, <2>2, <3>1, LossesKept
  <2>4. CASE collected' = Streams
    <3> DEFINE B == With(loads, {"starting", "exited"})
    <3>1. cached' = loads
      BY <1>6, <2>1, <2>4 DEF CollectReady, Cache
    <3>2. /\ \A w \in Workers : worker[loads][w] \in {"starting", "idle", "exited"}
          /\ collected + Len(ready) + Cardinality(With(loads, {"starting"})) <= Streams
          /\ Down \/ collected + Len(ready) + Cardinality(B) <= Streams
      BY <2>1 DEF PoolInv, Reports
    <3>3. /\ IsFiniteSet(B) /\ Cardinality(B) \in Nat
          /\ Cardinality(With(loads, {"starting"})) \in Nat
      BY WithIsFinite
    <3> DEFINE starting == Cardinality(With(loads, {"starting"}))
               present == Cardinality(B)
    <3>n. starting \in Nat /\ present \in Nat
      BY <3>3
    <3>a. collected + Len(ready) + starting <= Streams
      BY <3>2
    <3>s. Streams \in Nat
      BY PoolAssumption
    <3>c. collected \in Nat /\ collected + 1 = Streams
      BY <2>1, <2>4
    <3>b. Len(ready) \in Nat \ {0}
      BY <2>1
    <3>4. Len(ready) = 1
      <4>1. \A a, l, s, n \in Nat : l # 0 /\ a + l + s <= n /\ a + 1 = n => l = 1
        OBVIOUS
      <4> HIDE DEF starting, present, B
      <4>2. Len(ready) \in Nat /\ Len(ready) # 0
        BY <3>b
      <4> QED
        BY <3>n, <3>a, <3>s, <3>c, <4>1, <4>2, Zenon
    <3>5. ~Down
      BY <2>1, <3>4 DEF Down
    <3>6. Cardinality(B) = 0
      <4>1. collected + Len(ready) + present <= Streams
        BY <3>2, <3>5
      <4> HIDE DEF starting, present, B
      <4>2. present = 0
        BY <3>n, <3>s, <3>c, <3>4, <4>1
      <4> QED
        BY <4>2 DEF present
    <3>7. B = {}
      BY <3>3, <3>6, FS_EmptySet
    <3>8. Panicked' = {}
      BY <2>1, <3>1, <3>2, <3>7 DEF Panicked, With
    <3>9. \A a \in Said : Told(a)' = {}
      BY <1>0, <2>1, <2>2 DEF Losses, Told, Said
    <3>10. /\ Told("shut_down")' = {} /\ Told("panicked")' = {}
           /\ Told("no_workers")' = {} /\ Told("no_reply")' = {}
      BY <3>9 DEF Said
    <3> QED
      BY <2>1, <3>1, <3>8, <3>10 DEF Losses
  <2> QED
    BY <2>3, <2>4
<1>7. ASSUME NEW c \in Callers, CollectFailure(c) PROVE Losses'
  <2>1. cached = 0 /\ cached' = 0
    BY <1>0, <1>7 DEF CollectFailure, TypeOK, LoadLock
  <2>2. \A d \in Callers, a \in Said : calls'[d] = a <=> calls[d] = a
    BY <1>0, <1>7 DEF CollectFailure, NotLoaded, TypeOK, Said
  <2> QED
    BY <1>0, <2>1, <2>2, LossesKept
<1>8. ASSUME NEW c \in Callers, EmbedNothing(c) PROVE Losses'
  <2>1. \A d \in Callers, a \in Said : calls'[d] = a <=> calls[d] = a
    BY <1>0, <1>8 DEF TypeOK, Said, EmbedNothing, Move
  <2>2. UNCHANGED <<cached, worker, tx>>
    BY <1>8 DEF EmbedNothing
  <2> QED
    BY <1>0, <1>a, <2>1, <2>2, LossesKept
<1>9. ASSUME NEW c \in Callers, Send(c) PROVE Losses'
  <2>1. /\ calls[c] = "send" /\ UNCHANGED <<cached, worker, tx>>
        /\ \A d \in Callers \ {c} : calls'[d] = calls[d]
    BY <1>0, <1>9 DEF Send, Move, TypeOK
  <2>2. pool[c] = cached /\ cached # 0 /\ tx[cached]
    BY <2>1 DEF PoolInv, Handles, Held
  <2>3. CASE calls'[c] = "no_workers"
    <3>1. Live(cached) = {}
      BY <1>0, <1>9, <2>2, <2>3 DEF Send, Move, TypeOK
    <3>2. /\ Told("shut_down")' = Told("shut_down") /\ Told("panicked")' = Told("panicked")
      BY <2>1, <2>3 DEF Told
    <3> QED
      BY <1>0, <1>a, <2>1, <2>2, <3>1, <3>2 DEF Losses
  <2>4. CASE calls'[c] # "no_workers"
    <3>1. calls'[c] = "wait"
      BY <1>0, <1>9, <2>2, <2>4 DEF Send, Move, TypeOK
    <3>2. \A d \in Callers, a \in Said : calls'[d] = a <=> calls[d] = a
      BY <2>1, <3>1 DEF Said
    <3> QED
      BY <1>0, <1>a, <2>1, <3>2, LossesKept
  <2> QED
    BY <2>3, <2>4
<1>10. ASSUME NEW c \in Callers, Return(c) PROVE Losses'
  <2>1. \A d \in Callers, a \in Said : calls'[d] = a <=> calls[d] = a
    BY <1>0, <1>10 DEF TypeOK, Said, Return
  <2>2. UNCHANGED <<cached, worker, tx>>
    BY <1>10 DEF Return
  <2> QED
    BY <1>0, <1>a, <2>1, <2>2, LossesKept
<1>11. ASSUME NEW c \in Callers, Cancel(c) PROVE Losses'
  <2>1. \A d \in Callers, a \in Said : calls'[d] = a <=> calls[d] = a
    BY <1>0, <1>11 DEF TypeOK, Said, Cancel
  <2>2. UNCHANGED <<cached, worker, tx>>
    BY <1>11 DEF Cancel
  <2> QED
    BY <1>0, <1>a, <2>1, <2>2, LossesKept
<1>12. ASSUME NEW c \in Callers, DropHandle(c) PROVE Losses'
  <2>1. \A d \in Callers, a \in Said : calls'[d] = a <=> calls[d] = a
    BY <1>0, <1>12 DEF TypeOK, Said, DropHandle
  <2>2. UNCHANGED <<cached, worker, tx>>
    BY <1>12 DEF DropHandle
  <2> QED
    BY <1>0, <1>a, <2>1, <2>2, LossesKept
<1>13. ASSUME NEW p \in Pools, NEW w \in Workers, Start(p, w) PROVE Losses'
  <2>1. UNCHANGED <<calls, cached, tx>> /\ (cached # 0 => cached \in Pools)
    BY <1>0, <1>13 DEF Start, TypeOK
  <2>2. PICK to \in {"idle", "exited"} : Moved(p, w, "starting", to)
    BY <1>13 DEF Start
  <2> to \in Threads
    BY <2>2 DEF Threads
  <2>3. /\ worker[p][w] = "starting"
        /\ \A q \in Pools, v \in Workers :
             worker'[q][v] = IF q = p /\ v = w THEN to ELSE worker[q][v]
    BY <1>0, <2>2, MovedWorker
  <2>4. p # cached
    BY <1>0, <2>3 DEF Staff
  <2>5. cached # 0 => \A v \in Workers : worker'[cached][v] = worker[cached][v]
    BY <2>1, <2>3, <2>4
  <2>6. cached # 0 => Panicked' = Panicked /\ Live(cached)' = Live(cached)
    BY <2>1, <2>5 DEF Panicked, Live
  <2> QED
    BY <1>0, <2>1, <2>6, LossesKept
<1>14. ASSUME NEW p \in Pools, NEW w \in Workers, Exit(p, w) PROVE Losses'
  <2>1. UNCHANGED <<cached, tx>> /\ (cached # 0 => cached \in Pools)
    BY <1>0, <1>14 DEF Exit, TypeOK
  <2>2. PICK from \in {"leaving", "idle"} : Moved(p, w, from, "exited") /\ (from = "idle" => ~tx[p])
    BY <1>14 DEF Exit
  <2> "exited" \in Threads
    BY DEF Threads
  <2>3. /\ worker[p][w] = from
        /\ \A q \in Pools, v \in Workers :
             worker'[q][v] = IF q = p /\ v = w THEN "exited" ELSE worker[q][v]
    BY <1>0, <2>2, MovedWorker
  <2>4. cached # 0 => (Live(cached) = {} => Live(cached)' = {})
    BY <2>1, <2>3 DEF Live
  <2>5. cached # 0 /\ tx[cached] => Panicked' = Panicked
    BY <2>1, <2>2, <2>3 DEF Panicked
  <2>6. \A c \in Callers : calls'[c] = calls[c] \/ (calls[c] = "wait" /\ calls'[c] = "no_reply")
    BY <1>0, <1>14 DEF Exit, PoolInv, Jobs, Queued
  <2>7. Told("shut_down")' = Told("shut_down") /\ Told("panicked")' = Told("panicked")
    BY <2>6 DEF Told
  <2>8. CASE p = cached /\ LastReceiver(p, w)
    <3>1. cached # 0 /\ Live(cached)' = {}
      BY <2>1, <2>3, <2>8 DEF LastReceiver, Live
    <3> QED
      BY <1>0, <2>1, <2>5, <2>7, <3>1 DEF Losses
  <2>9. CASE ~(p = cached /\ LastReceiver(p, w))
    <3>1. Told("no_workers")' = Told("no_workers") /\ Told("no_reply")' = Told("no_reply")
      BY <1>14, <2>9 DEF Exit, Told
    <3> QED
      BY <1>0, <2>1, <2>4, <2>5, <2>7, <3>1 DEF Losses
  <2> QED
    BY <2>8, <2>9
<1>15. ASSUME NEW w \in Workers, Take(w) PROVE Losses'
  <2>1. cached \in Pools /\ Moved(cached, w, "idle", "busy") /\ UNCHANGED <<calls, cached, tx>>
    BY <1>0, <1>15 DEF Take, TypeOK
  <2> "busy" \in Threads
    BY DEF Threads
  <2>2. /\ worker[cached][w] = "idle"
        /\ \A q \in Pools, v \in Workers :
             worker'[q][v] = IF q = cached /\ v = w THEN "busy" ELSE worker[q][v]
    BY <1>0, <2>1, MovedWorker
  <2>3. Panicked' = Panicked /\ Live(cached)' = Live(cached)
    BY <2>1, <2>2 DEF Panicked, Live
  <2> QED
    BY <1>0, <2>1, <2>3, LossesKept
<1>16. ASSUME NEW w \in Workers, Reply(w) PROVE Losses'
  <2>1. PICK a \in {"result", "panicked"} :
          /\ Moved(cached, w, "busy", IF a = "panicked" THEN "leaving" ELSE "idle")
          /\ calls' = [calls EXCEPT ![job[w]] = a]
    BY <1>16 DEF Reply, Answered
  <2>2. cached \in Pools /\ UNCHANGED <<tx, cached>>
    BY <1>0, <1>16 DEF Reply, TypeOK
  <2> DEFINE to == IF a = "panicked" THEN "leaving" ELSE "idle"
  <2> to \in Threads
    BY DEF Threads
  <2>3. /\ worker[cached][w] = "busy"
        /\ \A q \in Pools, v \in Workers :
             worker'[q][v] = IF q = cached /\ v = w THEN to ELSE worker[q][v]
    BY <1>0, <2>1, <2>2, MovedWorker
  <2>4. job[w] \in Callers /\ calls[job[w]] = "wait"
    BY <1>0, <2>2, <2>3 DEF PoolInv, Jobs, TypeOK
  <2>5. \A c \in Callers : calls'[c] = IF c = job[w] THEN a ELSE calls[c]
    BY <1>0, <2>1, <2>4 DEF TypeOK
  <2>6. Live(cached)' = Live(cached)
    BY <2>2, <2>3 DEF Live
  <2>7. CASE a = "result"
    <3>1. Panicked' = Panicked
      BY <2>2, <2>3, <2>7 DEF Panicked
    <3>2. \A c \in Callers, s \in Said : calls'[c] = s <=> calls[c] = s
      BY <2>4, <2>5, <2>7 DEF Said
    <3> QED
      BY <1>0, <2>2, <2>6, <3>1, <3>2, LossesKept
  <2>8. CASE a = "panicked"
    <3>1. Panicked' = Panicked \cup {w} /\ w \notin Panicked
      BY <2>2, <2>3, <2>8 DEF Panicked
    <3>2. Told("panicked")' = Told("panicked") \cup {job[w]} /\ job[w] \notin Told("panicked")
      BY <2>4, <2>5, <2>8 DEF Told
    <3>3. /\ Told("shut_down")' = Told("shut_down")
          /\ Told("no_workers")' = Told("no_workers") /\ Told("no_reply")' = Told("no_reply")
      BY <2>4, <2>5, <2>8 DEF Told
    <3>4. IsFiniteSet(Panicked)
      <4>1. Panicked = With(cached, {"leaving", "exited"})
        BY DEF Panicked, With
      <4> QED
        BY <4>1, WithIsFinite
    <3>5. IsFiniteSet(Told("panicked"))
      BY FS_Subset DEF Told
    <3>6. Cardinality(Panicked') = Cardinality(Panicked) + 1
      BY <3>1, <3>4, FS_AddElement
    <3>7. Cardinality(Told("panicked")') = Cardinality(Told("panicked")) + 1
      BY <3>2, <3>5, FS_AddElement
    <3> QED
      BY <1>0, <2>2, <2>6, <3>3, <3>6, <3>7 DEF Losses
  <2> QED
    BY <2>7, <2>8
<1>17. ASSUME DropBackend PROVE Losses'
  BY <1>0, <1>a, <1>17, LossesKept DEF DropBackend
<1>18. ASSUME DropPool PROVE Losses'
  <2>1. /\ UNCHANGED <<calls, cached, worker>> /\ cached \in Pools
        /\ tx' = [tx EXCEPT ![cached] = FALSE]
    BY <1>0, <1>18 DEF DropPool, TypeOK
  <2>2. ~tx'[cached]
    BY <1>0, <2>1 DEF TypeOK
  <2> QED
    BY <1>0, <1>a, <2>1, <2>2, LossesKept
<1>19. CASE UNCHANGED vars
  BY <1>0, <1>a, <1>19, LossesKept DEF vars
<1>20. QED
  BY <1>1, <1>2, <1>3, <1>4, <1>5, <1>6, <1>7, <1>8, <1>9, <1>10,
     <1>11, <1>12, <1>13, <1>14, <1>15, <1>16, <1>17, <1>18, <1>19 DEF Next, Call, Serve, Done

-----------------------------------------------------------------------------
(* Theorems                                                                *)

\* Nothing is loaded and nobody has called.
LEMMA InitPool == Init => PoolInv
<1> SUFFICES ASSUME Init PROVE PoolInv
  OBVIOUS
<1> USE PoolAssumption DEF Init
<1>1. TypeOK
  BY DEF TypeOK, Steps, Threads, Pools, Workers
<1>2. LoadLock /\ Handles /\ Staff
  BY DEF LoadLock, Handles, Staff, Inside, Held, Pools
<1>3. Reports
  BY DEF Reports
<1>4. Jobs
  BY DEF Jobs, Queued
<1>5. Losses
  BY DEF Losses, Told
<1> QED
  BY <1>1, <1>2, <1>3, <1>4, <1>5 DEF PoolInv

\* Every step keeps the invariant.
LEMMA PoolStep == PoolInv /\ [Next]_vars => PoolInv'
<1> SUFFICES ASSUME PoolInv, [Next]_vars PROVE PoolInv'
  OBVIOUS
<1>1. TypeOK /\ LoadLock /\ Handles /\ Reports /\ Jobs
  BY DEF PoolInv
<1> QED
  BY <1>1, TypeStep, LockStep, HandlesStep, ReportsStep, StaffStep, JobsStep, LossesStep DEF PoolInv

\* The pool as the code has it: the lock of pool(), the reports of the workers,
\* the jobs of embed and worker_loop, the errors.
LEMMA PoolCorrect == Spec => []PoolInv
<1>1. Init => PoolInv
  BY InitPool
<1>2. PoolInv /\ [Next]_vars => PoolInv'
  BY PoolStep
<1> QED
  BY <1>1, <1>2, PTL DEF Spec

\* However many calls race for the first load and however many loads fail, one
\* pool is usable, everybody has the cached one, and it was cached with every
\* thread up (pool()).
THEOREM PoolIsOne == Spec => []OnePool
<1>1. PoolInv => OnePool
  <2> SUFFICES ASSUME PoolInv PROVE OnePool
    OBVIOUS
  <2>1. TypeOK /\ LoadLock /\ Handles /\ Staff
    BY DEF PoolInv
  <2>2. \A p, q \in Pools : tx[p] /\ tx[q] => p = q
    BY <2>1, PoolAssumption DEF LoadLock, Pools
  <2> QED
    BY <2>1, <2>2 DEF OnePool, Handles, Staff
<1> QED
  BY <1>1, PoolCorrect, PTL

\* A call that waits is in the queue or with one worker, and once, whatever
\* panics, drops or ends (embed, worker_loop).
THEOREM WaitingCallsAreHeldOnce == Spec => []EachWaitingCallIsHeldOnce
<1>1. PoolInv => EachWaitingCallIsHeldOnce
  <2> SUFFICES ASSUME PoolInv, NEW c \in Callers
               PROVE  Cardinality(Places(c)) = IF calls[c] = "wait" THEN 1 ELSE 0
    BY DEF EachWaitingCallIsHeldOnce
  <2>1. Jobs /\ c # None
    BY PoolAssumption DEF PoolInv
  <2>2. CASE calls[c] # "wait"
    <3>1. Places(c) = {}
      BY <2>1, <2>2 DEF Places, Jobs, Queued
    <3> QED
      BY <2>2, <3>1, FS_EmptySet
  <2>3. CASE calls[c] = "wait" /\ Queued(c)
    <3>1. PICK i \in DOMAIN queue : queue[i] = c
      BY <2>3 DEF Queued
    <3>2. \A w \in Workers : job[w] # c
      BY <2>1, <2>3 DEF Jobs
    <3>3. \A j \in DOMAIN queue : queue[j] = c => j = i
      BY <2>1, <3>1 DEF Jobs
    <3>4. Places(c) = {<<"queue", i>>}
      BY <3>1, <3>2, <3>3 DEF Places
    <3> QED
      BY <2>3, <3>4, FS_Singleton
  <2>4. CASE calls[c] = "wait" /\ ~Queued(c)
    <3>1. PICK w \in Workers : job[w] = c
      BY <2>1, <2>4 DEF Jobs
    <3>2. \A v \in Workers : job[v] = c => v = w
      BY <2>1, <3>1 DEF Jobs
    <3>3. Places(c) = {<<"worker", w>>}
      BY <2>4, <3>1, <3>2 DEF Places, Queued
    <3> QED
      BY <2>4, <3>3, FS_Singleton
  <2> QED
    BY <2>2, <2>3, <2>4
<1> QED
  BY <1>1, PoolCorrect, PTL

\* What a caller is told is so: never shut down, one panic for each worker lost,
\* given up only when no worker is left (embed's errors).
THEOREM ErrorsTellTheTruth == Spec => []ErrorsAreTrue
<1>1. PoolInv => ErrorsAreTrue
  BY DEF PoolInv, Losses, Told, ErrorsAreTrue
<1> QED
  BY <1>1, PoolCorrect, PTL
=============================================================================
