------------------------------ MODULE PyIndex ------------------------------
(***************************************************************************)
(* m3_core_rs.VectorIndex under the threads of one Python process          *)
(* (m3-core-py): a read-write lock around the index, taken by upserts and  *)
(* searches without the GIL and by the rest with it.                       *)
(***************************************************************************)
EXTENDS VectorIndex

CONSTANTS Threads,
          Calls,    \* the calls a thread may make
          None

\* What a call carries; allowed is {} for None and {keys} for Some(keys).
ASSUME PyIndexAssumption ==
  /\ \A c \in Calls :
       \/ c.op = "upsert" /\ c.wellFormed \in BOOLEAN /\ c.pairs \in Seq(Int \X DOMAIN Approx)
       \/ c.op = "remove" /\ c.keys \in Seq(Int)
       \/ /\ c.op = "search" /\ c.wellFormed \in BOOLEAN /\ c.k \in Nat /\ c.zero \in BOOLEAN
          /\ \A keys \in c.allowed : keys \in Seq(Int) /\ c.allowed = {keys}
       \/ c.op = "len"
  /\ None \notin Threads
  /\ None \notin {"ok", "error"} \cup Nat \cup Seq([key : Int, score : Int])

VARIABLES at,       \* at[t]: where the thread is in its call
          call,     \* call[t]: its call
          answer,   \* answer[t]: what the call returns, once that is known
          index,    \* the index behind the lock
          gil,      \* the thread that holds the GIL
          readers, writer  \* the lock

piVars == <<at, call, answer, index, gil, readers, writer>>

\* Steps with the GIL: "attached", "dim", "lock" and "locked" of a call that
\* keeps it; without: "detached", "working", and "attach" to get it back.
Steps == {"idle", "attached", "dim", "lock", "locked", "detached", "working",
          "attach", "return"}

PiInit == /\ at = [t \in Threads |-> "idle"] /\ call = [t \in Threads |-> None]
          /\ answer = [t \in Threads |-> None]
          /\ index = EmptyIndex /\ gil = None /\ readers = {} /\ writer = None

Go(t, from, to) == at[t] = from /\ at' = [at EXCEPT ![t] = to]
Writes(c) == c.op \in {"upsert", "remove"}

\* Python runs, with the GIL, up to a call.
Enter(t, c) ==
  /\ gil = None /\ gil' = t /\ Go(t, "idle", "attached")
  /\ call' = [call EXCEPT ![t] = c]
  /\ UNCHANGED <<answer, index, readers, writer>>

\* upsert_packed reads the dimension under the lock before it looks at its
\* buffer; search detaches at once; remove and len take the lock as they are.
Prepare(t) ==
  /\ \/ Go(t, "attached", "dim") /\ call[t].op = "upsert" /\ UNCHANGED gil
     \/ Go(t, "attached", "detached") /\ call[t].op = "search" /\ gil' = None
     \/ /\ Go(t, "attached", "lock") /\ call[t].op \in {"remove", "len"}
        /\ UNCHANGED gil
  /\ UNCHANGED <<call, answer, index, readers, writer>>

\* The guard of that read ends with the statement.
DimGuard(t) == UNCHANGED readers

\* A buffer that is not whole rows, one for each key, is refused here.
ReadDim(t) ==
  /\ at[t] = "dim" /\ writer = None
  /\ IF call[t].wellFormed
     THEN Go(t, "dim", "detached") /\ gil' = None /\ UNCHANGED answer
     ELSE /\ Go(t, "dim", "return") /\ UNCHANGED gil
          /\ answer' = [answer EXCEPT ![t] = "error"]
  /\ DimGuard(t)
  /\ UNCHANGED <<call, index, writer>>

Acquire(t) ==
  /\ Go(t, "lock", "locked") \/ Go(t, "detached", "working")
  /\ writer = None
  /\ IF Writes(call[t])
     THEN readers = {} /\ writer' = t /\ UNCHANGED readers
     ELSE readers' = readers \cup {t} /\ UNCHANGED writer
  /\ UNCHANGED <<call, answer, index, gil>>

\* What a call does to the index, and what it answers.
Effect(i, c) ==
  CASE c.op = "upsert" -> [index |-> UpsertMany(i, c.pairs),
                           answer |-> IF Acceptable(c.pairs) THEN "ok" ELSE "error"]
    [] c.op = "remove" -> LET r == RemoveAll(i, c.keys)
                          IN  [index |-> r.index, answer |-> r.removed]
    [] c.op = "search" -> [index |-> i, answer |-> IF c.wellFormed
                                                    THEN Search(i, c.k, c.zero, c.allowed) ELSE "error"]
    [] c.op = "len"    -> [index |-> i, answer |-> Len(i.keys)]

Releases(t) == readers' = readers \ {t} /\ writer' = IF writer = t THEN None ELSE writer

WorkEnds(t) == Go(t, "locked", "return") \/ Go(t, "working", "attach")

\* The work under the lock; the guard is dropped with it, before a detached
\* call asks for the GIL again.
Work(t) ==
  /\ WorkEnds(t)
  /\ LET e == Effect(index, call[t])
     IN  index' = e.index /\ answer' = [answer EXCEPT ![t] = e.answer]
  /\ Releases(t)
  /\ UNCHANGED <<call, gil>>

Attach(t) ==
  /\ gil = None /\ gil' = t /\ Go(t, "attach", "return")
  /\ UNCHANGED <<call, answer, index, readers, writer>>

\* The call returns; the thread gives up the GIL sooner or later.
Leave(t) ==
  /\ Go(t, "return", "idle") /\ gil' = None
  /\ call' = [call EXCEPT ![t] = None] /\ answer' = [answer EXCEPT ![t] = None]
  /\ UNCHANGED <<index, readers, writer>>

Proceed(t) == \/ Prepare(t) \/ ReadDim(t) \/ Acquire(t) \/ Work(t) \/ Attach(t)
              \/ Leave(t)

PiNext == \E t \in Threads : (\E c \in Calls : Enter(t, c)) \/ Proceed(t)

\* The locks are not fair to a thread: another may take them again and again.
\* Each is given, in the end, to somebody who waits for it again and again.
\* (A step that is WorkEnds is a Work, which is enabled wherever WorkEnds is.)
PiFairness == \A t \in Threads : /\ WF_piVars(Prepare(t) \/ Leave(t)) /\ WF_at(WorkEnds(t))
                                 /\ SF_piVars(ReadDim(t) \/ Acquire(t) \/ Attach(t))

PiSpec == PiInit /\ [][PiNext]_piVars /\ PiFairness

-----------------------------------------------------------------------------
(* Properties                                                              *)

\* The lock excludes a writer from everybody else, who holds the GIL is where a
\* call has it, and the keys, the rows and the positions agree (VectorIndex).
IndexIsSound ==
  /\ \A t \in Threads : at[t] \in Steps
  /\ \A t \in Threads : gil = t <=> at[t] \in {"attached", "dim", "lock", "locked", "return"}
  /\ writer # None => readers = {}
  /\ Len(index.rows) = Len(index.keys)
  /\ Stored(index) = ToSet(index.keys)
  /\ \A k \in Stored(index) : /\ index.pos[k] \in DOMAIN index.keys
                              /\ index.keys[index.pos[k]] = k

\* A call has taken effect once it has an answer.
Phase(t) == IF at[t] = "idle" THEN [at |-> "idle"]
            ELSE IF answer[t] = None THEN [at |-> "called", call |-> call[t]]
            ELSE [at |-> "answered", call |-> call[t], answer |-> answer[t]]

Abstract == INSTANCE KeyedVectors WITH
              map <- [k \in Stored(index) |-> index.rows[index.pos[k]]],
              phase <- [t \in Threads |-> Phase(t)]

\* Whatever the threads do, the index is the map of KeyedVectors: every call is
\* atomic, a refused upsert stores nothing, and no removal loses or exchanges a
\* row of another key; and none waits for ever between the GIL and the lock
\* (VectorIndex, PyVectorIndex).
ImplementsKeyedVectors == Abstract!Spec

=============================================================================
