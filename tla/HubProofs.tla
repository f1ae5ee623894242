----------------------------- MODULE HubProofs -----------------------------
(***************************************************************************)
(* Proofs about Hub, for all ringers, connections, reader sets, batches,   *)
(* timeouts and limits.                                                    *)
(*                                                                         *)
(* NothingMissed is not inductive: it needs that the log is the tail of    *)
(* all that was rung, under consecutive numbers, so that what a trim drops *)
(* is exactly what is no longer there.  NoLostWakeup needs it in turn, and *)
(* what is true of a connection between looking at the log and sleeping.   *)
(* MailIsCoalesced needs that a ring which marks nothing lost leaves the   *)
(* first ring a sleeping wait found where it was, and one connection for   *)
(* each reader set.                                                        *)
(***************************************************************************)
EXTENDS Hub, TLAPS, FiniteSetTheorems, SequenceTheorems, WellFoundedInduction

----------------------------------------------------------------------------
(* Least elements. *)

\* A nonempty set of naturals has the least element that Trimmed, Ready and
\* FirstMatch choose.
LEMMA LeastExists ==
  ASSUME NEW S, S \subseteq Nat, S # {}
  PROVE  Least(S) \in S /\ \A m \in S : Least(S) <= m
<1>. DEFINE Upto == {0 .. n : n \in S}
            Below == StrictSubsetOrdering(Nat)
<1>1. ASSUME NEW n \in S PROVE 0 .. n \in FiniteSubsetsOf(Nat)
  <2>1. IsFiniteSet(0 .. n)
    BY FS_Interval
  <2>. QED BY <2>1 DEF FiniteSubsetsOf
<1>2. Upto \subseteq FiniteSubsetsOf(Nat) /\ Upto # {}
  BY <1>1
<1>3. IsWellFoundedOn(Below, FiniteSubsetsOf(Nat))
  BY FS_StrictSubsetOrderingWellFounded
<1>. HIDE DEF Below
<1>4. \E U \in Upto : \A V \in Upto : ~ (<<V, U>> \in Below)
  BY <1>2, <1>3, WFMin
<1>5. PICK n \in S : \A m \in S : ~ (<<0 .. m, 0 .. n>> \in Below)
  BY <1>4
<1>6. ASSUME NEW m \in S, m < n PROVE FALSE
  <2>1. m \in Nat /\ n \in Nat
    OBVIOUS
  <2>2. n \in 0 .. n /\ n \notin 0 .. m /\ 0 .. m \subseteq 0 .. n /\ 0 .. n \subseteq Nat
    BY <1>6, <2>1
  <2>3. <<0 .. m, 0 .. n>> \in Below
    BY <2>2 DEF Below, StrictSubsetOrdering
  <2>. QED BY <1>5, <2>3
<1>7. \A m \in S : n <= m
  BY <1>6
<1>. QED BY <1>7 DEF Least

----------------------------------------------------------------------------
(* The log. *)

\* The log as ring leaves it before the trim: every recipient of the batch
\* pushed behind the rings kept, under the next numbers.
LEMMA PushedType ==
  ASSUME TypeOK, NEW r \in Ringers, ringing[r].at = "lock"
  PROVE  /\ ringing[r].batch \in Seq(Ids)
         /\ Pushed(r) \in Seq(Rings)
         /\ Len(Pushed(r)) = Len(ringing[r].batch)
         /\ \A i \in 1 .. Len(ringing[r].batch) :
              Pushed(r)[i].seq = seq + i /\ Pushed(r)[i].recipient = ringing[r].batch[i]
<1>1. ringing[r].batch \in Seq(Ids) /\ ringing[r].clock \in Nat
  <2>1. ringing[r].batch \in Batches \cup {<<>>} /\ ringing[r].clock \in Nat
    BY DEF TypeOK
  <2>2. <<>> \in Seq(Ids)
    OBVIOUS
  <2>. QED BY <2>1, <2>2, HubAssumption
<1>2. Len(ringing[r].batch) \in Nat
  BY <1>1
<1>3. \A i \in 1 .. Len(ringing[r].batch) : ringing[r].batch[i] \in Ids
  BY <1>1
<1>4. \A i \in 1 .. Len(ringing[r].batch) :
        [seq |-> seq + i, recipient |-> ringing[r].batch[i], at |-> ringing[r].clock] \in Rings
  BY <1>1, <1>2, <1>3 DEF TypeOK, Rings
<1>5. Pushed(r) \in [1 .. Len(ringing[r].batch) -> Rings]
  BY <1>4 DEF Pushed
<1>6. Pushed(r) \in Seq(Rings) /\ Len(Pushed(r)) = Len(ringing[r].batch)
  BY <1>2, <1>5
<1>. QED BY <1>1, <1>6 DEF Pushed

\* The trim stops within the log, and leaves no more than MaxLog rings.
LEMMA TrimmedType ==
  ASSUME NEW all \in Seq(Rings), NEW clock
  PROVE  /\ Trimmed(all, clock) \in 0 .. Len(all)
         /\ Len(all) - Trimmed(all, clock) <= MaxLog
<1>. DEFINE Stops == {n \in 0 .. Len(all) :
                        /\ Len(all) - n <= MaxLog
                        /\ n < Len(all) => clock <= all[n + 1].at + Keep}
<1>1. Len(all) \in Nat
  OBVIOUS
<1>2. Len(all) \in Stops
  BY <1>1, HubAssumption
<1>3. Stops \subseteq Nat /\ Stops # {}
  BY <1>1, <1>2
<1>4. Least(Stops) \in Stops
  BY <1>3, LeastExists
<1>. QED BY <1>4 DEF Trimmed

\* What a trim counts as lost to a reader set is counted: none only if none.
LEMMA LostToType ==
  ASSUME NEW k, NEW all, NEW n \in Nat
  PROVE  /\ Cardinality(LostTo(k, all, n)) \in Nat
         /\ LostTo(k, all, n) # {} => Cardinality(LostTo(k, all, n)) > 0
<1>1. IsFiniteSet(1 .. n)
  BY FS_Interval
<1>2. IsFiniteSet(LostTo(k, all, n))
  BY <1>1, FS_Subset DEF LostTo
<1>. QED BY <1>2, FS_CardinalityType, FS_EmptySet

\* Whole-log facts of one ring: the log it leaves, in numbers and recipients.
LEMMA RingLockedType ==
  ASSUME TypeOK, NEW r \in Ringers, RingLocked(r)
  PROVE  \E all \in Seq(Rings), n \in Nat :
           /\ all = log \o Pushed(r)
           /\ Len(all) = Len(log) + Len(ringing[r].batch)
           /\ n <= Len(all) /\ Len(all) - n <= MaxLog
           /\ log' \in Seq(Rings)
           /\ Len(log') = Len(all) - n
           /\ \A i \in 1 .. Len(all) - n : log'[i] = all[n + i]
           /\ lost' = [k \in Keys |->
                        IF k \in known THEN lost[k] + Cardinality(LostTo(k, all, n)) ELSE lost[k]]
<1>. DEFINE all == log \o Pushed(r)
            n == Trimmed(all, ringing[r].clock)
<1>1. /\ ringing[r].at = "lock"
      /\ log' = SubSeq(all, n + 1, Len(all))
      /\ lost' = [k \in Keys |->
                   IF k \in known THEN lost[k] + Cardinality(LostTo(k, all, n)) ELSE lost[k]]
  BY DEF RingLocked
<1>2. /\ log \in Seq(Rings) /\ Pushed(r) \in Seq(Rings)
      /\ Len(Pushed(r)) = Len(ringing[r].batch)
  BY <1>1, PushedType DEF TypeOK
<1>3. all \in Seq(Rings) /\ Len(all) = Len(log) + Len(ringing[r].batch)
  <2>1. all \in Seq(Rings) /\ Len(all) = Len(log) + Len(Pushed(r))
    BY <1>2, ConcatProperties, Zenon
  <2>. QED BY <1>2, <2>1
<1>. HIDE DEF all
<1>4. n \in 0 .. Len(all) /\ Len(all) - n <= MaxLog
  BY <1>3, TrimmedType
<1>. HIDE DEF n
<1>5. \A i \in n + 1 .. Len(all) : all[i] \in Rings
  BY <1>3, <1>4
<1>6. /\ log' \in Seq(Rings)
      /\ Len(log') = IF n + 1 <= Len(all) THEN Len(all) - (n + 1) + 1 ELSE 0
      /\ \A i \in 1 .. Len(all) - (n + 1) + 1 : log'[i] = all[n + 1 + i - 1]
  BY <1>1, <1>3, <1>4, <1>5, SubSeqProperties
<1>7. Len(all) \in Nat
  BY <1>3
<1>8. Len(log') = Len(all) - n /\ \A i \in 1 .. Len(all) - n : log'[i] = all[n + i]
  BY <1>4, <1>6, <1>7
<1>9. all = log \o Pushed(r) /\ n \in Nat /\ n <= Len(all)
  BY <1>4, <1>7 DEF all
<1>. QED
  <2>1. /\ all = log \o Pushed(r)
        /\ Len(all) = Len(log) + Len(ringing[r].batch)
        /\ n <= Len(all) /\ Len(all) - n <= MaxLog
        /\ log' \in Seq(Rings)
        /\ Len(log') = Len(all) - n
        /\ \A i \in 1 .. Len(all) - n : log'[i] = all[n + i]
        /\ lost' = [k \in Keys |->
                     IF k \in known THEN lost[k] + Cardinality(LostTo(k, all, n)) ELSE lost[k]]
    BY <1>1, <1>3, <1>4, <1>6, <1>8, <1>9
  <2>. QED BY <1>3, <1>9, <2>1, Zenon

----------------------------------------------------------------------------
(* Types. *)

\* A Hub starts with the types.
LEMMA InitType == Init => TypeOK
<1>. SUFFICES ASSUME Init PROVE TypeOK
  OBVIOUS
<1>1. log \in Seq(Rings) /\ Len(log) = 0 /\ rung \in Seq(Ids)
  BY DEF Init
<1>2. ringing \in [Ringers -> [at : {"idle", "lock", "notify"}, batch : Batches \cup {<<>>}, clock : Nat]]
  BY DEF Init, Silent
<1>3. reply \in [Conns -> Replies]
  BY DEF Init, NoReply, Replies
<1>. QED BY <1>1, <1>2, <1>3, HubAssumption DEF Init, TypeOK, Places, NoLimits

\* Whatever wait returns, the places and the replies keep their types.
LEMMA ReturnType ==
  ASSUME TypeOK, NEW w \in Conns, NEW place \in Places, NEW wake \in Replies,
         Return(w, place, wake)
  PROVE  pc' \in [Conns -> Places] /\ reply' \in [Conns -> Replies] /\ notified' \subseteq Conns
BY DEF Return, GoTo, Dropped, TypeOK

\* The limits of a connection are set, one at a time or both at once.
LEMMA LimitsType ==
  ASSUME until \in [Conns -> [deadline : Nat, window : Nat]], NEW w \in Conns, NEW n \in Nat
  PROVE  /\ [until EXCEPT ![w].deadline = n] \in [Conns -> [deadline : Nat, window : Nat]]
         /\ [until EXCEPT ![w].window = n] \in [Conns -> [deadline : Nat, window : Nat]]
         /\ [until EXCEPT ![w] = NoLimits] \in [Conns -> [deadline : Nat, window : Nat]]
<1>1. /\ [until[w] EXCEPT !.deadline = n] \in [deadline : Nat, window : Nat]
      /\ [until[w] EXCEPT !.window = n] \in [deadline : Nat, window : Nat]
      /\ NoLimits \in [deadline : Nat, window : Nat]
  BY DEF NoLimits
<1>. QED BY <1>1

\* A resync keeps the types of cursors and marks.
LEMMA CaughtUpType ==
  ASSUME TypeOK, NEW k \in Keys, CaughtUp(k)
  PROVE  lost' \in [Keys -> Nat] /\ cursors' \in [Keys -> Nat]
BY DEF CaughtUp, TypeOK

\* What wait answers is a reply.
LEMMA WakesAreReplies ==
  /\ Resync \in Replies /\ Timeout \in Replies /\ NoReply \in Replies
  /\ \A n \in Nat \ {0}, S \in SUBSET Ids : Mail(n, S) \in Replies
BY DEF Resync, Timeout, NoReply, Mail, Replies

\* The rings a wait finds are positions of the log; it takes the first one's
\* time and the last one's number.
LEMMA MatchesType ==
  ASSUME TypeOK, NEW k \in Keys, Matches(k) # {}
  PROVE  /\ Least(Matches(k)) \in Matches(k)
         /\ Ready(k) \in Nat
         /\ Cardinality(Matches(k)) \in Nat \ {0}
         /\ {log[i].recipient : i \in Matches(k)} \subseteq Ids
         /\ \E last \in Matches(k) : \A j \in Matches(k) : j <= last
<1>1. log \in Seq(Rings) /\ DOMAIN log = 1 .. Len(log) /\ Len(log) \in Nat
  BY DEF TypeOK
<1>2. Matches(k) \subseteq 1 .. Len(log) /\ \A i \in Matches(k) : log[i] \in Rings
  BY <1>1 DEF Matches
<1>. HIDE DEF TypeOK
<1>3. Least(Matches(k)) \in Matches(k)
  BY <1>2, LeastExists
<1>4. Ready(k) \in Nat
  BY <1>2, <1>3, HubAssumption DEF Ready, Rings
<1>5. Cardinality(Matches(k)) \in Nat \ {0}
  <2>1. IsFiniteSet(1 .. Len(log))
    BY <1>1, FS_Interval
  <2>2. IsFiniteSet(Matches(k))
    BY <1>2, <2>1, FS_Subset
  <2>. QED BY <2>2, FS_CardinalityType, FS_EmptySet
<1>6. {log[i].recipient : i \in Matches(k)} \subseteq Ids
  BY <1>2 DEF Rings
<1>7. \E last \in Matches(k) : \A j \in Matches(k) : j <= last
  <2>. DEFINE Below == {Len(log) - j : j \in Matches(k)}
  <2>1. Below \subseteq Nat /\ Below # {}
    BY <1>1, <1>2
  <2>2. Least(Below) \in Below /\ \A m \in Below : Least(Below) <= m
    BY <2>1, LeastExists
  <2>3. PICK last \in Matches(k) : Least(Below) = Len(log) - last
    BY <2>2
  <2>4. \A j \in Matches(k) : Len(log) - last <= Len(log) - j
    BY <2>2, <2>3
  <2>. QED BY <1>1, <1>2, <2>4
<1>. QED BY <1>3, <1>4, <1>5, <1>6, <1>7

\* Every step of ring and of wait keeps the types.
LEMMA TypeStep == TypeOK /\ [Next]_vars => TypeOK'
<1>. SUFFICES ASSUME TypeOK, [Next]_vars PROVE TypeOK'
  OBVIOUS
<1>. USE HubAssumption
<1>1. CASE Tick
  BY <1>1 DEF Tick, hubVars, connVars, TypeOK
<1>2. ASSUME NEW r \in Ringers, NEW batch \in Batches, RingBegin(r, batch)
      PROVE  TypeOK'
  <2>1. [at |-> "lock", batch |-> batch, clock |-> now] \in
          [at : {"idle", "lock", "notify"}, batch : Batches \cup {<<>>}, clock : Nat]
    BY DEF TypeOK
  <2>. HIDE DEF HubAssumption
  <2>. QED BY <1>2, <2>1 DEF RingBegin, hubVars, connVars, TypeOK
<1>3. ASSUME NEW r \in Ringers, RingLocked(r)
      PROVE  TypeOK'
  <2>1. /\ ringing[r].batch \in Seq(Ids) /\ Len(ringing[r].batch) \in Nat
        /\ rung \in Seq(Ids) /\ seq \in Nat
    <3>1. ringing[r].at = "lock" /\ rung \in Seq(Ids) /\ seq \in Nat
      BY <1>3 DEF RingLocked, TypeOK
    <3>. QED BY <3>1, PushedType
  <2>2. seq' \in Nat /\ rung' \in Seq(Ids)
    <3>1. seq' = seq + Len(ringing[r].batch) /\ rung' = rung \o ringing[r].batch
      BY <1>3 DEF RingLocked
    <3>. QED BY <2>1, <3>1, ConcatProperties
  <2>3. log' \in Seq(Rings) /\ Len(log') <= MaxLog /\ lost' \in [Keys -> Nat]
    <3>1. PICK all \in Seq(Rings), n \in Nat :
            /\ log' \in Seq(Rings) /\ Len(log') = Len(all) - n /\ Len(all) - n <= MaxLog
            /\ lost' = [k \in Keys |->
                         IF k \in known THEN lost[k] + Cardinality(LostTo(k, all, n)) ELSE lost[k]]
      BY <1>3, RingLockedType
    <3>2. \A k \in Keys : Cardinality(LostTo(k, all, n)) \in Nat /\ lost[k] \in Nat
      BY LostToType DEF TypeOK
    <3>. QED BY <3>1, <3>2
  <2>4. ringing' \in [Ringers -> [at : {"idle", "lock", "notify"}, batch : Batches \cup {<<>>}, clock : Nat]]
    BY <1>3 DEF RingLocked, TypeOK
  <2>. QED BY <1>3, <2>2, <2>3, <2>4 DEF RingLocked, connVars, TypeOK
<1>4. ASSUME NEW r \in Ringers, RingNotify(r)
      PROVE  TypeOK'
  BY <1>4 DEF RingNotify, Silent, hubVars, TypeOK
<1>5. ASSUME NEW w \in Conns, Wait(w)
      PROVE  TypeOK'
  <2>1. Key(w) \in Keys
    BY DEF Key, Keys
  <2>2. CASE WaitNew(w)
    <3>1. pc' \in [Conns -> Places] /\ reply' \in [Conns -> Replies] /\ notified' \subseteq Conns
      BY <2>2, ReturnType, WakesAreReplies DEF WaitNew, Places
    <3>. QED BY <2>1, <2>2, <3>1 DEF WaitNew, TypeOK
  <2>3. CASE WaitLost(w)
    <3>1. pc' \in [Conns -> Places] /\ reply' \in [Conns -> Replies] /\ notified' \subseteq Conns
      BY <2>3, ReturnType, WakesAreReplies DEF WaitLost, Places
    <3>2. lost' \in [Keys -> Nat] /\ cursors' \in [Keys -> Nat]
      BY <2>1, <2>3, CaughtUpType DEF WaitLost
    <3>. QED BY <2>3, <3>1, <3>2 DEF WaitLost, TypeOK
  <2>4. ASSUME NEW timeout \in Timeouts, WaitKnown(w, timeout)
        PROVE  TypeOK'
    <3>1. until' \in [Conns -> [deadline : Nat, window : Nat]]
      <4>1. now + timeout \in Nat
        BY DEF TypeOK
      <4>. QED BY <2>4, <4>1, LimitsType DEF WaitKnown, TypeOK
    <3>2. waiting' \in [Keys -> Nat] /\ pc' \in [Conns -> Places]
      <4>1. waiting[Key(w)] + 1 \in Nat
        BY <2>1 DEF TypeOK
      <4>. QED BY <2>4, <4>1 DEF WaitKnown, GoTo, Places, TypeOK
    <3>. QED BY <2>4, <3>1, <3>2 DEF WaitKnown, hubVars, TypeOK
  <2>. QED BY <1>5, <2>2, <2>3, <2>4 DEF Wait
<1>6. ASSUME NEW w \in Conns, Proceed(w) \/ Disconnect(w)
      PROVE  TypeOK'
  <2>1. Key(w) \in Keys
    BY DEF Key, Keys
  <2>2. CASE Enable(w) \/ NoMatch(w)
    BY <2>2 DEF Enable, NoMatch, GoTo, hubVars, TypeOK, Places
  <2>3. CASE Check(w)
    <3>1. CASE MissedSome(Key(w))
      <4>1. pc' \in [Conns -> Places] /\ reply' \in [Conns -> Replies] /\ notified' \subseteq Conns
        BY <2>3, <3>1, ReturnType, WakesAreReplies DEF Check, Places
      <4>2. lost' \in [Keys -> Nat] /\ cursors' \in [Keys -> Nat]
        BY <2>1, <2>3, <3>1, CaughtUpType DEF Check
      <4>. QED BY <2>3, <4>1, <4>2 DEF Check, TypeOK
    <3>2. CASE ~ MissedSome(Key(w))
      BY <2>3, <3>2 DEF Check, GoTo, TypeOK, Places
    <3>. QED BY <3>1, <3>2
  <2>4. CASE FirstMatch(w)
    <3>1. Ready(Key(w)) \in Nat /\ until[w] \in [deadline : Nat, window : Nat]
      BY <2>1, <2>4, MatchesType DEF FirstMatch, TypeOK
    <3>2. Least({Ready(Key(w)), until[w].deadline}) \in Nat
      BY <3>1, LeastExists
    <3>3. until' \in [Conns -> [deadline : Nat, window : Nat]]
      <4>1. until' = until \/
              until' = [until EXCEPT ![w].window = Least({Ready(Key(w)), until[w].deadline})]
        BY <2>4 DEF FirstMatch
      <4>2. until \in [Conns -> [deadline : Nat, window : Nat]]
        BY DEF TypeOK
      <4>3. [until EXCEPT ![w].window = Least({Ready(Key(w)), until[w].deadline})]
              \in [Conns -> [deadline : Nat, window : Nat]]
        BY <3>2, <4>2, LimitsType
      <4>. QED BY <4>1, <4>2, <4>3
    <3>4. pc' \in [Conns -> Places] /\ notified' \subseteq Conns
      BY <2>4 DEF FirstMatch, GoTo, Dropped, TypeOK, Places
    <3>. QED BY <2>4, <3>3, <3>4 DEF FirstMatch, hubVars, TypeOK
  <2>5. CASE Decide(w)
    <3>1. pc' \in [Conns -> Places] /\ reply' \in [Conns -> Replies] /\ notified' \subseteq Conns
      <4>1. CASE Expired(w)
        BY <2>5, <4>1, ReturnType, WakesAreReplies DEF Decide, Places
      <4>2. CASE ~ Expired(w)
        BY <2>5, <4>2 DEF Decide, GoTo, TypeOK, Places
      <4>. QED BY <4>1, <4>2
    <3>. QED BY <2>5, <3>1 DEF Decide, hubVars, TypeOK
  <2>6. CASE WindowEnds(w)
    <3>1. until' \in [Conns -> [deadline : Nat, window : Nat]]
      BY <2>6, LimitsType DEF WindowEnds, TypeOK
    <3>. QED BY <2>6, <3>1 DEF WindowEnds, GoTo, hubVars, TypeOK, Places
  <2>7. CASE Take(w)
    <3>1. ASSUME NEW wake \in Replies, Return(w, "leave", wake),
                 cursors' \in [Keys -> Nat], lost' \in [Keys -> Nat]
          PROVE  TypeOK'
      <4>1. pc' \in [Conns -> Places] /\ reply' \in [Conns -> Replies] /\ notified' \subseteq Conns
        BY <3>1, ReturnType DEF Places
      <4>. QED BY <2>7, <3>1, <4>1 DEF Take, TypeOK
    <3>2. CASE MissedSome(Key(w))
      <4>1. CaughtUp(Key(w)) /\ Return(w, "leave", Resync)
        BY <2>7, <3>2 DEF Take
      <4>. QED BY <2>1, <3>1, <4>1, CaughtUpType, WakesAreReplies
    <3>3. CASE ~ MissedSome(Key(w)) /\ Matches(Key(w)) = {}
      <4>1. Return(w, "leave", Timeout) /\ UNCHANGED <<cursors, lost>>
        BY <2>7, <3>3 DEF Take
      <4>. QED BY <3>1, <4>1, WakesAreReplies DEF TypeOK
    <3>4. CASE ~ MissedSome(Key(w)) /\ Matches(Key(w)) # {}
      <4>. DEFINE told == Matches(Key(w))
                  last == CHOOSE i \in told : \A j \in told : j <= i
      <4>1. /\ cursors' = [cursors EXCEPT ![Key(w)] = log[last].seq]
            /\ Return(w, "leave", Mail(Cardinality(told), {log[i].recipient : i \in told}))
            /\ UNCHANGED lost
        BY <2>7, <3>4 DEF Take
      <4>2. last \in told
        BY <2>1, <3>4, MatchesType
      <4>3. log[last].seq \in Nat
        <5>1. log \in Seq(Rings) /\ last \in DOMAIN log
          BY <4>2 DEF Matches, TypeOK
        <5>. HIDE DEF told, last
        <5>2. log[last] \in Rings
          BY <5>1
        <5>. QED BY <5>2 DEF Rings
      <4>4. Mail(Cardinality(told), {log[i].recipient : i \in told}) \in Replies
        BY <2>1, <3>4, MatchesType, WakesAreReplies
      <4>. HIDE DEF told, last
      <4>. QED BY <3>1, <4>1, <4>3, <4>4 DEF TypeOK
    <3>. QED BY <3>2, <3>3, <3>4
  <2>8. CASE WakeUp(w)
    BY <2>8 DEF WakeUp, GoTo, Dropped, hubVars, TypeOK, Places
  <2>9. CASE DeadlinePasses(w)
    <3>1. pc' \in [Conns -> Places] /\ reply' \in [Conns -> Replies] /\ notified' \subseteq Conns
      BY <2>9, ReturnType, WakesAreReplies DEF DeadlinePasses, Places
    <3>. QED BY <2>9, <3>1 DEF DeadlinePasses, hubVars, TypeOK
  <2>10. CASE Leave(w) \/ Disconnect(w)
    <3>1. pc' \in [Conns -> Places] /\ reply' \in [Conns -> Replies] /\ notified' \subseteq Conns
      BY <2>10, ReturnType, WakesAreReplies DEF Leave, Disconnect, Places
    <3>2. until' \in [Conns -> [deadline : Nat, window : Nat]]
      <4>1. until' = [until EXCEPT ![w] = NoLimits] /\ 0 \in Nat
        BY <2>10 DEF Leave, Disconnect
      <4>2. until \in [Conns -> [deadline : Nat, window : Nat]]
        BY DEF TypeOK
      <4>. QED BY <4>1, <4>2, LimitsType, Zenon
    <3>3. waiting' \in [Keys -> Nat] /\ drops' \in Nat
      <4>1. waiting[Key(w)] > 0 => waiting[Key(w)] - 1 \in Nat
        BY <2>1 DEF TypeOK
      <4>2. waiting' \in [Keys -> Nat]
        BY <2>10, <4>1 DEF Leave, Disconnect, TypeOK
      <4>3. drops' \in Nat
        BY <2>10 DEF Leave, Disconnect, TypeOK
      <4>. QED BY <4>2, <4>3
    <3>. QED BY <2>10, <3>1, <3>2, <3>3 DEF Leave, Disconnect, hubVars, TypeOK
  <2>. QED
    BY <1>6, <2>2, <2>3, <2>4, <2>5, <2>6, <2>7, <2>8, <2>9, <2>10 DEF Proceed
<1>7. CASE UNCHANGED vars
  BY <1>7 DEF vars, hubVars, connVars, TypeOK
<1>. QED BY <1>1, <1>2, <1>3, <1>4, <1>5, <1>6, <1>7 DEF Next, Ring

\* Every state of the hub and its connections is of its type; the log never
\* outgrows MaxLog, and a Mail wake is never empty.
THEOREM TypeCorrect == Spec => []TypeOK
BY InitType, TypeStep, PTL DEF Spec

----------------------------------------------------------------------------
(* Nothing is missed. *)

\* The log holds the last of all that was rung, under consecutive numbers.
LogIsTail ==
  /\ seq = Len(rung)
  /\ Len(log) <= seq
  /\ \A i \in 1 .. Len(log) :
       /\ log[i].seq = (seq - Len(log)) + i
       /\ log[i].recipient = rung[(seq - Len(log)) + i]

\* What a known reader set was not told of and is no longer in the log has
\* marked it to resync.
TrimmedIsLost ==
  \A k \in known : lost[k] = 0 => \A s \in Untold(k) : s > seq - Len(log)

MissInv == TypeOK /\ LogIsTail /\ TrimmedIsLost

\* A Hub starts with nothing rung, so with nothing missed.
LEMMA InitMiss == Init => MissInv
<1>. SUFFICES ASSUME Init PROVE MissInv
  OBVIOUS
<1>1. LogIsTail
  BY DEF Init, LogIsTail
<1>. QED BY <1>1, InitType DEF Init, MissInv, TrimmedIsLost

\* The log as ring leaves it before the trim goes on with the numbers.
LEMMA PushedIsTail ==
  ASSUME MissInv, NEW r \in Ringers, RingLocked(r),
         NEW all \in Seq(Rings), all = log \o Pushed(r),
         Len(all) = Len(log) + Len(ringing[r].batch)
  PROVE  /\ seq' = Len(rung') /\ seq' = seq + Len(ringing[r].batch)
         /\ \A s \in 1 .. seq : rung'[s] = rung[s]
         /\ \A i \in 1 .. Len(all) :
              /\ all[i].seq = (seq - Len(log)) + i
              /\ all[i].recipient = rung'[(seq - Len(log)) + i]
<1>. DEFINE batch == ringing[r].batch
<1>1. /\ ringing[r].at = "lock" /\ seq' = seq + Len(batch) /\ rung' = rung \o batch
      /\ rung \in Seq(Ids) /\ log \in Seq(Rings) /\ seq \in Nat /\ seq = Len(rung)
      /\ Len(log) \in Nat /\ Len(log) <= seq
  BY DEF RingLocked, MissInv, TypeOK, LogIsTail
<1>2. /\ batch \in Seq(Ids) /\ Len(batch) \in Nat
      /\ Pushed(r) \in Seq(Rings) /\ Len(Pushed(r)) = Len(batch)
      /\ \A i \in 1 .. Len(batch) :
           Pushed(r)[i].seq = seq + i /\ Pushed(r)[i].recipient = batch[i]
  BY <1>1, PushedType DEF MissInv
<1>. HIDE DEF batch
<1>3. /\ Len(rung') = Len(rung) + Len(batch)
      /\ \A s \in 1 .. Len(rung) + Len(batch) :
           rung'[s] = IF s <= Len(rung) THEN rung[s] ELSE batch[s - Len(rung)]
  BY <1>1, <1>2, ConcatProperties
<1>4. \A i \in 1 .. Len(log) + Len(batch) :
        all[i] = IF i <= Len(log) THEN log[i] ELSE Pushed(r)[i - Len(log)]
  BY <1>1, <1>2, ConcatProperties
<1>5. ASSUME NEW i \in 1 .. Len(all)
      PROVE  /\ all[i].seq = (seq - Len(log)) + i
             /\ all[i].recipient = rung'[(seq - Len(log)) + i]
  <2>1. i \in 1 .. Len(log) + Len(batch) /\ (seq - Len(log)) + i \in 1 .. Len(rung) + Len(batch)
    BY <1>1, <1>2 DEF batch
  <2>2. CASE i <= Len(log)
    <3>1. i \in 1 .. Len(log) /\ (seq - Len(log)) + i <= Len(rung)
      BY <1>1, <2>1, <2>2
    <3>2. /\ log[i].seq = (seq - Len(log)) + i
          /\ log[i].recipient = rung[(seq - Len(log)) + i]
      BY <3>1 DEF MissInv, LogIsTail
    <3>. QED BY <1>3, <1>4, <2>1, <2>2, <3>1, <3>2
  <2>3. CASE i > Len(log)
    <3>. DEFINE j == i - Len(log)
    <3>1. /\ j \in 1 .. Len(batch) /\ ~ (i <= Len(log))
          /\ ~ ((seq - Len(log)) + i <= Len(rung))
          /\ ((seq - Len(log)) + i) - Len(rung) = j
          /\ (seq - Len(log)) + i = seq + j
      <4>1. /\ Len(log) \in Nat /\ Len(batch) \in Nat /\ Len(rung) \in Nat
            /\ seq = Len(rung) /\ i \in 1 .. Len(log) + Len(batch)
        BY <1>1, <1>2, <2>1
      <4>. QED BY <2>3, <4>1
    <3>2. all[i] = Pushed(r)[j]
      BY <1>4, <2>1, <3>1
    <3>3. rung'[(seq - Len(log)) + i] = batch[j]
      BY <1>3, <2>1, <3>1
    <3>. HIDE DEF j
    <3>. QED BY <1>2, <3>1, <3>2, <3>3
  <2>4. i \in Int /\ Len(log) \in Int
    BY <1>1, <2>1
  <2>5. i <= Len(log) \/ i > Len(log)
    BY <2>4
  <2>. QED BY <2>2, <2>3, <2>5
<1>6. \A s \in 1 .. seq : rung'[s] = rung[s]
  BY <1>1, <1>2, <1>3
<1>. QED BY <1>1, <1>3, <1>5, <1>6 DEF batch

\* A ring with its trim keeps the log the tail of all that was rung, and marks what it drops.
LEMMA RingMiss ==
  ASSUME MissInv, NEW r \in Ringers, RingLocked(r)
  PROVE  LogIsTail' /\ TrimmedIsLost'
<1>1. PICK all \in Seq(Rings), n \in Nat :
           /\ all = log \o Pushed(r)
           /\ Len(all) = Len(log) + Len(ringing[r].batch)
           /\ n <= Len(all) /\ Len(all) - n <= MaxLog
           /\ log' \in Seq(Rings)
           /\ Len(log') = Len(all) - n
           /\ \A i \in 1 .. Len(all) - n : log'[i] = all[n + i]
           /\ lost' = [k \in Keys |->
                        IF k \in known THEN lost[k] + Cardinality(LostTo(k, all, n)) ELSE lost[k]]
  BY RingLockedType DEF MissInv
<1>2. /\ seq' = Len(rung') /\ seq' = seq + Len(ringing[r].batch)
      /\ \A s \in 1 .. seq : rung'[s] = rung[s]
      /\ \A i \in 1 .. Len(all) :
           /\ all[i].seq = (seq - Len(log)) + i
           /\ all[i].recipient = rung'[(seq - Len(log)) + i]
  BY <1>1, PushedIsTail
<1>3. /\ seq \in Nat /\ Len(log) \in Nat /\ Len(log) <= seq /\ Len(all) \in Nat
      /\ Len(ringing[r].batch) \in Nat
      /\ cursors \in [Keys -> Nat] /\ lost \in [Keys -> Nat] /\ known \subseteq Keys
      /\ known' = known /\ cursors' = cursors /\ ringing[r].at = "lock"
  <2>1. ringing[r].at = "lock" /\ known' = known /\ cursors' = cursors
    BY DEF RingLocked
  <2>2. ringing[r].batch \in Seq(Ids)
    BY <2>1, PushedType DEF MissInv
  <2>. QED BY <2>1, <2>2 DEF MissInv, TypeOK, LogIsTail
<1>. DEFINE base == seq - Len(log)
<1>4. /\ base \in Nat /\ seq = base + Len(log) /\ n \in Nat
      /\ seq' - Len(log') = base + n /\ Len(log') <= seq'
  <2>1. /\ seq \in Nat /\ Len(log) \in Nat /\ Len(log) <= seq /\ Len(ringing[r].batch) \in Nat
        /\ n \in Nat /\ n <= Len(all) /\ Len(log') = Len(all) - n
        /\ Len(all) = Len(log) + Len(ringing[r].batch)
        /\ seq' = seq + Len(ringing[r].batch)
    BY <1>1, <1>2, <1>3
  <2>2. base \in Nat /\ seq = base + Len(log)
    BY <2>1
  <2>. DEFINE more == Len(ringing[r].batch)
              left == Len(log')
              size == Len(all)
              had  == Len(log)
  <2>. HIDE DEF more, left, size, had, base
  <2>3. /\ base \in Nat /\ had \in Nat /\ more \in Nat /\ n \in Nat /\ seq = base + had
        /\ n <= size /\ left = size - n /\ size = had + more /\ seq' = seq + more
    BY <2>1, <2>2 DEF more, left, size, had
  <2>4. seq' - left = base + n /\ left <= seq'
    BY <2>3
  <2>. QED BY <2>1, <2>2, <2>4 DEF left
<1>5. LogIsTail'
  <2>1. ASSUME NEW i \in 1 .. Len(log')
        PROVE  /\ log'[i].seq = (seq' - Len(log')) + i
               /\ log'[i].recipient = rung'[(seq' - Len(log')) + i]
    <3>1. /\ i \in 1 .. Len(all) - n /\ n + i \in 1 .. Len(all)
          /\ (seq' - Len(log')) + i = (seq - Len(log)) + (n + i)
      BY <1>1, <1>3, <1>4
    <3>. QED BY <1>1, <1>2, <3>1
  <2>. QED BY <1>2, <1>4, <2>1 DEF LogIsTail
<1>6. ASSUME NEW k \in known', lost'[k] = 0, NEW s \in Untold(k)', ~ (s > seq' - Len(log'))
      PROVE  FALSE
  <2>1. k \in known /\ k \in Keys /\ cursors[k] \in Nat /\ lost[k] \in Nat
    BY <1>3
  <2>2. lost[k] = 0 /\ LostTo(k, all, n) = {}
    <3>1. /\ Cardinality(LostTo(k, all, n)) \in Nat
          /\ LostTo(k, all, n) # {} => Cardinality(LostTo(k, all, n)) > 0
      BY LostToType
    <3>2. lost'[k] = lost[k] + Cardinality(LostTo(k, all, n))
      BY <1>1, <2>1
    <3>. QED BY <1>6, <2>1, <3>1, <3>2
  <2>3. /\ s \in Nat /\ s >= cursors[k] + 1 /\ s <= base + n
        /\ SeenByAny(k, rung'[s])
    <3>1. s \in cursors[k] + 1 .. seq' /\ SeenByAny(k, rung'[s])
      BY <1>3, <1>6 DEF Untold
    <3>2. seq' \in Nat
      <4>1. seq' = seq + Len(ringing[r].batch)
        BY <1>2
      <4>. QED BY <1>3, <4>1
    <3>. QED BY <1>4, <1>6, <2>1, <3>1, <3>2
  <2>4. CASE s <= base
    <3>1. s \in 1 .. seq /\ s \in cursors[k] + 1 .. seq
      BY <1>3, <2>1, <2>3, <2>4
    <3>2. s \in Untold(k)
      BY <1>2, <2>3, <3>1 DEF Untold
    <3>3. s > seq - Len(log)
      BY <2>1, <2>2, <3>2 DEF MissInv, TrimmedIsLost
    <3>. QED BY <1>4, <2>3, <2>4, <3>3
  <2>5. CASE s > base
    <3>. DEFINE i == s - base
    <3>1. i \in 1 .. n /\ i \in 1 .. Len(all) /\ base + i = s
      <4>1. n <= Len(all)
        BY <1>1
      <4>2. s \in Nat /\ s <= base + n
        BY <2>3
      <4>. QED BY <1>3, <1>4, <2>5, <4>1, <4>2
    <3>. HIDE DEF i
    <3>2. all[i].seq = s /\ all[i].recipient = rung'[s]
      BY <1>2, <3>1
    <3>3. i \in LostTo(k, all, n)
      BY <2>1, <2>3, <3>1, <3>2 DEF LostTo
    <3>. QED BY <2>2, <3>3
  <2>. QED BY <1>4, <2>3, <2>4, <2>5
<1>. QED BY <1>5, <1>6 DEF TrimmedIsLost

\* A step of a connection: a cursor only moves on, or to the newest ring, and
\* only a reader set whose cursor did so loses its mark.
Advances ==
  /\ UNCHANGED <<seq, log, rung>>
  /\ known \subseteq known'
  /\ \A k \in known' :
       \/ k \in known /\ lost'[k] = lost[k] /\ cursors'[k] >= cursors[k]
       \/ cursors'[k] = seq /\ (k \in known => lost'[k] = 0)

\* A cursor that moves up, or to now, leaves no more untold than before.
LEMMA AdvancesUntold ==
  ASSUME TypeOK, TypeOK', Advances, NEW k \in known
  PROVE  Untold(k)' \subseteq Untold(k)
<1>1. /\ cursors[k] \in Nat /\ cursors'[k] \in Nat /\ seq \in Nat /\ k \in known'
      /\ seq' = seq /\ rung' = rung
  BY DEF TypeOK, Advances
<1>2. cursors'[k] >= cursors[k] \/ cursors'[k] = seq
  BY <1>1 DEF Advances
<1>. QED BY <1>1, <1>2 DEF Untold

\* A cursor that moves up, with its mark cleared only when it is up to date, misses nothing.
LEMMA AdvancesMiss ==
  ASSUME MissInv, TypeOK', Advances
  PROVE  LogIsTail' /\ TrimmedIsLost'
<1>1. LogIsTail'
  BY DEF MissInv, LogIsTail, Advances
<1>2. ASSUME NEW k \in known', lost'[k] = 0, NEW s \in Untold(k)'
      PROVE  s > seq' - Len(log')
  <2>1. seq' = seq /\ log' = log /\ rung' = rung /\ seq \in Nat
    BY DEF Advances, MissInv, TypeOK
  <2>2. CASE cursors'[k] = seq
    BY <1>2, <2>1, <2>2 DEF Untold
  <2>3. CASE k \in known /\ lost'[k] = lost[k] /\ cursors'[k] >= cursors[k]
    <3>1. s \in Untold(k)
      BY <2>3, AdvancesUntold DEF MissInv
    <3>. QED BY <1>2, <2>1, <2>3, <3>1 DEF MissInv, TrimmedIsLost
  <2>. QED BY <2>2, <2>3 DEF Advances
<1>. QED BY <1>1, <1>2 DEF TrimmedIsLost

\* A step that leaves the hub alone moves no cursor back.
LEMMA QuietAdvances ==
  ASSUME TypeOK, UNCHANGED hubVars, UNCHANGED rung
  PROVE  Advances
BY DEF TypeOK, hubVars, Advances

\* A resync moves one cursor to now and nothing else of the log's.
LEMMA CaughtUpAdvances ==
  ASSUME TypeOK, NEW k \in known, CaughtUp(k), UNCHANGED <<seq, log, known, rung>>
  PROVE  Advances
BY DEF TypeOK, CaughtUp, Advances

\* Whatever a connection does, no ring leaves the log and no cursor goes back.
LEMMA ConnAdvances ==
  ASSUME TypeOK, NEW w \in Conns, Wait(w) \/ Proceed(w) \/ Disconnect(w),
         pc[w] # "away" => Key(w) \in known
  PROVE  Advances
<1>1. Key(w) \in Keys
  BY DEF Key, Keys
<1>2. CASE WaitNew(w)
  BY <1>1, <1>2 DEF WaitNew, TypeOK, Advances
<1>3. CASE WaitLost(w)
  BY <1>3, CaughtUpAdvances DEF WaitLost
<1>4. CASE \E timeout \in Timeouts : WaitKnown(w, timeout)
  BY <1>4, QuietAdvances DEF WaitKnown
<1>5. CASE Check(w)
  <2>1. Key(w) \in known
    BY <1>5 DEF Check
  <2>2. CASE MissedSome(Key(w))
    BY <1>5, <2>1, <2>2, CaughtUpAdvances DEF Check
  <2>3. CASE ~ MissedSome(Key(w))
    BY <1>5, <2>3, QuietAdvances DEF Check, hubVars
  <2>. QED BY <2>2, <2>3
<1>6. CASE Take(w)
  <2>1. Key(w) \in known
    BY <1>6 DEF Take
  <2>2. CASE MissedSome(Key(w))
    BY <1>6, <2>1, <2>2, CaughtUpAdvances DEF Take
  <2>3. CASE ~ MissedSome(Key(w)) /\ Matches(Key(w)) = {}
    BY <1>6, <2>3, QuietAdvances DEF Take, hubVars
  <2>4. CASE ~ MissedSome(Key(w)) /\ Matches(Key(w)) # {}
    <3>. DEFINE told == Matches(Key(w))
                last == CHOOSE i \in told : \A j \in told : j <= i
    <3>1. /\ cursors' = [cursors EXCEPT ![Key(w)] = log[last].seq]
          /\ UNCHANGED <<seq, log, known, lost, rung>>
      BY <1>6, <2>4 DEF Take
    <3>2. last \in told
      BY <1>1, <2>4, MatchesType
    <3>3. last \in DOMAIN log /\ log[last].seq > cursors[Key(w)]
      BY <3>2 DEF Matches
    <3>4. log[last].seq \in Nat
      <4>1. log \in Seq(Rings)
        BY DEF TypeOK
      <4>. HIDE DEF told, last
      <4>2. log[last] \in Rings
        BY <3>3, <4>1
      <4>. QED BY <4>2 DEF Rings
    <3>. HIDE DEF told, last
    <3>. QED BY <3>1, <3>3, <3>4 DEF TypeOK, Advances
  <2>. QED BY <2>2, <2>3, <2>4
<1>7. CASE \/ Enable(w) \/ FirstMatch(w) \/ NoMatch(w) \/ Decide(w) \/ WindowEnds(w)
           \/ WakeUp(w) \/ DeadlinePasses(w) \/ Leave(w) \/ Disconnect(w)
  BY <1>7, QuietAdvances
  DEF Enable, FirstMatch, NoMatch, Decide, WindowEnds, WakeUp, DeadlinePasses, Leave, Disconnect
<1>. QED BY <1>2, <1>3, <1>4, <1>5, <1>6, <1>7 DEF Wait, Proceed

\* A connection inside wait has a cursor.
InsideIsKnown == \A w \in Conns : pc[w] # "away" => Key(w) \in known

\* After every step a connection inside wait has a known reader set.
LEMMA KnownStep ==
  ASSUME TypeOK, InsideIsKnown, [Next]_vars
  PROVE  InsideIsKnown'
<1>1. CASE Tick \/ UNCHANGED vars
  BY <1>1 DEF Tick, vars, hubVars, connVars, InsideIsKnown, Key
<1>2. ASSUME NEW r \in Ringers, Ring(r)
      PROVE  InsideIsKnown'
  BY <1>2 DEF Ring, RingBegin, RingLocked, RingNotify, hubVars, connVars, InsideIsKnown, Key
<1>3. ASSUME NEW w \in Conns, Wait(w) \/ Proceed(w) \/ Disconnect(w)
      PROVE  InsideIsKnown'
  <2>1. known \subseteq known'
    BY <1>3, ConnAdvances DEF InsideIsKnown, Advances
  <2>2. \A d \in Conns : d # w => pc'[d] = pc[d]
    BY <1>3 DEF Wait, WaitNew, WaitLost, WaitKnown, Proceed, Enable, Check, FirstMatch, NoMatch,
       Decide, WindowEnds, Take, WakeUp, DeadlinePasses, Leave, Disconnect, Return, GoTo, TypeOK
  <2>3. pc[w] # "away" \/ Key(w) \in known'
    BY <1>3 DEF Wait, WaitNew, WaitLost, WaitKnown, Proceed, Enable, Check, FirstMatch, NoMatch,
       Decide, WindowEnds, Take, WakeUp, DeadlinePasses, Leave, Disconnect, hubVars, Return, GoTo
  <2>. QED BY <2>1, <2>2, <2>3 DEF InsideIsKnown, Key
<1>. QED BY <1>1, <1>2, <1>3 DEF Next

MissKnown == MissInv /\ InsideIsKnown

\* No step misses a ring.
LEMMA MissStep == MissKnown /\ [Next]_vars => MissKnown'
<1>. SUFFICES ASSUME MissKnown, [Next]_vars PROVE MissKnown'
  OBVIOUS
<1>1. TypeOK' /\ InsideIsKnown'
  BY TypeStep, KnownStep DEF MissKnown, MissInv
<1>2. CASE Tick \/ UNCHANGED vars
  <2>1. Advances
    BY <1>2, QuietAdvances DEF Tick, vars, MissKnown, MissInv
  <2>. QED BY <1>1, <2>1, AdvancesMiss DEF MissKnown, MissInv
<1>3. ASSUME NEW r \in Ringers, Ring(r)
      PROVE  MissKnown'
  <2>1. CASE RingLocked(r)
    BY <1>1, <2>1, RingMiss DEF MissKnown, MissInv
  <2>2. CASE (\E batch \in Batches : RingBegin(r, batch)) \/ RingNotify(r)
    <3>1. Advances
      BY <2>2, QuietAdvances DEF RingBegin, RingNotify, MissKnown, MissInv
    <3>. QED BY <1>1, <3>1, AdvancesMiss DEF MissKnown, MissInv
  <2>. QED BY <1>3, <2>1, <2>2 DEF Ring
<1>4. ASSUME NEW w \in Conns, Wait(w) \/ Proceed(w) \/ Disconnect(w)
      PROVE  MissKnown'
  <2>1. Advances
    BY <1>4, ConnAdvances DEF MissKnown, MissInv, InsideIsKnown
  <2>. QED BY <1>1, <2>1, AdvancesMiss DEF MissKnown, MissInv
<1>. QED BY <1>2, <1>3, <1>4 DEF Next

\* Nothing is missed in any state.
LEMMA MissHolds == Spec => []MissKnown
<1>1. Init => MissKnown
  BY InitMiss DEF Init, MissKnown, InsideIsKnown
<1>. QED BY <1>1, MissStep, PTL DEF Spec

\* What a reader set was not told of and lost nothing of is in the log.
LEMMA TailHoldsUntold ==
  ASSUME MissKnown, NEW k \in known, lost[k] = 0, NEW s \in Untold(k)
  PROVE  \E i \in DOMAIN log : log[i].seq = s /\ log[i].recipient = rung[s]
<1>1. /\ seq \in Nat /\ Len(log) \in Nat /\ Len(log) <= seq /\ DOMAIN log = 1 .. Len(log)
      /\ cursors[k] \in Nat
  BY DEF MissKnown, MissInv, TypeOK, LogIsTail
<1>2. s \in cursors[k] + 1 .. seq /\ s > seq - Len(log)
  BY DEF MissKnown, MissInv, TrimmedIsLost, Untold
<1>. DEFINE i == s - (seq - Len(log))
<1>3. i \in 1 .. Len(log) /\ (seq - Len(log)) + i = s
  BY <1>1, <1>2
<1>. HIDE DEF i
<1>4. log[i].seq = s /\ log[i].recipient = rung[s]
  BY <1>3 DEF MissKnown, MissInv, LogIsTail
<1>. QED BY <1>1, <1>3, <1>4

\* Nothing is missed between waits: every ring a known reader set was not told
\* of is in the log or has marked the set to resync, whatever ring trims and in
\* whatever order ringers take the mutex.
THEOREM NothingIsMissed == Spec => []NothingMissed
<1>1. MissKnown => NothingMissed
  <2>. SUFFICES ASSUME MissKnown, NEW k \in known, NEW s \in Untold(k), ~ (lost[k] > 0)
       PROVE  \E i \in DOMAIN log : log[i].seq = s /\ log[i].recipient = rung[s]
    BY DEF NothingMissed
  <2>1. lost[k] = 0
    BY DEF MissKnown, MissInv, TypeOK
  <2>. QED BY <2>1, TailHoldsUntold
<1>. QED BY <1>1, MissHolds, PTL

----------------------------------------------------------------------------
(* No wake-up is lost. *)

\* Whoever has enabled its Notified and looked without finding anything hears
\* of what came since: its wake-up has fired or is about to.
Announced(w) ==
  \/ pc[w] \in {"decide", "park"} /\ (Untold(Key(w)) # {} \/ lost[Key(w)] > 0)
  \/ pc[w] = "match" /\ lost[Key(w)] > 0
  => w \in notified \/ \E r \in Ringers : ringing[r].at = "notify"

NewsIsAnnounced == \A w \in Conns : Announced(w)

\* Another connection's step leaves w announced.
LEMMA OthersAnnounced ==
  ASSUME MissKnown, MissKnown', Advances, NEW d \in Conns, Announced(d),
         pc'[d] = pc[d], d \in notified => d \in notified', ringing' = ringing
  PROVE  Announced(d)'
<1>1. CASE pc[d] = "away"
  BY <1>1 DEF Announced
<1>2. CASE pc[d] # "away"
  <2>1. Key(d) \in known /\ Key(d)' = Key(d)
    BY <1>2 DEF MissKnown, InsideIsKnown, Key
  <2>2. Untold(Key(d))' \subseteq Untold(Key(d))
    BY <2>1, AdvancesUntold DEF MissKnown, MissInv
  <2>3. lost'[Key(d)] > 0 => lost[Key(d)] > 0
    <3>1. Key(d) \in known'
      BY <2>1 DEF Advances
    <3>2. lost'[Key(d)] = lost[Key(d)] \/ lost'[Key(d)] = 0
      BY <2>1, <3>1 DEF Advances
    <3>. QED BY <3>2
  <2>. QED BY <2>1, <2>2, <2>3 DEF Announced
<1>. QED BY <1>1, <1>2

\* A step of a connection keeps the news announced, to itself and to the others.
LEMMA ConnAnnounces ==
  ASSUME MissKnown, MissKnown', NewsIsAnnounced, NEW w \in Conns,
         Wait(w) \/ Proceed(w) \/ Disconnect(w)
  PROVE  NewsIsAnnounced'
<1>1. Advances
  BY ConnAdvances DEF MissKnown, MissInv, InsideIsKnown
<1>2. /\ pc \in [Conns -> Places] /\ Key(w)' = Key(w) /\ Key(w) \in Keys /\ lost \in [Keys -> Nat]
      /\ ringing' = ringing
  BY DEF MissKnown, MissInv, TypeOK, Key, Keys, Wait, WaitNew, WaitLost, WaitKnown, Proceed, Enable,
     Check, FirstMatch, NoMatch, Decide, WindowEnds, Take, WakeUp, DeadlinePasses, Leave, Disconnect
<1>3. \A d \in Conns : d # w => pc'[d] = pc[d] /\ (d \in notified => d \in notified')
  BY <1>2 DEF Wait, WaitNew, WaitLost, WaitKnown, Proceed, Enable, Check, FirstMatch, NoMatch,
     Decide, WindowEnds, Take, WakeUp, DeadlinePasses, Leave, Disconnect, Return, GoTo, Dropped
<1>4. ASSUME NEW d \in Conns, d # w PROVE Announced(d)'
  BY <1>1, <1>2, <1>3, <1>4, OthersAnnounced DEF NewsIsAnnounced
<1>5. Announced(w)'
  <2>1. CASE Check(w)
    <3>1. CASE MissedSome(Key(w))
      BY <1>2, <2>1, <3>1 DEF Check, Return, GoTo, Announced
    <3>2. CASE ~ MissedSome(Key(w))
      BY <1>2, <2>1, <3>2 DEF Check, GoTo, Announced, MissedSome
    <3>. QED BY <3>1, <3>2
  <2>2. CASE NoMatch(w)
    <3>1. /\ pc[w] = "match" /\ Matches(Key(w)) = {} /\ pc'[w] = "decide"
          /\ UNCHANGED <<seq, cursors, lost, rung, notified>>
      BY <1>2, <2>2 DEF NoMatch, GoTo, hubVars
    <3>2. CASE lost[Key(w)] > 0
      BY <1>2, <3>1, <3>2 DEF NewsIsAnnounced, Announced
    <3>3. CASE lost[Key(w)] = 0
      <4>1. Key(w) \in known
        BY <3>1 DEF MissKnown, InsideIsKnown
      <4>2. ASSUME NEW s \in Untold(Key(w)) PROVE FALSE
        <5>1. PICK i \in DOMAIN log : log[i].seq = s /\ log[i].recipient = rung[s]
          BY <3>3, <4>1, <4>2, TailHoldsUntold
        <5>2. s > cursors[Key(w)] /\ SeenByAny(Key(w), rung[s])
          BY <1>2, <4>2, SMTT(30) DEF Untold, MissKnown, MissInv, TypeOK
        <5>3. i \in Matches(Key(w))
          BY <5>1, <5>2 DEF Matches
        <5>. QED BY <3>1, <5>3
      <4>3. Untold(Key(w))' = {}
        BY <1>2, <3>1, <4>2 DEF Untold
      <4>. QED BY <1>2, <3>1, <3>3, <4>3 DEF Announced
    <3>. QED BY <1>2, <3>2, <3>3
  <2>3. CASE Decide(w)
    <3>1. CASE Expired(w)
      BY <1>2, <2>3, <3>1 DEF Decide, Return, GoTo, Announced
    <3>2. CASE ~ Expired(w)
      <4>1. /\ pc[w] = "decide" /\ pc'[w] = "park"
            /\ UNCHANGED <<seq, cursors, lost, rung, notified>>
        BY <1>2, <2>3, <3>2 DEF Decide, GoTo, hubVars
      <4>2. Untold(Key(w))' = Untold(Key(w))
        BY <1>2, <4>1 DEF Untold
      <4>. QED BY <1>2, <4>1, <4>2 DEF NewsIsAnnounced, Announced
    <3>. QED BY <3>1, <3>2
  <2>4. CASE \/ Wait(w) \/ Enable(w) \/ FirstMatch(w) \/ WindowEnds(w) \/ Take(w)
             \/ WakeUp(w) \/ DeadlinePasses(w) \/ Leave(w) \/ Disconnect(w)
    <3>1. pc'[w] \in {"done", "start", "check", "window", "take", "leave", "away"}
      BY <1>2, <2>4 DEF Wait, WaitNew, WaitLost, WaitKnown, Enable, FirstMatch, WindowEnds, Take,
         WakeUp, DeadlinePasses, Leave, Disconnect, Return, GoTo
    <3>. QED BY <3>1 DEF Announced
  <2>. QED BY <2>1, <2>2, <2>3, <2>4 DEF Proceed
<1>. QED BY <1>4, <1>5 DEF NewsIsAnnounced

NewsInv == MissKnown /\ NewsIsAnnounced

\* Every step keeps the news announced.
LEMMA NewsStep == NewsInv /\ [Next]_vars => NewsInv'
<1>. SUFFICES ASSUME NewsInv, [Next]_vars PROVE NewsInv'
  OBVIOUS
<1>1. MissKnown'
  BY MissStep DEF NewsInv
<1>2. CASE Tick \/ UNCHANGED vars
  BY <1>1, <1>2 DEF Tick, vars, hubVars, connVars, NewsInv, NewsIsAnnounced, Announced, Untold, Key
<1>3. ASSUME NEW r \in Ringers, NEW batch \in Batches, RingBegin(r, batch)
      PROVE  NewsIsAnnounced'
  <2>1. \A q \in Ringers : ringing[q].at = "notify" => ringing'[q].at = "notify"
    BY <1>3 DEF RingBegin, NewsInv, MissKnown, MissInv, TypeOK
  <2>. QED BY <1>3, <2>1
       DEF RingBegin, hubVars, connVars, NewsInv, NewsIsAnnounced, Announced, Untold, Key
<1>4. ASSUME NEW r \in Ringers, RingLocked(r)
      PROVE  NewsIsAnnounced'
  <2>1. ringing'[r].at = "notify"
    BY <1>4 DEF RingLocked, NewsInv, MissKnown, MissInv, TypeOK
  <2>. QED BY <2>1 DEF NewsIsAnnounced, Announced
<1>5. ASSUME NEW r \in Ringers, RingNotify(r)
      PROVE  NewsIsAnnounced'
  <2>1. \A w \in Conns : pc'[w] \in {"match", "decide", "park"} => w \in notified'
    BY <1>5 DEF RingNotify, Enabled
  <2>. QED BY <2>1 DEF NewsIsAnnounced, Announced
<1>6. ASSUME NEW w \in Conns, Wait(w) \/ Proceed(w) \/ Disconnect(w)
      PROVE  NewsIsAnnounced'
  BY <1>1, <1>6, ConnAnnounces DEF NewsInv
<1>. QED BY <1>1, <1>2, <1>3, <1>4, <1>5, <1>6 DEF Next, Ring, NewsInv

\* No wake-up is lost: a parked connection whose readers have news has been
\* notified, or the ringer that brought them is about to notify it.
THEOREM NoWakeupIsLost == Spec => []NoLostWakeup
<1>1. Init => NewsInv
  BY InitMiss DEF Init, NewsInv, MissKnown, InsideIsKnown, NewsIsAnnounced, Announced
<1>2. NewsInv => NoLostWakeup
  BY DEF NewsInv, NewsIsAnnounced, Announced, NoLostWakeup
<1>. QED BY <1>1, <1>2, NewsStep, PTL DEF Spec


----------------------------------------------------------------------------
(* A Mail counts exactly. *)

\* Take hands out a Mail: the wake covers the rings found, and the cursor moves
\* to the last of them.
Mails(w) ==
  LET told == Matches(Key(w))
  IN  /\ pc[w] = "take" /\ pc'[w] = "leave"
      /\ lost[Key(w)] = 0
      /\ UNCHANGED <<seq, log, rung>>
      /\ \E last \in told :
           /\ \A j \in told : j <= last
           /\ cursors' = [cursors EXCEPT ![Key(w)] = log[last].seq]
      /\ reply' = [reply EXCEPT ![w] = Mail(Cardinality(told), {log[i].recipient : i \in told})]

\* A cursor moved by w is brought up to date with a Resync, or by a Mail.
Resyncs(w) ==
  /\ pc[w] \in {"away", "check", "take"} /\ pc'[w] \in {"done", "leave"}
  /\ UNCHANGED seq
  /\ cursors' = [cursors EXCEPT ![Key(w)] = seq]
  /\ reply' = [reply EXCEPT ![w] = Resync]

\* What take does, in its three branches.
LEMMA TakeStep ==
  ASSUME TypeOK, NEW w \in Conns, Take(w)
  PROVE  \/ Resyncs(w)
         \/ UNCHANGED cursors /\ reply' = [reply EXCEPT ![w] = Timeout]
         \/ Mails(w)
<1>1. Key(w) \in Keys /\ pc \in [Conns -> Places] /\ lost \in [Keys -> Nat]
  BY DEF Key, Keys, TypeOK
<1>2. CASE MissedSome(Key(w))
  BY <1>1, <1>2 DEF Take, CaughtUp, Return, GoTo, Resyncs
<1>3. CASE ~ MissedSome(Key(w)) /\ Matches(Key(w)) = {}
  BY <1>3 DEF Take, Return
<1>4. CASE ~ MissedSome(Key(w)) /\ Matches(Key(w)) # {}
  <2>. DEFINE told == Matches(Key(w))
              last == CHOOSE i \in told : \A j \in told : j <= i
  <2>1. last \in told /\ \A j \in told : j <= last
    BY <1>1, <1>4, MatchesType
  <2>2. /\ pc[w] = "take" /\ pc' = [pc EXCEPT ![w] = "leave"]
        /\ cursors' = [cursors EXCEPT ![Key(w)] = log[last].seq]
        /\ reply' = [reply EXCEPT ![w] = Mail(Cardinality(told), {log[i].recipient : i \in told})]
        /\ UNCHANGED <<seq, log, rung>>
    BY <1>4 DEF Take, Return, GoTo
  <2>3. lost[Key(w)] = 0 /\ pc'[w] = "leave"
    BY <1>1, <1>4, <2>2 DEF MissedSome
  <2>. HIDE DEF last
  <2>. QED BY <2>1, <2>2, <2>3 DEF Mails
<1>. QED BY <1>2, <1>3, <1>4

\* A connection moves no cursor but its own, and that with its answer.
LEMMA CursorStep ==
  ASSUME TypeOK, NEW w \in Conns, Wait(w) \/ Proceed(w) \/ Disconnect(w)
  PROVE  UNCHANGED cursors \/ Resyncs(w) \/ Mails(w)
<1>1. pc \in [Conns -> Places]
  BY DEF TypeOK
<1>2. CASE WaitNew(w) \/ WaitLost(w)
  BY <1>1, <1>2 DEF WaitNew, WaitLost, CaughtUp, Return, GoTo, Resyncs
<1>3. CASE Check(w)
  BY <1>1, <1>3 DEF Check, CaughtUp, Return, GoTo, Resyncs
<1>4. CASE Take(w)
  BY <1>4, TakeStep
<1>5. CASE \/ \E timeout \in Timeouts : WaitKnown(w, timeout)
           \/ Enable(w) \/ FirstMatch(w) \/ NoMatch(w) \/ Decide(w) \/ WindowEnds(w)
           \/ WakeUp(w) \/ DeadlinePasses(w) \/ Leave(w) \/ Disconnect(w)
  BY <1>5 DEF WaitKnown, Enable, FirstMatch, NoMatch, Decide, WindowEnds, WakeUp,
     DeadlinePasses, Leave, Disconnect, hubVars
<1>. QED BY <1>2, <1>3, <1>4, <1>5 DEF Wait, Proceed

\* No cursor is ahead of the newest ring.
CursorsAreBehind == \A k \in Keys : cursors[k] <= seq

\* A wait that goes on has no answer yet.
AnswersAreNew == \A w \in Conns : pc[w] \notin {"leave", "done"} => reply[w] = NoReply

TellInv == MissKnown /\ CursorsAreBehind /\ AnswersAreNew

\* The last ring found is one of those rung, and newer than the cursor.
LEMMA MailsMoves ==
  ASSUME MissKnown, NEW w \in Conns, Mails(w)
  PROVE  /\ cursors[Key(w)] < cursors'[Key(w)] /\ cursors'[Key(w)] <= seq
         /\ \A k \in Keys : k # Key(w) => cursors'[k] = cursors[k]
<1>1. /\ Key(w) \in Keys /\ cursors \in [Keys -> Nat] /\ seq \in Nat
      /\ Len(log) \in Nat /\ Len(log) <= seq /\ DOMAIN log = 1 .. Len(log)
  BY DEF Key, Keys, MissKnown, MissInv, TypeOK, LogIsTail
<1>2. PICK last \in Matches(Key(w)) : cursors' = [cursors EXCEPT ![Key(w)] = log[last].seq]
  BY DEF Mails
<1>3. last \in 1 .. Len(log) /\ log[last].seq > cursors[Key(w)]
  BY <1>1, <1>2 DEF Matches
<1>4. log[last].seq = (seq - Len(log)) + last
  BY <1>3 DEF MissKnown, MissInv, LogIsTail
<1>5. log[last].seq <= seq
  BY <1>1, <1>3, <1>4
<1>. QED BY <1>1, <1>2, <1>3, <1>5

\* Every step keeps cursors behind and answers new.
LEMMA TellStep == TellInv /\ [Next]_vars => TellInv'
<1>. SUFFICES ASSUME TellInv, [Next]_vars PROVE TellInv'
  OBVIOUS
<1>1. MissKnown' /\ TypeOK /\ TypeOK'
  BY MissStep DEF TellInv, MissKnown, MissInv
<1>2. /\ pc \in [Conns -> Places] /\ reply \in [Conns -> Replies]
      /\ seq \in Nat /\ cursors \in [Keys -> Nat]
  BY <1>1 DEF TypeOK
<1>3. CASE Tick \/ UNCHANGED vars
  BY <1>1, <1>3 DEF Tick, vars, hubVars, connVars, TellInv, CursorsAreBehind, AnswersAreNew
<1>4. ASSUME NEW r \in Ringers, Ring(r)
      PROVE  TellInv'
  <2>1. UNCHANGED <<pc, reply, cursors>>
    BY <1>4 DEF Ring, RingBegin, RingLocked, RingNotify, hubVars, connVars
  <2>2. seq <= seq'
    <3>1. CASE RingLocked(r)
      <4>1. ringing[r].at = "lock" /\ seq' = seq + Len(ringing[r].batch)
        BY <3>1 DEF RingLocked
      <4>2. ringing[r].batch \in Seq(Ids)
        BY <1>1, <4>1, PushedType
      <4>3. Len(ringing[r].batch) \in Nat
        BY <4>2
      <4>. QED BY <1>2, <4>1, <4>3
    <3>2. CASE (\E batch \in Batches : RingBegin(r, batch)) \/ RingNotify(r)
      BY <1>2, <3>2 DEF RingBegin, RingNotify, hubVars
    <3>. QED BY <1>4, <3>1, <3>2 DEF Ring
  <2>3. CursorsAreBehind'
    <3>1. ASSUME NEW k \in Keys PROVE cursors'[k] <= seq'
      <4>1. cursors[k] <= seq /\ cursors[k] \in Nat /\ seq' \in Nat
        BY <1>1, <1>2 DEF TellInv, CursorsAreBehind, TypeOK
      <4>. QED BY <1>2, <2>1, <2>2, <4>1
    <3>. QED BY <3>1 DEF CursorsAreBehind
  <2>4. AnswersAreNew'
    BY <2>1 DEF TellInv, AnswersAreNew
  <2>. QED BY <1>1, <2>3, <2>4 DEF TellInv
<1>5. ASSUME NEW w \in Conns, Wait(w) \/ Proceed(w) \/ Disconnect(w)
      PROVE  TellInv'
  <2>1. CursorsAreBehind'
    <3>1. seq' = seq /\ Key(w) \in Keys
      BY <1>5, ConnAdvances DEF TellInv, MissKnown, MissInv, InsideIsKnown, Advances, Key, Keys
    <3>2. CASE UNCHANGED cursors
      BY <3>1, <3>2 DEF TellInv, CursorsAreBehind
    <3>3. CASE Resyncs(w)
      BY <1>2, <3>1, <3>3 DEF Resyncs, TellInv, CursorsAreBehind
    <3>4. CASE Mails(w)
      <4>1. /\ cursors'[Key(w)] <= seq
            /\ \A k \in Keys : k # Key(w) => cursors'[k] = cursors[k]
        BY <3>4, MailsMoves DEF TellInv
      <4>. QED BY <3>1, <4>1 DEF TellInv, CursorsAreBehind
    <3>. QED BY <1>1, <1>5, <3>2, <3>3, <3>4, CursorStep
  <2>2. AnswersAreNew'
    <3>1. \A d \in Conns : d # w => pc'[d] = pc[d] /\ reply'[d] = reply[d]
      BY <1>2, <1>5 DEF Wait, WaitNew, WaitLost, WaitKnown, Proceed, Enable, Check, FirstMatch,
         NoMatch, Decide, WindowEnds, Take, WakeUp, DeadlinePasses, Leave, Disconnect, Return, GoTo
    <3>2. pc'[w] \in {"leave", "done"} \/ reply'[w] = NoReply
      <4>1. CASE \/ WaitNew(w) \/ WaitLost(w) \/ Take(w) \/ DeadlinePasses(w)
        BY <1>2, <4>1 DEF WaitNew, WaitLost, Take, DeadlinePasses, Return, GoTo
      <4>2. CASE Leave(w) \/ Disconnect(w)
        BY <1>2, <4>2 DEF Leave, Disconnect, Return
      <4>3. CASE Check(w) \/ Decide(w)
        BY <1>2, <4>3 DEF Check, Decide, Return, GoTo, TellInv, AnswersAreNew
      <4>4. CASE \/ \E timeout \in Timeouts : WaitKnown(w, timeout)
                 \/ Enable(w) \/ FirstMatch(w) \/ NoMatch(w) \/ WindowEnds(w) \/ WakeUp(w)
        <5>1. reply' = reply /\ pc[w] \notin {"leave", "done"}
          BY <4>4 DEF WaitKnown, Enable, FirstMatch, NoMatch, WindowEnds, WakeUp
        <5>. QED BY <5>1 DEF TellInv, AnswersAreNew
      <4>. QED BY <1>5, <4>1, <4>2, <4>3, <4>4 DEF Wait, Proceed
    <3>. QED BY <3>1, <3>2 DEF TellInv, AnswersAreNew
  <2>. QED BY <1>1, <2>1, <2>2 DEF TellInv
<1>. QED BY <1>3, <1>4, <1>5 DEF Next

\* No cursor is ahead and no answer early in any state.
LEMMA TellHolds == Spec => []TellInv
<1>1. Init => TellInv
  BY InitMiss DEF Init, TellInv, MissKnown, InsideIsKnown, CursorsAreBehind, AnswersAreNew
<1>. QED BY <1>1, TellStep, PTL DEF Spec

\* A Mail is handed out by take.
LEMMA MailIsTaken ==
  ASSUME TellInv, [Next]_vars, NEW w \in Conns, pc[w] = "take", reply'[w].wake = "mail"
  PROVE  Mails(w)
<1>1. /\ TypeOK /\ reply[w].wake # "mail" /\ reply \in [Conns -> Replies]
      /\ Timeout.wake # "mail" /\ Resync.wake # "mail"
  <2>1. TypeOK /\ reply \in [Conns -> Replies]
    BY DEF TellInv, MissKnown, MissInv, TypeOK
  <2>2. reply[w] = NoReply
    BY DEF TellInv, AnswersAreNew
  <2>. QED BY <2>1, <2>2 DEF NoReply, Timeout, Resync
<1>2. reply'[w] # reply[w]
  BY <1>1
<1>3. CASE Tick \/ UNCHANGED vars
  BY <1>2, <1>3 DEF Tick, vars, connVars
<1>4. ASSUME NEW r \in Ringers, Ring(r)
      PROVE  FALSE
  BY <1>2, <1>4 DEF Ring, RingBegin, RingLocked, RingNotify, connVars
<1>5. ASSUME NEW d \in Conns, Wait(d) \/ Proceed(d) \/ Disconnect(d)
      PROVE  Mails(w)
  <2>1. d = w
    BY <1>1, <1>2, <1>5 DEF Wait, WaitNew, WaitLost, WaitKnown, Proceed, Enable, Check, FirstMatch,
       NoMatch, Decide, WindowEnds, Take, WakeUp, DeadlinePasses, Leave, Disconnect, Return
  <2>2. Take(w)
    BY <1>5, <2>1 DEF Wait, WaitNew, WaitLost, WaitKnown, Proceed, Enable, Check, FirstMatch,
       NoMatch, Decide, WindowEnds, WakeUp, DeadlinePasses, Leave, Disconnect
  <2>. QED BY <1>1, <2>2, TakeStep DEF Resyncs
<1>. QED BY <1>3, <1>4, <1>5 DEF Next

\* The rings of a Mail are, by number, all the reader set would see between its
\* old cursor and its new one, and it would see none after that.
LEMMA MailIsExact ==
  ASSUME TellInv, NEW w \in Conns, Mails(w)
  PROVE  LET k == Key(w)
             told == {s \in cursors[k] + 1 .. cursors'[k] : SeenByAny(k, rung[s])}
         IN  /\ reply'[w].count = Cardinality(told)
             /\ reply'[w].recipients = {rung[s] : s \in told}
             /\ \A s \in cursors'[k] + 1 .. seq : ~ SeenByAny(k, rung[s])
<1>. DEFINE k == Key(w)
            found == Matches(k)
            told == {s \in cursors[k] + 1 .. cursors'[k] : SeenByAny(k, rung[s])}
            base == seq - Len(log)
<1>1. /\ k \in Keys /\ k \in known /\ lost[k] = 0
      /\ reply' = [reply EXCEPT ![w] = Mail(Cardinality(found), {log[i].recipient : i \in found})]
  BY DEF Mails, TellInv, MissKnown, InsideIsKnown, Key, Keys
<1>2. /\ cursors \in [Keys -> Nat] /\ cursors[k] \in Nat /\ seq \in Nat
      /\ Len(log) \in Nat /\ Len(log) <= seq /\ DOMAIN log = 1 .. Len(log)
      /\ reply \in [Conns -> Replies]
  BY <1>1 DEF TellInv, MissKnown, MissInv, TypeOK, LogIsTail
<1>3. \A i \in 1 .. Len(log) : log[i].seq = base + i /\ log[i].recipient = rung[base + i]
  BY DEF TellInv, MissKnown, MissInv, LogIsTail
<1>4. PICK last \in found : /\ \A j \in found : j <= last
                            /\ cursors' = [cursors EXCEPT ![k] = log[last].seq]
  BY DEF Mails
<1>5. base \in Nat /\ seq = base + Len(log)
  BY <1>2
<1>6. found = {i \in 1 .. Len(log) : base + i > cursors[k] /\ SeenByAny(k, rung[base + i])}
  BY <1>2, <1>3 DEF Matches
<1>7. last \in 1 .. Len(log) /\ cursors'[k] = base + last /\ cursors'[k] <= seq
  BY <1>1, <1>2, <1>3, <1>4, <1>5, <1>6
<1>8. \A s \in Untold(k) : \E i \in found : s = base + i
  <2>1. ASSUME NEW s \in Untold(k) PROVE \E i \in found : s = base + i
    <3>1. PICK i \in DOMAIN log : log[i].seq = s /\ log[i].recipient = rung[s]
      BY <1>1, TailHoldsUntold DEF TellInv
    <3>2. s = base + i /\ s > cursors[k] /\ SeenByAny(k, rung[s])
      BY <1>2, <1>3, <3>1 DEF Untold
    <3>. QED BY <1>2, <1>6, <3>1, <3>2
  <2>. QED BY <2>1
<1>. HIDE DEF k, found, base
<1>9. \A s \in told : \E i \in found : s = base + i
  <2>1. told \subseteq Untold(k)
    BY <1>2, <1>5, <1>7 DEF Untold
  <2>. QED BY <1>8, <2>1
<1>10. \A i \in found : base + i \in told
  BY <1>2, <1>4, <1>5, <1>6, <1>7
<1>. HIDE DEF told
<1>11. Cardinality(told) = Cardinality(found)
  <2>. DEFINE f == [i \in found |-> base + i]
  <2>1. IsFiniteSet(found)
    <3>1. IsFiniteSet(1 .. Len(log)) /\ found \subseteq 1 .. Len(log)
      BY <1>2, <1>6, FS_Interval
    <3>. QED BY <3>1, FS_Subset
  <2>2. f \in Bijection(found, told)
    <3>1. f \in [found -> told]
      BY <1>10
    <3>2. \A s \in told : \E i \in found : f[i] = s
      BY <1>9
    <3>3. \A i, j \in found : f[i] = f[j] => i = j
      BY <1>5, <1>6
    <3>. HIDE DEF f
    <3>. QED BY <3>1, <3>2, <3>3 DEF Bijection, Injection, Surjection, IsInjective
  <2>. QED BY <2>1, <2>2, FS_Bijection DEF ExistsBijection
<1>12. {log[i].recipient : i \in found} = {rung[s] : s \in told}
  <2>1. \A i \in found : log[i].recipient = rung[base + i]
    BY <1>3, <1>6
  <2>. QED BY <1>9, <1>10, <2>1
<1>13. \A s \in cursors'[k] + 1 .. seq : ~ SeenByAny(k, rung[s])
  <2>1. ASSUME NEW s \in cursors'[k] + 1 .. seq, SeenByAny(k, rung[s]) PROVE FALSE
    <3>1. s \in Untold(k)
      BY <1>1, <1>2, <1>4, <1>5, <1>6, <1>7, <2>1 DEF Untold
    <3>2. PICK i \in found : s = base + i
      BY <1>8, <3>1
    <3>. QED BY <1>4, <1>5, <1>6, <1>7, <2>1, <3>2
  <2>. QED BY <2>1
<1>14. /\ reply'[w].count = Cardinality(found)
       /\ reply'[w].recipients = {log[i].recipient : i \in found}
  BY <1>1, <1>2 DEF Mail
<1>. QED BY <1>11, <1>12, <1>13, <1>14 DEF k, told

\* One step of MailCountsExactly.
LEMMA CountStep ==
  ASSUME TellInv, [Next]_vars
  PROVE  /\ \A k \in known :
              cursors'[k] # cursors[k] =>
                /\ cursors'[k] > cursors[k]
                /\ \E w \in Conns : /\ Key(w) = k /\ pc'[w] # pc[w]
                                   /\ reply'[w].wake \in {"mail", "resync"}
         /\ \A w \in Conns :
              pc[w] = "take" /\ reply'[w].wake = "mail" =>
                LET k == Key(w)
                    told == {s \in cursors[k] + 1 .. cursors'[k] : SeenByAny(k, rung[s])}
                IN  /\ reply'[w].count = Cardinality(told)
                    /\ reply'[w].recipients = {rung[s] : s \in told}
                    /\ \A s \in cursors'[k] + 1 .. seq : ~ SeenByAny(k, rung[s])
<1>1. ASSUME NEW k \in known, cursors'[k] # cursors[k]
      PROVE  /\ cursors'[k] > cursors[k]
             /\ \E w \in Conns : /\ Key(w) = k /\ pc'[w] # pc[w]
                                /\ reply'[w].wake \in {"mail", "resync"}
  <2>1. /\ TypeOK /\ k \in Keys /\ cursors \in [Keys -> Nat] /\ seq \in Nat
        /\ reply \in [Conns -> Replies] /\ cursors[k] <= seq
    BY DEF TellInv, MissKnown, MissInv, TypeOK, CursorsAreBehind
  <2>2. PICK w \in Conns : Wait(w) \/ Proceed(w) \/ Disconnect(w)
    BY <1>1 DEF Next, Tick, vars, hubVars, Ring, RingBegin, RingLocked, RingNotify
  <2>3. CASE Resyncs(w)
    <3>1. Key(w) = k /\ cursors'[k] = seq
      BY <1>1, <2>1, <2>3 DEF Resyncs
    <3>2. pc'[w] # pc[w] /\ reply'[w].wake = "resync"
      BY <2>1, <2>3 DEF Resyncs, Resync
    <3>. QED BY <1>1, <2>1, <3>1, <3>2
  <2>4. CASE Mails(w)
    <3>1. Key(w) = k /\ cursors'[k] > cursors[k]
      BY <1>1, <2>1, <2>4, MailsMoves DEF TellInv
    <3>2. pc'[w] # pc[w] /\ reply'[w].wake = "mail"
      BY <2>1, <2>4 DEF Mails, Mail
    <3>. QED BY <3>1, <3>2
  <2>. QED BY <1>1, <2>1, <2>2, <2>3, <2>4, CursorStep
<1>2. ASSUME NEW w \in Conns, pc[w] = "take", reply'[w].wake = "mail"
      PROVE  Mails(w)
  BY <1>2, MailIsTaken
<1>. QED BY <1>1, <1>2, MailIsExact

\* One outstanding wake per waiter, and an exact one: a known set's cursor only
\* moves on, with an answer to one of its waits, and a Mail counts and names
\* what lies between the old cursor and the new, whatever was trimmed meanwhile.
THEOREM MailIsCounted == Spec => MailCountsExactly
<1>1. TellInv /\ [Next]_vars =>
        [/\ \A k \in known :
              cursors'[k] # cursors[k] =>
                /\ cursors'[k] > cursors[k]
                /\ \E w \in Conns : /\ Key(w) = k /\ pc'[w] # pc[w]
                                   /\ reply'[w].wake \in {"mail", "resync"}
         /\ \A w \in Conns :
              pc[w] = "take" /\ reply'[w].wake = "mail" =>
                LET k == Key(w)
                    told == {s \in cursors[k] + 1 .. cursors'[k] : SeenByAny(k, rung[s])}
                IN  /\ reply'[w].count = Cardinality(told)
                    /\ reply'[w].recipients = {rung[s] : s \in told}
                    /\ \A s \in cursors'[k] + 1 .. seq : ~ SeenByAny(k, rung[s])]_vars
  BY CountStep
<1>. QED BY <1>1, TellHolds, PTL DEF Spec, MailCountsExactly


----------------------------------------------------------------------------
(* A burst is one Mail. *)

\* No two connections wait for the same reader set.  (With two, one may take
\* the ring that the other slept for, which then takes the next one early.)
OneConnectionEach == \A v, w \in Conns : Key(v) = Key(w) => v = w

\* A wait that found a ring still has one to hand out, unless a trim marked its
\* readers, and sleeps to the end of that ring's window or to its deadline.
Due(w) ==
  pc[w] \in {"window", "take"} /\ lost[Key(w)] = 0 =>
    /\ Matches(Key(w)) # {}
    /\ pc[w] = "window" => \/ until[w].window >= Ready(Key(w))
                           \/ until[w].window >= until[w].deadline
    /\ pc[w] = "take" => now >= Ready(Key(w)) \/ now >= until[w].deadline

BurstInv == TellInv /\ OneConnectionEach /\ \A w \in Conns : Due(w)

\* A set of naturals has one least element.
LEMMA LeastIsOne ==
  ASSUME NEW S, S \subseteq Nat, NEW m \in S, \A n \in S : m <= n
  PROVE  Least(S) = m
<1>1. Least(S) \in S /\ \A n \in S : Least(S) <= n
  BY LeastExists
<1>2. Least(S) \in Nat /\ m \in Nat /\ Least(S) <= m /\ m <= Least(S)
  BY <1>1
<1>. QED BY <1>2

\* A ring that marks nothing leaves a reader set its first ring not told of.
LEMMA RingKeepsFirst ==
  ASSUME MissKnown, NEW r \in Ringers, RingLocked(r),
         NEW k \in known, lost'[k] = 0, Matches(k) # {}
  PROVE  lost[k] = 0 /\ Matches(k)' # {} /\ Ready(k)' = Ready(k)
<1>1. PICK all \in Seq(Rings), n \in Nat :
           /\ all = log \o Pushed(r)
           /\ Len(all) = Len(log) + Len(ringing[r].batch)
           /\ n <= Len(all) /\ Len(all) - n <= MaxLog
           /\ log' \in Seq(Rings)
           /\ Len(log') = Len(all) - n
           /\ \A i \in 1 .. Len(all) - n : log'[i] = all[n + i]
           /\ lost' = [j \in Keys |->
                        IF j \in known THEN lost[j] + Cardinality(LostTo(j, all, n)) ELSE lost[j]]
  BY RingLockedType DEF MissKnown, MissInv
<1>2. /\ k \in Keys /\ lost[k] \in Nat /\ cursors' = cursors /\ ringing[r].at = "lock"
      /\ log \in Seq(Rings) /\ Len(log) \in Nat /\ DOMAIN log = 1 .. Len(log)
      /\ Len(all) \in Nat /\ DOMAIN log' = 1 .. Len(log')
  <2>1. /\ k \in Keys /\ lost[k] \in Nat /\ log \in Seq(Rings)
    BY DEF MissKnown, MissInv, TypeOK
  <2>2. cursors' = cursors /\ ringing[r].at = "lock"
    BY DEF RingLocked
  <2>. QED BY <1>1, <2>1, <2>2
<1>3. lost[k] = 0 /\ LostTo(k, all, n) = {}
  <2>1. /\ Cardinality(LostTo(k, all, n)) \in Nat
        /\ LostTo(k, all, n) # {} => Cardinality(LostTo(k, all, n)) > 0
    BY LostToType
  <2>2. lost'[k] = lost[k] + Cardinality(LostTo(k, all, n))
    BY <1>1, <1>2
  <2>. QED BY <1>2, <2>1, <2>2
<1>4. \A i \in 1 .. Len(log) : i \in 1 .. Len(all) /\ all[i] = log[i]
  <2>1. Pushed(r) \in Seq(Rings) /\ Len(Pushed(r)) = Len(ringing[r].batch)
    BY <1>2, PushedType DEF MissKnown, MissInv
  <2>2. Len(Pushed(r)) \in Nat
    BY <2>1
  <2>3. \A i \in 1 .. Len(log) + Len(Pushed(r)) :
          all[i] = IF i <= Len(log) THEN log[i] ELSE Pushed(r)[i - Len(log)]
    BY <1>1, <1>2, <2>1, ConcatProperties
  <2>. QED BY <1>1, <1>2, <2>1, <2>2, <2>3
<1>. DEFINE m == Least(Matches(k))
<1>5. m \in Matches(k) /\ \A j \in Matches(k) : m <= j
  <2>1. Matches(k) \subseteq Nat
    BY <1>2 DEF Matches
  <2>. QED BY <2>1, LeastExists
<1>. HIDE DEF m
<1>6. m \in 1 .. Len(log) /\ log[m].seq > cursors[k] /\ SeenByAny(k, log[m].recipient)
  BY <1>2, <1>5 DEF Matches
<1>7. ~ (m <= n)
  <2>1. SUFFICES ASSUME m <= n PROVE m \in LostTo(k, all, n)
    BY <1>3
  <2>. QED BY <1>4, <1>6, <2>1 DEF LostTo
<1>8. m - n \in 1 .. Len(log') /\ n + (m - n) = m /\ log'[m - n] = log[m]
  <2>1. m \in 1 .. Len(all) /\ all[m] = log[m]
    BY <1>4, <1>6
  <2>2. m - n \in 1 .. Len(all) - n /\ n + (m - n) = m
    <3>1. m \in Nat /\ n \in Nat /\ m <= Len(all) /\ m > n /\ Len(all) \in Nat
      BY <1>2, <1>7, <2>1
    <3>. QED BY <3>1
  <2>. QED BY <1>1, <2>1, <2>2
<1>9. m - n \in Matches(k)'
  BY <1>2, <1>6, <1>8 DEF Matches
<1>10. ASSUME NEW j \in Matches(k)' PROVE m - n <= j
  <2>1. j \in 1 .. Len(all) - n /\ log'[j].seq > cursors[k] /\ SeenByAny(k, log'[j].recipient)
    BY <1>1, <1>2 DEF Matches
  <2>2. log'[j] = all[n + j] /\ n + j \in Nat
    <3>1. log'[j] = all[n + j]
      BY <1>1, <2>1
    <3>2. j \in Nat
      BY <2>1
    <3>. QED BY <3>1, <3>2
  <2>3. CASE n + j <= Len(log)
    <3>1. n + j \in 1 .. Len(log)
      BY <1>1, <1>2, <2>1, <2>3
    <3>2. n + j \in Matches(k)
      BY <1>2, <1>4, <2>1, <2>2, <3>1 DEF Matches
    <3>3. m <= n + j
      BY <1>5, <3>2
    <3>. QED BY <1>2, <1>6, <2>1, <3>3
  <2>4. CASE ~ (n + j <= Len(log))
    BY <1>2, <1>6, <2>1, <2>2, <2>4
  <2>. QED BY <2>3, <2>4
<1>11. Least(Matches(k)') = m - n
  <2>1. Matches(k)' \subseteq Nat
    BY <1>2 DEF Matches
  <2>. QED BY <1>9, <1>10, <2>1, LeastIsOne
<1>12. Ready(k)' = Ready(k)
  <2>1. Ready(k)' = log'[m - n].at + Window
    BY <1>11 DEF Ready, Least
  <2>. QED BY <1>8, <2>1 DEF Ready, m
<1>. QED BY <1>3, <1>9, <1>12

\* The set a wait's window ends at the least of is of naturals.
LEMMA WindowIsDue ==
  ASSUME TypeOK, NEW w \in Conns, Matches(Key(w)) # {}
  PROVE  Least({Ready(Key(w)), until[w].deadline}) \in {Ready(Key(w)), until[w].deadline}
<1>1. Ready(Key(w)) \in Nat /\ until[w].deadline \in Nat
  BY MatchesType DEF Key, Keys, TypeOK
<1>. QED BY <1>1, LeastExists

\* Every step keeps what a wait found due.
LEMMA BurstStep == BurstInv /\ [Next]_vars => BurstInv'
<1>. SUFFICES ASSUME BurstInv, [Next]_vars PROVE BurstInv'
  OBVIOUS
<1>1. /\ TellInv' /\ OneConnectionEach' /\ TypeOK /\ MissKnown /\ InsideIsKnown
      /\ now \in Nat
  BY TellStep DEF BurstInv, TellInv, MissKnown, MissInv, OneConnectionEach, Key, TypeOK
<1>2. CASE Tick \/ UNCHANGED vars
  <2>1. /\ UNCHANGED <<log, cursors, lost, pc, until>> /\ now' >= now /\ now' \in Nat
    BY <1>1, <1>2 DEF Tick, vars, hubVars, connVars
  <2>2. ASSUME NEW w \in Conns PROVE Due(w)'
    <3>1. /\ Due(w) /\ Matches(Key(w))' = Matches(Key(w)) /\ Ready(Key(w))' = Ready(Key(w))
      BY <2>1 DEF BurstInv, Matches, Ready, Key
    <3>2. Matches(Key(w)) # {} => Ready(Key(w)) \in Nat /\ until[w].deadline \in Nat
      BY <1>1, MatchesType DEF TypeOK, Key, Keys
    <3>. QED BY <1>1, <2>1, <3>1, <3>2 DEF Due, Key
  <2>. QED BY <1>1, <2>2 DEF BurstInv
<1>3. ASSUME NEW r \in Ringers, Ring(r), NEW w \in Conns
      PROVE  Due(w)'
  <2>1. UNCHANGED <<now, pc, until, cursors>>
    BY <1>3 DEF Ring, RingBegin, RingLocked, RingNotify, hubVars, connVars
  <2>2. CASE RingLocked(r)
    <3>1. SUFFICES ASSUME pc[w] \in {"window", "take"}, lost'[Key(w)] = 0
                   PROVE  lost[Key(w)] = 0 /\ Matches(Key(w))' # {}
                          /\ Ready(Key(w))' = Ready(Key(w))
      BY <2>1 DEF BurstInv, Due, Key
    <3>2. Key(w) \in known /\ Key(w) \in Keys
      BY <1>1, <3>1 DEF InsideIsKnown, Key, Keys
    <3>3. lost[Key(w)] = 0
      <4>1. PICK all \in Seq(Rings), n \in Nat :
               lost' = [k \in Keys |->
                         IF k \in known THEN lost[k] + Cardinality(LostTo(k, all, n)) ELSE lost[k]]
        BY <1>1, <2>2, RingLockedType
      <4>2. lost'[Key(w)] = lost[Key(w)] + Cardinality(LostTo(Key(w), all, n))
        BY <3>2, <4>1
      <4>3. Cardinality(LostTo(Key(w), all, n)) \in Nat /\ lost[Key(w)] \in Nat
        BY <1>1, <3>2, LostToType DEF TypeOK
      <4>. QED BY <3>1, <4>2, <4>3
    <3>4. Matches(Key(w)) # {}
      BY <3>1, <3>3 DEF BurstInv, Due
    <3>5. Matches(Key(w))' # {} /\ Ready(Key(w))' = Ready(Key(w))
      BY <1>1, <2>2, <3>1, <3>2, <3>4, RingKeepsFirst DEF Key
    <3>. QED BY <3>3, <3>5
  <2>3. CASE (\E batch \in Batches : RingBegin(r, batch)) \/ RingNotify(r)
    <3>1. UNCHANGED <<log, lost>>
      BY <2>3 DEF RingBegin, RingNotify, hubVars
    <3>. QED BY <2>1, <3>1 DEF BurstInv, Due, Matches, Ready, Key
  <2>. QED BY <1>3, <2>2, <2>3 DEF Ring
<1>4. ASSUME NEW d \in Conns, Wait(d) \/ Proceed(d) \/ Disconnect(d), NEW w \in Conns
      PROVE  Due(w)'
  <2>1. UNCHANGED <<now, log>>
    BY <1>4 DEF Wait, WaitNew, WaitLost, WaitKnown, Proceed, Enable, Check, FirstMatch, NoMatch,
       Decide, WindowEnds, Take, WakeUp, DeadlinePasses, Leave, Disconnect, hubVars
  <2>2. CASE d # w
    <3>1. Key(d) # Key(w) /\ Key(w) \in Keys
      BY <1>4, <2>2 DEF BurstInv, OneConnectionEach, Key, Keys
    <3>2. pc'[w] = pc[w] /\ until'[w] = until[w]
      BY <1>1, <1>4, <2>2 DEF TypeOK, Wait, WaitNew, WaitLost, WaitKnown, Proceed, Enable, Check,
         FirstMatch, NoMatch, Decide, WindowEnds, Take, WakeUp, DeadlinePasses, Leave, Disconnect,
         Return, GoTo
    <3>3. cursors'[Key(w)] = cursors[Key(w)] /\ lost'[Key(w)] = lost[Key(w)]
      BY <1>1, <1>4, <3>1 DEF TypeOK, Wait, WaitNew, WaitLost, WaitKnown, Proceed, Enable, Check,
         FirstMatch, NoMatch, Decide, WindowEnds, Take, WakeUp, DeadlinePasses, Leave, Disconnect,
         CaughtUp, hubVars
    <3>4. Matches(Key(w))' = Matches(Key(w)) /\ Ready(Key(w))' = Ready(Key(w))
      BY <2>1, <3>3 DEF Matches, Ready, Key
    <3>. QED BY <2>1, <3>2, <3>3, <3>4 DEF BurstInv, Due, Key
  <2>3. CASE d = w /\ FirstMatch(w)
    <3>1. /\ Matches(Key(w)) # {} /\ UNCHANGED <<cursors, lost>> /\ pc \in [Conns -> Places]
          /\ until \in [Conns -> [deadline : Nat, window : Nat]]
      BY <1>1, <2>3 DEF FirstMatch, hubVars, TypeOK
    <3>2. Matches(Key(w))' = Matches(Key(w)) /\ Ready(Key(w))' = Ready(Key(w))
      BY <2>1, <3>1 DEF Matches, Ready, Key
    <3>3. Ready(Key(w)) \in Nat /\ until[w].deadline \in Nat
      BY <1>1, <3>1, MatchesType DEF Key, Keys
    <3>4. CASE now < Ready(Key(w))
      <4>1. /\ pc'[w] = "window" /\ until'[w].deadline = until[w].deadline
            /\ until'[w].window = Least({Ready(Key(w)), until[w].deadline})
        BY <2>3, <3>1, <3>4 DEF FirstMatch, GoTo
      <4>2. \/ until'[w].window = Ready(Key(w))
            \/ until'[w].window = until[w].deadline
        BY <1>1, <3>1, <4>1, WindowIsDue
      <4>. QED BY <3>1, <3>2, <3>3, <4>1, <4>2 DEF Due, Key
    <3>5. CASE ~ (now < Ready(Key(w)))
      <4>1. pc'[w] = "take" /\ now >= Ready(Key(w))
        BY <1>1, <2>3, <3>1, <3>3, <3>5 DEF FirstMatch, GoTo
      <4>. QED BY <2>1, <3>1, <3>2, <4>1 DEF Due, Key
    <3>. QED BY <3>4, <3>5
  <2>4. CASE d = w /\ WindowEnds(w)
    <3>1. /\ pc[w] = "window" /\ pc'[w] = "take" /\ now >= until[w].window
          /\ until'[w].deadline = until[w].deadline /\ UNCHANGED <<cursors, lost>>
      BY <1>1, <2>4 DEF WindowEnds, GoTo, hubVars, TypeOK
    <3>2. Matches(Key(w))' = Matches(Key(w)) /\ Ready(Key(w))' = Ready(Key(w))
      BY <2>1, <3>1 DEF Matches, Ready, Key
    <3>3. until[w].deadline \in Nat /\ until[w].window \in Nat
      BY <1>1 DEF TypeOK
    <3>4. Matches(Key(w)) # {} => Ready(Key(w)) \in Nat
      BY <1>1, MatchesType DEF Key, Keys
    <3>. QED BY <1>1, <2>1, <3>1, <3>2, <3>3, <3>4 DEF BurstInv, Due, Key
  <2>5. CASE /\ d = w
             /\ \/ Wait(w) \/ Enable(w) \/ Check(w) \/ NoMatch(w) \/ Decide(w) \/ Take(w)
                \/ WakeUp(w) \/ DeadlinePasses(w) \/ Leave(w) \/ Disconnect(w)
    <3>1. pc'[w] \notin {"window", "take"}
      BY <1>1, <2>5 DEF TypeOK, Wait, WaitNew, WaitLost, WaitKnown, Enable, Check, NoMatch, Decide,
         Take, WakeUp, DeadlinePasses, Leave, Disconnect, Return, GoTo
    <3>. QED BY <3>1 DEF Due
  <2>. QED BY <1>4, <2>2, <2>3, <2>4, <2>5 DEF Proceed
<1>. QED BY <1>1, <1>2, <1>3, <1>4 DEF Next, BurstInv

\* One wake per burst, while each reader set has one connection: a Mail is
\* handed out only when the window after the first ring it covers has passed,
\* or at the wait's deadline, whatever is trimmed and rung meanwhile.
THEOREM BurstIsOneMail == OneConnectionEach /\ Spec => MailIsCoalesced
<1>1. OneConnectionEach /\ Init => BurstInv
  BY InitMiss DEF Init, BurstInv, TellInv, MissKnown, InsideIsKnown, CursorsAreBehind,
     AnswersAreNew, Due
<1>2. BurstInv /\ [Next]_vars =>
        [\A w \in Conns :
           pc[w] = "take" /\ reply'[w].wake = "mail" =>
             \/ now >= log[Least(Matches(Key(w)))].at + Window
             \/ now >= until[w].deadline]_vars
  <2>. SUFFICES ASSUME BurstInv, [Next]_vars, NEW w \in Conns,
                       pc[w] = "take", reply'[w].wake = "mail"
                PROVE  \/ now >= log[Least(Matches(Key(w)))].at + Window
                       \/ now >= until[w].deadline
    OBVIOUS
  <2>1. lost[Key(w)] = 0
    BY MailIsTaken DEF BurstInv, Mails
  <2>. QED BY <2>1 DEF BurstInv, Due, Ready
<1>. QED BY <1>1, <1>2, BurstStep, PTL DEF Spec, MailIsCoalesced
============================================================================
