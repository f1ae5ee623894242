--------------------------- MODULE EndpointProofs ---------------------------
(***************************************************************************)
(* Proofs about Endpoint, for any daemons, messages and exit codes of CMD, *)
(* and any number of shutdowns and crashes.                                *)
(*                                                                         *)
(* ListenerIsReachable is inductive as it stands.  NothingForgotten needs  *)
(* that a daemon knows no reader set before it accepts, that m3-wait waits  *)
(* in processes that run, and that a wake is in transit only once answered. *)
(***************************************************************************)
EXTENDS Endpoint, TLAPS

\* The path names a daemon that has it bound and has not removed it.
FileIsLive == file \in Daemons => daemon[file] \in {"bound", "chmod", "serving", "unlink"}

\* Only a daemon that accepts, or did, has been told of the reader set.
HubIsServed == \A d \in Daemons : hub[d] # "new" => daemon[d] \in {"serving", "unlink", "exit"}

\* m3-wait's connection leads to a process that runs, and a wake is known only
\* once it was answered.
ConnectionIsLive ==
  /\ wait.at = "queued" => wait.to \in Daemons /\ Listens(wait.to)
  /\ wait.at = "waiting" => wait.to \in Daemons /\ daemon[wait.to] \in {"serving", "unlink", "exit"}
  /\ wait.wake # "none" => wait.at = "replied"

\* TypeOK by owner.
DaemonTypes ==
  /\ file \in Daemons \cup {"none", "stale"}
  /\ daemon \in [Daemons -> DaemonPlaces]
  /\ hub \in [Daemons -> {"new", "quiet", "news"}]
  /\ ends \in 0 .. MaxEnds

WaitTypes ==
  /\ wait \in [at : WaitPlaces, to : Daemons \cup {Nobody}, wake : {"none", "resync", "mail", "timeout"}]
  /\ exit \in [code : 0 .. 255, why : Reasons]

StoreTypes ==
  /\ message \in [Messages -> {"new", "stored", "rung", "read"}]
  /\ late \in BOOLEAN
  /\ stolen \in BOOLEAN
  /\ dropped \in BOOLEAN

\* What m3-wait's own exit codes stand for.
Honest(code, why) ==
  /\ code = 2 => why = "late"
  /\ code = 3 => why = "no_daemon"
  /\ code = 4 => why = "stdin_closed"

----------------------------------------------------------------------------

\* A code that passes through is one an exit status can hold, and none of
\* m3-wait's own.
LEMMA PassthroughIsSafe ==
  ASSUME NEW code \in CmdCodes
  PROVE  Passthrough(code) \in 0 .. 255 \ {2, 3, 4}
BY EndpointAssumption DEF Passthrough

\* How m3-wait ends, and what becomes of it with a daemon, has the types.
LEMMA ExitsType ==
  ASSUME NEW code \in 0 .. 255, NEW why \in Reasons, Exits(code, why)
  PROVE  WaitTypes'
BY DEF Exits, WaitTypes, WaitAt, WaitPlaces, Nobody

\* A process that ends leaves m3-wait with a type (Hangup: a broken connection, or nothing).
LEMMA HangupType ==
  ASSUME WaitTypes, NEW d, Hangup(d)
  PROVE  WaitTypes'
<1>1. CASE Exits(1, "broken")
  BY <1>1, ExitsType DEF Reasons
<1>2. CASE UNCHANGED <<wait, exit>>
  BY <1>2 DEF WaitTypes
<1>. QED BY <1>1, <1>2 DEF Hangup

\* Every step keeps the types of what the daemons own.
LEMMA DaemonTypeStep ==
  ASSUME DaemonTypes, WaitTypes, [Next]_vars
  PROVE  DaemonTypes'
<1>1. ASSUME NEW d \in Daemons, Start(d) PROVE DaemonTypes'
  BY <1>1 DEF Start, DaemonTypes, Moves, DaemonPlaces
<1>2. ASSUME NEW d \in Daemons, Probe(d) PROVE DaemonTypes'
  BY <1>2 DEF Probe, DaemonTypes, Moves, DaemonPlaces, Probed, Refuses
<1>3. ASSUME NEW d \in Daemons, Remove(d) PROVE DaemonTypes'
  BY <1>3 DEF Remove, DaemonTypes, Moves, DaemonPlaces
<1>4. ASSUME NEW d \in Daemons, Bind(d) PROVE DaemonTypes'
  BY <1>4 DEF Bind, DaemonTypes, Moves, DaemonPlaces, Bound
<1>5. ASSUME NEW d \in Daemons, Listen(d) PROVE DaemonTypes'
  BY <1>5 DEF Listen, DaemonTypes, Moves, DaemonPlaces
<1>6. ASSUME NEW d \in Daemons, Chmod(d) PROVE DaemonTypes'
  BY <1>6 DEF Chmod, DaemonTypes, Moves, DaemonPlaces
<1>7. ASSUME NEW d \in Daemons, Unlink(d) PROVE DaemonTypes'
  BY <1>7 DEF Unlink, DaemonTypes, Moves, DaemonPlaces
<1>8. ASSUME NEW d \in Daemons, Exit(d) PROVE DaemonTypes'
  BY <1>8 DEF Exit, DaemonTypes, Moves, DaemonPlaces
<1>9. ASSUME NEW d \in Daemons, Shutdown(d) PROVE DaemonTypes'
  BY <1>9, EndpointAssumption DEF Shutdown, DaemonTypes, Moves, DaemonPlaces
<1>10. ASSUME NEW d \in Daemons, Crash(d) PROVE DaemonTypes'
  BY <1>10, EndpointAssumption DEF Crash, DaemonTypes, Moves, DaemonPlaces
<1>11. CASE Connect
  BY <1>11 DEF Connect, daemonVars, DaemonTypes
<1>12. CASE Accept
  BY <1>12 DEF Accept, daemonVars, DaemonTypes
<1>13. CASE Receive
  BY <1>13 DEF Receive, daemonVars, DaemonTypes
<1>14. CASE CmdReads
  BY <1>14 DEF CmdReads, daemonVars, DaemonTypes
<1>15. CASE CmdFindsNothing
  BY <1>15 DEF CmdFindsNothing, daemonVars, DaemonTypes
<1>16. CASE OrphanReads
  BY <1>16 DEF OrphanReads, daemonVars, DaemonTypes
<1>17. CASE Wake
  BY <1>17 DEF Wake, DaemonTypes, WaitTypes
<1>18. CASE HubGivesUp
  BY <1>18 DEF HubGivesUp, daemonVars, DaemonTypes
<1>19. CASE StdinCloses
  BY <1>19 DEF StdinCloses, daemonVars, DaemonTypes
<1>20. CASE Restart
  BY <1>20 DEF Restart, daemonVars, DaemonTypes
<1>21. CASE DeadlinePasses
  BY <1>21 DEF DeadlinePasses, daemonVars, DaemonTypes
<1>22. ASSUME NEW code \in CmdCodes, CmdFails(code) PROVE DaemonTypes'
  BY <1>22 DEF CmdFails, daemonVars, DaemonTypes
<1>23. ASSUME NEW m \in Messages, Commit(m) PROVE DaemonTypes'
  BY <1>23 DEF Commit, daemonVars, DaemonTypes
<1>24. ASSUME NEW m \in Messages, Ring(m) PROVE DaemonTypes'
  BY <1>24 DEF Ring, DaemonTypes, Heard
<1>25. CASE UNCHANGED vars
  BY <1>25 DEF vars, daemonVars, waitVars, storeVars, DaemonTypes
<1>. QED
  BY <1>1, <1>2, <1>3, <1>4, <1>5, <1>6, <1>7, <1>8, <1>9, <1>10, <1>11, <1>12, <1>13, <1>14, <1>15, <1>16, <1>17, <1>18, <1>19, <1>20, <1>21, <1>22, <1>23, <1>24, <1>25 DEF Next, Serve, Proceed

\* Every step keeps the types of m3-wait.
LEMMA WaitTypeStep ==
  ASSUME DaemonTypes, WaitTypes, [Next]_vars
  PROVE  WaitTypes'
<1>1. ASSUME NEW d \in Daemons, Start(d) PROVE WaitTypes'
  BY <1>1 DEF Start, WaitTypes, waitVars
<1>2. ASSUME NEW d \in Daemons, Probe(d) PROVE WaitTypes'
  BY <1>2 DEF Probe, WaitTypes, waitVars
<1>3. ASSUME NEW d \in Daemons, Remove(d) PROVE WaitTypes'
  BY <1>3 DEF Remove, WaitTypes, waitVars
<1>4. ASSUME NEW d \in Daemons, Bind(d) PROVE WaitTypes'
  BY <1>4 DEF Bind, WaitTypes, waitVars
<1>5. ASSUME NEW d \in Daemons, Listen(d) PROVE WaitTypes'
  BY <1>5 DEF Listen, WaitTypes, waitVars
<1>6. ASSUME NEW d \in Daemons, Chmod(d) PROVE WaitTypes'
  <2>1. Hangup(d) \/ UNCHANGED <<wait, exit>>
    BY <1>6 DEF Chmod
  <2>. QED BY <2>1, HangupType DEF WaitTypes
<1>7. ASSUME NEW d \in Daemons, Unlink(d) PROVE WaitTypes'
  BY <1>7 DEF Unlink, WaitTypes, waitVars
<1>8. ASSUME NEW d \in Daemons, Exit(d) PROVE WaitTypes'
  BY <1>8, HangupType DEF Exit
<1>9. ASSUME NEW d \in Daemons, Shutdown(d) PROVE WaitTypes'
  BY <1>9 DEF Shutdown, WaitTypes, waitVars
<1>10. ASSUME NEW d \in Daemons, Crash(d) PROVE WaitTypes'
  BY <1>10, HangupType DEF Crash
<1>11. CASE Connect
  <2>1. CASE Exits(2, "late")
    BY <2>1, ExitsType DEF Reasons
  <2>2. CASE Exits(3, "no_daemon")
    BY <2>2, ExitsType DEF Reasons
  <2>3. CASE file \in Daemons /\ wait' = [at |-> "queued", to |-> file, wake |-> "none"] /\ UNCHANGED exit
    BY <2>3 DEF WaitTypes, WaitPlaces
  <2>. QED BY <1>11, <2>1, <2>2, <2>3 DEF Connect, NoDaemon, Refuses, DaemonTypes
<1>12. CASE Accept
  BY <1>12 DEF Accept, WaitTypes, WaitPlaces, WaitAt, Nobody
<1>13. CASE Receive
  BY <1>13 DEF Receive, WaitTypes, WaitPlaces, WaitAt, Nobody
<1>14. CASE CmdReads
  BY <1>14, ExitsType DEF CmdReads, Reasons
<1>15. CASE CmdFindsNothing
  BY <1>15 DEF CmdFindsNothing, WaitTypes, WaitPlaces, WaitAt, Nobody
<1>16. CASE OrphanReads
  BY <1>16 DEF OrphanReads, WaitTypes, WaitPlaces, WaitAt, Nobody
<1>17. CASE Wake
  BY <1>17 DEF Wake, WaitTypes, WaitPlaces, WaitAt, Nobody
<1>18. CASE HubGivesUp
  BY <1>18 DEF HubGivesUp, WaitTypes, WaitPlaces, WaitAt, Nobody
<1>19. CASE StdinCloses
  <2>1. exit' \in [code : 0 .. 255, why : Reasons]
    BY <1>19 DEF StdinCloses, Reasons
  <2>2. wait' \in [at : WaitPlaces, to : Daemons \cup {Nobody}, wake : {"none", "resync", "mail", "timeout"}]
    BY <1>19 DEF StdinCloses, WaitAt, WaitPlaces, Nobody
  <2>. QED BY <2>1, <2>2 DEF WaitTypes
<1>20. CASE Restart
  <2>1. exit' \in [code : 0 .. 255, why : Reasons]
    BY <1>20 DEF Restart, NotYet, Reasons
  <2>2. wait' \in [at : WaitPlaces, to : Daemons \cup {Nobody}, wake : {"none", "resync", "mail", "timeout"}]
    BY <1>20 DEF Restart, WaitAt, WaitPlaces, Nobody
  <2>. QED BY <2>1, <2>2 DEF WaitTypes
<1>21. CASE DeadlinePasses
  BY <1>21 DEF DeadlinePasses, WaitTypes
<1>22. ASSUME NEW code \in CmdCodes, CmdFails(code) PROVE WaitTypes'
  <2>1. Passthrough(code) \in 0 .. 255
    BY PassthroughIsSafe
  <2>. QED BY <1>22, <2>1, ExitsType DEF CmdFails, Reasons
<1>23. ASSUME NEW m \in Messages, Commit(m) PROVE WaitTypes'
  BY <1>23 DEF Commit, WaitTypes, waitVars
<1>24. ASSUME NEW m \in Messages, Ring(m) PROVE WaitTypes'
  BY <1>24 DEF Ring, WaitTypes, waitVars
<1>25. CASE UNCHANGED vars
  BY <1>25 DEF WaitTypes, vars, waitVars
<1>. QED
  BY <1>1, <1>2, <1>3, <1>4, <1>5, <1>6, <1>7, <1>8, <1>9, <1>10, <1>11, <1>12, <1>13, <1>14, <1>15, <1>16, <1>17, <1>18, <1>19, <1>20, <1>21, <1>22, <1>23, <1>24, <1>25 DEF Next, Serve, Proceed

\* Every step keeps the types of the store, and of the two flags of m3-wait's.
LEMMA StoreTypeStep ==
  ASSUME StoreTypes, [Next]_vars
  PROVE  StoreTypes'
<1>1. ASSUME NEW d \in Daemons, Start(d) PROVE StoreTypes'
  BY <1>1 DEF Start, StoreTypes, waitVars, storeVars
<1>2. ASSUME NEW d \in Daemons, Probe(d) PROVE StoreTypes'
  BY <1>2 DEF Probe, StoreTypes, waitVars, storeVars
<1>3. ASSUME NEW d \in Daemons, Remove(d) PROVE StoreTypes'
  BY <1>3 DEF Remove, StoreTypes, waitVars, storeVars
<1>4. ASSUME NEW d \in Daemons, Bind(d) PROVE StoreTypes'
  BY <1>4 DEF Bind, StoreTypes, waitVars, storeVars
<1>5. ASSUME NEW d \in Daemons, Listen(d) PROVE StoreTypes'
  BY <1>5 DEF Listen, StoreTypes, waitVars, storeVars
<1>6. ASSUME NEW d \in Daemons, Chmod(d) PROVE StoreTypes'
  BY <1>6 DEF Chmod, StoreTypes, storeVars
<1>7. ASSUME NEW d \in Daemons, Unlink(d) PROVE StoreTypes'
  BY <1>7 DEF Unlink, StoreTypes, waitVars, storeVars
<1>8. ASSUME NEW d \in Daemons, Exit(d) PROVE StoreTypes'
  BY <1>8 DEF Exit, StoreTypes, storeVars
<1>9. ASSUME NEW d \in Daemons, Shutdown(d) PROVE StoreTypes'
  BY <1>9 DEF Shutdown, StoreTypes, waitVars, storeVars
<1>10. ASSUME NEW d \in Daemons, Crash(d) PROVE StoreTypes'
  BY <1>10 DEF Crash, StoreTypes, storeVars
<1>11. CASE Connect
  BY <1>11 DEF Connect, StoreTypes, daemonVars, storeVars
<1>12. CASE Accept
  BY <1>12 DEF Accept, StoreTypes, daemonVars, storeVars
<1>13. CASE Receive
  BY <1>13 DEF Receive, StoreTypes, daemonVars, storeVars
<1>14. CASE CmdReads
  BY <1>14 DEF CmdReads, StoreTypes, daemonVars
<1>15. CASE CmdFindsNothing
  BY <1>15 DEF CmdFindsNothing, StoreTypes, daemonVars
<1>16. CASE OrphanReads
  BY <1>16 DEF OrphanReads, StoreTypes, daemonVars
<1>17. CASE Wake
  BY <1>17 DEF Wake, StoreTypes, storeVars
<1>18. CASE HubGivesUp
  BY <1>18 DEF HubGivesUp, StoreTypes, daemonVars, storeVars
<1>19. CASE StdinCloses
  BY <1>19 DEF StdinCloses, StoreTypes, daemonVars
<1>20. CASE Restart
  BY <1>20 DEF Restart, StoreTypes, daemonVars, storeVars
<1>21. CASE DeadlinePasses
  BY <1>21 DEF DeadlinePasses, StoreTypes, daemonVars, storeVars
<1>22. ASSUME NEW code \in CmdCodes, CmdFails(code) PROVE StoreTypes'
  BY <1>22 DEF CmdFails, StoreTypes, daemonVars
<1>23. ASSUME NEW m \in Messages, Commit(m) PROVE StoreTypes'
  BY <1>23 DEF Commit, StoreTypes, daemonVars, waitVars
<1>24. ASSUME NEW m \in Messages, Ring(m) PROVE StoreTypes'
  BY <1>24 DEF Ring, StoreTypes, waitVars
<1>25. CASE UNCHANGED vars
  BY <1>25 DEF StoreTypes, vars, daemonVars, waitVars, storeVars
<1>. QED
  BY <1>1, <1>2, <1>3, <1>4, <1>5, <1>6, <1>7, <1>8, <1>9, <1>10, <1>11, <1>12, <1>13, <1>14, <1>15, <1>16, <1>17, <1>18, <1>19, <1>20, <1>21, <1>22, <1>23, <1>24, <1>25 DEF Next, Serve, Proceed

\* Every step keeps the types.
LEMMA TypeStep ==
  ASSUME TypeOK, [Next]_vars
  PROVE  TypeOK'
<1>1. DaemonTypes /\ WaitTypes /\ StoreTypes
  BY DEF TypeOK, DaemonTypes, WaitTypes, StoreTypes
<1>2. DaemonTypes' /\ WaitTypes' /\ StoreTypes'
  BY <1>1, DaemonTypeStep, WaitTypeStep, StoreTypeStep
<1>. QED BY <1>2 DEF TypeOK, DaemonTypes, WaitTypes, StoreTypes

\* Every step keeps the path pointing at a live listener, if at any daemon.
LEMMA FileStep ==
  ASSUME TypeOK, FileIsLive, [Next]_vars
  PROVE  FileIsLive'
<1>1. ASSUME NEW d \in Daemons, Start(d) PROVE FileIsLive'
  BY <1>1, EndpointAssumption DEF Start, TypeOK, FileIsLive, Moves
<1>2. ASSUME NEW d \in Daemons, Probe(d) PROVE FileIsLive'
  BY <1>2, EndpointAssumption DEF Probe, TypeOK, FileIsLive, Moves, Probed, Refuses
<1>3. ASSUME NEW d \in Daemons, Remove(d) PROVE FileIsLive'
  BY <1>3, EndpointAssumption DEF Remove, TypeOK, FileIsLive, Moves
<1>4. ASSUME NEW d \in Daemons, Bind(d) PROVE FileIsLive'
  BY <1>4, EndpointAssumption DEF Bind, TypeOK, FileIsLive, Moves, Bound
<1>5. ASSUME NEW d \in Daemons, Listen(d) PROVE FileIsLive'
  BY <1>5, EndpointAssumption DEF Listen, TypeOK, FileIsLive, Moves
<1>6. ASSUME NEW d \in Daemons, Chmod(d) PROVE FileIsLive'
  BY <1>6, EndpointAssumption DEF Chmod, TypeOK, FileIsLive, Moves
<1>7. ASSUME NEW d \in Daemons, Unlink(d) PROVE FileIsLive'
  BY <1>7, EndpointAssumption DEF Unlink, TypeOK, FileIsLive, Moves
<1>8. ASSUME NEW d \in Daemons, Exit(d) PROVE FileIsLive'
  BY <1>8, EndpointAssumption DEF Exit, TypeOK, FileIsLive, Moves
<1>9. ASSUME NEW d \in Daemons, Shutdown(d) PROVE FileIsLive'
  BY <1>9, EndpointAssumption DEF Shutdown, TypeOK, FileIsLive, Moves
<1>10. ASSUME NEW d \in Daemons, Crash(d) PROVE FileIsLive'
  BY <1>10, EndpointAssumption DEF Crash, TypeOK, FileIsLive, Moves
<1>11. CASE Connect
  BY <1>11, EndpointAssumption DEF Connect, TypeOK, FileIsLive, daemonVars
<1>12. CASE Accept
  BY <1>12, EndpointAssumption DEF Accept, TypeOK, FileIsLive, daemonVars
<1>13. CASE Receive
  BY <1>13, EndpointAssumption DEF Receive, TypeOK, FileIsLive, daemonVars
<1>14. CASE CmdReads
  BY <1>14, EndpointAssumption DEF CmdReads, TypeOK, FileIsLive, daemonVars
<1>15. CASE CmdFindsNothing
  BY <1>15, EndpointAssumption DEF CmdFindsNothing, TypeOK, FileIsLive, daemonVars
<1>16. CASE OrphanReads
  BY <1>16, EndpointAssumption DEF OrphanReads, TypeOK, FileIsLive, daemonVars
<1>17. CASE Wake
  BY <1>17, EndpointAssumption DEF Wake, TypeOK, FileIsLive
<1>18. CASE HubGivesUp
  BY <1>18, EndpointAssumption DEF HubGivesUp, TypeOK, FileIsLive, daemonVars
<1>19. CASE StdinCloses
  BY <1>19, EndpointAssumption DEF StdinCloses, TypeOK, FileIsLive, daemonVars
<1>20. CASE Restart
  BY <1>20, EndpointAssumption DEF Restart, TypeOK, FileIsLive, daemonVars
<1>21. CASE DeadlinePasses
  BY <1>21, EndpointAssumption DEF DeadlinePasses, TypeOK, FileIsLive, daemonVars
<1>22. ASSUME NEW code \in CmdCodes, CmdFails(code) PROVE FileIsLive'
  BY <1>22, EndpointAssumption DEF CmdFails, TypeOK, FileIsLive, daemonVars
<1>23. ASSUME NEW m \in Messages, Commit(m) PROVE FileIsLive'
  BY <1>23, EndpointAssumption DEF Commit, TypeOK, FileIsLive, daemonVars
<1>24. ASSUME NEW m \in Messages, Ring(m) PROVE FileIsLive'
  BY <1>24, EndpointAssumption DEF Ring, TypeOK, FileIsLive
<1>25. CASE UNCHANGED vars
  BY <1>25, EndpointAssumption DEF TypeOK, FileIsLive, daemonVars, vars
<1>. QED
  BY <1>1, <1>2, <1>3, <1>4, <1>5, <1>6, <1>7, <1>8, <1>9, <1>10, <1>11, <1>12, <1>13, <1>14, <1>15, <1>16, <1>17, <1>18, <1>19, <1>20, <1>21, <1>22, <1>23, <1>24, <1>25 DEF Next, Serve, Proceed

\* Every step keeps the Hub of a daemon empty until it accepts.
LEMMA HubStep ==
  ASSUME TypeOK, HubIsServed, ConnectionIsLive, [Next]_vars
  PROVE  HubIsServed'
<1>1. ASSUME NEW d \in Daemons, Start(d) PROVE HubIsServed'
  BY <1>1 DEF Start, TypeOK, HubIsServed, Moves
<1>2. ASSUME NEW d \in Daemons, Probe(d) PROVE HubIsServed'
  BY <1>2 DEF Probe, TypeOK, HubIsServed, Moves, Probed, Refuses
<1>3. ASSUME NEW d \in Daemons, Remove(d) PROVE HubIsServed'
  BY <1>3 DEF Remove, TypeOK, HubIsServed, Moves
<1>4. ASSUME NEW d \in Daemons, Bind(d) PROVE HubIsServed'
  BY <1>4 DEF Bind, TypeOK, HubIsServed, Moves, Bound
<1>5. ASSUME NEW d \in Daemons, Listen(d) PROVE HubIsServed'
  BY <1>5 DEF Listen, TypeOK, HubIsServed, Moves
<1>6. ASSUME NEW d \in Daemons, Chmod(d) PROVE HubIsServed'
  BY <1>6 DEF Chmod, TypeOK, HubIsServed, Moves
<1>7. ASSUME NEW d \in Daemons, Unlink(d) PROVE HubIsServed'
  BY <1>7 DEF Unlink, TypeOK, HubIsServed, Moves
<1>8. ASSUME NEW d \in Daemons, Exit(d) PROVE HubIsServed'
  BY <1>8 DEF Exit, TypeOK, HubIsServed, Moves
<1>9. ASSUME NEW d \in Daemons, Shutdown(d) PROVE HubIsServed'
  BY <1>9 DEF Shutdown, TypeOK, HubIsServed, Moves
<1>10. ASSUME NEW d \in Daemons, Crash(d) PROVE HubIsServed'
  BY <1>10 DEF Crash, TypeOK, HubIsServed, Moves
<1>11. CASE Connect
  BY <1>11 DEF Connect, TypeOK, HubIsServed, daemonVars
<1>12. CASE Accept
  BY <1>12 DEF Accept, TypeOK, HubIsServed, daemonVars
<1>13. CASE Receive
  BY <1>13 DEF Receive, TypeOK, HubIsServed, daemonVars
<1>14. CASE CmdReads
  BY <1>14 DEF CmdReads, TypeOK, HubIsServed, daemonVars
<1>15. CASE CmdFindsNothing
  BY <1>15 DEF CmdFindsNothing, TypeOK, HubIsServed, daemonVars
<1>16. CASE OrphanReads
  BY <1>16 DEF OrphanReads, TypeOK, HubIsServed, daemonVars
<1>17. CASE Wake
  BY <1>17 DEF Wake, TypeOK, HubIsServed, ConnectionIsLive
<1>18. CASE HubGivesUp
  BY <1>18 DEF HubGivesUp, TypeOK, HubIsServed, daemonVars
<1>19. CASE StdinCloses
  BY <1>19 DEF StdinCloses, TypeOK, HubIsServed, daemonVars
<1>20. CASE Restart
  BY <1>20 DEF Restart, TypeOK, HubIsServed, daemonVars
<1>21. CASE DeadlinePasses
  BY <1>21 DEF DeadlinePasses, TypeOK, HubIsServed, daemonVars
<1>22. ASSUME NEW code \in CmdCodes, CmdFails(code) PROVE HubIsServed'
  BY <1>22 DEF CmdFails, TypeOK, HubIsServed, daemonVars
<1>23. ASSUME NEW m \in Messages, Commit(m) PROVE HubIsServed'
  BY <1>23 DEF Commit, TypeOK, HubIsServed, daemonVars
<1>24. ASSUME NEW m \in Messages, Ring(m) PROVE HubIsServed'
  BY <1>24 DEF Ring, TypeOK, HubIsServed
<1>25. CASE UNCHANGED vars
  BY <1>25 DEF TypeOK, HubIsServed, daemonVars, vars
<1>. QED
  BY <1>1, <1>2, <1>3, <1>4, <1>5, <1>6, <1>7, <1>8, <1>9, <1>10, <1>11, <1>12, <1>13, <1>14, <1>15, <1>16, <1>17, <1>18, <1>19, <1>20, <1>21, <1>22, <1>23, <1>24, <1>25 DEF Next, Serve, Proceed

\* Every step keeps m3-wait's connection to a process that runs.
LEMMA ConnectionStep ==
  ASSUME TypeOK, FileIsLive, ConnectionIsLive, [Next]_vars
  PROVE  ConnectionIsLive'
<1>1. ASSUME NEW d \in Daemons, Start(d) PROVE ConnectionIsLive'
  BY <1>1 DEF Start, TypeOK, ConnectionIsLive, Listens, Moves, waitVars
<1>2. ASSUME NEW d \in Daemons, Probe(d) PROVE ConnectionIsLive'
  BY <1>2 DEF Probe, TypeOK, ConnectionIsLive, Listens, Moves, waitVars, Probed, Refuses
<1>3. ASSUME NEW d \in Daemons, Remove(d) PROVE ConnectionIsLive'
  BY <1>3 DEF Remove, TypeOK, ConnectionIsLive, Listens, Moves, waitVars
<1>4. ASSUME NEW d \in Daemons, Bind(d) PROVE ConnectionIsLive'
  BY <1>4 DEF Bind, TypeOK, ConnectionIsLive, Listens, Moves, waitVars, Bound
<1>5. ASSUME NEW d \in Daemons, Listen(d) PROVE ConnectionIsLive'
  BY <1>5 DEF Listen, TypeOK, ConnectionIsLive, Listens, Moves, waitVars
<1>6. ASSUME NEW d \in Daemons, Chmod(d) PROVE ConnectionIsLive'
  BY <1>6 DEF Chmod, TypeOK, ConnectionIsLive, Listens, Moves, Hangup, Exits, WaitAt
<1>7. ASSUME NEW d \in Daemons, Unlink(d) PROVE ConnectionIsLive'
  BY <1>7 DEF Unlink, TypeOK, ConnectionIsLive, Listens, Moves, waitVars
<1>8. ASSUME NEW d \in Daemons, Exit(d) PROVE ConnectionIsLive'
  BY <1>8 DEF Exit, TypeOK, ConnectionIsLive, Listens, Moves, Hangup, Exits, WaitAt
<1>9. ASSUME NEW d \in Daemons, Shutdown(d) PROVE ConnectionIsLive'
  BY <1>9 DEF Shutdown, TypeOK, ConnectionIsLive, Listens, Moves, waitVars
<1>10. ASSUME NEW d \in Daemons, Crash(d) PROVE ConnectionIsLive'
  BY <1>10 DEF Crash, TypeOK, ConnectionIsLive, Listens, Moves, Hangup, Exits, WaitAt
<1>11. CASE Connect
  <2>1. CASE wait' = WaitAt("exited")
    BY <2>1 DEF ConnectionIsLive, WaitAt
  <2>2. CASE file \in Daemons /\ wait' = [at |-> "queued", to |-> file, wake |-> "none"]
    <3>1. file \in Daemons /\ Listens(file)
      BY <1>11, <2>2, EndpointAssumption DEF Connect, NoDaemon, Refuses, Exits, WaitAt
    <3>. QED BY <1>11, <2>2, <3>1 DEF Connect, daemonVars, ConnectionIsLive, Listens
  <2>. QED BY <1>11, <2>1, <2>2 DEF Connect, NoDaemon, Refuses, Exits, TypeOK
<1>12. CASE Accept
  BY <1>12 DEF Accept, TypeOK, ConnectionIsLive, Listens, daemonVars
<1>13. CASE Receive
  BY <1>13 DEF Receive, TypeOK, ConnectionIsLive, Listens, daemonVars, WaitAt
<1>14. CASE CmdReads
  BY <1>14 DEF CmdReads, TypeOK, ConnectionIsLive, Listens, daemonVars, Exits, WaitAt
<1>15. CASE CmdFindsNothing
  BY <1>15 DEF CmdFindsNothing, TypeOK, ConnectionIsLive, Listens, daemonVars, WaitAt
<1>16. CASE OrphanReads
  BY <1>16 DEF OrphanReads, TypeOK, ConnectionIsLive, Listens, daemonVars, WaitAt
<1>17. CASE Wake
  BY <1>17 DEF Wake, TypeOK, ConnectionIsLive, Listens
<1>18. CASE HubGivesUp
  BY <1>18 DEF HubGivesUp, TypeOK, ConnectionIsLive, Listens, daemonVars
<1>19. CASE StdinCloses
  BY <1>19 DEF StdinCloses, TypeOK, ConnectionIsLive, Listens, daemonVars, WaitAt
<1>20. CASE Restart
  BY <1>20 DEF Restart, TypeOK, ConnectionIsLive, Listens, daemonVars, WaitAt
<1>21. CASE DeadlinePasses
  BY <1>21 DEF DeadlinePasses, TypeOK, ConnectionIsLive, Listens, daemonVars
<1>22. ASSUME NEW code \in CmdCodes, CmdFails(code) PROVE ConnectionIsLive'
  BY <1>22 DEF CmdFails, TypeOK, ConnectionIsLive, Listens, daemonVars, Exits, WaitAt
<1>23. ASSUME NEW m \in Messages, Commit(m) PROVE ConnectionIsLive'
  BY <1>23 DEF Commit, TypeOK, ConnectionIsLive, Listens, daemonVars, waitVars
<1>24. ASSUME NEW m \in Messages, Ring(m) PROVE ConnectionIsLive'
  BY <1>24 DEF Ring, TypeOK, ConnectionIsLive, Listens, waitVars
<1>25. CASE UNCHANGED vars
  BY <1>25 DEF TypeOK, ConnectionIsLive, Listens, vars, daemonVars, waitVars
<1>. QED
  BY <1>1, <1>2, <1>3, <1>4, <1>5, <1>6, <1>7, <1>8, <1>9, <1>10, <1>11, <1>12, <1>13, <1>14, <1>15, <1>16, <1>17, <1>18, <1>19, <1>20, <1>21, <1>22, <1>23, <1>24, <1>25 DEF Next, Serve, Proceed

\* Every step but the removal of a live socket keeps a listener at its path.
LEMMA ListenerStep ==
  ASSUME TypeOK, ListenerIsReachable, [Next]_vars
  PROVE  ListenerIsReachable'
<1>1. ASSUME NEW d \in Daemons, Start(d) PROVE ListenerIsReachable'
  BY <1>1, EndpointAssumption DEF Start, TypeOK, ListenerIsReachable, Moves
<1>2. ASSUME NEW d \in Daemons, Probe(d) PROVE ListenerIsReachable'
  BY <1>2, EndpointAssumption DEF Probe, TypeOK, ListenerIsReachable, Moves, Probed, Refuses
<1>3. ASSUME NEW d \in Daemons, Remove(d) PROVE ListenerIsReachable'
  BY <1>3, EndpointAssumption DEF Remove, TypeOK, ListenerIsReachable, Moves
<1>4. ASSUME NEW d \in Daemons, Bind(d) PROVE ListenerIsReachable'
  BY <1>4, EndpointAssumption DEF Bind, TypeOK, ListenerIsReachable, Moves, Bound
<1>5. ASSUME NEW d \in Daemons, Listen(d) PROVE ListenerIsReachable'
  BY <1>5, EndpointAssumption DEF Listen, TypeOK, ListenerIsReachable, Moves
<1>6. ASSUME NEW d \in Daemons, Chmod(d) PROVE ListenerIsReachable'
  BY <1>6, EndpointAssumption DEF Chmod, TypeOK, ListenerIsReachable, Moves
<1>7. ASSUME NEW d \in Daemons, Unlink(d) PROVE ListenerIsReachable'
  BY <1>7, EndpointAssumption DEF Unlink, TypeOK, ListenerIsReachable, Moves
<1>8. ASSUME NEW d \in Daemons, Exit(d) PROVE ListenerIsReachable'
  BY <1>8, EndpointAssumption DEF Exit, TypeOK, ListenerIsReachable, Moves
<1>9. ASSUME NEW d \in Daemons, Shutdown(d) PROVE ListenerIsReachable'
  BY <1>9, EndpointAssumption DEF Shutdown, TypeOK, ListenerIsReachable, Moves
<1>10. ASSUME NEW d \in Daemons, Crash(d) PROVE ListenerIsReachable'
  BY <1>10, EndpointAssumption DEF Crash, TypeOK, ListenerIsReachable, Moves
<1>11. CASE Connect
  BY <1>11, EndpointAssumption DEF Connect, TypeOK, ListenerIsReachable, daemonVars
<1>12. CASE Accept
  BY <1>12, EndpointAssumption DEF Accept, TypeOK, ListenerIsReachable, daemonVars
<1>13. CASE Receive
  BY <1>13, EndpointAssumption DEF Receive, TypeOK, ListenerIsReachable, daemonVars
<1>14. CASE CmdReads
  BY <1>14, EndpointAssumption DEF CmdReads, TypeOK, ListenerIsReachable, daemonVars
<1>15. CASE CmdFindsNothing
  BY <1>15, EndpointAssumption DEF CmdFindsNothing, TypeOK, ListenerIsReachable, daemonVars
<1>16. CASE OrphanReads
  BY <1>16, EndpointAssumption DEF OrphanReads, TypeOK, ListenerIsReachable, daemonVars
<1>17. CASE Wake
  BY <1>17, EndpointAssumption DEF Wake, TypeOK, ListenerIsReachable
<1>18. CASE HubGivesUp
  BY <1>18, EndpointAssumption DEF HubGivesUp, TypeOK, ListenerIsReachable, daemonVars
<1>19. CASE StdinCloses
  BY <1>19, EndpointAssumption DEF StdinCloses, TypeOK, ListenerIsReachable, daemonVars
<1>20. CASE Restart
  BY <1>20, EndpointAssumption DEF Restart, TypeOK, ListenerIsReachable, daemonVars
<1>21. CASE DeadlinePasses
  BY <1>21, EndpointAssumption DEF DeadlinePasses, TypeOK, ListenerIsReachable, daemonVars
<1>22. ASSUME NEW code \in CmdCodes, CmdFails(code) PROVE ListenerIsReachable'
  BY <1>22, EndpointAssumption DEF CmdFails, TypeOK, ListenerIsReachable, daemonVars
<1>23. ASSUME NEW m \in Messages, Commit(m) PROVE ListenerIsReachable'
  BY <1>23, EndpointAssumption DEF Commit, TypeOK, ListenerIsReachable, daemonVars
<1>24. ASSUME NEW m \in Messages, Ring(m) PROVE ListenerIsReachable'
  BY <1>24, EndpointAssumption DEF Ring, TypeOK, ListenerIsReachable
<1>25. CASE UNCHANGED vars
  BY <1>25, EndpointAssumption DEF TypeOK, ListenerIsReachable, daemonVars, vars
<1>. QED
  BY <1>1, <1>2, <1>3, <1>4, <1>5, <1>6, <1>7, <1>8, <1>9, <1>10, <1>11, <1>12, <1>13, <1>14, <1>15, <1>16, <1>17, <1>18, <1>19, <1>20, <1>21, <1>22, <1>23, <1>24, <1>25 DEF Next, Serve, Proceed

\* Every step keeps what was rung within somebody's knowledge.
LEMMA ForgottenStep ==
  ASSUME TypeOK, FileIsLive, HubIsServed, ConnectionIsLive, NothingForgotten, [Next]_vars
  PROVE  NothingForgotten'
<1>1. ASSUME NEW d \in Daemons, Start(d) PROVE NothingForgotten'
  BY <1>1, EndpointAssumption DEF Start, TypeOK, NothingForgotten, Listens, waitVars, storeVars, Moves
<1>2. ASSUME NEW d \in Daemons, Probe(d) PROVE NothingForgotten'
  BY <1>2, EndpointAssumption DEF Probe, TypeOK, NothingForgotten, Listens, waitVars, storeVars, Moves, Probed, Refuses
<1>3. ASSUME NEW d \in Daemons, Remove(d) PROVE NothingForgotten'
  BY <1>3, EndpointAssumption DEF Remove, TypeOK, NothingForgotten, Listens, waitVars, storeVars, Moves
<1>4. ASSUME NEW d \in Daemons, Bind(d) PROVE NothingForgotten'
  BY <1>4, EndpointAssumption DEF Bind, TypeOK, NothingForgotten, Listens, waitVars, storeVars, Moves, Bound, HubIsServed
<1>5. ASSUME NEW d \in Daemons, Listen(d) PROVE NothingForgotten'
  BY <1>5, EndpointAssumption DEF Listen, TypeOK, NothingForgotten, Listens, waitVars, storeVars, Moves, HubIsServed
<1>6. ASSUME NEW d \in Daemons, Chmod(d) PROVE NothingForgotten'
  BY <1>6, EndpointAssumption DEF Chmod, TypeOK, NothingForgotten, Listens, storeVars, Moves, Hangup, Exits, ConnectionIsLive
<1>7. ASSUME NEW d \in Daemons, Unlink(d) PROVE NothingForgotten'
  BY <1>7, EndpointAssumption DEF Unlink, TypeOK, NothingForgotten, Listens, waitVars, storeVars, Moves
<1>8. ASSUME NEW d \in Daemons, Exit(d) PROVE NothingForgotten'
  BY <1>8, EndpointAssumption DEF Exit, TypeOK, NothingForgotten, Listens, storeVars, Moves, Hangup, Exits, ConnectionIsLive
<1>9. ASSUME NEW d \in Daemons, Shutdown(d) PROVE NothingForgotten'
  BY <1>9, EndpointAssumption DEF Shutdown, TypeOK, NothingForgotten, Listens, waitVars, storeVars, Moves
<1>10. ASSUME NEW d \in Daemons, Crash(d) PROVE NothingForgotten'
  BY <1>10, EndpointAssumption DEF Crash, TypeOK, NothingForgotten, Listens, storeVars, Moves, Hangup, Exits, ConnectionIsLive
<1>11. CASE Connect
  <2>1. wait.wake = "none" /\ wait.at = "loop"
    BY <1>11 DEF Connect, ConnectionIsLive
  <2>. QED BY <1>11, <2>1 DEF Connect, NothingForgotten, Listens, daemonVars, storeVars
<1>12. CASE Accept
  BY <1>12 DEF Accept, TypeOK, NothingForgotten, Listens, daemonVars, storeVars
<1>13. CASE Receive
  BY <1>13 DEF Receive, TypeOK, NothingForgotten, Listens, daemonVars, storeVars, WaitAt
<1>14. CASE CmdReads
  BY <1>14 DEF CmdReads, TypeOK, NothingForgotten, Listens, daemonVars, Unread
<1>15. CASE CmdFindsNothing
  BY <1>15 DEF CmdFindsNothing, TypeOK, NothingForgotten, Listens, daemonVars, Unread, WaitAt
<1>16. CASE OrphanReads
  BY <1>16 DEF OrphanReads, TypeOK, NothingForgotten, Listens, daemonVars, Unread
<1>17. CASE Wake
  BY <1>17 DEF Wake, TypeOK, NothingForgotten, Listens, storeVars
<1>18. CASE HubGivesUp
  BY <1>18 DEF HubGivesUp, TypeOK, NothingForgotten, Listens, daemonVars, storeVars, ConnectionIsLive
<1>19. CASE StdinCloses
  <2>1. wait.at = "cmd" => wait'.at = "orphan"
    BY <1>19 DEF StdinCloses, WaitAt
  <2>2. wait.wake \in {"resync", "mail"} => dropped'
    BY <1>19 DEF StdinCloses
  <2>3. wait.at # "orphan"
    BY <1>19 DEF StdinCloses
  <2>4. UNCHANGED <<file, daemon, hub, stolen, message>> /\ (dropped => dropped')
    BY <1>19 DEF StdinCloses, daemonVars
  <2>. QED BY <2>1, <2>2, <2>3, <2>4 DEF NothingForgotten, Listens
<1>20. CASE Restart
  <2>1. wait.wake = "none" /\ wait.at = "exited"
    BY <1>20 DEF Restart, ConnectionIsLive
  <2>2. UNCHANGED <<file, daemon, hub, stolen, message, dropped>>
    BY <1>20 DEF Restart, daemonVars, storeVars
  <2>. QED BY <2>1, <2>2 DEF NothingForgotten, Listens
<1>21. CASE DeadlinePasses
  BY <1>21 DEF DeadlinePasses, TypeOK, NothingForgotten, Listens, daemonVars, storeVars
<1>22. ASSUME NEW code \in CmdCodes, CmdFails(code) PROVE NothingForgotten'
  BY <1>22 DEF CmdFails, TypeOK, NothingForgotten, Listens, daemonVars
<1>23. ASSUME NEW m \in Messages, Commit(m) PROVE NothingForgotten'
  BY <1>23 DEF Commit, TypeOK, NothingForgotten, Listens, daemonVars, waitVars
<1>24. ASSUME NEW m \in Messages, Ring(m) PROVE NothingForgotten'
  BY <1>24 DEF Ring, TypeOK, NothingForgotten, Listens, waitVars, Heard
<1>25. CASE UNCHANGED vars
  BY <1>25 DEF TypeOK, NothingForgotten, Listens, vars, daemonVars, waitVars, storeVars
<1>. QED
  BY <1>1, <1>2, <1>3, <1>4, <1>5, <1>6, <1>7, <1>8, <1>9, <1>10, <1>11, <1>12, <1>13, <1>14, <1>15, <1>16, <1>17, <1>18, <1>19, <1>20, <1>21, <1>22, <1>23, <1>24, <1>25 DEF Next, Serve, Proceed

\* An exit record whose code has its reason makes the property true.
LEMMA HonestExit ==
  ASSUME NEW code, NEW why, exit' = [code |-> code, why |-> why], Honest(code, why)
  PROVE  ExitCodesDoNotLie'
<1>1. exit'.code = code /\ exit'.why = why
  OBVIOUS
<1>. QED BY <1>1, Zenon DEF Honest, ExitCodesDoNotLie

\* The exits of m3-wait as the code writes them.
LEMMA HonestCodes ==
  /\ Honest(0, "none")
  /\ Honest(0, "woke")
  /\ Honest(1, "broken")
  /\ Honest(2, "late")
  /\ Honest(3, "no_daemon")
  /\ Honest(4, "stdin_closed")
  /\ \A code \in CmdCodes : Honest(Passthrough(code), "cmd")
<1>1. Honest(0, "none")
  BY DEF Honest
<1>2. Honest(0, "woke")
  BY DEF Honest
<1>3. Honest(1, "broken")
  BY DEF Honest
<1>4. Honest(2, "late")
  BY DEF Honest
<1>5. Honest(3, "no_daemon")
  BY DEF Honest
<1>6. Honest(4, "stdin_closed")
  BY DEF Honest
<1>7. ASSUME NEW code \in CmdCodes PROVE Honest(Passthrough(code), "cmd")
  <2>1. Passthrough(code) \notin {2, 3, 4}
    BY PassthroughIsSafe
  <2>. QED BY <2>1, Zenon DEF Honest
<1>. QED BY <1>1, <1>2, <1>3, <1>4, <1>5, <1>6, <1>7

\* Every step keeps m3-wait's exit code true.
LEMMA ExitStep ==
  ASSUME ExitCodesDoNotLie, [Next]_vars
  PROVE  ExitCodesDoNotLie'
<1>1. ASSUME NEW d \in Daemons, Start(d) PROVE ExitCodesDoNotLie'
  BY <1>1 DEF Start, ExitCodesDoNotLie, waitVars
<1>2. ASSUME NEW d \in Daemons, Probe(d) PROVE ExitCodesDoNotLie'
  BY <1>2 DEF Probe, ExitCodesDoNotLie, waitVars
<1>3. ASSUME NEW d \in Daemons, Remove(d) PROVE ExitCodesDoNotLie'
  BY <1>3 DEF Remove, ExitCodesDoNotLie, waitVars
<1>4. ASSUME NEW d \in Daemons, Bind(d) PROVE ExitCodesDoNotLie'
  BY <1>4 DEF Bind, ExitCodesDoNotLie, waitVars
<1>5. ASSUME NEW d \in Daemons, Listen(d) PROVE ExitCodesDoNotLie'
  BY <1>5 DEF Listen, ExitCodesDoNotLie, waitVars
<1>6. ASSUME NEW d \in Daemons, Chmod(d) PROVE ExitCodesDoNotLie'
  <2>1. exit' = [code |-> 1, why |-> "broken"] \/ UNCHANGED exit
    BY <1>6 DEF Chmod, Hangup, Exits
  <2>2. CASE UNCHANGED exit
    BY <2>2 DEF ExitCodesDoNotLie
  <2>. QED BY <2>1, <2>2, HonestExit, HonestCodes
<1>7. ASSUME NEW d \in Daemons, Unlink(d) PROVE ExitCodesDoNotLie'
  BY <1>7 DEF Unlink, ExitCodesDoNotLie, waitVars
<1>8. ASSUME NEW d \in Daemons, Exit(d) PROVE ExitCodesDoNotLie'
  <2>1. exit' = [code |-> 1, why |-> "broken"] \/ UNCHANGED exit
    BY <1>8 DEF Exit, Hangup, Exits
  <2>2. CASE UNCHANGED exit
    BY <2>2 DEF ExitCodesDoNotLie
  <2>. QED BY <2>1, <2>2, HonestExit, HonestCodes
<1>9. ASSUME NEW d \in Daemons, Shutdown(d) PROVE ExitCodesDoNotLie'
  BY <1>9 DEF Shutdown, ExitCodesDoNotLie, waitVars
<1>10. ASSUME NEW d \in Daemons, Crash(d) PROVE ExitCodesDoNotLie'
  <2>1. exit' = [code |-> 1, why |-> "broken"] \/ UNCHANGED exit
    BY <1>10 DEF Crash, Hangup, Exits
  <2>2. CASE UNCHANGED exit
    BY <2>2 DEF ExitCodesDoNotLie
  <2>. QED BY <2>1, <2>2, HonestExit, HonestCodes
<1>11. CASE Connect
  <2>1. CASE Exits(2, "late")
    BY <2>1, HonestExit, HonestCodes DEF Exits
  <2>2. CASE Exits(3, "no_daemon")
    BY <2>2, HonestExit, HonestCodes DEF Exits
  <2>3. CASE UNCHANGED exit
    BY <2>3 DEF ExitCodesDoNotLie
  <2>. QED BY <1>11, <2>1, <2>2, <2>3 DEF Connect
<1>12. CASE Accept
  BY <1>12 DEF Accept, ExitCodesDoNotLie
<1>13. CASE Receive
  BY <1>13 DEF Receive, ExitCodesDoNotLie
<1>14. CASE CmdReads
  BY <1>14, HonestExit, HonestCodes DEF CmdReads, Exits
<1>15. CASE CmdFindsNothing
  BY <1>15 DEF CmdFindsNothing, ExitCodesDoNotLie
<1>16. CASE OrphanReads
  BY <1>16 DEF OrphanReads, ExitCodesDoNotLie
<1>17. CASE Wake
  BY <1>17 DEF Wake, ExitCodesDoNotLie
<1>18. CASE HubGivesUp
  BY <1>18 DEF HubGivesUp, ExitCodesDoNotLie
<1>19. CASE StdinCloses
  BY <1>19, HonestExit, HonestCodes DEF StdinCloses
<1>20. CASE Restart
  BY <1>20, HonestExit, HonestCodes DEF Restart, NotYet
<1>21. CASE DeadlinePasses
  BY <1>21 DEF DeadlinePasses, ExitCodesDoNotLie
<1>22. ASSUME NEW code \in CmdCodes, CmdFails(code) PROVE ExitCodesDoNotLie'
  BY <1>22, HonestExit, HonestCodes DEF CmdFails, Exits
<1>23. ASSUME NEW m \in Messages, Commit(m) PROVE ExitCodesDoNotLie'
  BY <1>23 DEF Commit, ExitCodesDoNotLie, waitVars
<1>24. ASSUME NEW m \in Messages, Ring(m) PROVE ExitCodesDoNotLie'
  BY <1>24 DEF Ring, ExitCodesDoNotLie, waitVars
<1>25. CASE UNCHANGED vars
  BY <1>25 DEF ExitCodesDoNotLie, vars, waitVars
<1>. QED
  BY <1>1, <1>2, <1>3, <1>4, <1>5, <1>6, <1>7, <1>8, <1>9, <1>10, <1>11, <1>12, <1>13, <1>14, <1>15, <1>16, <1>17, <1>18, <1>19, <1>20, <1>21, <1>22, <1>23, <1>24, <1>25 DEF Next, Serve, Proceed

----------------------------------------------------------------------------

\* The inductive invariant.
IInv ==
  /\ TypeOK
  /\ FileIsLive
  /\ HubIsServed
  /\ ConnectionIsLive
  /\ ListenerIsReachable
  /\ NothingForgotten
  /\ ExitCodesDoNotLie

\* It holds in the beginning.
LEMMA InitInv == Init => IInv
<1>. SUFFICES ASSUME Init PROVE IInv
  OBVIOUS
<1>1. TypeOK
  <2>1. DaemonTypes
    BY EndpointAssumption DEF Init, DaemonTypes, DaemonPlaces
  <2>2. wait \in [at : WaitPlaces, to : Daemons \cup {Nobody}, wake : {"none", "resync", "mail", "timeout"}]
    BY DEF Init, WaitPlaces, WaitAt, Nobody
  <2>3. exit \in [code : 0 .. 255, why : Reasons]
    BY DEF Init, Reasons, NotYet
  <2>4. StoreTypes
    BY DEF Init, StoreTypes
  <2>. QED BY <2>1, <2>2, <2>3, <2>4 DEF TypeOK, DaemonTypes, StoreTypes
<1>2. FileIsLive /\ HubIsServed /\ ConnectionIsLive /\ ListenerIsReachable
  BY EndpointAssumption DEF Init, FileIsLive, HubIsServed, ConnectionIsLive, ListenerIsReachable, WaitAt
<1>3. NothingForgotten /\ ExitCodesDoNotLie
  BY DEF Init, NothingForgotten, ExitCodesDoNotLie, NotYet
<1>. QED BY <1>1, <1>2, <1>3 DEF IInv

\* All of it together is inductive.
THEOREM Invariance == Spec => []IInv
<1>1. IInv /\ [Next]_vars => IInv'
  BY TypeStep, FileStep, HubStep, ConnectionStep, ListenerStep, ForgottenStep, ExitStep DEF IInv
<1>. QED BY InitInv, <1>1, PTL DEF Spec

\* Every variable of the endpoint, the daemons and m3-wait keeps its type.
THEOREM TypeCorrect == Spec => []TypeOK
<1>1. IInv => TypeOK
  BY DEF IInv
<1>. QED BY Invariance, <1>1, PTL

\* However many daemons start, stop and crash on one path, one that bound its
\* socket is at the path, unless one of them removed a live socket.
THEOREM ListenersAreReachable == Spec => []ListenerIsReachable
<1>1. IInv => ListenerIsReachable
  BY DEF IInv
<1>. QED BY Invariance, <1>1, PTL

\* A message that was rung and not read is in the hands of a daemon that will
\* say so, or of m3-wait, unless a wake was dropped or a live socket removed.
THEOREM NothingIsForgotten == Spec => []NothingForgotten
<1>1. IInv => NothingForgotten
  BY DEF IInv
<1>. QED BY Invariance, <1>1, PTL

\* Whatever CMD exits with, m3-wait's own codes mean what they say.
THEOREM ExitCodesAreTrue == Spec => []ExitCodesDoNotLie
<1>1. IInv => ExitCodesDoNotLie
  BY DEF IInv
<1>. QED BY Invariance, <1>1, PTL
=============================================================================
