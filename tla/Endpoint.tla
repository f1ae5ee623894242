------------------------------ MODULE Endpoint ------------------------------
(***************************************************************************)
(* The lifecycle of the doorbell on its unix socket: m3-dispatchd processes *)
(* that start, stop and crash on one path (ipc.rs, main.rs), and an         *)
(* m3-wait that waits through it (client.rs, bin/m3-wait.rs) while writers  *)
(* commit messages and ring.                                                *)
(*                                                                         *)
(* A system call of serve is a step, since two daemons may start at once.   *)
(* What a Hub remembers of the one reader set is abstracted to what its     *)
(* next answer depends on: nothing ("new"), no ring ("quiet"), a ring       *)
(* ("news").                                                                *)
(* Left out: other users (EACCES, peer_cred), failed accepts (retried),     *)
(* m3-wait without CMD, which prints the wake instead.                      *)
(***************************************************************************)
EXTENDS Integers

CONSTANTS
  Daemons,   \* processes of m3-dispatchd with the same --endpoint
  Messages,  \* messages to the reader set
  CmdCodes,  \* the exit codes of a CMD that fails
  MaxEnds    \* bound: shutdowns and crashes

ASSUME EndpointAssumption ==
  /\ Daemons \cap {"none", "stale", "nobody"} = {}
  /\ CmdCodes \subseteq Int \ {0, 75}
  /\ MaxEnds \in Nat

VARIABLES
  file,      \* the path: "none", "stale", or the daemon whose socket it names
  daemon,    \* per daemon: where it is in serve
  hub,       \* per daemon: what its Hub knows of the reader set
  wait,      \* m3-wait: where it is, the daemon it is connected to, the wake
  late,      \* the deadline of m3-wait has passed
  exit,      \* how m3-wait ended: its code, and the reason (history)
  message,   \* per message: "new", "stored", "rung", "read"
  ends,      \* shutdowns and crashes so far
  stolen,    \* history: a daemon removed the socket of a live one
  dropped    \* history: a wake that nobody acted on, since a CMD last read the store

daemonVars == <<file, daemon, hub, ends, stolen>>
waitVars == <<wait, late, exit>>
storeVars == <<message, dropped>>
vars == <<daemonVars, waitVars, storeVars>>

\* "bind": before bind(2).  "bound": the path has the socket, and listen(2) is
\* to come.
DaemonPlaces ==
  {"down", "probe", "remove", "bind", "bound", "chmod", "serving", "unlink", "exit"}

\* "queued": connected, not accepted.  "waiting": in Hub::wait.  "replied": the
\* answer is on its way.  "orphan": CMD outlives the m3-wait that ran it.
WaitPlaces == {"loop", "queued", "waiting", "replied", "cmd", "orphan", "exited"}

Nobody == "nobody"

WaitAt(place) == [at |-> place, to |-> Nobody, wake |-> "none"]

Reasons == {"none", "broken", "late", "no_daemon", "woke", "cmd", "stdin_closed"}

NotYet == [code |-> 0, why |-> "none"]

Init ==
  /\ file = "none"
  /\ daemon = [d \in Daemons |-> "down"]
  /\ hub = [d \in Daemons |-> "new"]
  /\ wait = WaitAt("loop")
  /\ late = FALSE
  /\ exit = NotYet
  /\ message = [m \in Messages |-> "new"]
  /\ ends = 0
  /\ stolen = FALSE
  /\ dropped = FALSE

\* From listen(2) to the end of the process the kernel takes connections.
Listens(d) == daemon[d] \in {"chmod", "serving", "unlink", "exit"}

Moves(d, place) == daemon' = [daemon EXCEPT ![d] = place]

\* m3-wait ends, and whoever started it may start it again.
Exits(code, why) ==
  /\ wait' = WaitAt("exited")
  /\ exit' = [code |-> code, why |-> why]

----------------------------------------------------------------------------
(* serve.  UnixListener::bind is bind(2), then listen(2): in between, the     *)
(* file is there and refuses like a stale one.                              *)

\* What connect meets at the path: a file that no process accepts on, or
\* none, or a listener.
Refuses == file = "stale" \/ (file \in Daemons /\ ~ Listens(file))

\* path.exists
Start(d) ==
  /\ daemon[d] = "down"
  /\ Moves(d, IF file = "none" THEN "bind" ELSE "probe")
  /\ UNCHANGED <<file, hub, ends, stolen, waitVars, storeVars>>

\* A bug the properties must catch: a stale socket is left alone like one that
\* cannot be told.
ProbedMutGivesUp == "down"

\* connect: a refusal is taken for a stale file, a live daemon accepts, and
\* anything else (here: the file has gone meanwhile) ends this daemon.
Probed == IF Refuses THEN "remove" ELSE "down"

Probe(d) ==
  /\ daemon[d] = "probe"
  /\ Moves(d, Probed)
  /\ UNCHANGED <<file, hub, ends, stolen, waitVars, storeVars>>

\* remove_file removes whatever the path names by now.
Remove(d) ==
  /\ daemon[d] = "remove"
  /\ Moves(d, IF file = "none" THEN "down" ELSE "bind")
  /\ file' = "none"
  /\ stolen' = (stolen \/ file \in Daemons)
  /\ UNCHANGED <<hub, ends, waitVars, storeVars>>

\* A bug the properties must catch: an old socket file is taken over.
BoundMutOver(d) == file' = d /\ Moves(d, "bound")

\* bind(2) fails on a path that exists.
Bound(d) ==
  IF file = "none"
  THEN file' = d /\ Moves(d, "bound")
  ELSE Moves(d, "down") /\ UNCHANGED file

Bind(d) ==
  /\ daemon[d] = "bind"
  /\ Bound(d)
  /\ UNCHANGED <<hub, ends, stolen, waitVars, storeVars>>

\* listen(2) does not look at the path.
Listen(d) ==
  /\ daemon[d] = "bound"
  /\ Moves(d, "chmod")
  /\ UNCHANGED <<file, hub, ends, stolen, waitVars, storeVars>>

\* What becomes of m3-wait when the process of d ends: a connection that has
\* no answer breaks.
Hangup(d) ==
  IF wait.at \in {"queued", "waiting"} /\ wait.to = d
  THEN Exits(1, "broken")
  ELSE UNCHANGED <<wait, exit>>

\* set_permissions fails on a path that does not exist.
Chmod(d) ==
  /\ daemon[d] = "chmod"
  /\ IF file = "none"
     THEN Moves(d, "down") /\ Hangup(d)
     ELSE Moves(d, "serving") /\ UNCHANGED <<wait, exit>>
  /\ UNCHANGED <<file, hub, ends, stolen, late, storeVars>>

\* The accept loop ends on SIGTERM.
Shutdown(d) ==
  /\ daemon[d] = "serving"
  /\ ends < MaxEnds
  /\ ends' = ends + 1
  /\ Moves(d, "unlink")
  /\ UNCHANGED <<file, hub, stolen, waitVars, storeVars>>

\* remove_file, of whatever the path names; that it is gone already is ignored.
Unlink(d) ==
  /\ daemon[d] = "unlink"
  /\ Moves(d, "exit")
  /\ file' = "none"
  /\ UNCHANGED <<hub, ends, stolen, waitVars, storeVars>>

\* serve returns, and the runtime, the Hub and the process go with it.
Exit(d) ==
  /\ daemon[d] = "exit"
  /\ Moves(d, "down")
  /\ hub' = [hub EXCEPT ![d] = "new"]
  /\ Hangup(d)
  /\ UNCHANGED <<file, ends, stolen, late, storeVars>>

\* The process is killed: its socket file stays.
Crash(d) ==
  /\ daemon[d] # "down"
  /\ ends < MaxEnds
  /\ ends' = ends + 1
  /\ Moves(d, "down")
  /\ file' = IF file = d THEN "stale" ELSE file
  /\ hub' = [hub EXCEPT ![d] = "new"]
  /\ Hangup(d)
  /\ UNCHANGED <<stolen, late, storeVars>>

----------------------------------------------------------------------------
(* m3-wait *)

\* No socket, or one that refuses.
NoDaemon == file = "none" \/ Refuses

\* The head of the loop: give up, or connect.
Connect ==
  /\ wait.at = "loop"
  /\ \/ late /\ Exits(2, "late")
     \/ /\ ~ late
        /\ NoDaemon
        /\ Exits(3, "no_daemon")
     \/ /\ ~ late
        /\ ~ NoDaemon
        /\ wait' = [at |-> "queued", to |-> file, wake |-> "none"]
        /\ UNCHANGED exit
  /\ UNCHANGED <<daemonVars, late, storeVars>>

Accept ==
  /\ wait.at = "queued"
  /\ daemon[wait.to] = "serving"
  /\ wait' = [wait EXCEPT !.at = "waiting"]
  /\ UNCHANGED <<daemonVars, late, exit, storeVars>>

\* A bug the properties must catch: a reader set nobody has waited for is
\* asked to wait.
AnswersMutNoResync(d) == hub[d] = "news"

\* The Hub of d has something to tell.
Answers(d) == hub[d] # "quiet"

\* Hub::wait answers with a resync or with mail; either moves the cursor.
Wake ==
  /\ wait.at = "waiting"
  /\ Answers(wait.to)
  /\ wait' = [wait EXCEPT !.at = "replied", !.wake = IF hub[wait.to] = "new" THEN "resync" ELSE "mail"]
  /\ hub' = [hub EXCEPT ![wait.to] = "quiet"]
  /\ UNCHANGED <<file, daemon, ends, stolen, late, exit, storeVars>>

\* Hub::wait gives up: on the deadline, at the daemon's cap on one wait, or,
\* when the two coincide with a ring, in spite of it.
HubGivesUp ==
  /\ wait.at = "waiting"
  /\ hub[wait.to] # "new"
  /\ wait' = [wait EXCEPT !.at = "replied", !.wake = "timeout"]
  /\ UNCHANGED <<daemonVars, late, exit, storeVars>>

\* The reply arrives: wait again, or run CMD.
Receive ==
  /\ wait.at = "replied"
  /\ wait' = WaitAt(IF wait.wake = "timeout" THEN "loop" ELSE "cmd")
  /\ UNCHANGED <<daemonVars, late, exit, storeVars>>

Unread == {m \in Messages : message[m] \in {"stored", "rung"}}

\* A bug the properties must catch: every code of CMD passes through that fits.
PassthroughMutOwn(code) == IF code \in 0 .. 255 THEN code ELSE 1

\* A bug the properties must catch: whether a code fits is not looked at.
PassthroughMutWide(code) == IF code \notin {2, 3, 4} THEN code ELSE 1

\* CMD's own 2, 3 and 4 would read as m3-wait's, and a code out of range does
\* not fit.
Passthrough(code) == IF code \in 0 .. 255 \ {2, 3, 4} THEN code ELSE 1

\* CMD reads the store and stamps receipt: there was mail.
CmdReads ==
  /\ wait.at = "cmd"
  /\ Unread # {}
  /\ message' = [m \in Messages |-> IF m \in Unread THEN "read" ELSE message[m]]
  /\ dropped' = FALSE
  /\ Exits(0, "woke")
  /\ UNCHANGED <<daemonVars, late>>

\* EX_TEMPFAIL: nothing new after all.
CmdFindsNothing ==
  /\ wait.at = "cmd"
  /\ Unread = {}
  /\ wait' = WaitAt("loop")
  /\ dropped' = FALSE
  /\ UNCHANGED <<daemonVars, late, exit, message>>

CmdFails(code) ==
  /\ wait.at = "cmd"
  /\ Exits(Passthrough(code), "cmd")
  /\ dropped' = TRUE
  /\ UNCHANGED <<daemonVars, late, message>>

\* --exit-when-stdin-closes: a thread ends the process wherever it is.  CMD is
\* a process of its own and goes on; a wake on its way is for nobody.
StdinCloses ==
  /\ wait.at \in {"loop", "queued", "waiting", "replied", "cmd"}
  /\ exit' = [code |-> 4, why |-> "stdin_closed"]
  /\ wait' = WaitAt(IF wait.at = "cmd" THEN "orphan" ELSE "exited")
  /\ dropped' = (dropped \/ wait.wake \in {"resync", "mail"})
  /\ UNCHANGED <<daemonVars, late, message>>

OrphanReads ==
  /\ wait.at = "orphan"
  /\ wait' = WaitAt("exited")
  /\ message' = [m \in Messages |-> IF m \in Unread THEN "read" ELSE message[m]]
  /\ dropped' = FALSE
  /\ UNCHANGED <<daemonVars, late, exit>>

\* Somebody runs m3-wait again.
Restart ==
  /\ wait.at = "exited"
  /\ wait' = WaitAt("loop")
  /\ late' = FALSE
  /\ exit' = NotYet
  /\ UNCHANGED <<daemonVars, storeVars>>

DeadlinePasses ==
  /\ ~ late
  /\ wait.at \notin {"orphan", "exited"}
  /\ late' = TRUE
  /\ UNCHANGED <<daemonVars, wait, exit, storeVars>>

----------------------------------------------------------------------------
(* Writers: m3 commits a message to its store, then rings. *)

Commit(m) ==
  /\ message[m] = "new"
  /\ message' = [message EXCEPT ![m] = "stored"]
  /\ UNCHANGED <<daemonVars, waitVars, dropped>>

\* A bug the properties must catch: a ring for a reader set that waits nowhere
\* is kept from it.
HeardMutOnlyWaiting(d) ==
  IF hub[d] = "new" \/ wait.at # "waiting" THEN hub[d] ELSE "news"

\* What the Hub of d knows after a ring.
Heard(d) == IF hub[d] = "new" THEN "new" ELSE "news"

\* Answered 204 by the daemon the path names.  A ring may be late, the message
\* read already, or repeated.
Ring(m) ==
  \E d \in Daemons :
    /\ file = d
    /\ daemon[d] = "serving"
    /\ message[m] # "new"
    /\ message' = [message EXCEPT ![m] = IF @ = "stored" THEN "rung" ELSE @]
    /\ hub' = [hub EXCEPT ![d] = Heard(d)]
    /\ UNCHANGED <<file, daemon, ends, stolen, waitVars, dropped>>

----------------------------------------------------------------------------

\* What a daemon does on its own.
Serve(d) ==
  \/ Start(d)
  \/ Probe(d)
  \/ Remove(d)
  \/ Bind(d)
  \/ Listen(d)
  \/ Chmod(d)
  \/ Unlink(d)
  \/ Exit(d)

\* What m3-wait and its CMD do on their own.
Proceed ==
  \/ Connect
  \/ Accept
  \/ Receive
  \/ CmdReads
  \/ CmdFindsNothing
  \/ OrphanReads

Next ==
  \/ \E d \in Daemons : Serve(d) \/ Shutdown(d) \/ Crash(d)
  \/ Proceed
  \/ Wake
  \/ HubGivesUp
  \/ \E code \in CmdCodes : CmdFails(code)
  \/ StdinCloses
  \/ Restart
  \/ DeadlinePasses
  \/ \E m \in Messages : Commit(m) \/ Ring(m)

Spec == Init /\ [][Next]_vars

\* Processes run on, somebody starts a daemon that is down, and CMD ends.  Wake
\* is strongly fair: a wait that finds a ring when it begins answers with it,
\* and can give up only on one that comes as its time runs out.
FairSpec ==
  /\ Spec
  /\ \A d \in Daemons : WF_vars(Serve(d))
  /\ WF_vars(Proceed)
  /\ SF_vars(Wake)

----------------------------------------------------------------------------
(* Properties. *)

\* The state stays within what the fields can hold.
TypeOK ==
  /\ file \in Daemons \cup {"none", "stale"}
  /\ daemon \in [Daemons -> DaemonPlaces]
  /\ hub \in [Daemons -> {"new", "quiet", "news"}]
  /\ wait \in [at : WaitPlaces, to : Daemons \cup {Nobody}, wake : {"none", "resync", "mail", "timeout"}]
  /\ late \in BOOLEAN
  /\ exit \in [code : 0 .. 255, why : Reasons]
  /\ message \in [Messages -> {"new", "stored", "rung", "read"}]
  /\ ends \in 0 .. MaxEnds
  /\ stolen \in BOOLEAN
  /\ dropped \in BOOLEAN

\* A daemon that bound its socket is the one the path leads to, whatever
\* starts, stops and crashes around it, unless a daemon that started at the
\* same time removed its socket for a stale one (serve, remove_file).
ListenerIsReachable ==
  stolen \/ \A d \in Daemons : daemon[d] \in {"bound", "chmod", "serving", "unlink"} => file = d

\* A message that was rung and is still unread is never forgotten: the daemon
\* at the path has something to say about it, or m3-wait has the wake in hand.
\* A wake that nobody acted on is the exception: the cursor had moved.
NothingForgotten ==
  \/ stolen
  \/ dropped
  \/ wait.at \in {"cmd", "orphan"}
  \/ wait.wake \in {"resync", "mail"}
  \/ \A m \in Messages, d \in Daemons :
       message[m] = "rung" /\ file = d /\ Listens(d) => hub[d] # "quiet"

\* What m3-wait's exit code says is so, whatever CMD exits with: 2 only past
\* its deadline, 3 only without a daemon, 4 only without a parent.
ExitCodesDoNotLie ==
  /\ exit.code = 2 => exit.why = "late"
  /\ exit.code = 3 => exit.why = "no_daemon"
  /\ exit.code = 4 => exit.why = "stdin_closed"

\* A start takes the socket of another start for stale, and removes it.
RemovesAStart(d) == Remove(d) /\ file \in Daemons /\ daemon[file] \in {"bound", "chmod"}

\* Whatever crashed or stopped, in whatever step, a daemon is at the path again:
\* a stale socket never keeps one from starting for good.  Only starts that
\* remove each other's socket, between bind and set_permissions, for ever can
\* leave the path unserved.
AlwaysServedAgain ==
  \/ []<>(\E d \in Daemons : daemon[d] = "serving" /\ file = d)
  \/ []<><<\E d \in Daemons : RemovesAStart(d)>>_vars

\* m3-wait does not sleep through mail: a message that was rung is read, or
\* m3-wait has ended and says why, with no help from a timer.
MailIsRead ==
  \A m \in Messages :
    (message[m] = "rung" /\ wait.at # "exited")
      ~> (message[m] = "read" \/ wait.at = "exited" \/ stolen \/ dropped)

\* What serve says when it removes a socket: nothing was accepting connections
\* on it.  A live daemon's socket goes away only by the daemon's own step.
LiveSocketsStay ==
  [][\A d \in Daemons : file = d /\ Listens(d) /\ file' = "none" => daemon'[d] # daemon[d]]_vars
=============================================================================
