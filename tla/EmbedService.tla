---------------------------- MODULE EmbedService ----------------------------
(***************************************************************************)
(* The embed server as a service: its process, from reading its settings   *)
(* to draining; the service manager that runs it (systemd, launchd, or the *)
(* Windows SCM, as the unit, the plist and the registration ask it to);    *)
(* and the operator's commands, each a program of calls to the manager     *)
(* between which everything else moves.  Another program may take the      *)
(* server's address, and the process may be killed at any time.            *)
(*                                                                         *)
(* Processes are numbered in a cycle of three.  A foreign server answers   *)
(* /health naming its own process, or without a pid (an older version), or *)
(* not with "ok".                                                          *)
(***************************************************************************)
EXTENDS ServerPlan

CONSTANTS Platforms,     \* of systemd, launchd, scm
          Configs,       \* what m3_config.toml and the files it names can say
          Addresses,     \* every address they listen on
          Versions,      \* of the binary an install registers
          MaxCommands, MaxMishaps   \* bounds on what happens from outside

\* No binary has version 0, which stands for none.
ASSUME ServiceAssumption ==
  /\ Platforms \subseteq {"systemd", "launchd", "scm"}
  /\ 0 \notin Versions /\ Versions # {}
  /\ \A c \in Configs : \A p \in {Prepare(c, FALSE)} :
       p.ok => p.value.local \in Addresses /\ p.value.remote \subseteq Addresses

VARIABLES platform,
          config,        \* the m3_config.toml now, by what it settles
          registered,    \* the version in the unit file, plist or SCM entry; 0 for none
          marked,        \* SCM deletes the entry when its process ends
          loaded,        \* the version the manager starts; 0 for none
          job,           \* what the manager is doing: run, stopping, backoff, stopped
          proc,          \* the service's process
          last,          \* why it last ended
          holder,        \* who listens on each address
          op,            \* the operator's command: its step, what it saw, what it says;
                         \* raced: the manager restarted the process between two looks
                         \* that belong together; moved: an address changed since it began
          budget,        \* how much can still happen from outside
          calm           \* nothing more will

serviceVars == <<platform, config, registered, marked, loaded, job, proc, last, holder, op, budget, calm>>

\* What a file is worth to a process that starts, an install, and a probe.
Settled(c) == [run |-> Prepare(c, FALSE), installs |-> ServiceArgs(c).ok, address |-> ServiceAddr(c)]
Files == {Settled(c) : c \in Configs}

\* Why a process ended: an error's kind, or one of these.
Clean == "clean"
Killed == "killed"
Foreign == {"named", "old"}
ForeignPid == 99
NoPid == 0
Nothing == [listeners |-> "none"]

NoProcess(pid) == [pid |-> pid, at |-> "none", ver |-> 0, plan |-> Nothing]
Alive == proc.at # "none"
Loading == proc.at \in {"start", "bind", "bind_remote", "load"}

Idle == [cmd |-> "none", at |-> "idle", was |-> FALSE, before |-> FALSE, seen |-> NoPid, says |-> "nothing",
         raced |-> FALSE, moved |-> FALSE]

ServiceInit ==
  /\ platform \in Platforms
  /\ config \in Files
  /\ registered \in {0, CHOOSE v \in Versions : TRUE}
  /\ loaded = (IF platform = "launchd" THEN 0 ELSE registered)
  /\ marked = FALSE /\ job = "stopped"
  /\ proc = NoProcess(1) /\ last = Clean
  /\ holder = [a \in Addresses |-> "free"]
  /\ op = Idle
  /\ budget = [commands |-> MaxCommands, mishaps |-> MaxMishaps]
  /\ calm = FALSE

-----------------------------------------------------------------------------
(* The manager                                                             *)

\* Restart=on-failure but for the two statuses no restart cures; KeepAlive;
\* recovery actions, which a service that reports Stopped does not trigger.
Restarts(why) ==
  CASE platform = "systemd" -> why # Clean /\ ExitCode(why) \notin {ExitPortInUse, ExitConfigRefused}
    [] platform = "launchd" -> TRUE
    [] platform = "scm"     -> why = Killed /\ ~marked

\* The process is gone: its listeners close, and the manager does what the
\* status asks for, unless it was told to stop.
Exit(why, stopping) ==
  /\ proc' = NoProcess(proc.pid)
  /\ holder' = [a \in Addresses |-> IF holder[a] = "ours" THEN "free" ELSE holder[a]]
  /\ last' = why
  /\ job' = IF ~stopping /\ Restarts(why) THEN "backoff" ELSE "stopped"
  /\ marked' = FALSE
  /\ registered' = IF marked THEN 0 ELSE registered
  /\ loaded' = IF marked \/ (platform = "launchd" /\ stopping) THEN 0 ELSE loaded

Spawn(version) ==
  /\ proc' = [pid |-> (proc.pid % 3) + 1, at |-> "start", ver |-> version, plan |-> Nothing]
  /\ job' = "run"

\* After RestartSec, the throttle interval, or the recovery action's delay.
Restart ==
  /\ job = "backoff"
  /\ Spawn(loaded)
  /\ op' = [op EXCEPT !.raced = @ \/ op.at \in {"probe", "reload", "whose"}]
  /\ UNCHANGED <<platform, config, registered, marked, loaded, last, holder, budget, calm>>

\* The manager stops the job: a process that serves drains (shutdown_signal),
\* one that does not serve yet has no handler and dies.
StopJob ==
  CASE ~Alive -> /\ job' = "stopped"
                 /\ loaded' = IF platform = "launchd" THEN 0 ELSE loaded
                 /\ UNCHANGED <<proc, holder, last, registered, marked>>
    [] Loading -> Exit(Killed, TRUE)
    [] OTHER  -> /\ job' = "stopping"
                 /\ proc' = [proc EXCEPT !.at = "draining"]
                 /\ UNCHANGED <<holder, last, registered, marked, loaded>>

-----------------------------------------------------------------------------
(* The process                                                             *)

Fail(kind) == Exit(kind, job = "stopping")

Continue(at, plan) ==
  /\ proc' = [proc EXCEPT !.at = at, !.plan = plan]
  /\ UNCHANGED <<registered, marked, loaded, job, last, holder>>

\* run_foreground and run_with_ready, up to the first bind.
ReadConfig ==
  /\ proc.at = "start"
  /\ LET p == config.run
     IN  IF p.ok THEN Continue("bind", [local |-> p.value.local, remote |-> p.value.remote]) ELSE Fail(p.kind)

\* bind: both addresses before the model is loaded.
Bind(at, addrs, then) ==
  /\ proc.at = at
  /\ IF \E a \in addrs : holder[a] # "free"
     THEN Fail("PortInUse")
     ELSE /\ holder' = [a \in Addresses |-> IF a \in addrs THEN "ours" ELSE holder[a]]
          /\ proc' = [proc EXCEPT !.at = then]
          /\ UNCHANGED <<registered, marked, loaded, job, last>>
BindLocal  == Bind("bind", {proc.plan.local}, "bind_remote")
BindRemote == Bind("bind_remote", proc.plan.remote, "load")

\* The eager load of the model and its tokenizer, then on_ready.
LoadModel ==
  /\ proc.at = "load"
  /\ Continue("serving", proc.plan)

\* The listeners are closed, requests finish, TLS connections within 10 s.
Drain ==
  /\ proc.at = "draining"
  /\ Exit(Clean, job = "stopping")

ProcessStep ==
  /\ ReadConfig \/ BindLocal \/ BindRemote \/ LoadModel \/ Drain
  /\ UNCHANGED <<platform, config, op, budget, calm>>

\* A crash, the kernel's memory killer, a panic; a model that does not load.
Kill ==
  /\ ~calm /\ Alive /\ budget.mishaps > 0
  /\ Fail(Killed) \/ (proc.at = "load" /\ Fail("other"))
  /\ budget' = [budget EXCEPT !.mishaps = @ - 1]
  /\ UNCHANGED <<platform, config, op, calm>>

-----------------------------------------------------------------------------
(* What can be asked                                                       *)

\* observed_state, and state_word: a service that drains still reports Running.
State ==
  LET idle == IF registered # 0 THEN "stopped" ELSE "not installed"
  IN  CASE platform = "systemd" /\ Alive  -> IF job = "stopping" THEN "deactivating" ELSE "running"
        [] platform = "systemd" /\ ~Alive -> IF job = "backoff" THEN "activating" ELSE idle
        [] platform = "launchd" -> IF loaded # 0 THEN (IF Alive THEN "running" ELSE "stopped") ELSE idle
        [] platform = "scm" -> IF registered = 0 \/ ~Alive THEN idle
                               ELSE IF Loading THEN "start-pending" ELSE "running"

\* health, at the address m3_config.toml names: the pid of an "ok" answer.
Answers ==
  LET a == config.address
      who == IF a.ok /\ a.value \in Addresses THEN holder[a.value] ELSE "free"
  IN  CASE who = "ours" /\ proc.at = "serving" -> {proc.pid}
        [] who = "named" -> {ForeignPid}
        [] who = "old"   -> {NoPid}
        [] OTHER -> {}

\* main_pid: the manager's process, if it has one.
MainPid == IF Alive THEN {proc.pid} ELSE {}

\* whose: the process that answered against the manager's.
Whose(seen, main) ==
  CASE seen = NoPid -> "unknown"
    [] seen # NoPid /\ main = {} -> "likely_foreign"
    [] OTHER -> IF seen \in main THEN "ours" ELSE "foreign"

-----------------------------------------------------------------------------
(* The operator's commands.  Each step is one call to the manager or one   *)
(* look at it; a wait or a probe may always run out of time.               *)

Goto(at)  == op' = [op EXCEPT !.at = at]
Say(says) == op' = [op EXCEPT !.at = "done", !.says = says, !.before = FALSE]
Running   == op.at \notin {"idle", "done"}

JobUnchanged   == UNCHANGED <<registered, marked, loaded, job, proc, last, holder>>
UnixOnly       == platform \in {"systemd", "launchd"}

Command(cmd) ==
  /\ ~calm /\ ~Running /\ budget.commands > 0
  /\ op' = [Idle EXCEPT !.cmd = cmd, !.at = IF cmd = "install" THEN "args" ELSE "find"]
  /\ budget' = [budget EXCEPT !.commands = @ - 1]
  /\ UNCHANGED <<platform, config, registered, marked, loaded, job, proc, last, holder, calm>>

\* The operator interrupts a command.
Interrupt ==
  /\ ~calm /\ Running
  /\ op' = Idle
  /\ UNCHANGED <<platform, config, registered, marked, loaded, job, proc, last, holder, budget, calm>>

\* install: what the service could not start from is refused; then the unit or
\* plist is written.  On Windows an entry is created, or its command line
\* brought up to date, and nothing is started.
InstallArgs ==
  /\ op.at = "args"
  /\ \/ ~config.installs /\ Say("refused") /\ JobUnchanged
     \/ \E v \in Versions :
          /\ config.installs
          /\ IF platform = "scm" /\ marked /\ v # registered
             THEN Say("failed") /\ JobUnchanged
             ELSE /\ registered' = v
                  /\ loaded' = IF platform = "scm" THEN v ELSE loaded
                  /\ IF platform = "scm" THEN Say("registered")
                     ELSE Goto(IF platform = "systemd" THEN "look" ELSE "find")
                  /\ UNCHANGED <<marked, job, proc, last, holder>>

\* The first look: is there anything to do?
FindUnit ==
  CASE op.cmd = "start" -> Goto("look")
    [] op.cmd = "stop"  -> Goto("stop")
    [] op.cmd = "uninstall" -> IF State = "not installed" THEN Say("removed") ELSE Goto("stop")
FindAgent ==
  CASE op.cmd = "install" -> Goto(IF loaded # 0 THEN "stop" ELSE "probe")
    [] op.cmd = "start" -> IF registered = 0 THEN Say("failed") ELSE Goto("look")
    [] op.cmd = "stop"  -> IF loaded = 0 THEN Say("stopped") ELSE Goto("stop")
    [] op.cmd = "uninstall" -> IF loaded # 0 THEN Goto("stop")
                               ELSE IF registered # 0 THEN Goto("remove") ELSE Say("removed")
FindEntry ==
  CASE State = "not installed" -> Say(IF op.cmd = "uninstall" THEN "removed" ELSE "failed")
    [] op.cmd = "uninstall" /\ State # "not installed" -> Goto(IF Alive THEN "stop" ELSE "remove")
    [] op.cmd = "start" /\ State # "not installed" ->
         IF State = "running" THEN Say("already running") ELSE Goto("begin")
    [] op.cmd = "stop" /\ State # "not installed" ->
         IF State = "stopped" THEN Say("already stopped") ELSE Goto("stop")
Find ==
  /\ op.at = "find" /\ JobUnchanged
  /\ \/ platform = "systemd" /\ FindUnit
     \/ platform = "launchd" /\ FindAgent
     \/ platform = "scm" /\ FindEntry

\* observed_state() != "running" && serving_now(), in two calls.
Look == /\ op.at = "look" /\ JobUnchanged
        /\ op' = [op EXCEPT !.at = "probe", !.was = State = "running"]
Probe == /\ op.at = "probe" /\ JobUnchanged
         /\ op' = [op EXCEPT !.before = ~op.was /\ Answers # {},
                             !.at = CASE platform = "systemd" -> IF op.cmd = "install" THEN "reload" ELSE "begin"
                                      [] platform = "launchd" -> IF loaded = 0 THEN "bootstrap" ELSE "begin"]

\* systemctl daemon-reload.
Reload ==
  /\ op.at = "reload"
  /\ loaded' = IF op.cmd = "install" \/ (~Alive /\ job = "stopped") THEN registered ELSE loaded
  /\ IF op.cmd = "install" THEN Goto("begin")
     ELSE Say(IF State = "not installed" THEN "removed" ELSE "still there")
  /\ UNCHANGED <<registered, marked, job, proc, last, holder>>

\* launchctl bootstrap, which starts the agent (RunAtLoad).
Bootstrap ==
  /\ op.at = "bootstrap"
  /\ \/ /\ loaded' = registered /\ Spawn(registered)
        /\ Goto(IF op.cmd = "install" THEN "wait" ELSE "begin")
        /\ UNCHANGED <<registered, marked, last, holder>>
     \/ Say("failed") /\ JobUnchanged

\* systemctl enable --now or start, launchctl kickstart, StartService.  A job
\* that runs is left alone; one that is stopping is started again after.
BeginJob ==
  /\ op.at = "begin"
  /\ ~(UnixOnly /\ Alive /\ job = "stopping")
  /\ CASE registered = 0 \/ marked \/ (platform = "launchd" /\ loaded = 0) -> Say("failed") /\ JobUnchanged
       [] registered # 0 /\ ~marked /\ ~(platform = "launchd" /\ loaded = 0) ->
            /\ CASE platform = "scm" /\ Alive -> Say("already running")
                 [] platform = "systemd" /\ op.cmd = "install" /\ op.was -> Goto("restart")
                 [] OTHER -> Goto("wait")
            /\ IF Alive THEN JobUnchanged
               ELSE /\ loaded' = IF loaded = 0 THEN registered ELSE loaded
                    /\ Spawn(loaded')
                    /\ UNCHANGED <<registered, marked, last, holder>>

\* A bug the properties must catch: install leaves a running unit as it is.
RestartUnitMutSkipped == op.at = "restart" /\ Goto("wait") /\ JobUnchanged

\* systemctl restart: stopped, then started as loaded.
RestartUnit == op.at = "restart" /\ StopJob /\ Goto("restarting")
Restarted ==
  /\ op.at = "restarting" /\ ~Alive
  /\ Spawn(loaded) /\ Goto("wait")
  /\ UNCHANGED <<registered, marked, loaded, last, holder>>

\* wait_for "running".  On Windows what it last saw is the answer.
Wait ==
  /\ op.at = "wait" /\ JobUnchanged
  /\ IF platform = "scm"
     THEN Say(CASE State = "running" -> "running" [] State = "stopped" -> "failed" [] OTHER -> "loading")
     ELSE \/ State = "running" /\ Goto("report")
          \/ Say(IF op.cmd = "install" THEN "registered" ELSE "not running")

\* report_serving: probe /health until it answers ok, then ask the manager
\* which process it runs.
Report ==
  /\ op.at = "report" /\ JobUnchanged
  /\ \/ \E pid \in Answers : op' = [op EXCEPT !.seen = pid, !.at = "whose"]
     \/ Say(IF op.cmd = "install" THEN "registered" ELSE "no answer")
Conclude ==
  /\ op.at = "whose" /\ JobUnchanged
  /\ LET whose == Whose(op.seen, MainPid)
     IN  Say(CASE whose = "ours" -> "serving"
               [] whose = "unknown" -> IF op.before THEN "answers" ELSE "serving"
               [] OTHER -> whose)

\* systemctl stop or disable --now, launchctl bootout, a Stop control, which a
\* service that is still loading does not accept.
Stop ==
  /\ op.at = "stop"
  /\ CASE platform = "systemd" /\ op.cmd = "stop" /\ registered = 0 -> Say("failed") /\ JobUnchanged
       [] platform = "scm" /\ (Loading \/ ~Alive) ->
            /\ JobUnchanged
            /\ IF op.cmd = "uninstall" THEN Goto("stopping")
               ELSE Say(IF Alive THEN "failed" ELSE "already stopped")
       [] OTHER -> \/ StopJob /\ Goto("stopping")
                   \/ platform = "systemd" /\ op.cmd = "uninstall" /\ Goto("remove") /\ JobUnchanged

\* A bug the properties must catch: the wait for it to be gone has no limit.
StoppingMutNoLimit ==
  /\ op.at = "stopping" /\ JobUnchanged
  /\ LET gone == IF platform = "launchd" THEN loaded = 0 ELSE ~Alive
         next == CASE op.cmd = "install"   -> Goto("probe")
                   [] op.cmd = "uninstall" -> Goto("remove")
                   [] op.cmd = "stop"      -> Say(IF State = "running" THEN "still running" ELSE "stopped")
     IN  gone /\ next

\* Waiting for it to be gone: systemctl does, the others give up after a time.
Stopping ==
  /\ op.at = "stopping" /\ JobUnchanged
  /\ LET gone == IF platform = "launchd" THEN loaded = 0 ELSE ~Alive
         next == CASE op.cmd = "install"   -> Goto("probe")
                   [] op.cmd = "uninstall" -> Goto("remove")
                   [] op.cmd = "stop"      -> Say(IF State = "running" THEN "still running" ELSE "stopped")
     IN  \/ gone /\ next
         \/ /\ platform # "systemd" /\ ~gone
            /\ IF platform = "scm" /\ op.cmd = "uninstall" THEN Goto("remove") ELSE Say("still running")

\* The unit file or plist is removed; a Windows entry is deleted, at once or
\* when its process ends.
RemoveUnit ==
  /\ op.at = "remove"
  /\ IF platform = "scm"
     THEN /\ marked' = Alive
          /\ Say(IF Alive THEN "marked" ELSE "removed")
          /\ registered' = IF Alive THEN registered ELSE 0
          /\ loaded' = IF Alive THEN loaded ELSE 0
          /\ job' = IF Alive THEN job ELSE "stopped"
     ELSE /\ registered' = 0
          /\ UNCHANGED <<marked, loaded, job>>
          /\ IF platform = "systemd" THEN Goto("reload")
             ELSE Say(IF loaded = 0 THEN "removed" ELSE "still there")
  /\ UNCHANGED <<proc, last, holder>>

OperatorStep ==
  /\ \/ InstallArgs \/ Find \/ Look \/ Probe \/ Reload \/ Bootstrap \/ BeginJob \/ RestartUnit
     \/ Restarted \/ Wait \/ Report \/ Conclude \/ Stop \/ Stopping \/ RemoveUnit
  /\ UNCHANGED <<platform, config, budget, calm>>

-----------------------------------------------------------------------------
(* The rest of the machine                                                 *)

\* `m3 config set`, or the files it names change.
EditConfig ==
  /\ ~calm /\ budget.mishaps > 0
  /\ config' \in Files \ {config}
  /\ op' = [op EXCEPT !.moved = TRUE]
  /\ budget' = [budget EXCEPT !.mishaps = @ - 1]
  /\ UNCHANGED <<platform, registered, marked, loaded, job, proc, last, holder, calm>>

\* Another account's server takes an address, or leaves it.
Theft ==
  /\ ~calm
  /\ \E a \in Addresses :
       \/ /\ holder[a] = "free" /\ budget.mishaps > 0
          /\ \E who \in Foreign : holder' = [holder EXCEPT ![a] = who]
          /\ budget' = [budget EXCEPT !.mishaps = @ - 1]
       \/ /\ holder[a] \in Foreign
          /\ holder' = [holder EXCEPT ![a] = "free"]
          /\ UNCHANGED budget
  /\ op' = [op EXCEPT !.moved = TRUE]
  /\ UNCHANGED <<platform, config, registered, marked, loaded, job, proc, last, calm>>

\* From here on nothing goes wrong, and nothing is wrong.
CalmDown ==
  /\ ~calm /\ config.run.ok
  /\ \A a \in Addresses : holder[a] \notin Foreign
  /\ calm' = TRUE
  /\ UNCHANGED <<platform, config, registered, marked, loaded, job, proc, last, holder, op, budget>>

ServiceNext ==
  \/ \E cmd \in {"install", "start", "stop", "uninstall"} : Command(cmd)
  \/ Interrupt \/ OperatorStep \/ Restart \/ ProcessStep \/ Kill \/ EditConfig \/ Theft \/ CalmDown

\* The manager keeps to its unit, a process goes on, a command's calls return.
ServiceFairness ==
  WF_serviceVars(Restart) /\ WF_serviceVars(ProcessStep) /\ WF_serviceVars(OperatorStep)
=============================================================================
