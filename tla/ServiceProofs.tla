--------------------------- MODULE ServiceProofs ---------------------------
(***************************************************************************)
(* Proofs about Service: its commands and its manager, its replies, its    *)
(* log of rejections and how it starts, for every settings file, address   *)
(* and version, every cooldown and second, and any number of clients and   *)
(* rejections.                                                             *)
(*                                                                         *)
(* What a command says at its end rests on what its steps found before.    *)
(* ServiceInv has two sides: the manager's (JobsOK), which the operator    *)
(* only reads, and what a command at each of its steps may count on        *)
(* (OpsOK).  A step of the process or the manager Fades, a step of the     *)
(* operator alone is Quiet; what ends a command, Ends.                     *)
(***************************************************************************)
EXTENDS Service, FoldLemmas

----------------------------------------------------------------------------
(* The invariant: the manager's side. *)

ProcFields == {"pid", "at", "ver", "plan"}
Ats == {"none", "start", "bind", "bind_remote", "load", "serving", "draining"}

JobType ==
  /\ platform \in {"systemd", "launchd", "scm"} /\ config \in Files
  /\ registered \in Versions \cup {0} /\ loaded \in Versions \cup {0} /\ marked \in BOOLEAN
  /\ job \in {"run", "stopping", "backoff", "stopped"}
  /\ DOMAIN proc = ProcFields /\ proc.pid \in 1 .. 3 /\ proc.at \in Ats
  /\ holder \in [Addresses -> {"free", "ours"} \cup Foreign]

\* The manager's word against the process, and what it starts.
JobInv ==
  /\ Alive <=> job \in {"run", "stopping"}
  /\ platform = "launchd" /\ loaded = 0 => job = "stopped"
  /\ platform = "scm" /\ registered = 0 => job = "stopped"
  /\ marked => platform = "scm"

\* No restart is due for what no restart cures.
BackoffInv ==
  job = "backoff" => /\ platform = "systemd" => last \notin {"PortInUse", "ConfigRefused", "ConfigError"}
                     /\ platform = "scm" => last = Killed

\* A process binds what its settings say, step by step.
PlanInv ==
  /\ proc.at \in {"bind", "bind_remote", "load", "serving"} =>
       /\ proc.plan.local.ip \in Loopback
       /\ {proc.plan.local} \cup proc.plan.remote \subseteq Addresses
  /\ proc.at = "bind_remote" => holder[proc.plan.local] = "ours"
  /\ proc.at \in {"load", "serving"} =>
       \A a \in {proc.plan.local} \cup proc.plan.remote : holder[a] = "ours"

JobsOK == JobType /\ JobInv /\ BackoffInv /\ PlanInv

\* A process goes on from settings that are on loopback and among the addresses.
LEMMA SettledPlan ==
  ASSUME config \in Files, config.run.ok
  PROVE  /\ config.run.value.local.ip \in Loopback
         /\ config.run.value.local \in Addresses /\ config.run.value.remote \subseteq Addresses
<1>0. PICK c \in Configs : config = Settled(c)
  BY DEF Files
<1>1. config.run = Prepare(c, FALSE)
  BY <1>0 DEF Settled
<1> DEFINE p == Prepare(c, FALSE)
           r == Resolved(c, FALSE)
<1>2. p = IF r.ok THEN Listeners(r.value, c.disk) ELSE r
  BY DEF Prepare, Then
<1>3. p.ok
  BY <1>1
<1> HIDE DEF p, r
<1>4. p = Listeners(r.value, c.disk)
  BY <1>2, <1>3
<1>5. p.value.local.ip \in Loopback
  <2> DEFINE settings == r.value
             local == [ip |-> settings.host, port |-> settings.port]
             rest == {ParseListen(t, local.port).value : t \in settings.security.remote}
  <2> HIDE DEF settings
  <2>1. p = CASE local.ip \notin Ips -> Bad("other")
              [] local.ip \in Ips /\ ~ PlanAdmits(local, settings.security, c.disk) -> Bad("ConfigRefused")
              [] OTHER -> Good([local |-> local, settings |-> settings, remote |-> rest])
    BY <1>4 DEF Listeners, settings
  <2>2. ~ Bad("other").ok /\ ~ Bad("ConfigRefused").ok
    BY DEF Bad
  <2> HIDE DEF local, rest
  <2>3. /\ PlanAdmits(local, settings.security, c.disk)
        /\ p = Good([local |-> local, settings |-> settings, remote |-> rest])
    BY <1>3, <2>1, <2>2
  <2>4. p.value.local = local
    BY <2>3 DEF Good
  <2> QED
    BY <2>3, <2>4 DEF PlanAdmits
<1>6. p.value.local \in Addresses /\ p.value.remote \subseteq Addresses
  BY <1>3, ServiceAssumption DEF p
<1>7. config.run = p
  BY <1>1 DEF p
<1> QED
  BY <1>5, <1>6, <1>7

\* What the end of a process, or a step of one, may do to the rest.
Fades ==
  /\ UNCHANGED <<platform, config>>
  /\ proc'.pid = proc.pid /\ (Alive' => Alive /\ proc'.ver = proc.ver)
  /\ job' \in {job, "stopped"} \/ (job = "run" /\ job' = "backoff")
  /\ registered' = registered \/ (platform = "scm" /\ registered' = 0)
  /\ \/ loaded' = loaded
     \/ loaded' = 0 /\ (platform = "scm" \/ (platform = "launchd" /\ job = "stopping"))
  /\ \A a \in Addresses : holder'[a] \in Foreign <=> holder[a] \in Foreign

\* A process ends, and the manager does with it as the platform says.
LEMMA ExitKeeps ==
  ASSUME JobsOK, NEW why, NEW stopping \in BOOLEAN, Exit(why, stopping), Alive,
         UNCHANGED <<platform, config>>
  PROVE  JobsOK'
<1>1. /\ proc' = [pid |-> proc.pid, at |-> "none", ver |-> 0, plan |-> Nothing]
      /\ holder' = [a \in Addresses |-> IF holder[a] = "ours" THEN "free" ELSE holder[a]]
      /\ last' = why
      /\ job' = IF ~ stopping /\ Restarts(why) THEN "backoff" ELSE "stopped"
      /\ marked' = FALSE
      /\ registered' = IF marked THEN 0 ELSE registered
      /\ loaded' = IF marked \/ (platform = "launchd" /\ stopping) THEN 0 ELSE loaded
  BY DEF Exit, NoProcess
<1>2. /\ DOMAIN proc' = ProcFields /\ proc'.pid = proc.pid /\ proc'.at = "none"
  BY <1>1 DEF ProcFields
<1>3. JobType'
  BY <1>1, <1>2 DEF JobsOK, JobType, Ats, Foreign
<1>4. JobInv'
  BY <1>1, <1>2 DEF JobsOK, JobInv, JobType, Alive, Restarts
<1>5. BackoffInv'
  BY <1>1, <1>2 DEF BackoffInv, Restarts, ExitCode, ExitPortInUse, ExitConfigRefused
<1>6. PlanInv'
  BY <1>2 DEF PlanInv
<1> QED
  BY <1>3, <1>4, <1>5, <1>6 DEF JobsOK

\* As far as a command can tell, it fades.
LEMMA ExitFades ==
  ASSUME JobsOK, NEW why, NEW stopping \in BOOLEAN, Exit(why, stopping), Alive,
         UNCHANGED <<platform, config>>, stopping => job = "stopping", ~ stopping => job # "stopping"
  PROVE  Fades
<1>1. /\ proc' = [pid |-> proc.pid, at |-> "none", ver |-> 0, plan |-> Nothing]
      /\ holder' = [a \in Addresses |-> IF holder[a] = "ours" THEN "free" ELSE holder[a]]
      /\ job' = IF ~ stopping /\ Restarts(why) THEN "backoff" ELSE "stopped"
      /\ registered' = IF marked THEN 0 ELSE registered
      /\ loaded' = IF marked \/ (platform = "launchd" /\ stopping) THEN 0 ELSE loaded
  BY DEF Exit, NoProcess
<1>2. proc'.pid = proc.pid /\ ~ Alive'
  BY <1>1 DEF Alive
<1>3. \A a \in Addresses : holder'[a] \in Foreign <=> holder[a] \in Foreign
  BY <1>1 DEF Foreign
<1> QED
  BY <1>1, <1>2, <1>3 DEF Fades, JobsOK, JobInv, JobType

\* A process goes to its next step.
LEMMA ContinueKeeps ==
  ASSUME JobsOK, Alive, NEW at \in Ats \ {"none", "draining"}, NEW plan, Continue(at, plan),
         UNCHANGED <<platform, config>>,
         at \in {"bind", "bind_remote", "load", "serving"} =>
           plan.local.ip \in Loopback /\ {plan.local} \cup plan.remote \subseteq Addresses,
         at # "bind_remote",
         at \in {"load", "serving"} => \A a \in {plan.local} \cup plan.remote : holder[a] = "ours"
  PROVE  JobsOK' /\ Fades
<1>1. /\ proc' = [proc EXCEPT !.at = at, !.plan = plan]
      /\ UNCHANGED <<platform, config, registered, marked, loaded, job, last, holder>>
  BY DEF Continue
<1>2. /\ DOMAIN proc' = ProcFields /\ proc'.pid = proc.pid /\ proc'.at = at
      /\ proc'.ver = proc.ver /\ proc'.plan = plan
  BY <1>1 DEF JobsOK, JobType, ProcFields
<1>3. JobType'
  BY <1>1, <1>2 DEF JobsOK, JobType
<1>4. JobInv'
  BY <1>1, <1>2 DEF JobsOK, JobInv, Alive
<1>5. BackoffInv'
  BY <1>1 DEF JobsOK, BackoffInv
<1>6. PlanInv'
  BY <1>1, <1>2 DEF PlanInv
<1>7. Fades
  BY <1>1, <1>2 DEF Fades, Alive
<1> QED
  BY <1>3, <1>4, <1>5, <1>6, <1>7 DEF JobsOK

\* A process binds its addresses, or ends as one is taken.
LEMMA BindKeeps ==
  ASSUME JobsOK, NEW at \in {"bind", "bind_remote"}, NEW addrs, NEW then, Bind(at, addrs, then),
         UNCHANGED <<platform, config>>,
         \/ at = "bind" /\ then = "bind_remote" /\ addrs = {proc.plan.local}
         \/ at = "bind_remote" /\ then = "load" /\ addrs = proc.plan.remote
  PROVE  JobsOK' /\ Fades
<1>1. Alive /\ proc.at = at
  BY DEF Bind, Alive
<1>2. CASE \E a \in addrs : holder[a] # "free"
  <2>1. Exit("PortInUse", job = "stopping")
    BY <1>2 DEF Bind, Fail
  <2> QED
    BY <1>1, <2>1, ExitKeeps, ExitFades
<1>3. CASE ~ \E a \in addrs : holder[a] # "free"
  <2>1. /\ holder' = [a \in Addresses |-> IF a \in addrs THEN "ours" ELSE holder[a]]
        /\ proc' = [proc EXCEPT !.at = then]
        /\ UNCHANGED <<platform, config, registered, marked, loaded, job, last>>
    BY <1>3 DEF Bind
  <2>2. /\ DOMAIN proc' = ProcFields /\ proc'.pid = proc.pid /\ proc'.at = then
        /\ proc'.ver = proc.ver /\ proc'.plan = proc.plan
    BY <2>1 DEF JobsOK, JobType, ProcFields
  <2>3. JobType'
    <3>1. holder' \in [Addresses -> {"free", "ours"} \cup Foreign]
      BY <2>1 DEF JobsOK, JobType
    <3> QED
      BY <2>1, <2>2, <3>1 DEF JobsOK, JobType, Ats
  <2>4. JobInv'
    BY <1>1, <2>1, <2>2 DEF JobsOK, JobInv, Alive
  <2>5. BackoffInv'
    BY <2>1 DEF JobsOK, BackoffInv
  <2>6. /\ proc.plan.local.ip \in Loopback
        /\ {proc.plan.local} \cup proc.plan.remote \subseteq Addresses
        /\ at = "bind_remote" => holder[proc.plan.local] = "ours"
    BY <1>1 DEF JobsOK, PlanInv
  <2>7. PlanInv'
    BY <2>1, <2>2, <2>6 DEF PlanInv
  <2>8. \A a \in Addresses : holder'[a] \in Foreign <=> holder[a] \in Foreign
    BY <1>3, <2>1 DEF Foreign
  <2>9. Fades
    BY <2>1, <2>2, <2>8, <1>1 DEF Fades, Alive
  <2> QED
    BY <2>3, <2>4, <2>5, <2>7, <2>9 DEF JobsOK
<1> QED
  BY <1>2, <1>3

\* A process does what it does, and Fades.
LEMMA ProcessKeeps ==
  ASSUME JobsOK, ProcessStep
  PROVE  JobsOK' /\ Fades
<1>1. UNCHANGED <<platform, config>>
  BY DEF ProcessStep
<1>2. CASE ReadConfig
  <2>1. Alive /\ proc.at = "start"
    BY <1>2 DEF ReadConfig, Alive
  <2>2. CASE config.run.ok
    <3> DEFINE value == config.run.value
               plan == [local |-> value.local, remote |-> value.remote]
    <3>1. Continue("bind", plan)
      BY <1>2, <2>2 DEF ReadConfig
    <3>2. plan.local.ip \in Loopback /\ {plan.local} \cup plan.remote \subseteq Addresses
      BY <2>2, SettledPlan DEF JobsOK, JobType
    <3> HIDE DEF plan
    <3>3. "bind" \in Ats \ {"none", "draining"}
      BY DEF Ats
    <3> QED
      BY <1>1, <2>1, <3>1, <3>2, <3>3, ContinueKeeps
  <2>3. CASE ~ config.run.ok
    <3>1. Exit(config.run.kind, job = "stopping")
      BY <1>2, <2>3 DEF ReadConfig, Fail
    <3> QED
      BY <1>1, <2>1, <3>1, ExitKeeps, ExitFades
  <2> QED
    BY <2>2, <2>3
<1>3. CASE BindLocal
  BY <1>1, <1>3, BindKeeps DEF BindLocal
<1>4. CASE BindRemote
  BY <1>1, <1>4, BindKeeps DEF BindRemote
<1>5. CASE LoadModel
  <2>1. /\ Alive /\ proc.at = "load" /\ Continue("serving", proc.plan)
    BY <1>5 DEF LoadModel, Alive
  <2>2. /\ proc.plan.local.ip \in Loopback
        /\ {proc.plan.local} \cup proc.plan.remote \subseteq Addresses
        /\ \A a \in {proc.plan.local} \cup proc.plan.remote : holder[a] = "ours"
    BY <2>1 DEF JobsOK, PlanInv
  <2>3. "serving" \in Ats \ {"none", "draining"}
    BY DEF Ats
  <2> QED
    BY <1>1, <2>1, <2>2, <2>3, ContinueKeeps
<1>6. CASE Drain
  <2>1. Alive /\ Exit(Clean, job = "stopping")
    BY <1>6 DEF Drain, Alive
  <2> QED
    BY <1>1, <2>1, ExitKeeps, ExitFades
<1> QED
  BY <1>2, <1>3, <1>4, <1>5, <1>6 DEF ProcessStep

\* It is killed, and Fades.
LEMMA KillKeeps ==
  ASSUME JobsOK, Kill
  PROVE  JobsOK' /\ Fades /\ op' = op
<1>1. Alive /\ UNCHANGED <<platform, config, op>>
  BY DEF Kill
<1>2. Exit(Killed, job = "stopping") \/ Exit("other", job = "stopping")
  BY DEF Kill, Fail
<1> QED
  BY <1>1, <1>2, ExitKeeps, ExitFades

\* The manager starts a process.
LEMMA SpawnKeeps ==
  ASSUME JobsOK, NEW version \in Versions \cup {0}, Spawn(version), loaded' \in Versions \cup {0},
         UNCHANGED <<platform, config, registered, marked, last, holder>>,
         platform = "launchd" => loaded' # 0, platform = "scm" => registered # 0
  PROVE  /\ JobsOK' /\ Alive' /\ job' = "run" /\ proc'.ver = version
<1>1. /\ proc' = [pid |-> (proc.pid % 3) + 1, at |-> "start", ver |-> version, plan |-> Nothing]
      /\ job' = "run"
  BY DEF Spawn
<1>2. /\ DOMAIN proc' = ProcFields /\ proc'.at = "start" /\ proc'.ver = version
  BY <1>1 DEF ProcFields
<1>3. proc'.pid \in 1 .. 3
  BY <1>1 DEF JobsOK, JobType
<1>4. JobType'
  BY <1>1, <1>2, <1>3 DEF JobsOK, JobType, Ats
<1>5. JobInv'
  BY <1>1, <1>2 DEF JobsOK, JobInv, Alive
<1>6. BackoffInv' /\ PlanInv'
  BY <1>1, <1>2 DEF BackoffInv, PlanInv
<1> QED
  BY <1>1, <1>2, <1>4, <1>5, <1>6 DEF JobsOK, Alive

\* The manager starts again what ended.
LEMMA RestartKeeps ==
  ASSUME JobsOK, Restart
  PROVE  /\ JobsOK' /\ Alive' /\ job' = "run" /\ proc'.ver = loaded
<1>1. /\ job = "backoff" /\ Spawn(loaded)
      /\ UNCHANGED <<platform, config, registered, marked, loaded, last, holder>>
  BY DEF Restart
<1> QED
  BY <1>1, SpawnKeeps DEF JobsOK, JobType, JobInv

\* The manager stops its job.
LEMMA StopJobKeeps ==
  ASSUME JobsOK, StopJob, UNCHANGED <<platform, config>>
  PROVE  /\ JobsOK' /\ job' \in {"stopping", "stopped"}
         /\ platform # "scm" => registered' = registered
         /\ platform = "systemd" => loaded' = loaded
<1>1. CASE ~ Alive
  <2>1. /\ job' = "stopped"
        /\ loaded' = IF platform = "launchd" THEN 0 ELSE loaded
        /\ UNCHANGED <<platform, config, proc, holder, last, registered, marked>>
    BY <1>1 DEF StopJob, Alive, Loading
  <2>2. JobType'
    BY <2>1 DEF JobsOK, JobType
  <2>3. JobInv'
    BY <1>1, <2>1 DEF JobsOK, JobInv, Alive
  <2>4. BackoffInv' /\ PlanInv'
    BY <2>1 DEF JobsOK, BackoffInv, PlanInv
  <2> QED
    BY <2>1, <2>2, <2>3, <2>4 DEF JobsOK
<1>2. CASE Alive /\ Loading
  <2>1. Exit(Killed, TRUE)
    BY <1>2 DEF StopJob
  <2>2. /\ job' = "stopped"
        /\ platform # "scm" => registered' = registered
        /\ platform = "systemd" => loaded' = loaded
    BY <2>1 DEF Exit, JobsOK, JobInv
  <2> QED
    BY <1>2, <2>1, <2>2, ExitKeeps
<1>3. CASE Alive /\ ~ Loading
  <2>1. /\ job' = "stopping" /\ proc' = [proc EXCEPT !.at = "draining"]
        /\ UNCHANGED <<platform, config, holder, last, registered, marked, loaded>>
    BY <1>3 DEF StopJob
  <2>2. DOMAIN proc' = ProcFields /\ proc'.pid = proc.pid /\ proc'.at = "draining"
    BY <2>1 DEF JobsOK, JobType, ProcFields
  <2>3. JobType'
    BY <2>1, <2>2 DEF JobsOK, JobType, Ats
  <2>4. JobInv'
    BY <1>3, <2>1, <2>2 DEF JobsOK, JobInv, Alive
  <2>5. BackoffInv' /\ PlanInv'
    BY <2>1, <2>2 DEF BackoffInv, PlanInv
  <2> QED
    BY <2>1, <2>3, <2>4, <2>5 DEF JobsOK
<1> QED
  BY <1>1, <1>2, <1>3

----------------------------------------------------------------------------
(* The invariant: the operator's side. *)

OpFields == {"cmd", "at", "was", "before", "seen", "says", "raced", "moved"}
OpType ==
  DOMAIN op = OpFields /\ op.was \in BOOLEAN /\ op.before \in BOOLEAN /\ op.raced \in BOOLEAN /\ op.moved \in BOOLEAN

\* Which step belongs to which command, where.
StepInv ==
  /\ op.cmd \in {"none", "install", "start", "stop", "uninstall"}
  /\ op.at # "done" => op.says = "nothing"
  /\ op.at = "args" => op.cmd = "install"
  /\ op.at = "find" => op.cmd # "none" /\ (op.cmd = "install" => platform = "launchd")
  /\ op.at \in {"look", "probe", "bootstrap", "begin", "restart", "restarting", "wait", "report", "whose"} =>
       op.cmd \in {"install", "start"}
  /\ op.at \in {"look", "probe", "reload", "bootstrap", "restart", "restarting", "report", "whose"} =>
       platform # "scm"
  /\ op.at = "reload" => platform = "systemd" /\ op.cmd \in {"install", "uninstall"}
  /\ op.at \in {"restart", "restarting"} => platform = "systemd" /\ op.cmd = "install"
  /\ op.at = "bootstrap" => platform = "launchd"
  /\ op.at \in {"look", "probe", "bootstrap"} /\ platform = "launchd" => registered # 0
  /\ op.at \in {"stop", "stopping"} =>
       op.cmd \in {"stop", "uninstall"} \/ (op.cmd = "install" /\ platform = "launchd")
  /\ op.at = "remove" => op.cmd = "uninstall"
  /\ platform = "scm" /\ op.cmd = "install" => op.at \in {"args", "done"}

\* Who holds the address that a probe asks.
Who == IF config.address.ok /\ config.address.value \in Addresses THEN holder[config.address.value] ELSE "free"

\* What the look before a command's work promises of the answer after it.
AskInv ==
  /\ /\ op.at \in {"reload", "bootstrap", "begin", "restart", "restarting", "wait", "report"}
     /\ platform # "scm" /\ ~ (op.at = "reload" /\ op.cmd = "uninstall")
     /\ ~ op.was /\ ~ op.before /\ ~ op.moved
     => Who \notin Foreign
  /\ op.at = "whose" =>
       /\ op.seen \in {NoPid, ForeignPid} \cup 1 .. 3
       /\ op.seen = NoPid => op.before \/ op.was \/ op.moved
       /\ op.seen \in 1 .. 3 /\ ~ op.raced /\ Alive => proc.pid = op.seen

\* A stop that waits for the end has told the manager.
StopInv == op.at = "stopping" /\ (op.cmd = "stop" \/ platform = "launchd") => job \in {"stopping", "stopped"}

\* What runs, and what will be started, is what was installed.
Fresh ==
  /\ loaded = registered
  /\ platform = "launchd" => job # "stopping"
  /\ ~ op.raced /\ Alive => proc.ver = registered

\* An install on its way there.
InstallInv ==
  op.cmd = "install" =>
  /\ op.at \notin {"idle", "args", "done"} => registered # 0
  /\ platform = "systemd" =>
       /\ op.at \in {"probe", "reload"} /\ ~ op.was /\ ~ op.raced => job # "run"
       /\ op.at \in {"begin", "restart", "restarting"} => loaded = registered
       /\ op.at = "begin" /\ ~ op.was /\ ~ op.raced /\ job = "run" => proc.ver = registered
  /\ platform = "launchd" =>
       /\ op.at \in {"probe", "bootstrap"} => loaded = 0
       /\ op.at \notin {"look", "begin"}
  /\ op.at \in {"wait", "report", "whose"} => Fresh
  /\ op.at = "done" /\ op.says \in {"serving", "answers", "registered", "foreign"} /\ UnixOnly => Fresh

OpsOK == OpType /\ StepInv /\ AskInv /\ StopInv /\ InstallInv /\ AnswersAreAttributed /\ StoppedMeansStopped

ServiceInv == JobsOK /\ OpsOK

\* What a process does on its own, or its death, leaves a command's promises true.
LEMMA FadesOps ==
  ASSUME JobsOK, OpsOK, Fades, JobsOK', op' = op
  PROVE  OpsOK'
<1>1. OpType'
  BY DEF OpsOK, OpType
<1>2. StepInv'
  BY DEF OpsOK, StepInv, Fades
<1>3. AskInv'
  <2>1. Who' \in Foreign => Who \in Foreign
    BY DEF Who, Fades, Foreign
  <2>2. Alive' => Alive
    BY DEF Fades
  <2> QED
    BY <2>1, <2>2 DEF OpsOK, AskInv, Fades
<1>4. StopInv'
  BY DEF OpsOK, StopInv, Fades
<1>5. InstallInv'
  <2>1. SUFFICES ASSUME op.cmd = "install" PROVE InstallInv'
    BY DEF InstallInv
  <2>2. CASE platform = "scm"
    BY <2>1, <2>2 DEF OpsOK, StepInv, InstallInv, UnixOnly, Fades
  <2>3. CASE platform # "scm"
    <3>1. Fresh => Fresh'
      BY <2>3 DEF Fresh, Fades
    <3>2. registered' = registered /\ platform' = platform
      BY <2>3 DEF Fades
    <3>3. platform = "systemd" => loaded' = loaded
      BY DEF Fades
    <3>4. loaded = 0 => loaded' = 0
      BY DEF Fades
    <3>5. job' = "run" => job = "run" /\ Alive /\ Alive'
      BY DEF Fades, JobsOK, JobInv
    <3>6. Alive' => proc'.ver = proc.ver
      BY DEF Fades
    <3>7. UnixOnly' = UnixOnly
      BY <3>2 DEF UnixOnly
    <3> QED
      BY <2>1, <3>1, <3>2, <3>3, <3>4, <3>5, <3>6, <3>7 DEF OpsOK, InstallInv
  <2> QED
    BY <2>2, <2>3
<1>6. AnswersAreAttributed'
  BY DEF OpsOK, AnswersAreAttributed
<1>7. StoppedMeansStopped'
  <2>1. ~ Alive => ~ Alive'
    BY DEF Fades
  <2> QED
    BY <2>1 DEF OpsOK, StoppedMeansStopped, Said, Fades
<1> QED
  BY <1>1, <1>2, <1>3, <1>4, <1>5, <1>6, <1>7 DEF OpsOK

\* A restart is raced, or goes unnoticed, or serves the command.
LEMMA RestartOps ==
  ASSUME JobsOK, OpsOK, Restart
  PROVE  OpsOK'
<1>1. /\ job = "backoff" /\ op' = [op EXCEPT !.raced = @ \/ op.at \in {"probe", "reload", "whose"}]
      /\ UNCHANGED <<platform, config, registered, marked, loaded, last, holder>>
  BY DEF Restart
<1>2. Alive' /\ job' = "run" /\ proc'.ver = loaded /\ JobsOK'
  BY RestartKeeps
<1>3. /\ DOMAIN op' = OpFields /\ op'.cmd = op.cmd /\ op'.at = op.at /\ op'.was = op.was
      /\ op'.before = op.before /\ op'.seen = op.seen /\ op'.says = op.says /\ op'.moved = op.moved
      /\ op'.raced = (op.raced \/ op.at \in {"probe", "reload", "whose"})
  BY <1>1 DEF OpsOK, OpType, OpFields
<1>4. OpType'
  BY <1>3 DEF OpsOK, OpType
<1>5. StepInv'
  BY <1>1, <1>3 DEF OpsOK, StepInv
<1>6. AskInv'
  <2>1. Who' = Who
    BY <1>1 DEF Who
  <2> QED
    BY <1>1, <1>3, <2>1 DEF OpsOK, AskInv
<1>7. StopInv'
  BY <1>1, <1>3 DEF OpsOK, StopInv
<1>8. InstallInv'
  <2>1. Fresh => Fresh'
    BY <1>1, <1>2, <1>3 DEF Fresh
  <2>2. UnixOnly' = UnixOnly
    BY <1>1 DEF UnixOnly
  <2> QED
    BY <1>1, <1>2, <1>3, <2>1, <2>2 DEF OpsOK, InstallInv
<1>9. AnswersAreAttributed'
  BY <1>3 DEF OpsOK, AnswersAreAttributed
<1>10. StoppedMeansStopped'
  BY <1>1, <1>3 DEF OpsOK, StoppedMeansStopped, Said
<1> QED
  BY <1>4, <1>5, <1>6, <1>7, <1>8, <1>9, <1>10 DEF OpsOK

\* A step that leaves the manager, its process and the addresses alone.
Quiet == UNCHANGED <<platform, config, registered, marked, loaded, job, proc, last, holder>>

\* The manager's side does not see the operator's.
LEMMA QuietKeeps ==
  ASSUME JobsOK, Quiet
  PROVE  JobsOK' /\ Who' = Who /\ Alive' = Alive /\ UnixOnly' = UnixOnly /\ State' = State
<1>1. JobType' /\ JobInv' /\ BackoffInv' /\ PlanInv'
  BY DEF JobsOK, Quiet, JobType, JobInv, BackoffInv, PlanInv, Alive
<1>2. Who' = Who /\ Alive' = Alive /\ UnixOnly' = UnixOnly
  BY DEF Quiet, Who, Alive, UnixOnly
<1>3. Loading' = Loading
  BY DEF Quiet, Loading
<1>4. State' = State
  BY <1>2, <1>3 DEF State, Quiet
<1> QED
  BY <1>1, <1>2, <1>4 DEF JobsOK

\* A command goes on to its next step.
Goes(at) ==
  /\ OpType' /\ op'.cmd = op.cmd /\ op'.at = at /\ op'.was = op.was /\ op'.before = op.before
  /\ op'.seen = op.seen /\ op'.says = op.says /\ op'.raced = op.raced /\ op'.moved = op.moved

\* Goto is to go.
LEMMA GotoGoes == ASSUME OpType, NEW at, Goto(at) PROVE Goes(at)
  BY DEF OpType, OpFields, Goto, Goes

\* It ends, and says how.
Ends(says) ==
  /\ OpType' /\ op'.cmd = op.cmd /\ op'.at = "done" /\ op'.says = says
  /\ op'.was = op.was /\ op'.seen = op.seen /\ op'.raced = op.raced /\ op'.moved = op.moved

\* Say is to end.
LEMMA SayEnds == ASSUME OpType, NEW says, Say(says) PROVE Ends(says)
  BY DEF OpType, OpFields, Say, Ends

\* An answer that promises nothing of the service.
Plain == {"refused", "failed", "already running", "already stopped", "still running", "still there",
          "marked", "not running", "running", "loading", "no answer", "likely_foreign"}

\* It is always right to say such a thing.
LEMMA PlainIsTrue ==
  ASSUME OpsOK, NEW says \in Plain, Ends(says), platform' = platform
  PROVE  OpsOK'
<1>1. OpType' /\ StepInv'
  BY DEF OpsOK, StepInv, Ends
<1>2. AskInv' /\ StopInv'
  BY DEF AskInv, StopInv, Ends
<1>3. InstallInv'
  BY DEF InstallInv, Ends, Plain
<1>4. AnswersAreAttributed'
  BY DEF AnswersAreAttributed, Ends, Plain
<1>5. StoppedMeansStopped'
  BY DEF StoppedMeansStopped, Said, Ends, Plain
<1> QED
  BY <1>1, <1>2, <1>3, <1>4, <1>5 DEF OpsOK

\* So is that it is stopped or removed, when it is.
LEMMA StoppedIsTrue ==
  ASSUME OpsOK, NEW says \in {"stopped", "removed"}, Ends(says), platform' = platform,
         ~ Alive', job' = "stopped", op.cmd \in {"stop", "uninstall"},
         says = "removed" => registered' = 0 /\ (platform = "launchd" => loaded' = 0)
  PROVE  OpsOK'
<1>1. OpType' /\ StepInv'
  BY DEF OpsOK, StepInv, Ends
<1>2. AskInv' /\ StopInv'
  BY DEF AskInv, StopInv, Ends
<1>3. InstallInv'
  BY DEF InstallInv, Ends
<1>4. AnswersAreAttributed'
  BY DEF AnswersAreAttributed, Ends
<1>5. op.cmd = "stop" => says = "stopped" \/ says = "removed"
  OBVIOUS
<1>6. StoppedMeansStopped'
  BY DEF StoppedMeansStopped, Said, Ends
<1> QED
  BY <1>1, <1>2, <1>3, <1>4, <1>6 DEF OpsOK

\* An install that ends where what it installed is what runs.
LEMMA InstalledIsTrue ==
  ASSUME OpsOK, NEW says \in {"serving", "answers", "registered", "foreign"}, Ends(says), platform' = platform,
         op.cmd = "install" /\ UnixOnly => Fresh',
         says = "serving" => op.seen # ForeignPid /\ (op.seen = NoPid => op.moved \/ op.was),
         says = "foreign" => op.seen = ForeignPid \/ op.raced
  PROVE  OpsOK'
<1>1. OpType' /\ StepInv'
  BY DEF OpsOK, StepInv, Ends
<1>2. AskInv' /\ StopInv'
  BY DEF AskInv, StopInv, Ends
<1>3. UnixOnly' = UnixOnly
  BY DEF UnixOnly
<1>4. InstallInv'
  BY <1>3 DEF InstallInv, Ends
<1>5. AnswersAreAttributed'
  BY DEF AnswersAreAttributed, Ends
<1>6. StoppedMeansStopped'
  BY DEF StoppedMeansStopped, Said, Ends
<1> QED
  BY <1>1, <1>2, <1>4, <1>5, <1>6 DEF OpsOK

\* Before it ends a command has said nothing.
LEMMA GoesOps ==
  ASSUME OpsOK, NEW at, at # "done", op.at # "done", Goes(at), StepInv', AskInv', StopInv', InstallInv'
  PROVE  OpsOK'
<1>1. op'.says = "nothing" /\ op'.at # "done" /\ OpType'
  BY DEF Goes, OpsOK, StepInv
<1>2. AnswersAreAttributed' /\ StoppedMeansStopped'
  BY <1>1 DEF AnswersAreAttributed, StoppedMeansStopped, Said
<1> QED
  BY <1>1, <1>2 DEF OpsOK

----------------------------------------------------------------------------
(* Step by step. *)

USE DEF NoPid, ForeignPid

\* install: the file settles what a service would run with, and the unit is written.
LEMMA InstallArgsStep ==
  ASSUME ServiceInv, InstallArgs, UNCHANGED <<platform, config>>
  PROVE  ServiceInv'
<1>1. /\ JobsOK /\ OpsOK /\ OpType /\ op.at = "args" /\ op.cmd = "install" /\ op.says = "nothing"
      /\ platform' = platform
  BY DEF ServiceInv, OpsOK, StepInv, InstallArgs
<1>2. CASE (Say("refused") \/ Say("failed")) /\ JobUnchanged
  <2>1. JobsOK'
    BY <1>1, <1>2, QuietKeeps DEF Quiet, JobUnchanged
  <2>2. PICK says \in {"refused", "failed"} : Say(says)
    BY <1>2
  <2>3. Ends(says) /\ says \in Plain
    BY <1>1, <2>2, SayEnds DEF Plain
  <2> QED
    BY <1>1, <2>1, <2>3, PlainIsTrue DEF ServiceInv
<1>3. CASE ~ ((Say("refused") \/ Say("failed")) /\ JobUnchanged)
  <2>1. PICK v \in Versions :
          /\ registered' = v
          /\ loaded' = IF platform = "scm" THEN v ELSE loaded
          /\ IF platform = "scm" THEN Say("registered")
             ELSE Goto(IF platform = "systemd" THEN "look" ELSE "find")
          /\ UNCHANGED <<marked, job, proc, last, holder>>
    BY <1>3 DEF InstallArgs
  <2>2. v # 0
    BY ServiceAssumption
  <2>3. Alive' = Alive
    BY <2>1 DEF Alive
  <2>4. JobsOK'
    <3>1. JobType'
      BY <1>1, <2>1 DEF JobsOK, JobType
    <3>2. JobInv'
      BY <1>1, <2>1, <2>2, <2>3 DEF JobsOK, JobInv, JobType
    <3>3. BackoffInv' /\ PlanInv'
      BY <1>1, <2>1 DEF JobsOK, BackoffInv, PlanInv
    <3> QED
      BY <3>1, <3>2, <3>3 DEF JobsOK
  <2>5. CASE platform = "scm"
    <3>1. Ends("registered")
      BY <1>1, <2>1, <2>5, SayEnds
    <3>2. ~ UnixOnly
      BY <2>5 DEF UnixOnly
    <3> QED
      BY <1>1, <2>4, <3>1, <3>2, InstalledIsTrue DEF ServiceInv
  <2>6. CASE platform # "scm"
    <3> DEFINE at == IF platform = "systemd" THEN "look" ELSE "find"
    <3>1. Goes(at)
      BY <1>1, <2>1, <2>6, GotoGoes
    <3>2. StepInv'
      BY <1>1, <2>1, <2>2, <2>6, <3>1 DEF OpsOK, StepInv, Goes, JobsOK, JobType
    <3>3. AskInv' /\ StopInv' /\ InstallInv'
      BY <1>1, <2>1, <2>2, <2>6, <3>1 DEF AskInv, StopInv, InstallInv, Goes, JobsOK, JobType
    <3> QED
      BY <1>1, <2>4, <3>1, <3>2, <3>3, GoesOps DEF ServiceInv
  <2> QED
    BY <2>5, <2>6
<1> QED
  BY <1>2, <1>3

\* A command finds whether the service is installed, and how it runs.
LEMMA FindStep ==
  ASSUME ServiceInv, Find, UNCHANGED <<platform, config>>
  PROVE  ServiceInv'
<1>1. /\ JobsOK /\ OpsOK /\ OpType /\ op.at = "find" /\ op.says = "nothing"
      /\ op.cmd \in {"install", "start", "stop", "uninstall"}
      /\ op.cmd = "install" => platform = "launchd" /\ registered # 0
      /\ platform \in {"systemd", "launchd", "scm"}
  BY DEF ServiceInv, OpsOK, StepInv, InstallInv, Find, JobsOK, JobType
<1>2. Quiet
  BY DEF Quiet, Find, JobUnchanged
<1>3. JobsOK' /\ Alive' = Alive /\ job' = job /\ registered' = registered /\ loaded' = loaded /\ platform' = platform
  BY <1>1, <1>2, QuietKeeps DEF Quiet
<1> SUFFICES OpsOK'
  BY <1>3 DEF ServiceInv
<1>4. ASSUME NEW at \in {"look", "stop", "probe", "remove", "begin"}, Goto(at),
             at = "look" => op.cmd = "start" /\ platform # "scm" /\ (platform = "launchd" => registered # 0),
             at = "stop" => op.cmd \in {"stop", "uninstall"} \/ (op.cmd = "install" /\ platform = "launchd"),
             at = "probe" => op.cmd = "install" /\ loaded = 0,
             at = "remove" => op.cmd = "uninstall",
             at = "begin" => op.cmd = "start" /\ platform = "scm"
      PROVE  OpsOK'
  <2>1. Goes(at)
    BY <1>1, <1>4, GotoGoes
  <2>2. StepInv'
    BY <1>1, <1>3, <1>4, <2>1 DEF OpsOK, StepInv, Goes
  <2>3. AskInv' /\ StopInv' /\ InstallInv'
    BY <1>1, <1>3, <1>4, <2>1 DEF AskInv, StopInv, InstallInv, Goes
  <2> QED
    BY <1>1, <2>1, <2>2, <2>3, GoesOps
<1>5. ASSUME NEW says \in Plain, Say(says) PROVE OpsOK'
  BY <1>1, <1>3, <1>5, SayEnds, PlainIsTrue
<1>6. ASSUME NEW says \in {"stopped", "removed"}, Say(says), ~ Alive, job = "stopped",
             op.cmd \in {"stop", "uninstall"},
             says = "removed" => registered = 0 /\ (platform = "launchd" => loaded = 0)
      PROVE  OpsOK'
  BY <1>1, <1>3, <1>6, SayEnds, StoppedIsTrue
<1>7. ASSUME State = "not installed", platform # "launchd"
      PROVE  ~ Alive /\ job = "stopped" /\ registered = 0
  <2>1. CASE platform = "systemd"
    BY <1>1, <1>7, <2>1 DEF State, JobsOK, JobInv, JobType
  <2>2. CASE platform = "scm"
    BY <1>1, <1>7, <2>2 DEF State, JobsOK, JobInv, JobType
  <2> QED
    BY <1>1, <1>7, <2>1, <2>2
<1>8. loaded = 0 /\ platform = "launchd" => ~ Alive /\ job = "stopped"
  BY <1>1 DEF JobsOK, JobInv
<1>9. CASE platform = "systemd" /\ FindUnit
  <2>1. CASE op.cmd = "start"
    BY <1>4, <1>9, <2>1 DEF FindUnit
  <2>2. CASE op.cmd = "stop"
    BY <1>4, <1>9, <2>2 DEF FindUnit
  <2>3. CASE op.cmd = "uninstall" /\ State = "not installed"
    BY <1>6, <1>7, <1>9, <2>3 DEF FindUnit
  <2>4. CASE op.cmd = "uninstall" /\ State # "not installed"
    BY <1>4, <1>9, <2>4 DEF FindUnit
  <2> QED
    BY <1>1, <1>9, <2>1, <2>2, <2>3, <2>4
<1>10. CASE platform = "launchd" /\ FindAgent
  <2>1. CASE op.cmd = "install"
    BY <1>4, <1>10, <2>1 DEF FindAgent
  <2>2. CASE op.cmd = "start"
    BY <1>4, <1>5, <1>10, <2>2 DEF FindAgent, Plain
  <2>3. CASE op.cmd = "stop"
    BY <1>4, <1>6, <1>8, <1>10, <2>3 DEF FindAgent
  <2>4. CASE op.cmd = "uninstall"
    BY <1>4, <1>6, <1>8, <1>10, <2>4 DEF FindAgent
  <2> QED
    BY <1>1, <2>1, <2>2, <2>3, <2>4
<1>11. CASE platform = "scm" /\ FindEntry
  <2>1. CASE State = "not installed"
    BY <1>5, <1>6, <1>7, <1>11, <2>1 DEF FindEntry, Plain
  <2>2. CASE State # "not installed" /\ op.cmd = "uninstall"
    BY <1>4, <1>11, <2>2 DEF FindEntry
  <2>3. CASE State # "not installed" /\ op.cmd = "start"
    BY <1>4, <1>5, <1>11, <2>3 DEF FindEntry, Plain
  <2>4. CASE State # "not installed" /\ op.cmd = "stop"
    BY <1>4, <1>5, <1>11, <2>4 DEF FindEntry, Plain
  <2> QED
    BY <1>1, <1>11, <2>1, <2>2, <2>3, <2>4
<1> QED
  BY <1>9, <1>10, <1>11 DEF Find

\* Whether it was running before (unit_state, launchctl print).
LEMMA LookStep ==
  ASSUME ServiceInv, Look, UNCHANGED <<platform, config>>
  PROVE  ServiceInv'
<1>1. /\ JobsOK /\ OpsOK /\ op.at = "look" /\ op.says = "nothing"
      /\ op' = [op EXCEPT !.at = "probe", !.was = State = "running"]
      /\ op.cmd \in {"install", "start"} /\ (op.cmd = "install" => platform = "systemd" /\ registered # 0)
      /\ platform # "scm" /\ platform \in {"systemd", "launchd", "scm"}
  BY DEF ServiceInv, OpsOK, StepInv, InstallInv, Look, JobsOK, JobType
<1>2. Quiet
  BY DEF Quiet, Look, JobUnchanged
<1>3. JobsOK' /\ Alive' = Alive /\ job' = job /\ registered' = registered /\ platform' = platform
  BY <1>1, <1>2, QuietKeeps DEF Quiet
<1>4. /\ op'.at = "probe" /\ op'.was = (State = "running") /\ op'.cmd = op.cmd /\ op'.says = op.says
      /\ op'.before = op.before /\ op'.seen = op.seen /\ op'.raced = op.raced /\ op'.moved = op.moved
      /\ DOMAIN op' = OpFields
  BY <1>1 DEF OpsOK, OpType, OpFields
<1>5. OpType'
  BY <1>1, <1>4 DEF OpsOK, OpType
<1>6. StepInv'
  BY <1>1, <1>3, <1>4 DEF OpsOK, StepInv
<1>7. AskInv' /\ StopInv' /\ AnswersAreAttributed' /\ StoppedMeansStopped'
  BY <1>1, <1>4 DEF AskInv, StopInv, AnswersAreAttributed, StoppedMeansStopped, Said
<1>8. platform = "systemd" /\ job = "run" => State = "running"
  BY <1>1 DEF State, JobsOK, JobInv
<1>9. InstallInv'
  BY <1>1, <1>3, <1>4, <1>8 DEF InstallInv
<1> QED
  BY <1>3, <1>5, <1>6, <1>7, <1>9 DEF ServiceInv, OpsOK

\* Whether something answers before the command starts anything.
LEMMA ProbeStep ==
  ASSUME ServiceInv, Probe, UNCHANGED <<platform, config>>
  PROVE  ServiceInv'
<1>1. /\ JobsOK /\ OpsOK /\ op.at = "probe" /\ op.says = "nothing"
      /\ op.cmd \in {"install", "start"} /\ platform \in {"systemd", "launchd"}
  BY DEF ServiceInv, OpsOK, StepInv, Probe, JobsOK, JobType
<1>2. Quiet
  BY DEF Quiet, Probe, JobUnchanged
<1>3. /\ JobsOK' /\ Alive' = Alive /\ job' = job /\ registered' = registered /\ platform' = platform
      /\ loaded' = loaded /\ Who' = Who
  BY <1>1, <1>2, QuietKeeps DEF Quiet
<1> DEFINE at == IF platform = "systemd" THEN IF op.cmd = "install" THEN "reload" ELSE "begin"
                 ELSE IF loaded = 0 THEN "bootstrap" ELSE "begin"
<1>4. /\ op'.at = at /\ op'.before = (~ op.was /\ Answers # {}) /\ op'.was = op.was /\ op'.cmd = op.cmd
      /\ op'.says = op.says /\ op'.seen = op.seen /\ op'.raced = op.raced /\ op'.moved = op.moved
      /\ DOMAIN op' = OpFields
  <2>1. op' = [op EXCEPT !.before = ~ op.was /\ Answers # {}, !.at = at]
    BY <1>1 DEF Probe
  <2> QED
    BY <2>1, <1>1 DEF OpsOK, OpType, OpFields
<1>5. OpType'
  BY <1>1, <1>4 DEF OpsOK, OpType
<1>6. StepInv'
  BY <1>1, <1>3, <1>4 DEF OpsOK, StepInv
<1>7. Who \in Foreign => Answers # {}
  BY DEF Who, Answers, Foreign
<1>8. AskInv'
  BY <1>1, <1>3, <1>4, <1>7 DEF AskInv
<1>9. StopInv' /\ AnswersAreAttributed' /\ StoppedMeansStopped'
  BY <1>1, <1>4 DEF StopInv, AnswersAreAttributed, StoppedMeansStopped, Said
<1>10. InstallInv'
  BY <1>1, <1>3, <1>4 DEF OpsOK, InstallInv
<1> QED
  BY <1>3, <1>5, <1>6, <1>8, <1>9, <1>10 DEF ServiceInv, OpsOK

\* daemon-reload: the manager reads the unit.
LEMMA ReloadStep ==
  ASSUME ServiceInv, Reload, UNCHANGED <<platform, config>>
  PROVE  ServiceInv'
<1>1. /\ JobsOK /\ OpsOK /\ OpType /\ op.at = "reload" /\ op.says = "nothing" /\ platform = "systemd"
      /\ op.cmd \in {"install", "uninstall"}
      /\ loaded' = IF op.cmd = "install" \/ (~ Alive /\ job = "stopped") THEN registered ELSE loaded
      /\ UNCHANGED <<platform, config, registered, marked, job, proc, last, holder>>
  BY DEF ServiceInv, OpsOK, StepInv, Reload
<1>2. Alive' = Alive /\ Who' = Who
  BY <1>1 DEF Alive, Who
<1>3. JobsOK'
  <2>1. JobType' /\ JobInv'
    BY <1>1, <1>2 DEF JobsOK, JobType, JobInv
  <2>2. BackoffInv' /\ PlanInv'
    BY <1>1 DEF JobsOK, BackoffInv, PlanInv
  <2> QED
    BY <2>1, <2>2 DEF JobsOK
<1>4. CASE op.cmd = "install"
  <2>1. Goes("begin")
    BY <1>1, <1>4, GotoGoes DEF Reload
  <2>2. StepInv'
    BY <1>1, <1>4, <2>1 DEF OpsOK, StepInv, Goes
  <2>3. AskInv'
    BY <1>1, <1>2, <1>4, <2>1 DEF OpsOK, AskInv, Goes
  <2>4. StopInv'
    BY <2>1 DEF StopInv, Goes
  <2>5. InstallInv'
    BY <1>1, <1>2, <1>4, <2>1 DEF OpsOK, InstallInv, Goes
  <2> QED
    BY <1>1, <1>3, <2>1, <2>2, <2>3, <2>4, <2>5, GoesOps DEF ServiceInv
<1>5. CASE op.cmd = "uninstall" /\ State = "not installed"
  <2>1. Ends("removed")
    BY <1>1, <1>5, SayEnds DEF Reload
  <2>2. ~ Alive /\ job = "stopped" /\ registered = 0
    BY <1>1, <1>5 DEF State, JobsOK, JobInv, JobType
  <2> QED
    BY <1>1, <1>2, <1>3, <1>5, <2>1, <2>2, StoppedIsTrue DEF ServiceInv
<1>6. CASE op.cmd = "uninstall" /\ State # "not installed"
  <2>1. Ends("still there")
    BY <1>1, <1>6, SayEnds DEF Reload
  <2> QED
    BY <1>1, <1>3, <2>1, PlainIsTrue DEF ServiceInv, Plain
<1> QED
  BY <1>1, <1>4, <1>5, <1>6

\* launchctl bootstrap.
LEMMA BootstrapStep ==
  ASSUME ServiceInv, Bootstrap, UNCHANGED <<platform, config>>
  PROVE  ServiceInv'
<1>1. /\ JobsOK /\ OpsOK /\ OpType /\ op.at = "bootstrap" /\ op.says = "nothing" /\ platform = "launchd"
      /\ op.cmd \in {"install", "start"} /\ registered # 0 /\ registered \in Versions \cup {0}
  BY DEF ServiceInv, OpsOK, StepInv, Bootstrap, JobsOK, JobType
<1>2. CASE Say("failed") /\ JobUnchanged
  <2>1. JobsOK'
    BY <1>1, <1>2, QuietKeeps DEF Quiet, JobUnchanged
  <2>2. Ends("failed")
    BY <1>1, <1>2, SayEnds
  <2> QED
    BY <1>1, <2>1, <2>2, PlainIsTrue DEF ServiceInv, Plain
<1>3. CASE ~ (Say("failed") /\ JobUnchanged)
  <2> DEFINE at == IF op.cmd = "install" THEN "wait" ELSE "begin"
  <2>1. /\ loaded' = registered /\ Spawn(registered) /\ Goto(at)
        /\ UNCHANGED <<platform, config, registered, marked, last, holder>>
    BY <1>3 DEF Bootstrap
  <2>2. JobsOK' /\ Alive' /\ job' = "run" /\ proc'.ver = registered
    BY <1>1, <2>1, SpawnKeeps
  <2>3. Goes(at) /\ Who' = Who
    BY <1>1, <2>1, GotoGoes DEF Who
  <2>4. StepInv'
    BY <1>1, <2>1, <2>3 DEF OpsOK, StepInv, Goes
  <2>5. AskInv'
    BY <1>1, <2>1, <2>3 DEF OpsOK, AskInv, Goes
  <2>6. StopInv'
    BY <2>3 DEF StopInv, Goes
  <2>7. InstallInv'
    BY <1>1, <2>1, <2>2, <2>3 DEF OpsOK, InstallInv, Goes, Fresh
  <2> QED
    BY <1>1, <2>2, <2>3, <2>4, <2>5, <2>6, <2>7, GoesOps DEF ServiceInv
<1> QED
  BY <1>2, <1>3

\* The manager is told to start.
LEMMA BeginJobStep ==
  ASSUME ServiceInv, BeginJob, UNCHANGED <<platform, config>>
  PROVE  ServiceInv'
<1>1. /\ JobsOK /\ OpsOK /\ OpType /\ op.at = "begin" /\ op.says = "nothing"
      /\ op.cmd \in {"install", "start"}
      /\ op.cmd = "install" => platform = "systemd" /\ registered # 0 /\ loaded = registered
      /\ loaded \in Versions \cup {0} /\ registered \in Versions \cup {0}
      /\ platform \in {"systemd", "launchd", "scm"} /\ ~ (UnixOnly /\ Alive /\ job = "stopping")
  BY DEF ServiceInv, OpsOK, StepInv, InstallInv, BeginJob, JobsOK, JobType
<1>2. CASE registered = 0 \/ marked \/ (platform = "launchd" /\ loaded = 0)
  <2>1. Say("failed") /\ JobUnchanged
    BY <1>2 DEF BeginJob
  <2>2. JobsOK' /\ Ends("failed")
    BY <1>1, <2>1, QuietKeeps, SayEnds DEF Quiet, JobUnchanged
  <2> QED
    BY <1>1, <2>2, PlainIsTrue DEF ServiceInv, Plain
<1>3. CASE registered # 0 /\ ~ marked /\ ~ (platform = "launchd" /\ loaded = 0)
  <2>1. /\ CASE platform = "scm" /\ Alive -> Say("already running")
             [] platform = "systemd" /\ op.cmd = "install" /\ op.was -> Goto("restart")
             [] OTHER -> Goto("wait")
        /\ IF Alive THEN JobUnchanged
           ELSE /\ loaded' = IF loaded = 0 THEN registered ELSE loaded
                /\ Spawn(loaded')
                /\ UNCHANGED <<registered, marked, last, holder>>
    BY <1>3 DEF BeginJob
  <2>2. /\ JobsOK' /\ registered' = registered /\ Who' = Who
        /\ op.cmd = "install" => loaded' = registered
        /\ Alive => Alive' /\ job' = job /\ proc' = proc
        /\ ~ Alive => job' = "run" /\ proc'.ver = loaded'
    <3>1. CASE Alive
      BY <1>1, <2>1, <3>1, QuietKeeps DEF Quiet, JobUnchanged
    <3>2. CASE ~ Alive
      <4>1. /\ loaded' = IF loaded = 0 THEN registered ELSE loaded
            /\ Spawn(loaded') /\ UNCHANGED <<registered, marked, last, holder>>
        BY <2>1, <3>2
      <4>2. /\ loaded' \in Versions \cup {0} /\ (platform = "launchd" => loaded' # 0)
            /\ (op.cmd = "install" => loaded' = registered)
        BY <1>1, <1>3, <4>1
      <4>3. Who' = Who
        BY <4>1 DEF Who
      <4>4. JobsOK' /\ job' = "run" /\ proc'.ver = loaded'
        BY <1>1, <1>3, <4>1, <4>2, SpawnKeeps
      <4> QED
        BY <3>2, <4>1, <4>2, <4>3, <4>4
    <3> QED
      BY <3>1, <3>2
  <2>3. CASE platform = "scm" /\ Alive
    <3>1. Ends("already running")
      BY <1>1, <2>1, <2>3, SayEnds
    <3> QED
      BY <1>1, <2>2, <3>1, PlainIsTrue DEF ServiceInv, Plain
  <2>4. CASE ~ (platform = "scm" /\ Alive)
    <3> DEFINE at == IF platform = "systemd" /\ op.cmd = "install" /\ op.was THEN "restart" ELSE "wait"
    <3>1. Goto(at)
      BY <2>1, <2>4
    <3>2. Goes(at)
      BY <1>1, <3>1, GotoGoes
    <3>3. StepInv'
      BY <1>1, <2>2, <3>2 DEF OpsOK, StepInv, Goes
    <3>4. AskInv'
      BY <1>1, <2>2, <3>2 DEF OpsOK, AskInv, Goes
    <3>5. StopInv'
      BY <3>2 DEF StopInv, Goes
    <3>6. InstallInv'
      <4>1. SUFFICES ASSUME op.cmd = "install" PROVE InstallInv'
        BY <3>2 DEF InstallInv, Goes
      <4>2. platform' = "systemd" /\ loaded' = registered' /\ registered' # 0
        BY <1>1, <2>2, <4>1
      <4>3. CASE at = "restart"
        BY <3>2, <4>2, <4>3 DEF InstallInv, Goes
      <4>4. CASE at = "wait"
        <5>1. ~ op.was
          BY <1>1, <4>1, <4>4
        <5>2. Alive' /\ ~ op'.raced => proc'.ver = registered'
          <6>1. CASE ~ Alive
            BY <2>2, <4>2, <6>1
          <6>2. CASE Alive
            <7>1. job = "run"
              BY <1>1, <4>1, <6>2 DEF JobsOK, JobInv, UnixOnly
            <7>2. op'.raced = op.raced
              BY <3>2 DEF Goes
            <7> QED
              BY <1>1, <2>2, <4>1, <5>1, <6>2, <7>1, <7>2 DEF OpsOK, InstallInv
          <6> QED
            BY <6>1, <6>2
        <5>3. Fresh'
          BY <4>2, <5>2 DEF Fresh
        <5> QED
          BY <3>2, <4>2, <4>4, <5>3 DEF InstallInv, Goes
      <4> QED
        BY <4>3, <4>4
    <3> QED
      BY <1>1, <2>2, <3>2, <3>3, <3>4, <3>5, <3>6, GoesOps DEF ServiceInv
  <2> QED
    BY <2>3, <2>4
<1> QED
  BY <1>2, <1>3

\* systemctl restart, of a unit that ran already: its process ends.
LEMMA RestartUnitStep ==
  ASSUME ServiceInv, RestartUnit, UNCHANGED <<platform, config>>
  PROVE  ServiceInv'
<1>1. /\ JobsOK /\ OpsOK /\ OpType /\ op.at = "restart" /\ op.says = "nothing"
      /\ op.cmd = "install" /\ platform = "systemd" /\ registered # 0 /\ loaded = registered
      /\ StopJob /\ Goto("restarting")
  BY DEF ServiceInv, OpsOK, StepInv, InstallInv, RestartUnit
<1>2. JobsOK' /\ registered' = registered /\ loaded' = loaded
  BY <1>1, StopJobKeeps
<1>3. Goes("restarting")
  BY <1>1, GotoGoes
<1>4. StepInv'
  BY <1>1, <1>2, <1>3 DEF OpsOK, StepInv, Goes
<1>5. AskInv'
  <2>1. Who' \in Foreign => Who \in Foreign
    <3>1. \A a \in Addresses : holder'[a] \in Foreign => holder[a] \in Foreign
      BY <1>1 DEF StopJob, Exit, Foreign
    <3> QED
      BY <3>1 DEF Who, Foreign
  <2> QED
    BY <1>1, <1>3, <2>1 DEF OpsOK, AskInv, Goes
<1>6. StopInv'
  BY <1>3 DEF StopInv, Goes
<1>7. InstallInv'
  BY <1>1, <1>2, <1>3 DEF InstallInv, Goes
<1> QED
  BY <1>1, <1>2, <1>3, <1>4, <1>5, <1>6, <1>7, GoesOps DEF ServiceInv

\* systemctl restart: another process is started.
LEMMA RestartedStep ==
  ASSUME ServiceInv, Restarted, UNCHANGED <<platform, config>>
  PROVE  ServiceInv'
<1>1. /\ JobsOK /\ OpsOK /\ OpType /\ op.at = "restarting" /\ op.says = "nothing"
      /\ op.cmd = "install" /\ platform = "systemd" /\ registered # 0 /\ loaded = registered
      /\ loaded \in Versions \cup {0} /\ Spawn(loaded) /\ Goto("wait")
      /\ UNCHANGED <<platform, config, registered, marked, loaded, last, holder>>
  BY DEF ServiceInv, OpsOK, StepInv, InstallInv, Restarted, JobsOK, JobType
<1>2. JobsOK' /\ proc'.ver = loaded
  BY <1>1, SpawnKeeps
<1>3. Goes("wait") /\ Who' = Who
  BY <1>1, GotoGoes DEF Who
<1>4. StepInv'
  BY <1>1, <1>3 DEF OpsOK, StepInv, Goes
<1>5. AskInv'
  BY <1>1, <1>3 DEF OpsOK, AskInv, Goes
<1>6. StopInv'
  BY <1>3 DEF StopInv, Goes
<1>7. InstallInv'
  BY <1>1, <1>2, <1>3 DEF InstallInv, Goes, Fresh
<1> QED
  BY <1>1, <1>2, <1>3, <1>4, <1>5, <1>6, <1>7, GoesOps DEF ServiceInv

\* The command waits for an answer, or for as long as it waits.
LEMMA WaitStep ==
  ASSUME ServiceInv, Wait, UNCHANGED <<platform, config>>
  PROVE  ServiceInv'
<1>1. /\ JobsOK /\ OpsOK /\ OpType /\ op.at = "wait" /\ op.says = "nothing"
      /\ op.cmd \in {"install", "start"} /\ (op.cmd = "install" => platform # "scm" /\ registered # 0 /\ Fresh)
      /\ Quiet /\ platform' = platform
  BY DEF ServiceInv, OpsOK, StepInv, InstallInv, Wait, JobUnchanged, Quiet
<1>2. JobsOK' /\ Who' = Who /\ Alive' = Alive
  BY <1>1, QuietKeeps
<1>3. \/ Goto("report") /\ platform # "scm"
      \/ Say("registered") /\ op.cmd = "install"
      \/ \E says \in Plain : Say(says)
  <2>1. CASE platform = "scm"
    <3>1. Say(CASE State = "running" -> "running" [] State = "stopped" -> "failed" [] OTHER -> "loading")
      BY <2>1 DEF Wait
    <3>2. (CASE State = "running" -> "running" [] State = "stopped" -> "failed" [] OTHER -> "loading") \in Plain
      BY DEF Plain
    <3> QED
      BY <3>1, <3>2
  <2>2. CASE platform # "scm"
    <3>1. Goto("report") \/ Say(IF op.cmd = "install" THEN "registered" ELSE "not running")
      BY <2>2 DEF Wait
    <3>2. "not running" \in Plain
      BY DEF Plain
    <3>3. CASE op.cmd = "install"
      BY <2>2, <3>1, <3>3
    <3>4. CASE op.cmd # "install"
      <4>1. Goto("report") \/ Say("not running")
        BY <3>1, <3>4
      <4>2. CASE Goto("report")
        BY <2>2, <4>2
      <4>3. CASE Say("not running")
        <5>1. \E says \in Plain : Say(says)
          BY <3>2, <4>3
        <5> QED
          BY <5>1
      <4> QED
        BY <4>1, <4>2, <4>3
    <3> QED
      BY <3>3, <3>4
  <2> QED
    BY <2>1, <2>2
<1>4. CASE Goto("report") /\ platform # "scm"
  <2>1. Goes("report")
    BY <1>1, <1>4, GotoGoes
  <2>2. StepInv'
    BY <1>1, <1>4, <2>1 DEF OpsOK, StepInv, Goes
  <2>3. AskInv'
    BY <1>1, <1>2, <2>1 DEF OpsOK, AskInv, Goes
  <2>4. StopInv'
    BY <2>1 DEF StopInv, Goes
  <2>5. op.cmd = "install" => Fresh'
    BY <1>1, <1>2, <2>1 DEF Fresh, Goes, Quiet
  <2>6. InstallInv'
    BY <1>1, <2>1, <2>5 DEF InstallInv, Goes, Quiet
  <2> QED
    BY <1>1, <1>2, <2>1, <2>2, <2>3, <2>4, <2>6, GoesOps DEF ServiceInv
<1>5. CASE Say("registered") /\ op.cmd = "install"
  <2>1. Ends("registered")
    BY <1>1, <1>5, SayEnds
  <2>2. Fresh'
    BY <1>1, <1>2, <1>5, <2>1 DEF Fresh, Ends, Quiet
  <2> QED
    BY <1>1, <1>2, <2>1, <2>2, InstalledIsTrue DEF ServiceInv
<1>6. CASE \E says \in Plain : Say(says)
  <2>1. PICK says \in Plain : Ends(says)
    BY <1>1, <1>6, SayEnds
  <2> QED
    BY <1>1, <1>2, <2>1, PlainIsTrue DEF ServiceInv
<1> QED
  BY <1>3, <1>4, <1>5, <1>6

\* What answers, or what the manager says of the unit.
LEMMA ReportStep ==
  ASSUME ServiceInv, Report, UNCHANGED <<platform, config>>
  PROVE  ServiceInv'
<1>1. /\ JobsOK /\ OpsOK /\ OpType /\ op.at = "report" /\ op.says = "nothing" /\ platform # "scm"
      /\ op.cmd \in {"install", "start"} /\ (op.cmd = "install" => registered # 0 /\ Fresh)
      /\ Quiet /\ platform' = platform
  BY DEF ServiceInv, OpsOK, StepInv, InstallInv, Report, JobUnchanged, Quiet
<1>2. JobsOK' /\ Who' = Who /\ Alive' = Alive /\ proc' = proc
  BY <1>1, QuietKeeps DEF Quiet
<1>3. CASE \E pid \in Answers : op' = [op EXCEPT !.seen = pid, !.at = "whose"]
  <2>1. PICK pid \in Answers : op' = [op EXCEPT !.seen = pid, !.at = "whose"]
    BY <1>3
  <2>2. /\ op'.at = "whose" /\ op'.seen = pid /\ op'.was = op.was /\ op'.cmd = op.cmd /\ op'.says = op.says
        /\ op'.before = op.before /\ op'.raced = op.raced /\ op'.moved = op.moved /\ DOMAIN op' = OpFields
    BY <1>1, <2>1 DEF OpType, OpFields
  <2>3. \/ pid = proc.pid /\ pid \in 1 .. 3
        \/ pid = ForeignPid
        \/ pid = NoPid /\ Who = "old"
    BY <1>1 DEF Answers, Who, JobsOK, JobType
  <2>4. OpType'
    BY <1>1, <2>2 DEF OpType
  <2>5. StepInv'
    BY <1>1, <2>2 DEF OpsOK, StepInv
  <2>6. AskInv'
    <3>1. op'.seen \in {NoPid, ForeignPid} \cup 1 .. 3
      BY <2>2, <2>3
    <3>2. op'.seen = NoPid => op'.before \/ op'.was \/ op'.moved
      BY <1>1, <2>2, <2>3 DEF OpsOK, AskInv, Foreign
    <3>3. op'.seen \in 1 .. 3 => proc'.pid = op'.seen
      BY <1>2, <2>2, <2>3
    <3> QED
      BY <2>2, <3>1, <3>2, <3>3 DEF AskInv
  <2>7. StopInv' /\ AnswersAreAttributed' /\ StoppedMeansStopped'
    BY <1>1, <2>2 DEF StopInv, AnswersAreAttributed, StoppedMeansStopped, Said
  <2>8. op.cmd = "install" => Fresh'
    BY <1>1, <1>2, <2>2 DEF Fresh, Quiet
  <2>9. InstallInv'
    BY <1>1, <2>2, <2>8 DEF InstallInv, Quiet
  <2> QED
    BY <1>2, <2>4, <2>5, <2>6, <2>7, <2>9 DEF ServiceInv, OpsOK
<1>4. CASE Say("registered") /\ op.cmd = "install"
  <2>1. Ends("registered")
    BY <1>1, <1>4, SayEnds
  <2>2. Fresh'
    BY <1>1, <1>2, <1>4, <2>1 DEF Fresh, Ends, Quiet
  <2> QED
    BY <1>1, <1>2, <2>1, <2>2, InstalledIsTrue DEF ServiceInv
<1>5. CASE Say("no answer")
  <2>1. Ends("no answer") /\ "no answer" \in Plain
    BY <1>1, <1>5, SayEnds DEF Plain
  <2> QED
    BY <1>1, <1>2, <2>1, PlainIsTrue DEF ServiceInv
<1> QED
  BY <1>3, <1>4, <1>5 DEF Report

\* Whose the answer was.
LEMMA ConcludeStep ==
  ASSUME ServiceInv, Conclude, UNCHANGED <<platform, config>>
  PROVE  ServiceInv'
<1>1. /\ JobsOK /\ OpsOK /\ OpType /\ op.at = "whose" /\ op.says = "nothing"
      /\ op.cmd = "install" => Fresh
      /\ Quiet /\ platform' = platform
      /\ op.seen \in {NoPid, ForeignPid} \cup 1 .. 3
      /\ op.seen = NoPid => op.before \/ op.was \/ op.moved
      /\ op.seen \in 1 .. 3 /\ ~ op.raced /\ Alive => proc.pid = op.seen
  BY DEF ServiceInv, OpsOK, StepInv, InstallInv, AskInv, Conclude, JobUnchanged, Quiet
<1>2. JobsOK' /\ Alive' = Alive /\ proc' = proc
  BY <1>1, QuietKeeps DEF Quiet
<1> DEFINE whose == Whose(op.seen, MainPid)
           says == CASE whose = "ours" -> "serving"
                     [] whose = "unknown" -> IF op.before THEN "answers" ELSE "serving"
                     [] OTHER -> whose
<1>3. Say(says)
  BY DEF Conclude
<1>4. whose \in {"ours", "unknown", "foreign", "likely_foreign"}
  BY DEF Whose
<1>5. /\ whose = "ours" => op.seen # NoPid /\ op.seen \in MainPid
      /\ whose = "unknown" => op.seen = NoPid
      /\ whose = "foreign" => op.seen # NoPid /\ Alive /\ op.seen # proc.pid
  BY DEF Whose, MainPid
<1>6. whose = "ours" => op.seen # ForeignPid
  BY <1>1, <1>5 DEF MainPid, JobsOK, JobType
<1>7. Ends(says)
  BY <1>1, <1>3, SayEnds
<1>8. op.cmd = "install" => Fresh'
  BY <1>1, <1>2, <1>7 DEF Fresh, Ends, Quiet
<1>9. CASE whose = "likely_foreign"
  BY <1>1, <1>2, <1>7, <1>9, PlainIsTrue DEF ServiceInv, Plain
<1>10. CASE whose # "likely_foreign"
  <2>1. says \in {"serving", "answers", "registered", "foreign"}
    BY <1>4, <1>10
  <2>2. says = "serving" => op.seen # ForeignPid /\ (op.seen = NoPid => op.moved \/ op.was)
    BY <1>1, <1>4, <1>5, <1>6
  <2>3. says = "foreign" => op.seen = ForeignPid \/ op.raced
    BY <1>1, <1>4, <1>5
  <2> HIDE DEF says, whose
  <2> QED
    BY <1>1, <1>2, <1>7, <1>8, <2>1, <2>2, <2>3, InstalledIsTrue DEF ServiceInv
<1> QED
  BY <1>9, <1>10

\* The manager is told to stop.
LEMMA StopStep ==
  ASSUME ServiceInv, Stop, UNCHANGED <<platform, config>>
  PROVE  ServiceInv'
<1>1. /\ JobsOK /\ OpsOK /\ OpType /\ op.at = "stop" /\ op.says = "nothing" /\ platform' = platform
      /\ op.cmd \in {"stop", "uninstall"} \/ (op.cmd = "install" /\ platform = "launchd" /\ registered # 0)
      /\ platform \in {"systemd", "launchd", "scm"}
  BY DEF ServiceInv, OpsOK, StepInv, InstallInv, Stop, JobsOK, JobType
<1>2. ASSUME NEW says \in Plain, Say(says), JobUnchanged PROVE ServiceInv'
  <2>1. JobsOK' /\ Ends(says)
    BY <1>1, <1>2, QuietKeeps, SayEnds DEF Quiet, JobUnchanged
  <2> QED
    BY <1>1, <2>1, PlainIsTrue DEF ServiceInv
<1>3. ASSUME NEW at \in {"stopping", "remove"}, Goto(at), JobsOK',
             at = "remove" => op.cmd = "uninstall",
             at = "stopping" /\ (op.cmd = "stop" \/ platform = "launchd") => job' \in {"stopping", "stopped"},
             platform = "launchd" => registered' = registered
      PROVE  ServiceInv'
  <2>1. Goes(at)
    BY <1>1, <1>3, GotoGoes
  <2>2. StepInv'
    BY <1>1, <1>3, <2>1 DEF OpsOK, StepInv, Goes
  <2>3. AskInv' /\ StopInv' /\ InstallInv'
    BY <1>1, <1>3, <2>1 DEF AskInv, StopInv, InstallInv, Goes
  <2> QED
    BY <1>1, <1>3, <2>1, <2>2, <2>3, GoesOps DEF ServiceInv
<1>4. CASE platform = "systemd" /\ op.cmd = "stop" /\ registered = 0
  BY <1>2, <1>4 DEF Stop, Plain
<1>5. CASE platform = "scm" /\ (Loading \/ ~ Alive)
  <2>1. CASE op.cmd = "uninstall"
    <3>1. JobUnchanged /\ Goto("stopping")
      BY <1>5, <2>1 DEF Stop
    <3>2. JobsOK'
      BY <1>1, <3>1, QuietKeeps DEF Quiet, JobUnchanged
    <3> QED
      BY <1>3, <1>5, <2>1, <3>1, <3>2
  <2>2. CASE op.cmd # "uninstall"
    BY <1>2, <1>5, <2>2 DEF Stop, Plain
  <2> QED
    BY <2>1, <2>2
<1>6. CASE /\ ~ (platform = "systemd" /\ op.cmd = "stop" /\ registered = 0)
           /\ ~ (platform = "scm" /\ (Loading \/ ~ Alive))
  <2>1. \/ StopJob /\ Goto("stopping")
        \/ platform = "systemd" /\ op.cmd = "uninstall" /\ Goto("remove") /\ JobUnchanged
    BY <1>6 DEF Stop
  <2>2. CASE StopJob /\ Goto("stopping")
    <3>1. JobsOK' /\ job' \in {"stopping", "stopped"} /\ (platform # "scm" => registered' = registered)
      BY <1>1, <2>2, StopJobKeeps
    <3> QED
      BY <1>3, <2>2, <3>1
  <2>3. CASE platform = "systemd" /\ op.cmd = "uninstall" /\ Goto("remove") /\ JobUnchanged
    <3>1. JobsOK'
      BY <1>1, <2>3, QuietKeeps DEF Quiet, JobUnchanged
    <3> QED
      BY <1>3, <2>3, <3>1
  <2> QED
    BY <2>1, <2>2, <2>3
<1> QED
  BY <1>4, <1>5, <1>6

\* The command waits for the end.
LEMMA StoppingStep ==
  ASSUME ServiceInv, Stopping, UNCHANGED <<platform, config>>
  PROVE  ServiceInv'
<1>1. /\ JobsOK /\ OpsOK /\ OpType /\ op.at = "stopping" /\ op.says = "nothing" /\ platform' = platform
      /\ op.cmd \in {"stop", "uninstall"} \/ (op.cmd = "install" /\ platform = "launchd" /\ registered # 0)
      /\ op.cmd = "stop" \/ platform = "launchd" => job \in {"stopping", "stopped"}
      /\ platform \in {"systemd", "launchd", "scm"} /\ Quiet
  BY DEF ServiceInv, OpsOK, StepInv, StopInv, InstallInv, Stopping, JobsOK, JobType, Quiet, JobUnchanged
<1>2. JobsOK' /\ Alive' = Alive /\ job' = job /\ loaded' = loaded /\ registered' = registered
  BY <1>1, QuietKeeps DEF Quiet
<1>3. ASSUME NEW at \in {"probe", "remove"}, Goto(at),
             at = "probe" => op.cmd = "install" /\ loaded = 0,
             at = "remove" => op.cmd = "uninstall"
      PROVE  ServiceInv'
  <2>1. Goes(at)
    BY <1>1, <1>3, GotoGoes
  <2>2. StepInv'
    BY <1>1, <1>2, <1>3, <2>1 DEF OpsOK, StepInv, Goes
  <2>3. AskInv' /\ StopInv' /\ InstallInv'
    BY <1>1, <1>2, <1>3, <2>1 DEF AskInv, StopInv, InstallInv, Goes
  <2> QED
    BY <1>1, <1>2, <2>1, <2>2, <2>3, GoesOps DEF ServiceInv
<1>4. ASSUME NEW says \in Plain, Say(says) PROVE ServiceInv'
  <2>1. Ends(says)
    BY <1>1, <1>4, SayEnds
  <2> QED
    BY <1>1, <1>2, <2>1, PlainIsTrue DEF ServiceInv
<1> DEFINE gone == IF platform = "launchd" THEN loaded = 0 ELSE ~ Alive
<1>5. CASE gone /\ op.cmd = "install"
  BY <1>1, <1>3, <1>5 DEF Stopping
<1>6. CASE gone /\ op.cmd = "uninstall"
  BY <1>3, <1>6 DEF Stopping
<1>7. CASE gone /\ op.cmd = "stop"
  <2>1. Say("still running") \/ Say("stopped")
    BY <1>7 DEF Stopping
  <2>2. CASE Say("still running")
    BY <1>4, <2>2 DEF Plain
  <2>3. CASE Say("stopped")
    <3>1. Ends("stopped")
      BY <1>1, <2>3, SayEnds
    <3>2. ~ Alive /\ job = "stopped"
      BY <1>1, <1>7 DEF JobsOK, JobInv
    <3> QED
      BY <1>1, <1>2, <1>7, <3>1, <3>2, StoppedIsTrue DEF ServiceInv
  <2> QED
    BY <2>1, <2>2, <2>3
<1>8. CASE ~ gone
  <2>1. IF platform = "scm" /\ op.cmd = "uninstall" THEN Goto("remove") ELSE Say("still running")
    BY <1>8 DEF Stopping
  <2> QED
    BY <1>3, <1>4, <2>1 DEF Plain
<1> QED
  BY <1>1, <1>5, <1>6, <1>7, <1>8

\* The unit, plist or entry is removed.
LEMMA RemoveUnitStep ==
  ASSUME ServiceInv, RemoveUnit, UNCHANGED <<platform, config>>
  PROVE  ServiceInv'
<1>1. /\ JobsOK /\ OpsOK /\ OpType /\ op.at = "remove" /\ op.cmd = "uninstall" /\ op.says = "nothing"
      /\ platform \in {"systemd", "launchd", "scm"} /\ UNCHANGED <<platform, config, proc, last, holder>>
  BY DEF ServiceInv, OpsOK, StepInv, RemoveUnit, JobsOK, JobType
<1>2. Alive' = Alive
  BY <1>1 DEF Alive
<1>3. CASE platform = "scm" /\ Alive
  <2>1. marked' = TRUE /\ Say("marked") /\ UNCHANGED <<registered, loaded, job>>
    BY <1>3 DEF RemoveUnit
  <2>2. JobType' /\ JobInv'
    BY <1>1, <1>2, <1>3, <2>1 DEF JobsOK, JobType, JobInv
  <2>3. BackoffInv' /\ PlanInv'
    BY <1>1, <2>1 DEF JobsOK, BackoffInv, PlanInv
  <2>4. Ends("marked") /\ "marked" \in Plain
    BY <1>1, <2>1, SayEnds DEF Plain
  <2> QED
    BY <1>1, <2>2, <2>3, <2>4, PlainIsTrue DEF ServiceInv, JobsOK
<1>4. CASE platform = "scm" /\ ~ Alive
  <2>1. /\ marked' = FALSE /\ Say("removed") /\ registered' = 0 /\ loaded' = 0 /\ job' = "stopped"
    BY <1>4 DEF RemoveUnit
  <2>2. JobType' /\ JobInv'
    BY <1>1, <1>2, <1>4, <2>1 DEF JobsOK, JobType, JobInv
  <2>3. BackoffInv' /\ PlanInv'
    BY <1>1, <2>1 DEF JobsOK, BackoffInv, PlanInv
  <2>4. Ends("removed")
    BY <1>1, <2>1, SayEnds
  <2> QED
    BY <1>1, <1>2, <1>4, <2>1, <2>2, <2>3, <2>4, StoppedIsTrue DEF ServiceInv, JobsOK
<1>5. CASE platform # "scm"
  <2>1. /\ registered' = 0 /\ UNCHANGED <<marked, loaded, job>>
        /\ IF platform = "systemd" THEN Goto("reload") ELSE Say(IF loaded = 0 THEN "removed" ELSE "still there")
    BY <1>5 DEF RemoveUnit
  <2>2. JobType' /\ JobInv'
    BY <1>1, <1>2, <1>5, <2>1 DEF JobsOK, JobType, JobInv
  <2>3. BackoffInv' /\ PlanInv'
    BY <1>1, <2>1 DEF JobsOK, BackoffInv, PlanInv
  <2>4. JobsOK'
    BY <2>2, <2>3 DEF JobsOK
  <2>5. CASE platform = "systemd"
    <3>1. Goes("reload")
      BY <1>1, <2>1, <2>5, GotoGoes
    <3>2. StepInv'
      BY <1>1, <2>5, <3>1 DEF OpsOK, StepInv, Goes
    <3>3. AskInv' /\ StopInv' /\ InstallInv'
      BY <1>1, <2>5, <3>1 DEF AskInv, StopInv, InstallInv, Goes
    <3> QED
      BY <1>1, <2>4, <3>1, <3>2, <3>3, GoesOps DEF ServiceInv
  <2>6. CASE platform = "launchd" /\ loaded = 0
    <3>1. Ends("removed")
      BY <1>1, <2>1, <2>6, SayEnds
    <3>2. ~ Alive /\ job = "stopped"
      BY <1>1, <2>6 DEF JobsOK, JobInv
    <3> QED
      BY <1>1, <1>2, <2>1, <2>4, <2>6, <3>1, <3>2, StoppedIsTrue DEF ServiceInv
  <2>7. CASE platform = "launchd" /\ loaded # 0
    <3>1. Ends("still there") /\ "still there" \in Plain
      BY <1>1, <2>1, <2>7, SayEnds DEF Plain
    <3> QED
      BY <1>1, <2>4, <3>1, PlainIsTrue DEF ServiceInv
  <2> QED
    BY <1>1, <1>5, <2>5, <2>6, <2>7
<1> QED
  BY <1>3, <1>4, <1>5

\* A command begins, or is interrupted.
LEMMA CommandStep ==
  ASSUME ServiceInv, Interrupt \/ \E cmd \in {"install", "start", "stop", "uninstall"} : Command(cmd)
  PROVE  ServiceInv'
<1>1. Quiet /\ platform' = platform
  BY DEF Quiet, Interrupt, Command
<1>2. JobsOK'
  BY <1>1, QuietKeeps DEF ServiceInv
<1>3. /\ DOMAIN op' = OpFields /\ op'.says = "nothing" /\ op'.was = FALSE
      /\ op'.before = FALSE /\ op'.raced = FALSE /\ op'.moved = FALSE
      /\ \/ op'.cmd = "none" /\ op'.at = "idle"
         \/ op'.cmd = "install" /\ op'.at = "args"
         \/ op'.cmd \in {"start", "stop", "uninstall"} /\ op'.at = "find"
  <2>1. CASE Interrupt
    BY <2>1 DEF Interrupt, Idle, OpFields
  <2>2. ASSUME NEW cmd \in {"install", "start", "stop", "uninstall"}, Command(cmd)
        PROVE  /\ DOMAIN op' = OpFields /\ op'.says = "nothing" /\ op'.was = FALSE
               /\ op'.before = FALSE /\ op'.raced = FALSE /\ op'.moved = FALSE
               /\ \/ op'.cmd = "install" /\ op'.at = "args"
                  \/ op'.cmd \in {"start", "stop", "uninstall"} /\ op'.at = "find"
    <3>1. op' = [Idle EXCEPT !.cmd = cmd, !.at = IF cmd = "install" THEN "args" ELSE "find"]
      BY <2>2 DEF Command
    <3> QED
      BY <3>1 DEF Idle, OpFields
  <2> QED
    BY <2>1, <2>2
<1>4. OpType' /\ StepInv'
  BY <1>3 DEF OpType, StepInv
<1>5. AskInv' /\ StopInv' /\ InstallInv'
  BY <1>3 DEF AskInv, StopInv, InstallInv
<1>6. AnswersAreAttributed' /\ StoppedMeansStopped'
  BY <1>3 DEF AnswersAreAttributed, StoppedMeansStopped, Said
<1> QED
  BY <1>2, <1>4, <1>5, <1>6 DEF ServiceInv, OpsOK

\* The settings, or who holds an address, change under a command.
LEMMA OutsideStep ==
  ASSUME ServiceInv, EditConfig \/ Theft
  PROVE  ServiceInv'
<1>1. /\ JobsOK /\ OpsOK /\ OpType /\ op' = [op EXCEPT !.moved = TRUE]
      /\ UNCHANGED <<platform, registered, marked, loaded, job, proc, last>>
      /\ config' \in Files
  BY DEF ServiceInv, OpsOK, EditConfig, Theft, JobsOK, JobType
<1>2. /\ holder' \in [Addresses -> {"free", "ours"} \cup Foreign]
      /\ \A a \in Addresses : holder[a] = "ours" => holder'[a] = "ours"
  BY <1>1 DEF EditConfig, Theft, JobsOK, JobType, Foreign
<1>3. Alive' = Alive /\ UnixOnly' = UnixOnly
  BY <1>1 DEF Alive, UnixOnly
<1>4. JobsOK'
  <2>1. JobType' /\ JobInv' /\ BackoffInv'
    BY <1>1, <1>2, <1>3 DEF JobsOK, JobType, JobInv, BackoffInv
  <2>2. PlanInv'
    BY <1>1, <1>2 DEF JobsOK, PlanInv
  <2> QED
    BY <2>1, <2>2 DEF JobsOK
<1>5. /\ DOMAIN op' = OpFields /\ op'.cmd = op.cmd /\ op'.at = op.at /\ op'.was = op.was
      /\ op'.before = op.before /\ op'.seen = op.seen /\ op'.says = op.says /\ op'.moved = TRUE
      /\ op'.raced = op.raced
  BY <1>1 DEF OpType, OpFields
<1>6. OpType' /\ StepInv'
  BY <1>1, <1>5 DEF OpsOK, OpType, StepInv
<1>7. AskInv'
  BY <1>1, <1>3, <1>5 DEF OpsOK, AskInv
<1>8. StopInv'
  BY <1>1, <1>5 DEF OpsOK, StopInv
<1>9. InstallInv'
  <2>1. Fresh' = Fresh
    BY <1>1, <1>3, <1>5 DEF Fresh
  <2> QED
    BY <1>1, <1>3, <1>5, <2>1 DEF OpsOK, InstallInv
<1>10. AnswersAreAttributed' /\ StoppedMeansStopped'
  BY <1>1, <1>3, <1>5 DEF OpsOK, AnswersAreAttributed, StoppedMeansStopped, Said
<1> QED
  BY <1>4, <1>6, <1>7, <1>8, <1>9, <1>10 DEF ServiceInv, OpsOK

\* Nothing a property looks at changes.
LEMMA StutterKeeps ==
  ASSUME ServiceInv, Quiet, op' = op
  PROVE  ServiceInv'
<1>1. JobsOK' /\ Who' = Who /\ Alive' = Alive /\ UnixOnly' = UnixOnly
  BY QuietKeeps DEF ServiceInv
<1>2. OpType' /\ StepInv' /\ AskInv' /\ StopInv'
  BY <1>1 DEF ServiceInv, OpsOK, OpType, StepInv, AskInv, StopInv, Quiet
<1>3. InstallInv' /\ AnswersAreAttributed' /\ StoppedMeansStopped'
  BY <1>1 DEF ServiceInv, OpsOK, InstallInv, Fresh, AnswersAreAttributed, StoppedMeansStopped, Said, Quiet
<1> QED
  BY <1>1, <1>2, <1>3 DEF ServiceInv, OpsOK

\* It holds at first.
LEMMA InitHolds == ServiceInit => ServiceInv
<1> SUFFICES ASSUME ServiceInit PROVE ServiceInv
  OBVIOUS
<1>1. /\ platform \in {"systemd", "launchd", "scm"} /\ config \in Files /\ marked = FALSE /\ job = "stopped"
      /\ registered \in Versions \cup {0} /\ loaded \in Versions \cup {0}
      /\ platform = "launchd" => loaded = 0
      /\ holder = [a \in Addresses |-> "free"] /\ op = Idle
      /\ proc = [pid |-> 1, at |-> "none", ver |-> 0, plan |-> Nothing]
  BY ServiceAssumption DEF ServiceInit, NoProcess
<1>2. DOMAIN proc = ProcFields /\ proc.pid = 1 /\ proc.at = "none"
  BY <1>1 DEF ProcFields
<1>3. JobsOK
  <2>1. JobType
    <3>1. holder \in [Addresses -> {"free", "ours"} \cup Foreign]
      BY <1>1
    <3>2. proc.pid \in 1 .. 3 /\ proc.at \in Ats
      BY <1>2 DEF Ats
    <3> QED
      BY <1>1, <1>2, <3>1, <3>2 DEF JobType
  <2>2. JobInv /\ BackoffInv /\ PlanInv
    BY <1>1, <1>2 DEF JobInv, BackoffInv, PlanInv, Alive
  <2> QED
    BY <2>1, <2>2 DEF JobsOK
<1>4. /\ DOMAIN op = OpFields /\ op.cmd = "none" /\ op.at = "idle" /\ op.says = "nothing" /\ op.was = FALSE
      /\ op.before = FALSE /\ op.raced = FALSE /\ op.moved = FALSE
  BY <1>1 DEF Idle, OpFields
<1>5. OpType /\ StepInv /\ AskInv /\ StopInv /\ InstallInv /\ AnswersAreAttributed /\ StoppedMeansStopped
  BY <1>4 DEF OpType, StepInv, AskInv, StopInv, InstallInv, AnswersAreAttributed, StoppedMeansStopped, Said
<1> QED
  BY <1>3, <1>5 DEF ServiceInv, OpsOK

\* Every step keeps the invariant.
LEMMA ServiceStep == ServiceInv /\ [ServiceNext]_serviceVars => ServiceInv'
<1> SUFFICES ASSUME ServiceInv, [ServiceNext]_serviceVars PROVE ServiceInv'
  OBVIOUS
<1>1. CASE Interrupt \/ \E cmd \in {"install", "start", "stop", "uninstall"} : Command(cmd)
  BY <1>1, CommandStep
<1>2. CASE OperatorStep
  <2>1. UNCHANGED <<platform, config>>
    BY <1>2 DEF OperatorStep
  <2> QED
    BY <1>2, <2>1, InstallArgsStep, FindStep, LookStep, ProbeStep, ReloadStep, BootstrapStep,
       BeginJobStep, RestartUnitStep, RestartedStep, WaitStep, ReportStep, ConcludeStep, StopStep,
       StoppingStep, RemoveUnitStep DEF OperatorStep
<1>3. CASE Restart
  BY <1>3, RestartKeeps, RestartOps DEF ServiceInv
<1>4. CASE ProcessStep
  BY <1>4, ProcessKeeps, FadesOps DEF ServiceInv, ProcessStep
<1>5. CASE Kill
  BY <1>5, KillKeeps, FadesOps DEF ServiceInv
<1>6. CASE EditConfig \/ Theft
  BY <1>6, OutsideStep
<1>7. CASE CalmDown \/ UNCHANGED serviceVars
  <2>1. Quiet /\ op' = op
    BY <1>7 DEF CalmDown, serviceVars, Quiet
  <2> QED
    BY <2>1, StutterKeeps
<1> QED
  BY <1>1, <1>2, <1>3, <1>4, <1>5, <1>6, <1>7 DEF ServiceNext

\* Whatever happens between a command's steps, what it says at its end of what is
\* stopped and removed is so; what it says of who answers and runs is so unless
\* the manager restarted the service between two looks that belong together or
\* a server that names no process is about; and systemd and the Windows manager,
\* but not launchd, restart no service whose error would stay.
THEOREM CommandsTellTheTruth == ServiceInit /\ [][ServiceNext]_serviceVars => []ServiceTellsTheTruth
<1>1. ServiceInv => ServiceTellsTheTruth
  <2> SUFFICES ASSUME ServiceInv PROVE ServiceTellsTheTruth
    OBVIOUS
  <2>1. InstalledRuns
    BY DEF ServiceInv, OpsOK, InstallInv, InstalledRuns, Said, Fresh
  <2>2. RestartsAreOfUse
    <3>1. platform # "launchd" => SupervisorsDoNotRetry
      BY DEF ServiceInv, JobsOK, JobType, BackoffInv, SupervisorsDoNotRetry, Killed
    <3> QED
      BY <3>1 DEF ServiceInv, JobsOK, BackoffInv, PlanInv, RestartsAreOfUse
  <2> QED
    BY <2>1, <2>2 DEF ServiceInv, OpsOK, ServiceTellsTheTruth
<1> QED
  BY <1>1, InitHolds, ServiceStep, PTL

----------------------------------------------------------------------------
(* Replies. *)

Replies == [at : {"idle", "admit", "run", "failed"}, status : Nat, said : Nat, left : Nat, moved : BOOLEAN]

\* While nobody has claimed the probe or failed since, what is left of the wait
\* and what is past of the cooldown make up the cooldown.
Sufficient(s) ==
  s.status = 503 =>
    /\ s.said >= 1 /\ (s.said - 1) * Second < Cooldown
    /\ ~ s.moved => breaker.phase = "closed" \/ s.left + breaker.age >= Cooldown

ApiInv ==
  /\ breaker \in Breakers
  /\ client \in [Clients -> Replies]
  /\ \A c \in Clients : Sufficient(client[c])

\* Rounding up to seconds: enough, and not a second too much.
LEMMA CeilEnough ==
  ASSUME NEW n \in Nat \ {0}
  PROVE  /\ CeilSecs(n) \in Nat /\ CeilSecs(n) >= 1
         /\ CeilSecs(n) * Second \in Nat /\ CeilSecs(n) * Second >= n
         /\ (CeilSecs(n) - 1) * Second < n
<1> DEFINE q == n \div Second
           r == n % Second
<1>1. Second \in Nat \ {0}
  BY ApiAssumption
<1>2. q \in Nat /\ r \in Nat /\ r < Second /\ n = Second * q + r
  BY <1>1
<1>3. CeilSecs(n) = q + (IF r > 0 THEN 1 ELSE 0)
  BY DEF CeilSecs
<1> HIDE DEF q, r
<1>4. Second * q \in Nat
  BY <1>1, <1>2
<1>5. CASE r > 0
  <2>1. CeilSecs(n) = q + 1 /\ (q + 1) * Second = Second * q + Second /\ (CeilSecs(n) - 1) * Second = Second * q
    BY <1>1, <1>2, <1>3, <1>5
  <2> QED
    BY <1>1, <1>2, <1>4, <1>5, <2>1
<1>6. CASE r = 0
  <2>1. CeilSecs(n) = q /\ q * Second = Second * q /\ (CeilSecs(n) - 1) * Second = Second * q - Second
    BY <1>1, <1>2, <1>3, <1>6
  <2>2. q # 0
    BY <1>1, <1>2, <1>6
  <2> QED
    BY <1>1, <1>2, <1>4, <1>6, <2>1, <2>2
<1> QED
  BY <1>2, <1>5, <1>6

\* A client's own next state is right, and the others' is told of what moves.
LEMMA BecomesKeeps ==
  ASSUME ApiInv, NEW c \in Clients, NEW s \in Replies, NEW moves \in BOOLEAN, Becomes(c, s, moves),
         breaker' \in Breakers,
         s.status = 503 => /\ s.said >= 1 /\ (s.said - 1) * Second < Cooldown
                           /\ ~ s.moved => breaker'.phase = "closed" \/ s.left + breaker'.age >= Cooldown,
         \/ breaker' = breaker
         \/ breaker'.phase = "closed"
         \/ moves
  PROVE  ApiInv'
<1>1. client' = [d \in Clients |-> IF d = c THEN s
                   ELSE [client[d] EXCEPT !.moved = @ \/ (moves /\ client[d].status = 503)]]
  BY DEF Becomes
<1>2. ASSUME NEW d \in Clients, d # c
      PROVE  /\ client'[d] \in Replies /\ client'[d].status = client[d].status
             /\ client'[d].said = client[d].said /\ client'[d].left = client[d].left
             /\ client'[d].moved = (client[d].moved \/ (moves /\ client[d].status = 503))
  <2>1. client[d] \in Replies
    BY DEF ApiInv
  <2>2. client'[d] = [client[d] EXCEPT !.moved = @ \/ (moves /\ client[d].status = 503)]
    BY <1>1, <1>2
  <2> QED
    BY <2>1, <2>2 DEF Replies
<1>3. client'[c] = s
  BY <1>1
<1>4. client' \in [Clients -> Replies]
  <2>1. \A d \in Clients : client'[d] \in Replies
    BY <1>2, <1>3
  <2> QED
    BY <1>1, <2>1
<1>5. \A d \in Clients : Sufficient(client[d])'
  <2> SUFFICES ASSUME NEW d \in Clients PROVE Sufficient(client[d])'
    OBVIOUS
  <2>1. CASE d = c
    BY <1>3, <2>1 DEF Sufficient
  <2>2. CASE d # c
    <3>1. Sufficient(client[d])
      BY DEF ApiInv
    <3>2. SUFFICES ASSUME client[d].status = 503
                   PROVE  /\ client[d].said >= 1 /\ (client[d].said - 1) * Second < Cooldown
                          /\ ~ client'[d].moved =>
                               breaker'.phase = "closed" \/ client[d].left + breaker'.age >= Cooldown
      BY <1>2, <2>2 DEF Sufficient
    <3>3. client[d].said >= 1 /\ (client[d].said - 1) * Second < Cooldown
      BY <3>1, <3>2 DEF Sufficient
    <3>4. ~ client'[d].moved => ~ client[d].moved /\ ~ moves
      BY <1>2, <2>2, <3>2
    <3>5. ~ client[d].moved => breaker.phase = "closed" \/ client[d].left + breaker.age >= Cooldown
      BY <3>1, <3>2 DEF Sufficient
    <3> QED
      BY <3>3, <3>4, <3>5
  <2> QED
    BY <2>1, <2>2
<1> QED
  BY <1>4, <1>5 DEF ApiInv

\* A reply of no more than a status.
LEMMA ReplyType ==
  ASSUME NEW status \in Nat
  PROVE  /\ [NoReply EXCEPT !.status = status] \in Replies
         /\ [NoReply EXCEPT !.status = status].status = status
  BY DEF NoReply, Replies

\* A reply of any status but 503.
LEMMA ReplyKeeps ==
  ASSUME ApiInv, NEW c \in Clients, NEW status \in Nat \ {503}, Reply(c, status),
         breaker' \in Breakers, breaker' = breaker \/ breaker'.phase = "closed"
  PROVE  ApiInv'
<1> DEFINE s == [NoReply EXCEPT !.status = status]
<1>1. s \in Replies /\ s.status = status
  BY ReplyType
<1>2. Becomes(c, s, FALSE)
  BY DEF Reply
<1> HIDE DEF s
<1> QED
  BY <1>1, <1>2, BecomesKeeps

\* A request goes on, to the breaker or the backend.
LEMMA ArriveKeeps ==
  ASSUME ApiInv, NEW c \in Clients, NEW at \in {"admit", "run", "failed"}, NEW moves \in BOOLEAN,
         Becomes(c, [NoReply EXCEPT !.at = at], moves),
         breaker' \in Breakers, breaker' = breaker \/ breaker'.phase = "closed" \/ moves
  PROVE  ApiInv'
<1> DEFINE s == [NoReply EXCEPT !.at = at]
<1>1. s \in Replies /\ s.status = 0
  BY DEF NoReply, Replies
<1> HIDE DEF s
<1>2. Becomes(c, s, moves)
  BY DEF s
<1> QED
  BY <1>1, <1>2, BecomesKeeps

\* Who is refused is told enough.
LEMMA RefuseKeeps ==
  ASSUME ApiInv, NEW c \in Clients, ReadsOpen(breaker), Refuse(c), breaker' = breaker
  PROVE  ApiInv'
<1> DEFINE n == Cooldown - breaker.age
           said == CeilSecs(n)
           left == said * Second
           s == [NoReply EXCEPT !.status = 503, !.said = said, !.left = left]
<1>1. /\ breaker \in Breakers /\ breaker.age \in 0 .. Cooldown /\ breaker.age < Cooldown /\ Cooldown \in Nat
  BY BreakerAssumption DEF ApiInv, Breakers, ReadsOpen, Allowed, Elapsed
<1>2. n \in Nat \ {0} /\ n <= Cooldown
  BY <1>1
<1>3. Becomes(c, s, FALSE)
  BY DEF Refuse
<1> HIDE DEF n
<1>4. /\ said \in Nat /\ said >= 1 /\ said * Second \in Nat /\ said * Second >= n /\ (said - 1) * Second < n
  BY <1>2, CeilEnough
<1> HIDE DEF said
<1>5. left \in Nat /\ left >= n
  BY <1>4
<1> HIDE DEF left
<1>6. s \in Replies /\ s.status = 503 /\ s.said = said /\ s.left = left
  <2> DEFINE refused == [NoReply EXCEPT !.status = 503]
             told == [refused EXCEPT !.said = said]
  <2>1. s = [told EXCEPT !.left = left]
    OBVIOUS
  <2>2. refused \in Replies /\ refused.status = 503
    <3>1. 503 \in Nat
      OBVIOUS
    <3> QED
      BY <3>1, ReplyType
  <2> HIDE DEF s, refused
  <2>3. told \in Replies /\ told.status = 503 /\ told.said = said
    BY <1>4, <2>2 DEF Replies
  <2> HIDE DEF told
  <2> QED
    BY <1>5, <2>1, <2>3 DEF Replies
<1>7. s.left + breaker.age >= Cooldown
  BY <1>1, <1>5, <1>6 DEF n
<1>8. (s.said - 1) * Second < Cooldown
  <2>1. (said - 1) * Second \in Int
    BY <1>4, ApiAssumption
  <2> QED
    BY <1>1, <1>2, <1>4, <1>6, <2>1
<1> HIDE DEF s
<1> QED
  BY <1>1, <1>3, <1>4, <1>6, <1>7, <1>8, BecomesKeeps

\* The breaker's operations stay in its type.
LEMMA BreakerMoves ==
  ASSUME NEW b \in Breakers
  PROVE  /\ Admit(b) \in Breakers /\ RecordFailure(b) \in Breakers
         /\ RecordSuccess(b) \in Breakers /\ RecordSuccess(b).phase = "closed"
         /\ Older(b) \in Breakers /\ Older(b).phase = b.phase
         /\ Older(b).age = IF b.age < Cooldown THEN b.age + 1 ELSE b.age
<1>1. /\ b.failures \in 0 .. MaxCount /\ b.phase \in Phases /\ b.age \in 0 .. Cooldown
      /\ 0 \in 0 .. Cooldown /\ "half_open" \in Phases
  BY BreakerAssumption DEF Breakers, Phases
<1>2. Admit(b) \in Breakers
  BY <1>1 DEF Admit, Breakers
<1>3. RecordFailure(b) \in Breakers
  BY <1>1, BreakerAssumption DEF RecordFailure, Breakers, Phases
<1>4. RecordSuccess(b) \in Breakers /\ RecordSuccess(b).phase = "closed"
  BY BreakerAssumption DEF RecordSuccess, NewBreaker, Breakers, Phases
<1>5. /\ Older(b) \in Breakers /\ Older(b).phase = b.phase
      /\ Older(b).age = IF b.age < Cooldown THEN b.age + 1 ELSE b.age
  BY <1>1, BreakerAssumption DEF Older, OlderAge, Breakers
<1> QED
  BY <1>2, <1>3, <1>4, <1>5

\* Time passes: who waits has less to wait, and the breaker is older.
LEMMA ApiTick == ASSUME ApiInv, Tick PROVE ApiInv'
<1>1. /\ breaker' = Older(breaker) /\ breaker \in Breakers
      /\ client' = [c \in Clients |-> [client[c] EXCEPT !.left = IF @ > 0 THEN @ - 1 ELSE 0]]
  BY DEF Tick, ApiInv
<1>2. /\ breaker' \in Breakers /\ breaker'.phase = breaker.phase
      /\ breaker'.age = IF breaker.age < Cooldown THEN breaker.age + 1 ELSE breaker.age
      /\ breaker.age \in 0 .. Cooldown /\ Cooldown \in Nat
  BY <1>1, BreakerMoves, BreakerAssumption DEF Breakers
<1>3. ASSUME NEW c \in Clients
      PROVE  client'[c] \in Replies /\ Sufficient(client[c])'
  <2>1. client[c] \in Replies /\ Sufficient(client[c])
    BY DEF ApiInv
  <2>2. client'[c] = [client[c] EXCEPT !.left = IF @ > 0 THEN @ - 1 ELSE 0]
    BY <1>1
  <2>3. /\ client'[c] \in Replies /\ client'[c].status = client[c].status /\ client'[c].said = client[c].said
        /\ client'[c].moved = client[c].moved /\ client[c].left \in Nat
        /\ client'[c].left = IF client[c].left > 0 THEN client[c].left - 1 ELSE 0
    BY <2>1, <2>2 DEF Replies
  <2>4. client[c].left + breaker.age >= Cooldown => client'[c].left + breaker'.age >= Cooldown
    BY <1>2, <2>3
  <2>5. Sufficient(client[c])'
    BY <1>2, <2>1, <2>3, <2>4 DEF Sufficient
  <2> QED
    BY <2>3, <2>5
<1>4. client' \in [Clients -> Replies]
  BY <1>1, <1>3
<1> QED
  BY <1>2, <1>3, <1>4 DEF ApiInv

\* A request comes.
LEMMA ReceiveStep ==
  ASSUME ApiInv, NEW c \in Clients, NEW r \in ApiRequests, Receive(c, r)
  PROVE  ApiInv'
<1>1. breaker' = breaker /\ breaker \in Breakers
  BY DEF Receive, ApiInv
<1>2. BodyStatus(r.body) \in {200, 400, 413, 422} /\ TokenizeStatus(r.tokenizer) \in {200, 400, 500}
  BY DEF BodyStatus, TokenizeStatus
<1>3. \/ ReadsOpen(breaker) /\ Refuse(c)
      \/ \E status \in {200, 400, 401, 413, 422, 500} : Reply(c, status)
      \/ Arrive(c, "admit")
  <2>1. CASE r.remote /\ ~ RequireBearer(r.path, r.header, r.digest)
    BY <2>1 DEF Receive
  <2>2. CASE ~ (r.remote /\ ~ RequireBearer(r.path, r.header, r.digest)) /\ r.path = "/health"
    BY <2>2 DEF Receive
  <2>3. CASE /\ ~ (r.remote /\ ~ RequireBearer(r.path, r.header, r.digest)) /\ r.path # "/health"
             /\ r.path = "/metrics"
    BY <2>3 DEF Receive
  <2>4. CASE /\ ~ (r.remote /\ ~ RequireBearer(r.path, r.header, r.digest)) /\ r.path # "/health"
             /\ r.path # "/metrics"
    <3>1. /\ BodyStatus(r.body) # 200 => Reply(c, BodyStatus(r.body))
          /\ BodyStatus(r.body) = 200 /\ r.path = "/tokenize" => Reply(c, TokenizeStatus(r.tokenizer))
          /\ BodyStatus(r.body) = 200 /\ r.path # "/tokenize" =>
               Reply(c, 400) \/ Arrive(c, "admit")
      BY <2>4 DEF Receive
    <3> QED
      BY <1>2, <3>1
  <2> QED
    BY <2>1, <2>2, <2>3, <2>4
<1>4. CASE ReadsOpen(breaker) /\ Refuse(c)
  BY <1>1, <1>4, RefuseKeeps
<1>5. CASE \E status \in {200, 400, 401, 413, 422, 500} : Reply(c, status)
  <2>1. PICK status \in Nat \ {503} : Reply(c, status)
    BY <1>5
  <2> QED
    BY <1>1, <2>1, ReplyKeeps
<1>6. CASE Arrive(c, "admit")
  <2>1. Becomes(c, [NoReply EXCEPT !.at = "admit"], FALSE)
    BY <1>6 DEF Arrive
  <2> QED
    BY <1>1, <2>1, ArriveKeeps
<1> QED
  BY <1>3, <1>4, <1>5, <1>6

\* Every step keeps the invariant.
LEMMA ApiStep == ApiInv /\ [ApiNext]_apiVars => ApiInv'
<1> SUFFICES ASSUME ApiInv, [ApiNext]_apiVars PROVE ApiInv'
  OBVIOUS
<1>0. breaker \in Breakers
  BY DEF ApiInv
<1>1. ASSUME NEW c \in Clients, NEW r \in ApiRequests, Receive(c, r) PROVE ApiInv'
  BY <1>1, ReceiveStep
<1>2. ASSUME NEW c \in Clients, AskBreaker(c) PROVE ApiInv'
  <2>1. CASE breaker' = Admit(breaker)
             /\ Becomes(c, [NoReply EXCEPT !.at = IF Allowed(breaker) THEN "run" ELSE "failed"], breaker' # breaker)
    <3> DEFINE at == IF Allowed(breaker) THEN "run" ELSE "failed"
               moves == breaker' # breaker
    <3>1. Becomes(c, [NoReply EXCEPT !.at = at], moves) /\ at \in {"admit", "run", "failed"} /\ moves \in BOOLEAN
      BY <2>1
    <3>2. breaker' \in Breakers
      BY <1>0, <2>1, BreakerMoves
    <3>3. breaker' = breaker \/ moves
      OBVIOUS
    <3> HIDE DEF at, moves
    <3> QED
      BY <3>1, <3>2, <3>3, ArriveKeeps
  <2>2. CASE breaker' = breaker /\ Becomes(c, [NoReply EXCEPT !.at = "failed"], FALSE)
    BY <1>0, <2>2, ArriveKeeps
  <2> QED
    BY <1>2, <2>1, <2>2 DEF AskBreaker
<1>3. ASSUME NEW c \in Clients, EmbedResult(c) PROVE ApiInv'
  <2>1. CASE breaker' = RecordSuccess(breaker) /\ Reply(c, 200)
    BY <1>0, <2>1, BreakerMoves, ReplyKeeps
  <2>2. CASE breaker' = breaker /\ Reply(c, 413)
    BY <1>0, <2>2, ReplyKeeps
  <2>3. CASE breaker' = RecordFailure(breaker) /\ Becomes(c, [NoReply EXCEPT !.at = "failed"], TRUE)
    BY <1>0, <2>3, BreakerMoves, ArriveKeeps
  <2> QED
    BY <1>3, <2>1, <2>2, <2>3 DEF EmbedResult
<1>4. ASSUME NEW c \in Clients, BackendFailure(c) PROVE ApiInv'
  <2>1. breaker' = breaker
    BY <1>4 DEF BackendFailure
  <2>2. CASE ReadsOpen(breaker)
    BY <1>4, <2>1, <2>2, RefuseKeeps DEF BackendFailure
  <2>3. CASE ~ ReadsOpen(breaker)
    BY <1>0, <1>4, <2>1, <2>3, ReplyKeeps DEF BackendFailure
  <2> QED
    BY <2>2, <2>3
<1>5. CASE Tick
  BY <1>5, ApiTick
<1>6. CASE UNCHANGED apiVars
  BY <1>6 DEF apiVars, ApiInv, Sufficient
<1> QED
  BY <1>1, <1>2, <1>3, <1>4, <1>5, <1>6 DEF ApiNext

\* The Retry-After of a 503 is at least a second and at most the cooldown, and
\* who waits for it is let through unless another call moved the breaker.
THEOREM RetryAfterIsEnough == ApiInit /\ [][ApiNext]_apiVars => []WaitIsEnough
<1>1. ApiInit => ApiInv
  BY BreakerAssumption DEF ApiInit, ApiInv, NewBreaker, NoReply, Replies, Sufficient, Breakers, Phases
<1>2. ApiInv => WaitIsEnough
  <2> SUFFICES ASSUME ApiInv, NEW c \in Clients, client[c].status = 503
               PROVE  /\ client[c].said >= 1 /\ (client[c].said - 1) * Second < Cooldown
                      /\ client[c].left = 0 /\ ~ client[c].moved => Allowed(breaker)
    BY DEF WaitIsEnough
  <2>1. Sufficient(client[c]) /\ breaker.age \in 0 .. Cooldown
    BY DEF ApiInv, Breakers
  <2> QED
    BY <2>1, BreakerAssumption DEF Sufficient, Allowed, Elapsed
<1> QED
  BY <1>1, <1>2, ApiStep, PTL

----------------------------------------------------------------------------
(* Rejections. *)

Finished == {r \in Rejections : rejected[r].at = "done"}
Told == SumFunctionOnSet([r \in Rejections |-> rejected[r].told], Rejections)

RejectedType ==
  /\ lastWarn \in Nat /\ unreported \in Nat /\ warnings \subseteq Nat
  /\ rejected \in [Rejections -> [at : {"read", "claim", "count", "warn", "done"},
                                  now : Nat, last : Nat, told : Nat]]

\* Who may warn looked long enough after the warning it saw, and only who is
\* done has reported.
RejectedInv ==
  \A r \in Rejections :
    /\ rejected[r].at = "claim" => rejected[r].now >= rejected[r].last + WarnEvery
    /\ rejected[r].at # "done" => rejected[r].told = 0

WarningsInv ==
  /\ \A t \in warnings : t <= lastWarn
  /\ \A t, u \in warnings : t < u => u - t >= WarnEvery

LogInv ==
  /\ RejectedType /\ RejectedInv /\ WarningsInv
  /\ Cardinality(Finished) = unreported + Told

\* A rejection that is not done goes to another place and reports nothing.
LEMMA GoesOn ==
  ASSUME LogInv, NEW r \in Rejections, rejected[r].at # "done",
         NEW at \in {"claim", "count", "warn"}, NEW now \in Nat, NEW seen \in Nat,
         at = "claim" => now >= seen + WarnEvery,
         rejected' = [rejected EXCEPT ![r] = [at |-> at, now |-> now, last |-> seen, told |-> 0]],
         unreported' = unreported
  PROVE  /\ rejected' \in [Rejections -> [at : {"read", "claim", "count", "warn", "done"},
                                          now : Nat, last : Nat, told : Nat]]
         /\ RejectedInv'
         /\ Cardinality(Finished)' = unreported' + Told'
<1>1. rejected \in [Rejections -> [at : {"read", "claim", "count", "warn", "done"},
                                   now : Nat, last : Nat, told : Nat]]
  BY DEF LogInv, RejectedType
<1>2. rejected' \in [Rejections -> [at : {"read", "claim", "count", "warn", "done"},
                                    now : Nat, last : Nat, told : Nat]]
  BY <1>1
<1>3. RejectedInv'
  BY <1>1 DEF LogInv, RejectedInv
<1>4. Finished' = Finished
  BY <1>1 DEF Finished
<1>5. Told' = Told
  <2>1. [q \in Rejections |-> rejected'[q].told] = [q \in Rejections |-> rejected[q].told]
    BY <1>1 DEF LogInv, RejectedInv
  <2> QED
    BY <2>1 DEF Told
<1> QED
  BY <1>2, <1>3, <1>4, <1>5 DEF LogInv

\* A rejection is done: of the two counts, one more.
LEMMA IsDone ==
  ASSUME LogInv, NEW r \in Rejections, rejected[r].at # "done", NEW n \in Nat,
         rejected' = [rejected EXCEPT ![r] = [at |-> "done", now |-> rejected[r].now,
                                              last |-> rejected[r].last, told |-> n]],
         unreported' \in Nat, unreported' + n = unreported + 1,
         UNCHANGED <<lastWarn, warnings>>
  PROVE  LogInv'
<1>1. rejected \in [Rejections -> [at : {"read", "claim", "count", "warn", "done"},
                                   now : Nat, last : Nat, told : Nat]]
  BY DEF LogInv, RejectedType
<1>2. RejectedType'
  BY <1>1 DEF LogInv, RejectedType
<1>3. RejectedInv'
  BY <1>1 DEF LogInv, RejectedInv
<1>4. WarningsInv'
  BY DEF LogInv, WarningsInv
<1>5. Cardinality(Finished') = Cardinality(Finished) + 1
  <2>1. Finished' = Finished \cup {r} /\ r \notin Finished
    BY <1>1 DEF Finished
  <2>2. IsFiniteSet(Finished)
    <3>1. Finished \subseteq Rejections
      BY DEF Finished
    <3> QED
      BY <3>1, RejectionAssumption, FS_Subset
  <2> QED
    BY <2>1, <2>2, FS_AddElement
<1>6. Told' = Told + n /\ Told \in Nat
  <2> DEFINE w == [q \in Rejections |-> rejected[q].told]
             v == [q \in Rejections |-> rejected'[q].told]
  <2>1. /\ \A q \in Rejections : w[q] \in Nat /\ v[q] \in Nat
        /\ \A q \in Rejections \ {r} : v[q] = w[q]
        /\ w[r] = 0 /\ v[r] = n
    BY <1>1 DEF LogInv, RejectedInv
  <2> HIDE DEF w, v
  <2>0. IsFiniteSet(Rejections)
    BY RejectionAssumption
  <2>2. SumFunctionOnSet(v, Rejections) = SumFunctionOnSet(w, Rejections) - w[r] + v[r]
    <3>1. \A y \in Rejections : w[y] \in Nat /\ v[y] \in Nat
      BY <2>1
    <3>2. \A y \in Rejections \ {r} : v[y] = w[y]
      BY <2>1
    <3> QED
      BY <2>0, <3>1, <3>2, SumChange
  <2>3. SumFunctionOnSet(w, Rejections) \in Nat
    BY <2>1, RejectionAssumption, SumType
  <2>4. SumFunctionOnSet(v, Rejections) = SumFunctionOnSet(w, Rejections) + n
    BY <2>1, <2>2, <2>3
  <2> QED
    BY <2>3, <2>4 DEF Told, w, v
<1>7. unreported \in Nat /\ Cardinality(Finished) = unreported + Told
  BY DEF LogInv, RejectedType
<1>8. Cardinality(Finished') = unreported' + Told'
  BY <1>5, <1>6, <1>7
<1> QED
  BY <1>2, <1>3, <1>4, <1>8 DEF LogInv

\* Every access keeps the invariant.
LEMMA LogStep == LogInv /\ [LogNext]_logVars => LogInv'
<1> SUFFICES ASSUME LogInv, [LogNext]_logVars PROVE LogInv'
  OBVIOUS
<1>0. /\ rejected \in [Rejections -> [at : {"read", "claim", "count", "warn", "done"},
                                      now : Nat, last : Nat, told : Nat]]
      /\ lastWarn \in Nat /\ unreported \in Nat /\ warnings \subseteq Nat /\ WarningsInv
  BY DEF LogInv, RejectedType
<1>1. ASSUME NEW r \in Rejections, ReadLast(r) PROVE LogInv'
  <2>1. PICK now \in 0 .. MaxNow :
          rejected' = [rejected EXCEPT ![r] =
                         [at |-> IF SinceWarning(now, lastWarn) >= WarnEvery THEN "claim" ELSE "count",
                          now |-> now, last |-> lastWarn, told |-> 0]]
    BY <1>1 DEF ReadLast
  <2> DEFINE at == IF SinceWarning(now, lastWarn) >= WarnEvery THEN "claim" ELSE "count"
  <2>2. now \in Nat /\ at \in {"claim", "count", "warn"}
    BY RejectionAssumption
  <2>3. at = "claim" => now >= lastWarn + WarnEvery
    BY <1>0, <2>2, RejectionAssumption DEF SinceWarning
  <2>4. rejected[r].at # "done" /\ UNCHANGED <<lastWarn, unreported, warnings>>
    BY <1>1 DEF ReadLast
  <2>5. rejected' = [rejected EXCEPT ![r] = [at |-> at, now |-> now, last |-> lastWarn, told |-> 0]]
    BY <2>1
  <2> HIDE DEF at
  <2>6. /\ rejected' \in [Rejections -> [at : {"read", "claim", "count", "warn", "done"},
                                         now : Nat, last : Nat, told : Nat]]
        /\ RejectedInv' /\ Cardinality(Finished)' = unreported' + Told'
    <3>1. lastWarn \in Nat /\ unreported' = unreported
      BY <1>0, <2>4
    <3> QED
      BY <2>2, <2>3, <2>4, <2>5, <3>1, GoesOn
  <2>7. RejectedType' /\ WarningsInv'
    BY <1>0, <2>4, <2>6 DEF RejectedType, WarningsInv
  <2> QED
    BY <2>6, <2>7 DEF LogInv
<1>2. ASSUME NEW r \in Rejections, ClaimWarning(r) PROVE LogInv'
  <2> DEFINE at == IF lastWarn = rejected[r].last THEN "warn" ELSE "count"
  <2>1. /\ rejected[r].now \in Nat /\ rejected[r].last \in Nat /\ rejected[r].told = 0
        /\ rejected[r].now >= rejected[r].last + WarnEvery
        /\ rejected[r].at # "done" /\ at \in {"claim", "count", "warn"} /\ at # "claim"
    BY <1>0, <1>2 DEF ClaimWarning, LogInv, RejectedInv
  <2>2. rejected' = [rejected EXCEPT ![r].at = at] /\ unreported' = unreported
    BY <1>2 DEF ClaimWarning
  <2> HIDE DEF at
  <2>3. rejected' = [rejected EXCEPT ![r] = [at |-> at, now |-> rejected[r].now,
                                             last |-> rejected[r].last, told |-> 0]]
    <3>1. [rejected[r] EXCEPT !.at = at]
            = [at |-> at, now |-> rejected[r].now, last |-> rejected[r].last, told |-> 0]
      BY <1>0, <2>1
    <3> QED
      BY <1>0, <2>2, <3>1
  <2>4. /\ rejected' \in [Rejections -> [at : {"read", "claim", "count", "warn", "done"},
                                         now : Nat, last : Nat, told : Nat]]
        /\ RejectedInv' /\ Cardinality(Finished)' = unreported' + Told'
    <3>1. PICK now \in Nat, seen \in Nat : now = rejected[r].now /\ seen = rejected[r].last
      BY <2>1
    <3>2. rejected' = [rejected EXCEPT ![r] = [at |-> at, now |-> now, last |-> seen, told |-> 0]]
      BY <2>3, <3>1
    <3>3. at = "claim" => now >= seen + WarnEvery
      BY <2>1
    <3>4. at \in {"claim", "count", "warn"} /\ rejected[r].at # "done" /\ unreported' = unreported
      BY <2>1, <2>2
    <3> QED
      BY <3>2, <3>3, <3>4, GoesOn
  <2>5. lastWarn' \in Nat /\ unreported' \in Nat /\ warnings' \subseteq Nat
    BY <1>0, <1>2, <2>1 DEF ClaimWarning
  <2>6. WarningsInv'
    <3>1. CASE lastWarn = rejected[r].last
      <4>1. lastWarn' = rejected[r].now /\ warnings' = warnings \cup {rejected[r].now}
        BY <1>2, <3>1 DEF ClaimWarning
      <4>2. \A t \in warnings : t \in Nat /\ t <= lastWarn /\ t + WarnEvery <= rejected[r].now
        BY <1>0, <2>1, <3>1, RejectionAssumption DEF WarningsInv
      <4>3. \A t \in warnings' : t <= lastWarn'
        BY <2>1, <4>1, <4>2, RejectionAssumption
      <4>4. \A t, u \in warnings' : t < u => u - t >= WarnEvery
        BY <1>0, <2>1, <4>1, <4>2, RejectionAssumption DEF WarningsInv
      <4> QED
        BY <4>3, <4>4 DEF WarningsInv
    <3>2. CASE lastWarn # rejected[r].last
      BY <1>0, <1>2, <3>2 DEF ClaimWarning, WarningsInv
    <3> QED
      BY <3>1, <3>2
  <2> QED
    BY <2>4, <2>5, <2>6 DEF LogInv, RejectedType
<1>3. ASSUME NEW r \in Rejections, Warn(r) PROVE LogInv'
  <2>1. /\ rejected' = [rejected EXCEPT ![r].at = "done", ![r].told = unreported + 1]
        /\ unreported' = 0 /\ rejected[r].at # "done" /\ UNCHANGED <<lastWarn, warnings>>
    BY <1>3 DEF Warn
  <2>2. rejected' = [rejected EXCEPT ![r] = [at |-> "done", now |-> rejected[r].now,
                                             last |-> rejected[r].last, told |-> unreported + 1]]
    <3> DEFINE n == unreported + 1
               done == [rejected[r] EXCEPT !.at = "done"]
    <3>1. rejected' = [rejected EXCEPT ![r] = [done EXCEPT !.told = n]]
      BY <1>0, <2>1
    <3>2. n \in Nat
      BY <1>0
    <3> HIDE DEF n
    <3>3. done = [at |-> "done", now |-> rejected[r].now, last |-> rejected[r].last,
                  told |-> rejected[r].told]
      BY <1>0
    <3> HIDE DEF done
    <3>4. [done EXCEPT !.told = n] = [at |-> "done", now |-> rejected[r].now,
                                      last |-> rejected[r].last, told |-> n]
      BY <3>3
    <3> QED
      BY <3>1, <3>4 DEF n
  <2> DEFINE n == unreported + 1
  <2>3. n \in Nat /\ unreported' \in Nat /\ unreported' + n = unreported + 1
    BY <1>0, <2>1
  <2>4. rejected' = [rejected EXCEPT ![r] = [at |-> "done", now |-> rejected[r].now,
                                             last |-> rejected[r].last, told |-> n]]
    BY <2>2
  <2> HIDE DEF n
  <2> QED
    BY <2>1, <2>3, <2>4, IsDone
<1>4. ASSUME NEW r \in Rejections, CountQuietly(r) PROVE LogInv'
  <2>1. /\ rejected' = [rejected EXCEPT ![r].at = "done"] /\ unreported' = unreported + 1
        /\ rejected[r].at # "done" /\ rejected[r].told = 0 /\ UNCHANGED <<lastWarn, warnings>>
    BY <1>4 DEF CountQuietly, LogInv, RejectedInv
  <2>2. rejected' = [rejected EXCEPT ![r] = [at |-> "done", now |-> rejected[r].now,
                                             last |-> rejected[r].last, told |-> 0]]
    <3>1. [rejected[r] EXCEPT !.at = "done"]
            = [at |-> "done", now |-> rejected[r].now, last |-> rejected[r].last, told |-> 0]
      BY <1>0, <2>1
    <3> QED
      BY <1>0, <2>1, <3>1
  <2>3. 0 \in Nat /\ unreported' \in Nat /\ unreported' + 0 = unreported + 1
    BY <1>0, <2>1
  <2> QED
    BY <2>1, <2>2, <2>3, IsDone
<1>5. CASE UNCHANGED logVars
  BY <1>5 DEF logVars, LogInv, RejectedType, RejectedInv, WarningsInv, Finished, Told
<1> QED
  BY <1>1, <1>2, <1>3, <1>4, <1>5 DEF LogNext

\* Whatever the accesses to the two atomic words and the clock do, every
\* rejection is in exactly one warning or still counted, and any two warnings
\* are apart.
THEOREM NoRejectionIsLost == LogInit /\ [][LogNext]_logVars => []RejectionsAreAccountedFor
<1>1. LogInit => LogInv
  <2> SUFFICES ASSUME LogInit PROVE LogInv
    OBVIOUS
  <2> DEFINE w == [r \in Rejections |-> rejected[r].told]
  <2>1. RejectedType /\ RejectedInv /\ WarningsInv /\ Finished = {} /\ \A r \in Rejections : w[r] = 0
    BY DEF LogInit, RejectedType, RejectedInv, WarningsInv, Finished
  <2> HIDE DEF w
  <2>2. Units(w, Rejections) = {}
    <3>1. 1 .. 0 = {}
      OBVIOUS
    <3> QED
      BY <2>1, <3>1 DEF Units
  <2>3. SumFunctionOnSet(w, Rejections) = 0
    BY <2>1, <2>2, RejectionAssumption, SumIsCount, FS_EmptySet
  <2>4. Cardinality(Finished) = unreported + Told
    BY <2>1, <2>3, FS_EmptySet DEF LogInit, Told, w
  <2> QED
    BY <2>1, <2>4 DEF LogInv
<1>2. LogInv => RejectionsAreAccountedFor
  <2> DEFINE w == [r \in Rejections |-> rejected[r].told]
  <2>1. FoldFunction(+, 0, w) = SumFunctionOnSet(w, Rejections)
    BY DEF FoldFunction, SumFunctionOnSet
  <2> QED
    BY <2>1 DEF LogInv, WarningsInv, Finished, Told, RejectionsAreAccountedFor
<1> QED
  BY <1>1, <1>2, LogStep, PTL

----------------------------------------------------------------------------
(* Starting: what is read, what is prepared, what is checked. *)

\* What is loaded: the table of --set, if it counts, and that of the file.
LEMMA WhatIsLoaded ==
  ASSUME NEW c, NEW o \in BOOLEAN, LoadWith(c, o).ok
  PROVE  /\ LoadFile(c.file).ok /\ LoadWith(c, o).value.file = LoadFile(c.file).value
         /\ LoadWith(c, o).value.set = IF o /\ c.set # {} THEN (CHOOSE t \in c.set : TRUE).table ELSE <<>>
<1> DEFINE place == Locate(c.explicit, c.env)
           set == IF o /\ c.set # {} THEN ParseSet(CHOOSE t \in c.set : TRUE, Keys) ELSE Good(<<>>)
           file == LoadFile(c.file)
<1>1. LoadWith(c, o) = IF place.ok
                       THEN IF set.ok
                            THEN IF file.ok THEN Good([set |-> set.value, file |-> file.value]) ELSE file
                            ELSE set
                       ELSE place
  BY DEF LoadWith, Then
<1>2. set.ok => set.value = IF o /\ c.set # {} THEN (CHOOSE t \in c.set : TRUE).table ELSE <<>>
  BY DEF ParseSet, Good, ConfigError, Bad
<1> HIDE DEF place, set, file
<1>3. place.ok /\ set.ok /\ file.ok /\ LoadWith(c, o) = Good([set |-> set.value, file |-> file.value])
  BY <1>1
<1>4. /\ LoadWith(c, o).value.set = set.value /\ LoadWith(c, o).value.file = file.value
  BY <1>3 DEF Good
<1> QED
  BY <1>2, <1>3, <1>4 DEF file

\* A value that is read is the value that is there.
LEMMA ReadsTheValue ==
  ASSUME NEW key, NEW raw, NEW got, got.ok,
         got = IF FromToml(key, raw).ok THEN Good({FromToml(key, raw).value}) ELSE FromToml(key, raw)
  PROVE  got.value = {raw.val}
<1> DEFINE r == FromToml(key, raw)
<1>1. r = Good(raw.val) \/ r = ConfigError
  <2> DEFINE fits == CASE key.kind = "bool" -> raw.type = "bool"
                       [] key.kind = "int"  -> raw.type = "int" /\ raw.val >= key.min /\ raw.val <= key.max
                       [] key.kind = "str"  -> raw.type = "str"
                       [] key.kind = "path" -> raw.type = "str" /\ raw.val # ""
  <2>1. r = IF fits THEN Good(raw.val) ELSE ConfigError
    BY DEF FromToml
  <2> HIDE DEF fits, r
  <2> QED
    BY <2>1
<1>2. got = IF r.ok THEN Good({r.value}) ELSE r
  OBVIOUS
<1> HIDE DEF r
<1>3. r.ok
  BY <1>2
<1>4. r = Good(raw.val)
  BY <1>1, <1>3 DEF ConfigError, Bad
<1>5. r.value = raw.val
  BY <1>4 DEF Good
<1>6. got = Good({raw.val})
  BY <1>2, <1>3, <1>5
<1> QED
  BY <1>6 DEF Good

\* A key is worth what --set or the file gives it.
LEMMA GetIsGiven ==
  ASSUME NEW q, WellFormed(q.config), q.overrides \in BOOLEAN, NEW key, LoadWith(q.config, q.overrides).ok
  PROVE  LET got == Get(LoadWith(q.config, q.overrides).value, key)
         IN  /\ Given(q, key) = {} \/ \E v : Given(q, key) = {v}
             /\ got.ok => got.value = Given(q, key)
             /\ Given(q, key) = {} => got = Good({})
<1> DEFINE c == q.config
           o == q.overrides
           cfg == LoadWith(c, o).value
           got == Get(cfg, key)
           k == key.name
           set == UNION {{t.table[n].val : n \in DOMAIN t.table \cap {k}} : t \in {t \in c.set : o}}
           file == IF c.file.state # "good" THEN {}
                   ELSE {c.file.table[n].val : n \in DOMAIN c.file.table \cap {k}}
<1>1. Given(q, key) = IF set # {} THEN set ELSE file
  BY DEF Given
<1>2. /\ LoadFile(c.file).ok /\ cfg.file = LoadFile(c.file).value
      /\ cfg.set = IF o /\ c.set # {} THEN (CHOOSE t \in c.set : TRUE).table ELSE <<>>
  BY WhatIsLoaded
<1>3. set = IF k \in DOMAIN cfg.set THEN {cfg.set[k].val} ELSE {}
  <2>1. CASE o /\ c.set # {}
    <3>1. PICK t \in c.set : t = CHOOSE u \in c.set : TRUE
      BY <2>1
    <3>2. c.set = {t}
      BY DEF WellFormed, Optional
    <3>3. cfg.set = t.table
      BY <1>2, <2>1, <3>1
    <3>4. {u \in c.set : o} = {t}
      BY <2>1, <3>2
    <3> HIDE DEF cfg, c, o, k
    <3>5. set = {t.table[n].val : n \in DOMAIN t.table \cap {k}}
      BY <3>4
    <3> QED
      BY <3>3, <3>5
  <2>2. CASE ~ (o /\ c.set # {})
    <3>1. cfg.set = <<>> /\ DOMAIN <<>> = {}
      BY <1>2, <2>2
    <3>2. {u \in c.set : o} = {}
      BY <2>2
    <3> HIDE DEF cfg, c, o, k
    <3> QED
      BY <3>1, <3>2
  <2> QED
    BY <2>1, <2>2
<1>4. file = IF k \in DOMAIN cfg.file THEN {cfg.file[k].val} ELSE {}
  <2>1. c.file.state \in {"absent", "good", "unreadable", "not_utf8", "not_toml"}
    BY DEF WellFormed
  <2>2. CASE c.file.state = "good"
    <3>1. cfg.file = c.file.table
      BY <1>2, <2>2 DEF LoadFile, Good
    <3> HIDE DEF cfg, c, k
    <3> QED
      BY <2>2, <3>1
  <2>3. CASE c.file.state = "absent"
    <3>1. cfg.file = <<>>
      BY <1>2, <2>3 DEF LoadFile, Good
    <3>2. DOMAIN cfg.file = {}
      BY <3>1
    <3> HIDE DEF cfg, c, k
    <3> QED
      BY <2>3, <3>2
  <2>4. CASE c.file.state \in {"unreadable", "not_utf8", "not_toml"}
    BY <1>2, <2>4 DEF LoadFile, ConfigError, Bad
  <2> QED
    BY <2>1, <2>2, <2>3, <2>4
<1> HIDE DEF cfg, set, file, c, o
<1>5. CASE k \in DOMAIN cfg.set
  <2>1. Given(q, key) = {cfg.set[k].val}
    BY <1>1, <1>3, <1>5
  <2>2. got = IF FromToml(key, cfg.set[k]).ok THEN Good({FromToml(key, cfg.set[k]).value})
              ELSE FromToml(key, cfg.set[k])
    BY <1>5 DEF Get, Then
  <2>3. got.ok => got.value = {cfg.set[k].val}
    <3> HIDE DEF got
    <3> QED
      BY <2>2, ReadsTheValue
  <2> QED
    BY <2>1, <2>3 DEF cfg, c, o
<1>6. CASE k \notin DOMAIN cfg.set /\ k \in DOMAIN cfg.file
  <2>1. Given(q, key) = {cfg.file[k].val}
    BY <1>1, <1>3, <1>4, <1>6
  <2>2. got = IF FromToml(key, cfg.file[k]).ok THEN Good({FromToml(key, cfg.file[k]).value})
              ELSE FromToml(key, cfg.file[k])
    BY <1>6 DEF Get, Then
  <2>3. got.ok => got.value = {cfg.file[k].val}
    <3> HIDE DEF got
    <3> QED
      BY <2>2, ReadsTheValue
  <2> QED
    BY <2>1, <2>3 DEF cfg, c, o
<1>7. CASE k \notin DOMAIN cfg.set /\ k \notin DOMAIN cfg.file
  <2>1. Given(q, key) = {}
    BY <1>1, <1>3, <1>4, <1>7
  <2>2. got = Good({})
    BY <1>7 DEF Get, Then
  <2> QED
    BY <2>1, <2>2 DEF Good, cfg, c, o
<1> QED
  BY <1>5, <1>6, <1>7

\* With its default.
LEMMA GetOrIsInEffect ==
  ASSUME NEW q, WellFormed(q.config), q.overrides \in BOOLEAN, NEW key, NEW default,
         LoadWith(q.config, q.overrides).ok,
         GetOr(LoadWith(q.config, q.overrides).value, key, default).ok
  PROVE  /\ GetOr(LoadWith(q.config, q.overrides).value, key, default).value = InEffect(q, key, default)
         /\ Get(LoadWith(q.config, q.overrides).value, key).ok
<1> DEFINE cfg == LoadWith(q.config, q.overrides).value
           got == Get(cfg, key)
<1>1. got.ok => got.value = Given(q, key)
  BY GetIsGiven
<1> HIDE DEF cfg
<1>2. GetOr(cfg, key, default) = IF got.ok THEN Good(IF got.value = {} THEN default ELSE CHOOSE x \in got.value : TRUE)
                                 ELSE got
  BY DEF GetOr, Then
<1> HIDE DEF got
<1>3. got.ok
  BY <1>2 DEF cfg
<1>4. GetOr(cfg, key, default).value = IF got.value = {} THEN default ELSE CHOOSE x \in got.value : TRUE
  BY <1>2, <1>3 DEF Good
<1> QED
  BY <1>1, <1>3, <1>4 DEF InEffect, cfg, got

\* Values read one by one are good if each of them is.
LEMMA AllGoodReads ==
  ASSUME NEW read, AllGood(read).ok
  PROVE  /\ \A f \in DOMAIN read : read[f].ok /\ AllGood(read).value[f] = read[f].value
         /\ AllGood(read).value = [f \in DOMAIN read |-> read[f].value]
BY DEF AllGood, Good, ConfigError, Bad

\* The token's digest, where it is read: for a remote listener.
TokenRead(cfg, disk, readToken) ==
  IF Get(cfg, RemoteListen).ok
  THEN IF readToken /\ Get(cfg, RemoteListen).value # {} THEN ReadSecret(disk.secrets) ELSE Good({})
  ELSE Get(cfg, RemoteListen)

\* The security settings, one by one.
LEMMA SecurityRead ==
  ASSUME NEW cfg, NEW disk, NEW readToken \in BOOLEAN, SecuritySettings(cfg, disk, readToken).ok
  PROVE  LET sec == SecuritySettings(cfg, disk, readToken).value
         IN  /\ FipsTier(cfg).ok /\ sec.tier = FipsTier(cfg).value
             /\ Get(cfg, RemoteListen).ok /\ sec.remote = Get(cfg, RemoteListen).value
             /\ Get(cfg, TlsCert).ok /\ sec.cert = Get(cfg, TlsCert).value
             /\ Get(cfg, TlsKey).ok /\ sec.key = Get(cfg, TlsKey).value
             /\ TokenRead(cfg, disk, readToken).ok /\ sec.token = TokenRead(cfg, disk, readToken).value
             /\ DOMAIN sec = {"tier", "remote", "secretsFile", "cert", "key", "token"}
<1> DEFINE read == [tier |-> FipsTier(cfg), remote |-> Get(cfg, RemoteListen), secretsFile |-> Get(cfg, SecretsFile),
                    cert |-> Get(cfg, TlsCert), key |-> Get(cfg, TlsKey), token |-> TokenRead(cfg, disk, readToken)]
           sec == SecuritySettings(cfg, disk, readToken).value
<1>1. SecuritySettings(cfg, disk, readToken) = AllGood(read)
  BY DEF SecuritySettings, TokenRead, Then
<1>2. /\ DOMAIN read = {"tier", "remote", "secretsFile", "cert", "key", "token"}
      /\ read.tier = FipsTier(cfg) /\ read.remote = Get(cfg, RemoteListen) /\ read.cert = Get(cfg, TlsCert)
      /\ read.key = Get(cfg, TlsKey) /\ read.token = TokenRead(cfg, disk, readToken)
  OBVIOUS
<1> HIDE DEF read
<1>0. AllGood(read).ok /\ sec = AllGood(read).value
  BY <1>1
<1> HIDE DEF sec
<1>3. \A f \in DOMAIN read : read[f].ok /\ sec[f] = read[f].value
  BY <1>0, AllGoodReads
<1>4. sec = [f \in DOMAIN read |-> read[f].value]
  BY <1>0, AllGoodReads
<1>5. DOMAIN sec = DOMAIN read
  BY <1>4
<1> QED
  BY <1>2, <1>3, <1>5 DEF sec

\* The settings, one by one.
LEMMA SettingsRead ==
  ASSUME NEW c, NEW o \in BOOLEAN, Resolved(c, o).ok
  PROVE  LET cfg == LoadWith(c, o).value
             s   == Resolved(c, o).value
             ctx == GetOr(cfg, Ctx, DefaultCtx)
         IN  /\ LoadWith(c, o).ok /\ ctx.ok
             /\ GetOr(cfg, Host, DefaultHost).ok /\ s.host = GetOr(cfg, Host, DefaultHost).value
             /\ GetOr(cfg, Port, DefaultPort).ok /\ s.port = GetOr(cfg, Port, DefaultPort).value
             /\ GetOr(cfg, NBatch, ctx.value).ok /\ s.nBatch = GetOr(cfg, NBatch, ctx.value).value
             /\ SecuritySettings(cfg, c.disk, TRUE).ok
             /\ s.security = SecuritySettings(cfg, c.disk, TRUE).value
<1> DEFINE load == LoadWith(c, o)
           cfg == load.value
           gguf == Get(cfg, Gguf)
           ctx == GetOr(cfg, Ctx, DefaultCtx)
           read == [host     |-> GetOr(cfg, Host, DefaultHost), port |-> GetOr(cfg, Port, DefaultPort),
                    streams  |-> GetOr(cfg, Streams, c.streams),  seqMax |-> GetOr(cfg, SeqMax, 32),
                    nBatch   |-> GetOr(cfg, NBatch, ctx.value), nUbatch |-> GetOr(cfg, NUbatch, ctx.value),
                    coalesce |-> GetOr(cfg, CoalesceMs, 3),
                    maxBatchTokens |-> GetOr(cfg, MaxBatchTokens, 2048),
                    security |-> SecuritySettings(cfg, c.disk, TRUE)]
           s == Resolved(c, o).value
<1>1. Resolved(c, o) = IF load.ok THEN ResolveConfig(cfg, c.disk, c.streams) ELSE load
  BY DEF Resolved, Then
<1>2. ResolveConfig(cfg, c.disk, c.streams) =
        IF gguf.ok
        THEN IF gguf.value \cap c.disk.models = {} THEN Bad("other")
             ELSE IF ctx.ok THEN AllGood(read) ELSE ctx
        ELSE gguf
  BY DEF ResolveConfig, Then
<1>3. /\ {"host", "port", "nBatch", "security"} \subseteq DOMAIN read
      /\ read.host = GetOr(cfg, Host, DefaultHost) /\ read.port = GetOr(cfg, Port, DefaultPort)
      /\ read.nBatch = GetOr(cfg, NBatch, ctx.value) /\ read.security = SecuritySettings(cfg, c.disk, TRUE)
  OBVIOUS
<1> HIDE DEF load, gguf, ctx, read
<1>4. load.ok /\ ctx.ok /\ Resolved(c, o) = AllGood(read)
  BY <1>1, <1>2 DEF Bad
<1>7. AllGood(read).ok /\ s = AllGood(read).value
  BY <1>4
<1> HIDE DEF s
<1>5. \A f \in DOMAIN read : read[f].ok /\ s[f] = read[f].value
  BY <1>7, AllGoodReads
<1>6. /\ read.host.ok /\ s.host = read.host.value /\ read.port.ok /\ s.port = read.port.value
      /\ read.nBatch.ok /\ s.nBatch = read.nBatch.value
      /\ read.security.ok /\ s.security = read.security.value
  BY <1>3, <1>5
<1> QED
  BY <1>3, <1>4, <1>6 DEF load, ctx, s

\* What is gone on with: what PlanAdmits, as it is.
LEMMA PreparedFrom ==
  ASSUME NEW c, NEW o \in BOOLEAN, Prepare(c, o).ok
  PROVE  LET s     == Resolved(c, o).value
             local == [ip |-> s.host, port |-> s.port]
             plan  == Prepare(c, o).value
         IN  /\ Resolved(c, o).ok
             /\ local.ip \in Ips /\ PlanAdmits(local, s.security, c.disk)
             /\ plan.local = local /\ plan.settings = s
             /\ plan.remote = {ParseListen(t, s.port).value : t \in s.security.remote}
<1> DEFINE s == Resolved(c, o).value
           local == [ip |-> s.host, port |-> s.port]
           remote == {ParseListen(t, local.port).value : t \in s.security.remote}
<1>1. Prepare(c, o) = IF Resolved(c, o).ok THEN Listeners(s, c.disk) ELSE Resolved(c, o)
  BY DEF Prepare, Then
<1>2. Resolved(c, o).ok /\ Prepare(c, o) = Listeners(s, c.disk)
  BY <1>1
<1>3. local.port = s.port
  OBVIOUS
<1> HIDE DEF s
<1>4. Listeners(s, c.disk) =
        CASE local.ip \notin Ips -> Bad("other")
          [] local.ip \in Ips /\ ~ PlanAdmits(local, s.security, c.disk) -> Bad("ConfigRefused")
          [] OTHER -> Good([local |-> local, settings |-> s, remote |-> remote])
  BY DEF Listeners
<1> HIDE DEF local, remote
<1>5. ~ Bad("other").ok /\ ~ Bad("ConfigRefused").ok
  BY DEF Bad
<1>6. /\ local.ip \in Ips /\ PlanAdmits(local, s.security, c.disk)
      /\ Prepare(c, o) = Good([local |-> local, settings |-> s, remote |-> remote])
  BY <1>2, <1>4, <1>5
<1>7. /\ Prepare(c, o).value.local = local /\ Prepare(c, o).value.settings = s
      /\ Prepare(c, o).value.remote = remote
  BY <1>6 DEF Good
<1> QED
  BY <1>2, <1>3, <1>6, <1>7 DEF s, local, remote

\* The other way round.
LEMMA PreparedIf ==
  ASSUME NEW c, NEW o \in BOOLEAN, Resolved(c, o).ok,
         Resolved(c, o).value.host \in Ips,
         PlanAdmits([ip |-> Resolved(c, o).value.host, port |-> Resolved(c, o).value.port],
                    Resolved(c, o).value.security, c.disk)
  PROVE  Prepare(c, o).ok
<1> DEFINE s == Resolved(c, o).value
           local == [ip |-> s.host, port |-> s.port]
           remote == {ParseListen(t, local.port).value : t \in s.security.remote}
<1>1. Prepare(c, o) = Listeners(s, c.disk)
  BY DEF Prepare, Then
<1>2. local.ip = s.host /\ s.host \in Ips /\ PlanAdmits(local, s.security, c.disk)
  OBVIOUS
<1> HIDE DEF s
<1>3. Listeners(s, c.disk) =
        CASE local.ip \notin Ips -> Bad("other")
          [] local.ip \in Ips /\ ~ PlanAdmits(local, s.security, c.disk) -> Bad("ConfigRefused")
          [] OTHER -> Good([local |-> local, settings |-> s, remote |-> remote])
  BY DEF Listeners
<1> HIDE DEF local, remote
<1>4. Prepare(c, o) = Good([local |-> local, settings |-> s, remote |-> remote])
  BY <1>1, <1>2, <1>3
<1> QED
  BY <1>4 DEF Good

\* An install resolves what a start resolves, and leaves only the listeners.
LEMMA InstallsForesee ==
  ASSUME NEW q, answer = ServiceArgs(q.config)
  PROVE  InstallForesees(q)
<1> DEFINE c == q.config
           r == Resolved(c, FALSE)
           run == Prepare(c, FALSE)
<1>1. answer = r
  BY DEF ServiceArgs
<1>2. run = IF r.ok THEN Listeners(r.value, c.disk) ELSE r
  BY DEF Prepare, Then
<1>3. \A s, disk : Listeners(s, disk).ok \/ Listeners(s, disk).kind \in {"ConfigRefused", "other"}
  <2> SUFFICES ASSUME NEW s, NEW disk
               PROVE  Listeners(s, disk).ok \/ Listeners(s, disk).kind \in {"ConfigRefused", "other"}
    OBVIOUS
  <2> DEFINE local == [ip |-> s.host, port |-> s.port]
             plan == [local |-> local, settings |-> s,
                      remote |-> {ParseListen(t, local.port).value : t \in s.security.remote}]
  <2>1. Listeners(s, disk) =
          CASE local.ip \notin Ips -> Bad("other")
            [] local.ip \in Ips /\ ~ PlanAdmits(local, s.security, disk) -> Bad("ConfigRefused")
            [] OTHER -> Good(plan)
    BY DEF Listeners
  <2> HIDE DEF plan, local
  <2>2. Bad("other").kind = "other" /\ Bad("ConfigRefused").kind = "ConfigRefused" /\ Good(plan).ok
    BY DEF Bad, Good
  <2> QED
    BY <2>1, <2>2
<1> HIDE DEF r, run
<1>4. IF answer.ok THEN run.ok \/ run.kind \in {"ConfigRefused", "other"} ELSE run = answer
  BY <1>1, <1>2, <1>3
<1> QED
  BY <1>4 DEF InstallForesees, run

\* Of the secrets a start that serves no other machine makes nothing.
LEMMA LocalStartsReadNoSecrets ==
  ASSUME NEW q, WellFormed(q.config), q.overrides \in BOOLEAN, answer = Prepare(q.config, q.overrides)
  PROVE  SecretsMatterOnlyRemotely(q)
<1> SUFFICES ASSUME Given(q, RemoteListen) = {}, NEW s \in SecretFiles
             PROVE  Prepare([q.config EXCEPT !.disk.secrets = s], q.overrides) = answer
  BY DEF SecretsMatterOnlyRemotely
<1> DEFINE c == q.config
           d == [c EXCEPT !.disk.secrets = s]
           o == q.overrides
           cfg == LoadWith(c, o).value
<1>1. /\ d.explicit = c.explicit /\ d.env = c.env /\ d.set = c.set /\ d.file = c.file /\ d.streams = c.streams
      /\ d.disk = [c.disk EXCEPT !.secrets = s]
  BY DEF WellFormed
<1>2. /\ d.disk.models = c.disk.models /\ d.disk.certs = c.disk.certs /\ d.disk.keys = c.disk.keys
      /\ d.disk.os = c.disk.os /\ d.disk.fipsBuild = c.disk.fipsBuild
  BY <1>1 DEF WellFormed
<1>3. LoadWith(d, o) = LoadWith(c, o)
  <2> HIDE DEF c, d, o
  <2> QED
    BY <1>1 DEF LoadWith
<1>4. LoadWith(c, o).ok => Get(cfg, RemoteListen) = Good({})
  BY GetIsGiven
<1> HIDE DEF c, d, o
<1>5. LoadWith(c, o).ok => SecuritySettings(cfg, d.disk, TRUE) = SecuritySettings(cfg, c.disk, TRUE)
  <2> SUFFICES ASSUME LoadWith(c, o).ok
               PROVE  SecuritySettings(cfg, d.disk, TRUE) = SecuritySettings(cfg, c.disk, TRUE)
    OBVIOUS
  <2>1. Get(cfg, RemoteListen).ok /\ Get(cfg, RemoteListen).value = {}
    BY <1>4 DEF Good
  <2>2. TokenRead(cfg, d.disk, TRUE) = Good({}) /\ TokenRead(cfg, c.disk, TRUE) = Good({})
    BY <2>1 DEF TokenRead
  <2>3. \A disk : SecuritySettings(cfg, disk, TRUE) =
          AllGood([tier |-> FipsTier(cfg), remote |-> Get(cfg, RemoteListen), secretsFile |-> Get(cfg, SecretsFile),
                   cert |-> Get(cfg, TlsCert), key |-> Get(cfg, TlsKey), token |-> TokenRead(cfg, disk, TRUE)])
    BY DEF SecuritySettings, TokenRead, Then
  <2> QED
    BY <2>2, <2>3
<1>6. LoadWith(c, o).ok => ResolveConfig(cfg, d.disk, d.streams) = ResolveConfig(cfg, c.disk, c.streams)
  <2> SUFFICES ASSUME LoadWith(c, o).ok
               PROVE  ResolveConfig(cfg, d.disk, d.streams) = ResolveConfig(cfg, c.disk, c.streams)
    OBVIOUS
  <2> HIDE DEF cfg
  <2> DEFINE n == c.streams
             ctx == GetOr(cfg, Ctx, DefaultCtx)
             read(security) ==
               AllGood([host     |-> GetOr(cfg, Host, DefaultHost), port |-> GetOr(cfg, Port, DefaultPort),
                        streams  |-> GetOr(cfg, Streams, n),  seqMax |-> GetOr(cfg, SeqMax, 32),
                        nBatch   |-> GetOr(cfg, NBatch, ctx.value), nUbatch |-> GetOr(cfg, NUbatch, ctx.value),
                        coalesce |-> GetOr(cfg, CoalesceMs, 3),
                        maxBatchTokens |-> GetOr(cfg, MaxBatchTokens, 2048),
                        security |-> security])
             reads(models, security) ==
               IF Get(cfg, Gguf).ok
               THEN IF Get(cfg, Gguf).value \cap models = {} THEN Bad("other")
                    ELSE IF ctx.ok THEN read(security) ELSE ctx
               ELSE Get(cfg, Gguf)
  <2>1. ResolveConfig(cfg, c.disk, n) = reads(c.disk.models, SecuritySettings(cfg, c.disk, TRUE))
    BY DEF ResolveConfig, Then
  <2>2. ResolveConfig(cfg, d.disk, n) = reads(d.disk.models, SecuritySettings(cfg, d.disk, TRUE))
    BY DEF ResolveConfig, Then
  <2> HIDE DEF reads, read, ctx
  <2> QED
    BY <1>1, <1>2, <1>5, <2>1, <2>2
<1>7. Resolved(d, o) = Resolved(c, o)
  BY <1>3, <1>6 DEF Resolved, Then
<1>8. Resolved(c, o).ok => Listeners(Resolved(c, o).value, d.disk) = Listeners(Resolved(c, o).value, c.disk)
  <2> SUFFICES ASSUME Resolved(c, o).ok
               PROVE  Listeners(Resolved(c, o).value, d.disk) = Listeners(Resolved(c, o).value, c.disk)
    OBVIOUS
  <2> DEFINE settings == Resolved(c, o).value
             sec == settings.security
  <2>0. o \in BOOLEAN
    BY DEF o
  <2>1. /\ LoadWith(c, o).ok /\ SecuritySettings(cfg, c.disk, TRUE).ok
        /\ sec = SecuritySettings(cfg, c.disk, TRUE).value
    BY <2>0, SettingsRead
  <2> HIDE DEF settings, sec, cfg
  <2>7. SecuritySettings(cfg, c.disk, TRUE).value.remote = Get(cfg, RemoteListen).value
    BY <2>1, SecurityRead
  <2>2. sec.remote = Get(cfg, RemoteListen).value
    BY <2>1, <2>7
  <2>3. sec.remote = {}
    <3>1. Good({}).value = {}
      BY DEF Good
    <3> QED
      BY <1>4, <2>1, <2>2, <3>1
  <2>4. \A local : PlanAdmits(local, sec, d.disk) <=> PlanAdmits(local, sec, c.disk)
    BY <2>3 DEF PlanAdmits, RemoteAdmitted
  <2>5. \A local : PlanAdmits(local, settings.security, d.disk) <=> PlanAdmits(local, settings.security, c.disk)
    BY <2>4 DEF sec
  <2>6. Listeners(settings, d.disk) = Listeners(settings, c.disk)
    BY <2>5 DEF Listeners
  <2> QED
    BY <2>6 DEF settings
<1>9. Prepare(d, o) = Prepare(c, o)
  BY <1>7, <1>8 DEF Prepare, Then
<1> QED
  BY <1>9 DEF c, d, o

\* A digest that was read is in a private file, in its table, as a string.
LEMMA DigestRead ==
  ASSUME NEW file, file.state \in {"absent", "malformed", "no_table", "table"},
         ReadSecret(file).ok
  PROVE  \/ ReadSecret(file).value = {}
         \/ Private(file.st) /\ ReadSecret(file).value = {file.value}
<1>1. ~ ConfigError.ok /\ Good({}).value = {} /\ Good({file.value}).value = {file.value}
  BY DEF ConfigError, Bad, Good
<1> DEFINE table == CASE file.entry = "none"   -> Good({})
                      [] file.entry = "string" -> Good({file.value})
                      [] OTHER                 -> ConfigError
           inner == CASE file.state = "malformed" -> ConfigError
                      [] file.state = "no_table"  -> Good({})
                      [] file.state = "table"     -> table
<1>2. ReadSecret(file) = CASE file.state = "absent" -> Good({})
                           [] file.state # "absent" /\ ~ Private(file.st) -> ConfigError
                           [] OTHER -> inner
  BY DEF ReadSecret
<1>3. table \in {Good({}), Good({file.value}), ConfigError}
  OBVIOUS
<1> HIDE DEF table
<1>4. file.state \in {"malformed", "no_table", "table"} => inner \in {Good({}), Good({file.value}), ConfigError}
  BY <1>3
<1> HIDE DEF inner
<1>5. CASE file.state = "absent"
  BY <1>1, <1>2, <1>5
<1>6. CASE file.state # "absent" /\ ~ Private(file.st)
  BY <1>1, <1>2, <1>6
<1>7. CASE file.state # "absent" /\ Private(file.st)
  BY <1>1, <1>2, <1>4, <1>7
<1> QED
  BY <1>5, <1>6, <1>7

\* What a start serves is what its settings say.
LEMMA StartsAsSet ==
  ASSUME NEW q, WellFormed(q.config), q.overrides \in BOOLEAN, Prepare(q.config, q.overrides).ok
  PROVE  ServesAsSet(q, Prepare(q.config, q.overrides).value)
<1> DEFINE c == q.config
           o == q.overrides
           cfg == LoadWith(c, o).value
           s == Resolved(c, o).value
           sec == s.security
           plan == Prepare(c, o).value
           local == [ip |-> s.host, port |-> s.port]
<1>1. /\ Resolved(c, o).ok /\ local.ip \in Ips /\ PlanAdmits(local, sec, c.disk)
      /\ plan.local = local /\ plan.settings = s
      /\ plan.remote = {ParseListen(t, s.port).value : t \in sec.remote}
  BY PreparedFrom
<1>2. /\ LoadWith(c, o).ok /\ GetOr(cfg, Ctx, DefaultCtx).ok
      /\ GetOr(cfg, Host, DefaultHost).ok /\ s.host = GetOr(cfg, Host, DefaultHost).value
      /\ GetOr(cfg, Port, DefaultPort).ok /\ s.port = GetOr(cfg, Port, DefaultPort).value
      /\ GetOr(cfg, NBatch, GetOr(cfg, Ctx, DefaultCtx).value).ok
      /\ s.nBatch = GetOr(cfg, NBatch, GetOr(cfg, Ctx, DefaultCtx).value).value
      /\ SecuritySettings(cfg, c.disk, TRUE).ok /\ sec = SecuritySettings(cfg, c.disk, TRUE).value
  BY <1>1, SettingsRead
<1>3. s.host = InEffect(q, Host, DefaultHost) /\ s.port = InEffect(q, Port, DefaultPort)
  <2>1. GetOr(cfg, Host, DefaultHost).value = InEffect(q, Host, DefaultHost)
    BY <1>2, GetOrIsInEffect
  <2>2. GetOr(cfg, Port, DefaultPort).value = InEffect(q, Port, DefaultPort)
    BY <1>2, GetOrIsInEffect
  <2> HIDE DEF s, cfg
  <2> QED
    BY <1>2, <2>1, <2>2
<1>4. s.nBatch = InEffect(q, NBatch, InEffect(q, Ctx, DefaultCtx))
  <2> DEFINE ctx == GetOr(cfg, Ctx, DefaultCtx).value
  <2>1. ctx = InEffect(q, Ctx, DefaultCtx)
    BY <1>2, GetOrIsInEffect
  <2>2. GetOr(cfg, NBatch, ctx).value = InEffect(q, NBatch, ctx)
    BY <1>2, GetOrIsInEffect
  <2>3. s.nBatch = GetOr(cfg, NBatch, ctx).value
    BY <1>2
  <2> HIDE DEF s, cfg, ctx
  <2> QED
    BY <2>1, <2>2, <2>3
<1>5. local.ip \in {"127.0.0.1", "::1"} /\ RemoteAdmitted(local, sec, c.disk)
  BY <1>1 DEF PlanAdmits, Loopback
<1>6. /\ FipsTier(cfg).ok /\ sec.tier = FipsTier(cfg).value
      /\ sec.remote = Given(q, RemoteListen) /\ sec.cert = Given(q, TlsCert) /\ sec.key = Given(q, TlsKey)
      /\ TokenRead(cfg, c.disk, TRUE).ok /\ sec.token = TokenRead(cfg, c.disk, TRUE).value
      /\ Get(cfg, RemoteListen).ok /\ Get(cfg, RemoteListen).value = sec.remote
  <2> DEFINE read == SecuritySettings(cfg, c.disk, TRUE)
  <2>1. sec = read.value /\ read.ok
    BY <1>2
  <2>2. /\ FipsTier(cfg).ok /\ read.value.tier = FipsTier(cfg).value
        /\ Get(cfg, RemoteListen).ok /\ read.value.remote = Get(cfg, RemoteListen).value
        /\ Get(cfg, TlsCert).ok /\ read.value.cert = Get(cfg, TlsCert).value
        /\ Get(cfg, TlsKey).ok /\ read.value.key = Get(cfg, TlsKey).value
        /\ TokenRead(cfg, c.disk, TRUE).ok /\ read.value.token = TokenRead(cfg, c.disk, TRUE).value
    <3> HIDE DEF cfg, c
    <3> QED
      BY <2>1, SecurityRead
  <2>3. /\ Get(cfg, RemoteListen).value = Given(q, RemoteListen)
        /\ Get(cfg, TlsCert).value = Given(q, TlsCert) /\ Get(cfg, TlsKey).value = Given(q, TlsKey)
    <3>1. Get(cfg, RemoteListen).value = Given(q, RemoteListen)
      BY <1>2, <2>2, GetIsGiven
    <3>2. Get(cfg, TlsCert).value = Given(q, TlsCert)
      BY <1>2, <2>2, GetIsGiven
    <3>3. Get(cfg, TlsKey).value = Given(q, TlsKey)
      BY <1>2, <2>2, GetIsGiven
    <3> QED
      BY <3>1, <3>2, <3>3
  <2> HIDE DEF sec, read, cfg, c
  <2> QED
    BY <2>1, <2>2, <2>3
<1>7. /\ Given(q, RemoteListen) = {} \/ \E v : Given(q, RemoteListen) = {v}
      /\ Given(q, TlsCert) = {} \/ \E v : Given(q, TlsCert) = {v}
      /\ Given(q, TlsKey) = {} \/ \E v : Given(q, TlsKey) = {v}
  BY <1>2, GetIsGiven
\* In strict FIPS the tier says so.
<1>8. InEffect(q, FipsStrictKey, FALSE) => sec.tier = "strict"
  <2> DEFINE mode == GetOr(cfg, FipsModeKey, FALSE)
             strict == GetOr(cfg, FipsStrictKey, FALSE)
  <2>1. FipsTier(cfg) = IF mode.ok
                        THEN IF strict.ok
                             THEN Good(CASE strict.value -> "strict" [] ~ strict.value /\ mode.value -> "mode"
                                         [] OTHER -> "off")
                             ELSE strict
                        ELSE mode
    BY DEF FipsTier, Then
  <2>2. strict.ok /\ mode.ok
    <3> HIDE DEF strict, mode
    <3> QED
      BY <1>6, <2>1
  <2>3. strict.value = InEffect(q, FipsStrictKey, FALSE)
    BY <1>2, <2>2, GetOrIsInEffect
  <2> HIDE DEF strict, mode, sec, cfg
  <2>4. ASSUME strict.value PROVE sec.tier = "strict"
    <3>1. FipsTier(cfg) = Good("strict")
      BY <2>1, <2>2, <2>4
    <3> QED
      BY <1>6, <3>1 DEF Good
  <2> QED
    BY <2>3, <2>4
\* The other listener.
<1>9. ASSUME NEW addr \in plan.remote
      PROVE  LET disk == c.disk
             IN  /\ addr # plan.local
                 /\ Private(disk.secrets.st) /\ sec.token = {disk.secrets.value}
                 /\ disk.secrets.value.hex /\ disk.secrets.value.len = 64
                 /\ InEffect(q, FipsStrictKey, FALSE) => disk.fipsBuild
                 /\ LET key == disk.keys[InEffect(q, TlsKey, "")]
                    IN  /\ key.state = "key" /\ key.of = InEffect(q, TlsCert, "")
                        /\ disk.os = "unix" => ~ key.othersMayRead
  <2> DEFINE disk == c.disk
  <2>0. c.disk.secrets.state \in {"absent", "malformed", "no_table", "table"}
    BY DEF WellFormed
  <2> HIDE DEF s, cfg, c, sec, plan, local
  <2>1. PICK t \in sec.remote : addr = ParseListen(t, s.port).value
    BY <1>1, <1>9
  <2>2. local.port = s.port
    BY DEF local
  <2>3. /\ addr # local /\ Protected(sec)
        /\ sec.tier = "strict" => disk.fipsBuild
        /\ \A cert \in sec.cert, key \in sec.key : TlsUsable(cert, key, disk)
        /\ \A d \in sec.token : DigestParses(d)
    BY <1>5, <2>1, <2>2 DEF RemoteAdmitted
  <2>4. sec.cert # {} /\ sec.token # {} /\ sec.key # {}
    BY <1>5, <2>3 DEF Protected, RemoteAdmitted
  <2>5. TokenRead(cfg, disk, TRUE) = ReadSecret(disk.secrets)
    BY <1>6, <2>1 DEF TokenRead
  <2>6. Private(disk.secrets.st) /\ sec.token = {disk.secrets.value}
    <3>1. ReadSecret(disk.secrets).ok /\ ReadSecret(disk.secrets).value = sec.token
      BY <1>6, <2>5
    <3>2. disk.secrets.state \in {"absent", "malformed", "no_table", "table"}
      BY <2>0
    <3> HIDE DEF disk
    <3>3. \/ ReadSecret(disk.secrets).value = {}
          \/ Private(disk.secrets.st) /\ ReadSecret(disk.secrets).value = {disk.secrets.value}
      BY <3>1, <3>2, DigestRead
    <3> QED
      BY <2>4, <3>1, <3>3
  <2>7. disk.secrets.value.hex /\ disk.secrets.value.len = 64
    BY <2>3, <2>6 DEF DigestParses
  <2>8. PICK cert, key : sec.cert = {cert} /\ sec.key = {key}
    BY <1>6, <1>7, <2>4
  <2>9. InEffect(q, TlsCert, "") = cert /\ InEffect(q, TlsKey, "") = key
    <3>1. \A x : (CHOOSE v \in {x} : TRUE) = x
      OBVIOUS
    <3>2. Given(q, TlsCert) = {cert} /\ Given(q, TlsKey) = {key}
      BY <1>6, <2>8
    <3> QED
      BY <3>1, <3>2 DEF InEffect
  <2>10. TlsUsable(cert, key, disk)
    BY <2>3, <2>8
  <2> QED
    BY <1>1, <1>8, <2>3, <2>6, <2>7, <2>9, <2>10 DEF TlsUsable
<1>10. Cardinality(plan.remote) = Cardinality(Given(q, RemoteListen))
  <2> HIDE DEF s, sec, plan, local
  <2>1. CASE Given(q, RemoteListen) = {}
    BY <1>1, <1>6, <2>1
  <2>2. CASE \E v : Given(q, RemoteListen) = {v}
    <3>1. PICK v : Given(q, RemoteListen) = {v}
      BY <2>2
    <3>2. plan.remote = {ParseListen(v, s.port).value}
      BY <1>1, <1>6, <3>1
    <3> QED
      BY <3>1, <3>2, FS_Singleton
  <2> QED
    BY <1>7, <2>1, <2>2
<1>11. plan.local = [ip |-> InEffect(q, Host, DefaultHost), port |-> InEffect(q, Port, DefaultPort)]
  BY <1>1, <1>3
<1>12. plan.local.ip \in {"127.0.0.1", "::1"}
  BY <1>1, <1>5
<1>13. plan.settings.nBatch = InEffect(q, NBatch, InEffect(q, Ctx, DefaultCtx))
  BY <1>1, <1>4
<1>14. plan.settings.security = sec
  BY <1>1
<1> HIDE DEF sec, plan, s, cfg
<1> QED
  BY <1>9, <1>10, <1>11, <1>12, <1>13, <1>14 DEF ServesAsSet, plan

WrittenNames == {RemoteListen.name, TlsCert.name, TlsKey.name}
Written(options, n) ==
  CASE n = RemoteListen.name -> CHOOSE x \in options.listen : TRUE
    [] n = TlsCert.name      -> CHOOSE x \in options.cert : TRUE
    [] n = TlsKey.name       -> CHOOSE x \in options.key : TRUE

\* What is recorded, field by field.
LEMMA WhatIsRecorded ==
  ASSUME NEW c, WellFormed(c), NEW options
  PROVE  LET d == Recorded(c, options)
         IN  /\ d.set = c.set /\ d.file.state = "good"
             /\ DOMAIN d.file.table = WrittenNames \cup DOMAIN LoadFile(c.file).value
             /\ \A n \in WrittenNames : d.file.table[n] = [type |-> "str", val |-> Written(options, n)]
             /\ \A n \in DOMAIN LoadFile(c.file).value \ WrittenNames : d.file.table[n] = LoadFile(c.file).value[n]
             /\ d.disk.secrets.state = "table" /\ d.disk.secrets.entry = "string"
             /\ d.disk.secrets.value = CHOOSE x \in options.token : TRUE
             /\ d.disk.certs = c.disk.certs /\ d.disk.keys = c.disk.keys
             /\ d.disk.os = c.disk.os /\ d.disk.fipsBuild = c.disk.fipsBuild
<1> DEFINE d == Recorded(c, options)
           old == LoadFile(c.file).value
           new == [n \in WrittenNames |-> Written(options, n)]
           table == [n \in WrittenNames \cup DOMAIN old |->
                       IF n \in WrittenNames THEN [type |-> "str", val |-> new[n]] ELSE old[n]]
           file == [state |-> "good", table |-> table]
           digest == CHOOSE x \in options.token : TRUE
           recorded == [c EXCEPT !.file = file]
           found == [c.disk.secrets EXCEPT !.state = "table"]
           put == [found EXCEPT !.entry = "string"]
           secrets == [put EXCEPT !.value = digest]
           disk == [c.disk EXCEPT !.secrets = secrets]
<1>1. d = [c EXCEPT !.file = file,
                    !.disk.secrets = [@ EXCEPT !.state = "table", !.entry = "string", !.value = digest]]
  BY DEF Recorded, WrittenNames, Written
<1>2. /\ file.state = "good" /\ DOMAIN file.table = WrittenNames \cup DOMAIN old
      /\ \A n \in WrittenNames : file.table[n] = [type |-> "str", val |-> Written(options, n)]
      /\ \A n \in DOMAIN old \ WrittenNames : file.table[n] = old[n]
  <2> HIDE DEF WrittenNames, old
  <2> QED
    OBVIOUS
<1>3. secrets.state = "table" /\ secrets.entry = "string" /\ secrets.value = digest
  BY DEF WellFormed
<1>4. /\ disk.secrets = secrets /\ disk.certs = c.disk.certs /\ disk.keys = c.disk.keys
      /\ disk.os = c.disk.os /\ disk.fipsBuild = c.disk.fipsBuild
  BY DEF WellFormed
<1>5. d = [recorded EXCEPT !.disk = disk]
  <2>1. recorded.disk = c.disk
    BY DEF WellFormed
  <2> HIDE DEF file, digest
  <2> QED
    BY <1>1, <2>1 DEF WellFormed
<1>6. d.disk = disk /\ d.file = file /\ d.set = c.set
  <2>1. DOMAIN recorded = DOMAIN c /\ recorded.file = file /\ recorded.set = c.set
    BY DEF WellFormed
  <2> HIDE DEF recorded, file, disk
  <2> QED
    BY <1>5, <2>1 DEF WellFormed
<1> HIDE DEF disk, secrets, file, d
<1>7. /\ d.set = c.set /\ d.file.state = "good"
      /\ DOMAIN d.file.table = WrittenNames \cup DOMAIN old
      /\ \A n \in WrittenNames : d.file.table[n] = [type |-> "str", val |-> Written(options, n)]
      /\ \A n \in DOMAIN old \ WrittenNames : d.file.table[n] = old[n]
      /\ d.disk.secrets.state = "table" /\ d.disk.secrets.entry = "string"
      /\ d.disk.secrets.value = digest
      /\ d.disk.certs = c.disk.certs /\ d.disk.keys = c.disk.keys
      /\ d.disk.os = c.disk.os /\ d.disk.fipsBuild = c.disk.fipsBuild
  BY <1>2, <1>3, <1>4, <1>6
<1> QED
  BY <1>7 DEF d

\* A check of what is accepted.
LEMMA WhatIsChecked ==
  ASSUME NEW c, NEW options, RunSecure(c, options)
  PROVE  LET cfg == LoadWith(c, TRUE).value
             sec == SecuritySettings(cfg, c.disk, FALSE)
             port == GetOr(cfg, Port, DefaultPort)
         IN  /\ options.listen # {} /\ options.cert # {} /\ options.key # {} /\ options.token # {}
             /\ LoadWith(c, TRUE).ok /\ sec.ok /\ port.ok
             /\ PlanAdmits([ip |-> "127.0.0.1", port |-> port.value],
                           [sec.value EXCEPT !.remote = options.listen, !.cert = options.cert,
                                             !.key = options.key, !.token = options.token], c.disk)
<1> DEFINE load == LoadWith(c, TRUE)
           sec == SecuritySettings(load.value, c.disk, FALSE)
           port == GetOr(load.value, Port, DefaultPort)
           admits == PlanAdmits([ip |-> "127.0.0.1", port |-> port.value],
                                [sec.value EXCEPT !.remote = options.listen, !.cert = options.cert,
                                                  !.key = options.key, !.token = options.token], c.disk)
           checked == IF load.ok
                      THEN IF sec.ok
                           THEN IF port.ok THEN IF admits THEN Good("checked") ELSE Bad("other") ELSE port
                           ELSE sec
                      ELSE load
<1>1. checked.ok /\ options.listen # {} /\ options.cert # {} /\ options.key # {} /\ options.token # {}
  BY DEF RunSecure, Then
<1>2. load.ok /\ sec.ok /\ port.ok /\ admits
  <2> HIDE DEF load, sec, port, admits
  <2> QED
    BY <1>1 DEF Bad
<1> QED
  BY <1>1, <1>2

\* A key that is not written reads as it did.
LEMMA UnwrittenReadsAsBefore ==
  ASSUME NEW old, NEW new, old.set = <<>>, new.set = <<>>,
         DOMAIN new.file = WrittenNames \cup DOMAIN old.file,
         \A n \in DOMAIN old.file \ WrittenNames : new.file[n] = old.file[n],
         NEW key, key.name \notin WrittenNames
  PROVE  Get(new, key) = Get(old, key)
<1> DEFINE k == key.name
<1>1. DOMAIN old.set = {} /\ DOMAIN new.set = {}
  BY DOMAIN <<>> = {}
<1>2. CASE k \in DOMAIN old.file
  <2>1. k \in DOMAIN new.file /\ new.file[k] = old.file[k]
    BY <1>2
  <2>2. Get(new, key) = IF FromToml(key, new.file[k]).ok THEN Good({FromToml(key, new.file[k]).value})
                        ELSE FromToml(key, new.file[k])
    BY <1>1, <2>1 DEF Get, Then
  <2>3. Get(old, key) = IF FromToml(key, old.file[k]).ok THEN Good({FromToml(key, old.file[k]).value})
                        ELSE FromToml(key, old.file[k])
    BY <1>1, <1>2 DEF Get, Then
  <2> QED
    BY <2>1, <2>2, <2>3
<1>3. CASE k \notin DOMAIN old.file
  <2>1. k \notin DOMAIN new.file
    BY <1>3
  <2> QED
    BY <1>1, <1>3, <2>1 DEF Get
<1> QED
  BY <1>2, <1>3

\* A key that is written reads as what was written, if it reads.
LEMMA WrittenReads ==
  ASSUME NEW new, new.set = <<>>, NEW key, key.name \in DOMAIN new.file,
         NEW v, new.file[key.name] = [type |-> "str", val |-> v], Get(new, key).ok
  PROVE  Get(new, key).value = {v}
<1> DEFINE raw == new.file[key.name]
           got == Get(new, key)
<1>1. DOMAIN new.set = {}
  BY DOMAIN <<>> = {}
<1>2. got = IF FromToml(key, raw).ok THEN Good({FromToml(key, raw).value}) ELSE FromToml(key, raw)
  BY <1>1 DEF Get, Then
<1>3. raw.val = v
  OBVIOUS
<1> HIDE DEF raw
<1>4. got.ok
  OBVIOUS
<1> HIDE DEF got
<1>5. got.value = {raw.val}
  BY <1>2, <1>4, ReadsTheValue
<1> QED
  BY <1>3, <1>5 DEF got

\* The FIPS tier is made of two keys.
LEMMA SameTier ==
  ASSUME NEW old, NEW new, Get(new, FipsModeKey) = Get(old, FipsModeKey),
         Get(new, FipsStrictKey) = Get(old, FipsStrictKey)
  PROVE  FipsTier(new) = FipsTier(old)
<1> DEFINE Tier(mode, strict) ==
             IF mode.ok
             THEN IF strict.ok
                  THEN Good(CASE strict.value -> "strict" [] ~ strict.value /\ mode.value -> "mode"
                              [] OTHER -> "off")
                  ELSE strict
             ELSE mode
<1>1. /\ GetOr(new, FipsModeKey, FALSE) = GetOr(old, FipsModeKey, FALSE)
      /\ GetOr(new, FipsStrictKey, FALSE) = GetOr(old, FipsStrictKey, FALSE)
  BY DEF GetOr
<1>2. \A cfg : FipsTier(cfg) = Tier(GetOr(cfg, FipsModeKey, FALSE), GetOr(cfg, FipsStrictKey, FALSE))
  BY DEF FipsTier, Then
<1> HIDE DEF Tier
<1> QED
  BY <1>1, <1>2

\* A digest in a table, if it can be read.
LEMMA RecordedDigestRead ==
  ASSUME NEW file, file.state = "table", file.entry = "string", ReadSecret(file).ok
  PROVE  ReadSecret(file).value = {file.value}
<1>1. ReadSecret(file) = IF Private(file.st) THEN Good({file.value}) ELSE ConfigError
  BY DEF ReadSecret
<1> QED
  BY <1>1 DEF Good, ConfigError, Bad

\* What of the settings and of the disk the other listener depends on.
LEMMA AdmittedAlike ==
  ASSUME NEW local, NEW sec, NEW disk, RemoteAdmitted(local, sec, disk), NEW sec2, NEW disk2,
         sec2.tier = sec.tier, sec2.remote = sec.remote, sec2.cert = sec.cert, sec2.key = sec.key,
         sec2.token = sec.token, disk2.certs = disk.certs, disk2.keys = disk.keys, disk2.os = disk.os,
         disk2.fipsBuild = disk.fipsBuild
  PROVE  RemoteAdmitted(local, sec2, disk2)
<1>1. \A cert, key : TlsUsable(cert, key, disk2) = TlsUsable(cert, key, disk)
  BY DEF TlsUsable
<1> QED
  BY <1>1 DEF RemoteAdmitted, Protected

\* What passes the check and is recorded is accepted by a start.
LEMMA CheckedIsAcceptedThen ==
  ASSUME NEW q, WellFormed(q.config), answer = Good(RunSecure(q.config, q.options)),
         Optional(q.options.listen), Optional(q.options.cert), Optional(q.options.key), Optional(q.options.token)
  PROVE  CheckedIsAccepted(q)
<1> DEFINE c == q.config
           options == q.options
           d == Recorded(c, options)
<1> SUFFICES ASSUME answer.value, c.set = {},
                    Resolved(d, FALSE).ok, Resolved(d, FALSE).value.host = DefaultHost
             PROVE  Prepare(d, FALSE).ok
  BY DEF CheckedIsAccepted, ServiceArgs
<1> DEFINE old == LoadWith(c, TRUE).value
           was == SecuritySettings(old, c.disk, FALSE)
           port == GetOr(old, Port, DefaultPort)
           sec == [was.value EXCEPT !.remote = options.listen, !.cert = options.cert,
                                    !.key = options.key, !.token = options.token]
           new == LoadWith(d, FALSE).value
           s == Resolved(d, FALSE).value
           is == SecuritySettings(new, d.disk, TRUE)
<1>1. RunSecure(c, options)
  BY DEF Good
<1>2. /\ options.listen # {} /\ options.cert # {} /\ options.key # {} /\ options.token # {}
      /\ LoadWith(c, TRUE).ok /\ was.ok /\ port.ok
      /\ PlanAdmits([ip |-> "127.0.0.1", port |-> port.value], sec, c.disk)
  BY <1>1, WhatIsChecked
<1>3. /\ d.set = c.set /\ d.file.state = "good"
      /\ DOMAIN d.file.table = WrittenNames \cup DOMAIN LoadFile(c.file).value
      /\ \A n \in WrittenNames : d.file.table[n] = [type |-> "str", val |-> Written(options, n)]
      /\ \A n \in DOMAIN LoadFile(c.file).value \ WrittenNames : d.file.table[n] = LoadFile(c.file).value[n]
      /\ d.disk.secrets.state = "table" /\ d.disk.secrets.entry = "string"
      /\ d.disk.secrets.value = CHOOSE x \in options.token : TRUE
      /\ d.disk.certs = c.disk.certs /\ d.disk.keys = c.disk.keys
      /\ d.disk.os = c.disk.os /\ d.disk.fipsBuild = c.disk.fipsBuild
  BY WhatIsRecorded
<1>4. /\ LoadWith(d, FALSE).ok
      /\ GetOr(new, Port, DefaultPort).ok /\ s.port = GetOr(new, Port, DefaultPort).value
      /\ is.ok /\ s.security = is.value
  BY SettingsRead
<1>5. old.set = <<>> /\ old.file = LoadFile(c.file).value
  BY <1>2, WhatIsLoaded
<1>6. new.set = <<>> /\ new.file = d.file.table
  <2>1. new.set = <<>> /\ new.file = LoadFile(d.file).value
    BY <1>4, WhatIsLoaded
  <2>2. LoadFile(d.file).value = d.file.table
    BY <1>3 DEF LoadFile, Good
  <2> QED
    BY <2>1, <2>2
<1>7. /\ DOMAIN new.file = WrittenNames \cup DOMAIN old.file
      /\ \A n \in WrittenNames : new.file[n] = [type |-> "str", val |-> Written(options, n)]
      /\ \A n \in DOMAIN old.file \ WrittenNames : new.file[n] = old.file[n]
  <2> HIDE DEF d, new, old
  <2> QED
    BY <1>3, <1>5, <1>6
<1>8. /\ is.ok
      /\ is.value.tier = FipsTier(new).value
      /\ Get(new, RemoteListen).ok /\ is.value.remote = Get(new, RemoteListen).value
      /\ Get(new, TlsCert).ok /\ is.value.cert = Get(new, TlsCert).value
      /\ Get(new, TlsKey).ok /\ is.value.key = Get(new, TlsKey).value
      /\ TokenRead(new, d.disk, TRUE).ok /\ is.value.token = TokenRead(new, d.disk, TRUE).value
  <2>1. is.ok
    BY <1>4
  <2> HIDE DEF d, new
  <2> QED
    BY <2>1, SecurityRead
<1>9. was.value.tier = FipsTier(old).value
      /\ DOMAIN was.value = {"tier", "remote", "secretsFile", "cert", "key", "token"}
  <2>1. was.ok
    BY <1>2
  <2> HIDE DEF old
  <2> QED
    BY <2>1, SecurityRead
<1>10. /\ sec.tier = was.value.tier /\ sec.remote = options.listen /\ sec.cert = options.cert
       /\ sec.key = options.key /\ sec.token = options.token
  <2> DEFINE w == was.value
             w1 == [w EXCEPT !.remote = options.listen]
             w2 == [w1 EXCEPT !.cert = options.cert]
             w3 == [w2 EXCEPT !.key = options.key]
             w4 == [w3 EXCEPT !.token = options.token]
  <2>0. sec = w4
    OBVIOUS
  <2> HIDE DEF was, options, sec
  <2>1. w1.remote = options.listen /\ w1.tier = w.tier /\ DOMAIN w1 = DOMAIN w
    BY <1>9
  <2> HIDE DEF w1
  <2>2. w2.remote = options.listen /\ w2.tier = w.tier /\ w2.cert = options.cert /\ DOMAIN w2 = DOMAIN w
    BY <1>9, <2>1
  <2> HIDE DEF w2
  <2>3. /\ w3.remote = options.listen /\ w3.tier = w.tier /\ w3.cert = options.cert /\ w3.key = options.key
        /\ DOMAIN w3 = DOMAIN w
    BY <1>9, <2>2
  <2> HIDE DEF w3
  <2>4. /\ w4.remote = options.listen /\ w4.tier = w.tier /\ w4.cert = options.cert /\ w4.key = options.key
        /\ w4.token = options.token
    BY <1>9, <2>3
  <2> QED
    BY <2>0, <2>4
\* The keys that are not written.
<1>11. s.port = port.value /\ is.value.tier = sec.tier
  <2>1. /\ Port.name \notin WrittenNames /\ FipsModeKey.name \notin WrittenNames
        /\ FipsStrictKey.name \notin WrittenNames
    BY DEF WrittenNames, Port, Int_, FipsModeKey, FipsStrictKey, RemoteListen, TlsCert, TlsKey, Str, Path
  <2>2. old.set = <<>> /\ new.set = <<>>
    BY <1>5, <1>6
  <2> HIDE DEF d, old, new, s, sec, is, was
  <2>3. \A key : key.name \notin WrittenNames => Get(new, key) = Get(old, key)
    BY <1>7, <2>2, UnwrittenReadsAsBefore
  <2>4. Get(new, FipsModeKey) = Get(old, FipsModeKey) /\ Get(new, FipsStrictKey) = Get(old, FipsStrictKey)
    BY <2>1, <2>3
  <2>5. FipsTier(new) = FipsTier(old)
    BY <2>4, SameTier
  <2>6. GetOr(new, Port, DefaultPort) = GetOr(old, Port, DefaultPort)
    BY <2>1, <2>3 DEF GetOr
  <2> QED
    BY <1>4, <1>8, <1>9, <1>10, <2>5, <2>6
\* The keys that are, and the token.
<1>12. /\ is.value.remote = options.listen /\ is.value.cert = options.cert
       /\ is.value.key = options.key /\ is.value.token = options.token
  <2>1. \A t : t # {} /\ Optional(t) => t = {CHOOSE x \in t : TRUE}
    BY DEF Optional
  <2>2. /\ options.listen = {Written(options, RemoteListen.name)} /\ RemoteListen.name \in WrittenNames
        /\ options.cert = {Written(options, TlsCert.name)} /\ TlsCert.name \in WrittenNames
        /\ options.key = {Written(options, TlsKey.name)} /\ TlsKey.name \in WrittenNames
    <3>1. /\ RemoteListen.name = "embed.server.remote_listen" /\ TlsCert.name = "embed.server.tls_cert"
          /\ TlsKey.name = "embed.server.tls_key"
      BY DEF RemoteListen, TlsCert, TlsKey, Str, Path
    <3>2. /\ Written(options, RemoteListen.name) = CHOOSE x \in options.listen : TRUE
          /\ Written(options, TlsCert.name) = CHOOSE x \in options.cert : TRUE
          /\ Written(options, TlsKey.name) = CHOOSE x \in options.key : TRUE
      BY <3>1 DEF Written
    <3>3. /\ options.listen = {CHOOSE x \in options.listen : TRUE}
          /\ options.cert = {CHOOSE x \in options.cert : TRUE}
          /\ options.key = {CHOOSE x \in options.key : TRUE}
      BY <1>2, <2>1
    <3> QED
      BY <3>2, <3>3 DEF WrittenNames
  <2>3. new.set = <<>>
    BY <1>6
  <2>4. options.token = {d.disk.secrets.value}
    BY <1>2, <1>3, <2>1
  <2> HIDE DEF d, old, new, s, sec, is, was, options
  <2>5. ASSUME NEW key, key.name \in WrittenNames, Get(new, key).ok
        PROVE  Get(new, key).value = {Written(options, key.name)}
    <3>1. key.name \in DOMAIN new.file
          /\ new.file[key.name] = [type |-> "str", val |-> Written(options, key.name)]
      BY <1>7, <2>5
    <3> QED
      BY <2>3, <2>5, <3>1, WrittenReads
  <2>6. /\ is.value.remote = options.listen /\ is.value.cert = options.cert /\ is.value.key = options.key
    BY <1>8, <2>2, <2>5
  <2>7. TokenRead(new, d.disk, TRUE) = ReadSecret(d.disk.secrets)
    BY <1>2, <1>8, <2>6 DEF TokenRead
  <2>8. ReadSecret(d.disk.secrets).value = {d.disk.secrets.value}
    BY <1>3, <1>8, <2>7, RecordedDigestRead
  <2> QED
    BY <1>8, <2>4, <2>6, <2>7, <2>8
<1>13. RemoteAdmitted([ip |-> s.host, port |-> s.port], s.security, d.disk)
  <2> DEFINE local == [ip |-> "127.0.0.1", port |-> port.value]
             was_disk == c.disk
             is_sec == is.value
  <2>1. RemoteAdmitted(local, sec, was_disk)
    BY <1>2 DEF PlanAdmits
  <2>2. [ip |-> s.host, port |-> s.port] = local /\ s.security = is_sec
    BY <1>4, <1>11 DEF DefaultHost
  <2>3. /\ is_sec.tier = sec.tier /\ is_sec.remote = sec.remote /\ is_sec.cert = sec.cert
        /\ is_sec.key = sec.key /\ is_sec.token = sec.token
    BY <1>10, <1>11, <1>12
  <2>4. /\ d.disk.certs = was_disk.certs /\ d.disk.keys = was_disk.keys /\ d.disk.os = was_disk.os
        /\ d.disk.fipsBuild = was_disk.fipsBuild
    BY <1>3
  <2> HIDE DEF d, local, sec, was_disk, is_sec, s
  <2>5. RemoteAdmitted(local, is_sec, d.disk)
    BY <2>1, <2>3, <2>4, AdmittedAlike
  <2> QED
    BY <2>2, <2>5
<1>14. PlanAdmits([ip |-> s.host, port |-> s.port], s.security, d.disk)
  BY <1>13 DEF PlanAdmits, Loopback, DefaultHost
<1>15. s.host \in Ips
  BY DEF Ips, Loopback, DefaultHost
<1> QED
  BY <1>14, <1>15, PreparedIf

----------------------------------------------------------------------------
(* The command line. *)

\* The states of reading options, and what one argument makes of one.
OptionStates(args) ==
  [at : {"option", "value", "rest", "bad"}, given : SUBSET {"--config", "--set"},
   rest : Seq({args[i].word : i \in DOMAIN args})]
NoOptions == [at |-> "option", given |-> {}, rest |-> <<>>]

\* One argument keeps a state of reading, and a given option stays given.
LEMMA OptionTaken ==
  ASSUME NEW args, NEW i \in DOMAIN args, NEW s \in OptionStates(args)
  PROVE  /\ TakeOption(s, args[i]) \in OptionStates(args)
         /\ s.at = "bad" => TakeOption(s, args[i]).at = "bad"
         /\ TakeOption(s, args[i]).at = "bad" \/ s.given \subseteq TakeOption(s, args[i]).given
         /\ s.at = "option" /\ args[i].word \in {"--config", "--set"} =>
              \/ TakeOption(s, args[i]).at = "bad"
              \/ /\ args[i].word \in TakeOption(s, args[i]).given
                 /\ TakeOption(s, args[i]).at = IF args[i].inline THEN "option" ELSE "value"
<1> DEFINE a == args[i]
           t == TakeOption(s, a)
           words == {args[j].word : j \in DOMAIN args}
<1>1. /\ s.at \in {"option", "value", "rest", "bad"} /\ s.given \subseteq {"--config", "--set"}
      /\ s.rest \in Seq(words) /\ s = [at |-> s.at, given |-> s.given, rest |-> s.rest]
  BY DEF OptionStates
<1>2. a.word \in words
  OBVIOUS
<1> DEFINE taken == a.word \in {"--config", "--set"}
           at == IF a.inline THEN "option" ELSE "value"
<1>3. t = CASE s.at = "bad" -> s
            [] s.at = "value" -> [s EXCEPT !.at = "option"]
            [] s.at = "rest" \/ (s.at = "option" /\ ~ taken) ->
                 [s EXCEPT !.at = "rest", !.rest = Append(@, a.word)]
            [] OTHER -> IF a.word \in s.given THEN [s EXCEPT !.at = "bad"]
                        ELSE [s EXCEPT !.given = @ \cup {a.word}, !.at = at]
  BY DEF TakeOption
<1> HIDE DEF t, a, words, at
<1>4. CASE s.at = "bad"
  BY <1>1, <1>3, <1>4 DEF a, t
<1>5. CASE s.at = "value"
  <2>1. t = [s EXCEPT !.at = "option"]
    BY <1>3, <1>5
  <2>2. t = [at |-> "option", given |-> s.given, rest |-> s.rest]
    BY <1>1, <2>1
  <2> QED
    BY <1>1, <1>5, <2>2 DEF OptionStates, t, a, words
<1>6. CASE s.at = "rest" \/ (s.at = "option" /\ ~ taken)
  <2>1. t = [s EXCEPT !.at = "rest", !.rest = Append(@, a.word)]
    BY <1>3, <1>6
  <2>2. t = [at |-> "rest", given |-> s.given, rest |-> Append(s.rest, a.word)]
    BY <1>1, <2>1
  <2>3. Append(s.rest, a.word) \in Seq(words)
    BY <1>1, <1>2
  <2> QED
    BY <1>1, <1>6, <2>2, <2>3 DEF OptionStates, t, a, words
<1>7. CASE s.at = "option" /\ taken /\ a.word \in s.given
  <2>1. t = [s EXCEPT !.at = "bad"]
    BY <1>3, <1>7
  <2>2. t = [at |-> "bad", given |-> s.given, rest |-> s.rest]
    BY <1>1, <2>1
  <2> QED
    BY <1>1, <1>7, <2>2 DEF OptionStates, t, a, words
<1>8. CASE s.at = "option" /\ taken /\ a.word \notin s.given
  <2>1. t = [s EXCEPT !.given = @ \cup {a.word}, !.at = at]
    BY <1>3, <1>8
  <2>2. t = [at |-> at, given |-> s.given \cup {a.word}, rest |-> s.rest]
    BY <1>1, <2>1
  <2>3. at \in {"option", "value"} /\ s.given \cup {a.word} \subseteq {"--config", "--set"}
    BY <1>1, <1>8 DEF at
  <2> QED
    BY <1>1, <1>8, <2>2, <2>3 DEF OptionStates, t, a, words, at
<1> QED
  BY <1>1, <1>4, <1>5, <1>6, <1>7, <1>8

\* The recursion of the fold, once some function satisfies it.
Takes(f, args) ==
  \A T \in SUBSET DOMAIN args :
    f[T] = IF T = {} THEN NoOptions ELSE TakeOption(f[T \ {Max(T)}], args[Max(T)])

\* A function that satisfies the recursion shows that the fold does.
LEMMA TakingUnfolds ==
  ASSUME NEW args, NEW V, NEW f \in [SUBSET DOMAIN args -> V], Takes(f, args)
  PROVE  \E g : Takes(g, args) /\ TakeGlobalOptions(args) = g[DOMAIN args]
<1>1. f = [T \in SUBSET DOMAIN args |->
             IF T = {} THEN NoOptions ELSE TakeOption(f[T \ {Max(T)}], args[Max(T)])]
  BY DEF Takes
<1>2. TakeGlobalOptions(args) = FoldLeft(TakeOption, NoOptions, args)
  BY DEF TakeGlobalOptions, NoOptions
<1>3. PICK g : /\ g = [T \in SUBSET DOMAIN args |->
                         IF T = {} THEN NoOptions ELSE TakeOption(g[T \ {Max(T)}], args[Max(T)])]
               /\ FoldLeft(TakeOption, NoOptions, args) = g[DOMAIN args]
  BY <1>1, ZenonT(60) DEF FoldLeft, MapThenFoldSet
<1>4. Takes(g, args)
  BY <1>3 DEF Takes
<1> QED
  BY <1>2, <1>3, <1>4

\* Reading the options, argument by argument.
LEMMA TakingSteps ==
  ASSUME NEW A, NEW args \in Seq(A)
  PROVE  \E h : /\ h[0] = NoOptions
                /\ \A n \in 1 .. Len(args) : h[n] = TakeOption(h[n - 1], args[n])
                /\ TakeGlobalOptions(args) = h[Len(args)]
<1> DEFINE D == DOMAIN args
           V == OptionStates(args)
           next == [i \in D |-> [s \in V |-> TakeOption(s, args[i])]]
           pick == [T \in SUBSET D |-> Max(T)]
<1>1. D = 1 .. Len(args) /\ Len(args) \in Nat /\ \A i \in D : args[i] \in A
  OBVIOUS
<1>2. ASSUME NEW T \in SUBSET D, T # {} PROVE Max(T) \in T /\ \A m \in T : Max(T) >= m
  <2>1. T \subseteq Nat /\ \A m \in T : m <= Len(args)
    BY <1>1
  <2> QED
    BY <1>1, <1>2, <2>1, GreatestNatural
<1>3. Picks(pick, D)
  BY <1>2 DEF Picks
<1>4. next \in [D -> [V -> V]] /\ NoOptions \in V
  <2>1. NoOptions \in V
    BY DEF NoOptions, OptionStates
  <2>2. \A i \in D, s \in V : TakeOption(s, args[i]) \in V
    BY OptionTaken
  <2> HIDE DEF D, V
  <2> QED
    BY <2>1, <2>2
<1>5. IsFiniteSet(D)
  BY DistinctSize
<1>6. PICK f : IsFold(f, D, pick, V, NoOptions, next)
  <2> HIDE DEF D, next, pick, V
  <2> QED
    BY <1>3, <1>4, <1>5, FoldExists
<1>7. f \in [SUBSET D -> V]
  BY <1>6 DEF IsFold
<1> HIDE DEF V
<1>8. Takes(f, args)
  <2> SUFFICES ASSUME NEW T \in SUBSET D
               PROVE  f[T] = IF T = {} THEN NoOptions ELSE TakeOption(f[T \ {Max(T)}], args[Max(T)])
    BY DEF Takes
  <2>1. CASE T = {}
    BY <1>6, <2>1 DEF IsFold
  <2>2. CASE T # {}
    <3>1. Max(T) \in D /\ pick[T] = Max(T) /\ f[T \ {Max(T)}] \in V
      BY <1>2, <1>7, <2>2
    <3>2. f[T] = next[Max(T)][f[T \ {Max(T)}]]
      BY <1>6, <2>2, <3>1 DEF IsFold
    <3> QED
      BY <2>2, <3>1, <3>2
  <2> QED
    BY <2>1, <2>2
<1>9. PICK g : Takes(g, args) /\ TakeGlobalOptions(args) = g[D]
  BY <1>7, <1>8, TakingUnfolds
<1> DEFINE h == [n \in Nat |-> g[1 .. n]]
<1>10. h[0] = NoOptions /\ TakeGlobalOptions(args) = h[Len(args)]
  <2>1. 1 .. 0 = {} /\ {} \in SUBSET D
    OBVIOUS
  <2>2. g[{}] = NoOptions
    BY <1>9, <2>1 DEF Takes
  <2> QED
    BY <1>1, <1>9, <2>1, <2>2
<1>11. ASSUME NEW n \in 1 .. Len(args) PROVE h[n] = TakeOption(h[n - 1], args[n])
  <2> DEFINE T == 1 .. n
  <2>1. T \in SUBSET D /\ T # {} /\ n \in T /\ n - 1 \in Nat /\ n \in Nat
    <3>1. n \in Nat /\ 1 <= n /\ n <= Len(args)
      BY <1>1
    <3>2. \A m \in T : m \in 1 .. Len(args)
      BY <1>1, <3>1
    <3> QED
      BY <1>1, <3>1, <3>2
  <2>2. Max(T) = n
    <3>1. Max(T) \in T /\ \A m \in T : Max(T) >= m
      BY <1>2, <2>1
    <3> QED
      BY <2>1, <3>1
  <2>3. T \ {n} = 1 .. (n - 1)
    OBVIOUS
  <2>4. g[T] = TakeOption(g[T \ {Max(T)}], args[Max(T)])
    BY <1>9, <2>1 DEF Takes
  <2> QED
    BY <2>1, <2>2, <2>3, <2>4
<1> HIDE DEF h
<1> QED
  BY <1>10, <1>11

\* Past a --set that only options precede, the options are refused or name it.
LEMMA SetIsGiven ==
  ASSUME NEW A, NEW args \in Seq(A),
         \A j \in DOMAIN args : args[j].inline \in BOOLEAN,
         \A j \in DOMAIN args : args[j].inline => args[j].word \in {"--config", "--set"},
         NEW i \in DOMAIN args, args[i].word = "--set", \A j \in 1 .. (i - 1) : args[j].inline
  PROVE  /\ TakeGlobalOptions(args).at \in {"option", "value", "rest", "bad"}
         /\ TakeGlobalOptions(args).at = "bad" \/ "--set" \in TakeGlobalOptions(args).given
<1>1. DOMAIN args = 1 .. Len(args) /\ Len(args) \in Nat /\ i \in Nat /\ 1 <= i /\ i <= Len(args)
  OBVIOUS
<1>2. PICK h : /\ h[0] = NoOptions
               /\ \A n \in 1 .. Len(args) : h[n] = TakeOption(h[n - 1], args[n])
               /\ TakeGlobalOptions(args) = h[Len(args)]
  BY TakingSteps
<1> DEFINE Holds(n) == /\ h[n] \in OptionStates(args)
                       /\ n < i => h[n].at \in {"option", "bad"}
                       /\ n >= i => h[n].at = "bad" \/ "--set" \in h[n].given
           P == {n \in Nat : n <= Len(args) => Holds(n)}
<1>3. 0 \in P
  <2>1. h[0] \in OptionStates(args) /\ h[0].at = "option"
    BY <1>2 DEF OptionStates, NoOptions
  <2> QED
    BY <1>1, <2>1
<1>4. ASSUME NEW m \in Nat, m \in P PROVE m + 1 \in P
  <2> SUFFICES ASSUME m + 1 <= Len(args) PROVE Holds(m + 1)
    OBVIOUS
  <2> DEFINE n == m + 1
             t == TakeOption(h[m], args[n])
  <2>1. n \in DOMAIN args /\ n - 1 = m /\ m <= Len(args) /\ n \in 1 .. Len(args)
    BY <1>1
  <2>2. Holds(m)
    BY <1>4, <2>1
  <2>3. h[n] = t
    BY <1>2, <2>1
  <2>4. h[m] \in OptionStates(args)
    BY <2>2
  <2>5. /\ t \in OptionStates(args)
        /\ h[m].at = "bad" => t.at = "bad"
        /\ t.at = "bad" \/ h[m].given \subseteq t.given
        /\ h[m].at = "option" /\ args[n].word \in {"--config", "--set"} =>
             \/ t.at = "bad"
             \/ args[n].word \in t.given /\ t.at = IF args[n].inline THEN "option" ELSE "value"
    BY <2>1, <2>4, OptionTaken
  <2> HIDE DEF t
  <2>6. n < i => t.at \in {"option", "bad"}
    <3> SUFFICES ASSUME n < i PROVE t.at \in {"option", "bad"}
      OBVIOUS
    <3>1. args[n].inline /\ args[n].word \in {"--config", "--set"} /\ h[m].at \in {"option", "bad"}
      BY <1>1, <2>1, <2>2
    <3> QED
      BY <2>5, <3>1
  <2>7. n >= i => t.at = "bad" \/ "--set" \in t.given
    <3>1. CASE n = i
      <4>1. h[m].at \in {"option", "bad"} /\ args[n].word = "--set"
        BY <1>1, <2>1, <2>2, <3>1
      <4> QED
        BY <2>5, <4>1
    <3>2. CASE n > i
      <4>1. h[m].at = "bad" \/ "--set" \in h[m].given
        BY <1>1, <2>1, <2>2, <3>2
      <4> QED
        BY <2>5, <4>1
    <3>3. n < i \/ n = i \/ n > i
      BY <1>1, <2>1
    <3> QED
      BY <1>1, <2>1, <3>1, <3>2, <3>3
  <2> QED
    BY <2>3, <2>5, <2>6, <2>7
<1>5. Len(args) \in P
  <2> HIDE DEF P
  <2>1. Nat \subseteq P
    BY <1>3, <1>4, NatSetInduction
  <2> QED
    BY <1>1, <2>1
<1>6. Holds(Len(args)) /\ Len(args) >= i
  BY <1>1, <1>5
<1> QED
  BY <1>2, <1>6 DEF OptionStates

\* A --set that only options precede leaves the foreground server and `secure`.
LEMMA SetIsNotForServices ==
  ASSUME NEW q, q.args \in Seq({q.args[i] : i \in DOMAIN q.args}),
         \A i \in DOMAIN q.args : q.args[i].inline \in BOOLEAN,
         \A i \in DOMAIN q.args : q.args[i].inline => q.args[i].word \in {"--config", "--set"},
         answer = MainDispatch(q.args)
  PROVE  SetIsForThisProcess(q)
<1> DEFINE args == q.args
           s == TakeGlobalOptions(args)
           sub == IF s.rest = <<>> THEN "" ELSE Head(s.rest)
<1> SUFFICES ASSUME answer.ok, NEW i \in DOMAIN args, args[i].word = "--set",
                    \A j \in 1 .. (i - 1) : args[j].inline
             PROVE  answer.value \in {"", "secure"}
  BY DEF SetIsForThisProcess
<1>1. s.at \in {"option", "value", "rest", "bad"} /\ (s.at = "bad" \/ "--set" \in s.given)
  BY SetIsGiven
<1>2. answer = CASE s.at \in {"bad", "value"} -> Bad("other")
                 [] s.at \in {"option", "rest"} /\ "--set" \in s.given /\ sub \notin {"", "secure"} -> Bad("other")
                 [] OTHER -> IF sub \in Subcommands THEN Good(sub) ELSE Bad("unknown subcommand")
  BY DEF MainDispatch
<1> HIDE DEF s, sub
<1>3. answer = Bad("other") \/ answer = Bad("unknown subcommand") \/ (answer = Good(sub) /\ sub \in {"", "secure"})
  BY <1>1, <1>2
<1>4. ~ Bad("other").ok /\ ~ Bad("unknown subcommand").ok /\ Good(sub).value = sub
  BY DEF Good, Bad
<1>5. answer.ok
  OBVIOUS
<1> QED
  BY <1>3, <1>4, <1>5

----------------------------------------------------------------------------
(* The answers. *)

\* Nothing is answered until a question is asked, and it once.
AnswerInv == question = NoQuestion \/ (question \in Questions /\ answer = Outcome(question))

\* The answer to each question is right.
LEMMA OutcomesAreRight == AnswerInv => StartupIsRight
<1> SUFFICES ASSUME question # NoQuestion, AnswerInv PROVE StartupIsRight
  BY DEF StartupIsRight
<1> DEFINE q == question
<1>1. q \in Questions /\ answer = Outcome(q)
  BY DEF AnswerInv
<1>2. WellAsked(q)
  BY <1>1, PlanAssumption
<1>3. q.fn \in {"start", "install", "secure", "main"}
  BY <1>2 DEF WellAsked
<1>4. CASE q.fn = "start"
  <2>1. answer = Prepare(q.config, q.overrides)
    BY <1>1, <1>4 DEF Outcome
  <2>2. WellFormed(q.config) /\ q.overrides \in BOOLEAN
    BY <1>2, <1>4 DEF WellAsked
  <2>3. SecretsMatterOnlyRemotely(q)
    BY <2>1, <2>2, LocalStartsReadNoSecrets
  <2>4. answer.ok => ServesAsSet(q, answer.value)
    BY <2>1, <2>2, StartsAsSet
  <2> QED
    BY <1>4, <2>3, <2>4 DEF StartupIsRight
<1>5. CASE q.fn = "install"
  <2>1. answer = ServiceArgs(q.config)
    BY <1>1, <1>5 DEF Outcome
  <2>2. InstallForesees(q)
    BY <2>1, InstallsForesee
  <2> QED
    BY <1>5, <2>2 DEF StartupIsRight
<1>6. CASE q.fn = "secure"
  <2>1. answer = Good(RunSecure(q.config, q.options))
    BY <1>1, <1>6 DEF Outcome
  <2>2. /\ WellFormed(q.config)
        /\ Optional(q.options.listen) /\ Optional(q.options.cert)
        /\ Optional(q.options.key) /\ Optional(q.options.token)
    BY <1>2, <1>6 DEF WellAsked
  <2>3. CheckedIsAccepted(q)
    BY <2>1, <2>2, CheckedIsAcceptedThen
  <2> QED
    BY <1>6, <2>3 DEF StartupIsRight
<1>7. CASE q.fn = "main"
  <2>1. answer = MainDispatch(q.args)
    BY <1>1, <1>7 DEF Outcome
  <2>2. /\ q.args \in Seq({q.args[i] : i \in DOMAIN q.args})
        /\ \A i \in DOMAIN q.args : q.args[i].inline \in BOOLEAN
        /\ \A i \in DOMAIN q.args : q.args[i].inline => q.args[i].word \in {"--config", "--set"}
    BY <1>2, <1>7 DEF WellAsked
  <2>3. SetIsForThisProcess(q)
    BY <2>1, <2>2, SetIsNotForServices
  <2> QED
    BY <1>7, <2>3 DEF StartupIsRight
<1> QED
  BY <1>3, <1>4, <1>5, <1>6, <1>7

\* What starts serves as its settings say and reads no secret it does not
\* need; an install or a check promises what a start keeps; --set is never for
\* a service: whatever the settings, the files and the arguments.
THEOREM StartsAreRight == PlanInit /\ [][PlanNext]_planVars => []StartupIsRight
<1>1. PlanInit => AnswerInv
  BY DEF PlanInit, AnswerInv
<1>2. AnswerInv /\ [PlanNext]_planVars => AnswerInv'
  <2> SUFFICES ASSUME AnswerInv, [PlanNext]_planVars PROVE AnswerInv'
    OBVIOUS
  <2>1. ASSUME PlanNext PROVE AnswerInv'
    <3>1. PICK q \in Questions : question' = q /\ answer' = Outcome(q)
      BY <2>1 DEF PlanNext
    <3>2. Outcome(question)' = Outcome(question')
      OBVIOUS
    <3> QED
      BY <3>1 DEF AnswerInv
  <2>2. ASSUME UNCHANGED planVars PROVE AnswerInv'
    BY <2>2 DEF planVars, AnswerInv
  <2> QED
    BY <2>1, <2>2
<1> QED
  BY <1>1, <1>2, OutcomesAreRight, PTL

\* Startup, replies and the log of rejections are right, each whatever the
\* others do: they share no variable.
THEOREM StartupAndRepliesHold ==
  /\ PlanInit /\ [][PlanNext]_planVars
  /\ ApiInit /\ [][ApiNext]_apiVars
  /\ LogInit /\ [][LogNext]_logVars
  => []StartupAndRepliesAreRight
<1>1. StartupIsRight /\ WaitIsEnough /\ RejectionsAreAccountedFor => StartupAndRepliesAreRight
  BY DEF StartupAndRepliesAreRight
<1> QED
  BY <1>1, StartsAreRight, RetryAfterIsEnough, NoRejectionIsLost, PTL
=============================================================================
