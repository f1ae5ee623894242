------------------------------ MODULE Service ------------------------------
(***************************************************************************)
(* The embed server whole: the service and its commands, what a process    *)
(* makes of its settings, its HTTP interface, its log of rejections; and   *)
(* what is to hold of them.                                                *)
(***************************************************************************)
EXTENDS EmbedService, EmbedApi, RejectionLog

CONSTANTS Questions,     \* the settings to start, install and check from
          SecretFiles,   \* what the secrets file can be
          NoQuestion

\* What can be asked about: one --set at most, values of the TOML types they
\* are said to have, words with an inline value that are options.
Optional(s) == \A x, y \in s : x = y
WellTyped(table) == \A n \in DOMAIN table : table[n].type = "bool" => table[n].val \in BOOLEAN
WellFormed(c) ==
  /\ DOMAIN c = {"explicit", "env", "set", "file", "disk", "streams"}
  /\ DOMAIN c.disk = {"models", "secrets", "certs", "keys", "os", "fipsBuild"}
  /\ DOMAIN c.disk.secrets = {"state", "st", "entry", "value"}
  /\ Optional(c.set)
  /\ c.file.state \in {"absent", "good", "unreadable", "not_utf8", "not_toml"}
  /\ c.disk.secrets.state \in {"absent", "malformed", "no_table", "table"}
  /\ WellTyped(c.file.table) /\ \A t \in c.set : WellTyped(t.table)

WellAsked(q) ==
  /\ q.fn \in {"start", "install", "secure", "main"}
  /\ q.fn \in {"start", "install", "secure"} => WellFormed(q.config)
  /\ q.fn = "start" => q.overrides \in BOOLEAN
  /\ q.fn = "secure" => /\ Optional(q.options.listen) /\ Optional(q.options.cert)
                        /\ Optional(q.options.key) /\ Optional(q.options.token)
  /\ q.fn = "main" =>
       /\ q.args \in Seq({q.args[i] : i \in DOMAIN q.args})
       /\ \A i \in DOMAIN q.args : q.args[i].inline \in BOOLEAN
       /\ \A i \in DOMAIN q.args : q.args[i].inline => q.args[i].word \in {"--config", "--set"}

ASSUME PlanAssumption == \A q \in Questions : WellAsked(q)

VARIABLES question, answer
planVars == <<question, answer>>

PlanInit == question = NoQuestion /\ answer = NoQuestion

\* The pure parts of the program, each asked once.
Outcome(q) ==
  CASE q.fn = "start"   -> Prepare(q.config, q.overrides)
    [] q.fn = "install" -> ServiceArgs(q.config)
    [] q.fn = "secure"  -> Good(RunSecure(q.config, q.options))
    [] q.fn = "main"    -> MainDispatch(q.args)
PlanNext == question = NoQuestion /\ \E q \in Questions : question' = q /\ answer' = Outcome(q)

-----------------------------------------------------------------------------
(* Starting                                                                *)

\* What each key is worth: what --set says, else the file, else its default.
Given(q, key) ==
  LET set  == UNION {{t.table[n].val : n \in DOMAIN t.table \cap {key.name}} :
                       t \in {t \in q.config.set : q.overrides}}
      file == IF q.config.file.state # "good" THEN {}
              ELSE {q.config.file.table[n].val : n \in DOMAIN q.config.file.table \cap {key.name}}
  IN  IF set # {} THEN set ELSE file
InEffect(q, key, default) == IF Given(q, key) = {} THEN default ELSE CHOOSE v \in Given(q, key) : TRUE

\* Other machines are served over TLS with the key of the certificate, to who
\* has the token in a secrets file of the user's own, by a FIPS build where one
\* is demanded; this one on loopback, at the address in effect.
ServesAsSet(q, plan) ==
  LET disk == q.config.disk
      sec  == plan.settings.security
  IN  /\ plan.local = [ip |-> InEffect(q, Host, DefaultHost), port |-> InEffect(q, Port, DefaultPort)]
      /\ plan.local.ip \in {"127.0.0.1", "::1"}
      /\ plan.settings.nBatch = InEffect(q, NBatch, InEffect(q, Ctx, DefaultCtx))
      /\ \A addr \in plan.remote :
           /\ addr # plan.local
           /\ Private(disk.secrets.st) /\ sec.token = {disk.secrets.value}
           /\ disk.secrets.value.hex /\ disk.secrets.value.len = 64
           /\ InEffect(q, FipsStrictKey, FALSE) => disk.fipsBuild
           /\ LET key == disk.keys[InEffect(q, TlsKey, "")]
              IN  /\ key.state = "key" /\ key.of = InEffect(q, TlsCert, "")
                  /\ disk.os = "unix" => ~key.othersMayRead
      /\ Cardinality(plan.remote) = Cardinality(Given(q, RemoteListen))

\* Who serves this machine only is not stopped by a secrets file.
SecretsMatterOnlyRemotely(q) ==
  Given(q, RemoteListen) = {} =>
    \A s \in SecretFiles : Prepare([q.config EXCEPT !.disk.secrets = s], q.overrides) = answer

\* A file the service cannot be installed from is one it could not have run
\* from, and one it can be installed from leaves only the listeners to refuse.
InstallForesees(q) ==
  \E run \in {Prepare(q.config, FALSE)} :
    IF answer.ok THEN run.ok \/ run.kind \in {"ConfigRefused", "other"} ELSE run = answer

\* The file and the secrets after `m3 embedder secure` records what was checked.
Recorded(c, options) ==
  LET only(s) == CHOOSE x \in s : TRUE
      names   == {RemoteListen.name, TlsCert.name, TlsKey.name}
      new     == [n \in names |-> CASE n = RemoteListen.name -> only(options.listen)
                                    [] n = TlsCert.name      -> only(options.cert)
                                    [] n = TlsKey.name       -> only(options.key)]
      old     == LoadFile(c.file).value
  IN  [c EXCEPT !.file = [state |-> "good",
                          table |-> [n \in names \cup DOMAIN old |->
                                       IF n \in names THEN [type |-> "str", val |-> new[n]] ELSE old[n]]],
                !.disk.secrets = [@ EXCEPT !.state = "table", !.entry = "string", !.value = only(options.token)]]

\* What passes `secure --check` and is recorded, the server then starts with,
\* if it starts at all: nothing but the model, the host or another account's
\* hold on the secrets file can still stop it.
CheckedIsAccepted(q) ==
  answer.value /\ q.config.set = {} =>
    \A c \in {Recorded(q.config, q.options)} : \A settings \in {ServiceArgs(c)} :
      settings.ok /\ settings.value.host = DefaultHost => Prepare(c, FALSE).ok

\* --set never describes a service.
SetIsForThisProcess(q) ==
  answer.ok /\ (\E i \in DOMAIN q.args : q.args[i].word = "--set" /\ \A j \in 1..(i - 1) : q.args[j].inline) =>
    answer.value \in {"", "secure"}

StartupIsRight ==
  question = NoQuestion \/
    CASE question.fn = "start"   -> /\ answer.ok => ServesAsSet(question, answer.value)
                                    /\ SecretsMatterOnlyRemotely(question)
      [] question.fn = "install" -> InstallForesees(question)
      [] question.fn = "secure"  -> CheckedIsAccepted(question)
      [] question.fn = "main"    -> SetIsForThisProcess(question)

-----------------------------------------------------------------------------
(* Replies                                                                 *)

\* A client told to wait waits at least a second and at most the cooldown,
\* and if no call has claimed the probe or failed since, is then let through.
WaitIsEnough ==
  \A c \in Clients : client[c].status = 503 =>
    /\ client[c].said >= 1 /\ (client[c].said - 1) * Second < Cooldown
    /\ client[c].left = 0 /\ ~client[c].moved => Allowed(breaker)

\* Every rejection is in one warning or still counted, and warnings are apart.
RejectionsAreAccountedFor ==
  /\ Cardinality({r \in Rejections : rejected[r].at = "done"})
       = unreported + FoldFunction(+, 0, [r \in Rejections |-> rejected[r].told])
  /\ \A t, u \in warnings : t < u => u - t >= WarnEvery

\* Starting and answering (m3-embed-server config, security, main, server;
\* m3-config): the server serves only what its settings allow, an install or a
\* check promises what a start then keeps, a Retry-After is long enough and no
\* rejection goes uncounted: see the parts above.
StartupAndRepliesAreRight == StartupIsRight /\ WaitIsEnough /\ RejectionsAreAccountedFor

-----------------------------------------------------------------------------
(* The service                                                             *)

Said(cmds, words) == op.at = "done" /\ op.cmd \in cmds /\ op.says \in words

\* What answered is the service, unless a server that names no process took
\* the address while the command ran or the unit was running before it; and
\* another's answer is called so only if it is, or the service was restarted
\* between the answer and the question whose it was.
AnswersAreAttributed ==
  /\ op.says = "serving" => op.seen # ForeignPid /\ (op.seen = NoPid => op.moved \/ op.was)
  /\ op.says = "foreign" => op.seen = ForeignPid \/ op.raced

\* After it says so nothing runs, and nothing will without another command.
StoppedMeansStopped ==
  /\ Said({"stop"}, {"stopped"}) => ~Alive /\ job = "stopped"
  /\ Said({"uninstall"}, {"removed"}) => ~Alive /\ job = "stopped" /\ registered = 0 /\ (platform = "launchd" => loaded = 0)

\* After an install nothing runs from the binary before it, unless the manager
\* restarted the service between the installer's look and its reload.
InstalledRuns ==
  Said({"install"}, {"serving", "answers", "registered", "foreign"}) /\ UnixOnly /\ ~op.raced /\ Alive
    => proc.ver = registered

\* A refused configuration and a taken port are not cured by a restart, so
\* supervisors are told not to retry (main's exit_code_for; broken on launchd,
\* which is not told).
SupervisorsDoNotRetry ==
  job = "backoff" => last \notin {"PortInUse", "ConfigRefused", "ConfigError"}

\* Except on launchd, no restart for what no restart cures, and on Windows none
\* but of a process that was killed; on all three, what serves is bound where its
\* settings said, on loopback for plain text.
RestartsAreOfUse ==
  /\ platform # "launchd" => SupervisorsDoNotRetry
  /\ platform = "scm" /\ job = "backoff" => last = Killed
  /\ proc.at = "serving" =>
       proc.plan.local.ip \in Loopback /\ \A a \in {proc.plan.local} \cup proc.plan.remote : holder[a] = "ours"

\* What the commands say is so (m3-embed-server service_unix, service), but for
\* the races their parts above name -- a restart by the manager between two of an
\* install's or a start's looks, a server that names no process -- and systemd
\* and Windows are told which exits to restart after (main, unit_render).
ServiceTellsTheTruth == AnswersAreAttributed /\ StoppedMeansStopped /\ InstalledRuns /\ RestartsAreOfUse

\* Every command ends.  Once nothing more goes wrong, a service that runs or is
\* to be restarted comes to serve, and stays (run_with_ready, Restart=,
\* KeepAlive, recovery actions; the waits of the commands).
ServiceSettles ==
  /\ Running ~> ~Running
  /\ (calm /\ ~Running /\ job \in {"run", "backoff"}) ~> [](proc.at = "serving")
=============================================================================
