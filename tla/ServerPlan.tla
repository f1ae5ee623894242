----------------------------- MODULE ServerPlan -----------------------------
(***************************************************************************)
(* What m3-embed-server makes of its command line and settings before it   *)
(* serves: the subcommand (main), the resolved configuration (config), the *)
(* listeners it may open and who passes the token check (security), its    *)
(* exit status (main).                                                     *)
(*                                                                         *)
(* An address is [ip, port].  A digest is [hex, len, of]: whether it is    *)
(* hexadecimal, how long, and of which token.  `disk` says what is at a    *)
(* path: whether the model exists, certificates, keys, the secrets file.   *)
(***************************************************************************)
EXTENDS Settings

U32Max == 2147483647        \* stands for u32::MAX, beyond TLC's integers
I64Max == 2147483647        \* stands for i64::MAX

Str(name)         == [name |-> name, kind |-> "str", flag |-> TRUE]
Path(name)        == [name |-> name, kind |-> "path", flag |-> TRUE]
Int_(name, lo, hi) == [name |-> name, kind |-> "int", min |-> lo, max |-> hi, flag |-> TRUE]

Gguf         == Path("embed.gguf")
Host         == Str("embed.server.host")
RemoteListen == Str("embed.server.remote_listen")
TlsCert      == Path("embed.server.tls_cert")
TlsKey       == Path("embed.server.tls_key")
SecretsFile  == [Path("secrets.file") EXCEPT !.flag = FALSE]
Port         == Int_("embed.server.port", 1, 65535)
Ctx          == Int_("embed.ctx", 1, U32Max)
Streams      == Int_("embed.server.streams", 1, 4096)
SeqMax       == Int_("embed.server.seq_max", 1, U32Max)
NBatch       == Int_("embed.server.n_batch", 1, U32Max)
NUbatch      == Int_("embed.server.n_ubatch", 1, U32Max)
CoalesceMs   == Int_("embed.server.coalesce_ms", 0, I64Max)
MaxBatchTokens == Int_("embed.server.max_batch_tokens", 1, I64Max)

Keys == {Gguf, Host, Port, Ctx, Streams, SeqMax, NBatch, NUbatch, CoalesceMs, MaxBatchTokens,
         RemoteListen, TlsCert, TlsKey, FipsModeKey, FipsStrictKey, SecretsFile}

DefaultHost == "127.0.0.1"
DefaultPort == 8082
DefaultCtx  == 8192

-----------------------------------------------------------------------------
(* The command line                                                        *)

\* take_global_options: --config and --set before the subcommand, each once,
\* its value behind "=" or the next word, whatever that is.
TakeOption(s, a) ==
  CASE s.at = "bad" -> s
    [] s.at = "value" -> [s EXCEPT !.at = "option"]
    [] s.at = "rest" \/ (s.at = "option" /\ a.word \notin {"--config", "--set"}) ->
         [s EXCEPT !.at = "rest", !.rest = Append(@, a.word)]
    [] OTHER -> IF a.word \in s.given THEN [s EXCEPT !.at = "bad"]
                ELSE [s EXCEPT !.given = @ \cup {a.word}, !.at = IF a.inline THEN "option" ELSE "value"]
TakeGlobalOptions(args) == FoldLeft(TakeOption, [at |-> "option", given |-> {}, rest |-> <<>>], args)

Subcommands == {"", "run-as-service", "install", "uninstall", "start", "stop", "status", "secure", "help"}

\* main: --set describes the foreground server and `secure` only, as a
\* service is started without it.
MainDispatch(args) ==
  LET s   == TakeGlobalOptions(args)
      sub == IF s.rest = <<>> THEN "" ELSE Head(s.rest)
  IN  CASE s.at \in {"bad", "value"} -> Bad("other")
        [] s.at \in {"option", "rest"} /\ "--set" \in s.given /\ sub \notin {"", "secure"} -> Bad("other")
        [] OTHER -> IF sub \in Subcommands THEN Good(sub) ELSE Bad("unknown subcommand")

\* exit_code_for, and Rust's 1 for any other error of main: a taken port and a
\* refused configuration have statuses of their own.
ExitPortInUse == 69
ExitConfigRefused == 78
ExitCode(kind) == CASE kind = "PortInUse" -> ExitPortInUse
                    [] kind \in {"ConfigRefused", "ConfigError"} -> ExitConfigRefused
                    [] OTHER -> 1

-----------------------------------------------------------------------------
(* Configuration                                                           *)

\* load_with: what this process reads, or what a service will: no --set.
LoadWith(c, overrides) ==
  Then(Locate(c.explicit, c.env), LAMBDA place :
    Then(IF overrides /\ c.set # {} THEN ParseSet(CHOOSE t \in c.set : TRUE, Keys) ELSE Good(<<>>), LAMBDA set :
      Then(LoadFile(c.file), LAMBDA file : Good([set |-> set, file |-> file]))))

\* Values read one by one: any that is wrong refuses them all.
AllGood(read) ==
  IF \A f \in DOMAIN read : read[f].ok THEN Good([f \in DOMAIN read |-> read[f].value]) ELSE ConfigError

\* security_config: the token's digest is read only for a remote listener.
SecuritySettings(cfg, disk, readToken) ==
  AllGood([tier |-> FipsTier(cfg), remote |-> Get(cfg, RemoteListen), secretsFile |-> Get(cfg, SecretsFile),
           cert |-> Get(cfg, TlsCert), key |-> Get(cfg, TlsKey),
           token |-> Then(Get(cfg, RemoteListen),
                          LAMBDA remote : IF readToken /\ remote # {} THEN ReadSecret(disk.secrets) ELSE Good({}))])

\* resolve: the model must be named and exist; then every value it reads.
\* n_batch and n_ubatch are the context's size unless they are given.
ResolveConfig(cfg, disk, streams) ==
  Then(Get(cfg, Gguf), LAMBDA gguf :
    IF gguf \cap disk.models = {} THEN Bad("other")
    ELSE Then(GetOr(cfg, Ctx, DefaultCtx), LAMBDA ctx :
           AllGood([host     |-> GetOr(cfg, Host, DefaultHost), port |-> GetOr(cfg, Port, DefaultPort),
                    streams  |-> GetOr(cfg, Streams, streams),  seqMax |-> GetOr(cfg, SeqMax, 32),
                    nBatch   |-> GetOr(cfg, NBatch, ctx),       nUbatch |-> GetOr(cfg, NUbatch, ctx),
                    coalesce |-> GetOr(cfg, CoalesceMs, 3),
                    maxBatchTokens |-> GetOr(cfg, MaxBatchTokens, 2048),
                    security |-> SecuritySettings(cfg, disk, TRUE)])))

\* service_args: an install is refused unless the service could resolve the file.
Resolved(c, overrides) ==
  Then(LoadWith(c, overrides), LAMBDA cfg : ResolveConfig(cfg, c.disk, c.streams))
ServiceArgs(c) == Resolved(c, FALSE)

\* service_addr: a wildcard bind is reached on loopback.
ServiceAddr(c) ==
  Then(LoadWith(c, FALSE), LAMBDA cfg :
    Then(GetOr(cfg, Host, DefaultHost), LAMBDA host :
      Then(GetOr(cfg, Port, DefaultPort), LAMBDA port :
        Good([ip |-> IF host = "0.0.0.0" THEN DefaultHost ELSE host, port |-> port]))))

-----------------------------------------------------------------------------
(* The listeners                                                           *)

Loopback == {"127.0.0.1", "::1"}
Ips == Loopback \cup {"0.0.0.0", "192.168.0.5"}

\* parse_listen: an IP, or an IP and a port; a hostname is not accepted.
ParseListen(text, defaultPort) ==
  IF text.ip \in Ips
  THEN Good([ip |-> text.ip, port |-> IF text.port = {} THEN defaultPort ELSE CHOOSE p \in text.port : TRUE])
  ELSE Bad("other")

\* parse_digest: 64 hexadecimal characters.
DigestParses(d) == d.hex /\ d.len = 64

\* server_tls_config: a private key file (Unix), a certificate, and its key.
TlsUsable(cert, key, disk) ==
  /\ disk.os = "unix" => ~disk.keys[key].othersMayRead
  /\ disk.certs[cert] = "certificate"
  /\ disk.keys[key].state = "key" /\ disk.keys[key].of = cert

\* A bug the properties must catch: TLS is held to be enough.
ProtectedMutTlsAlone(sec) == sec.cert # {}

Protected(sec) == sec.cert # {} /\ sec.token # {}

\* plan, from the token's digest on: the other listener has both TLS and a
\* token, and in strict FIPS a FIPS build.
RemoteAdmitted(local, sec, disk) ==
  /\ \A d \in sec.token : DigestParses(d)
  /\ (sec.cert = {}) <=> (sec.key = {})
  /\ \A text \in sec.remote :
       LET addr == ParseListen(text, local.port)
       IN  /\ addr.ok /\ addr.value # local
           /\ Protected(sec)
           /\ sec.tier = "strict" => disk.fipsBuild
           /\ \A cert \in sec.cert, key \in sec.key : TlsUsable(cert, key, disk)

\* plan: plaintext on loopback only.
PlanAdmits(local, sec, disk) == local.ip \in Loopback /\ RemoteAdmitted(local, sec, disk)

\* run_with_ready up to bind: the listeners it goes on to bind.
Listeners(settings, disk) ==
  LET local == [ip |-> settings.host, port |-> settings.port]
  IN  CASE local.ip \notin Ips -> Bad("other")
        [] local.ip \in Ips /\ ~PlanAdmits(local, settings.security, disk) -> Bad("ConfigRefused")
        [] OTHER -> Good([local |-> local, settings |-> settings,
                          remote |-> {ParseListen(t, local.port).value : t \in settings.security.remote}])

\* What a process does with its settings, or the error it ends with.
Prepare(c, overrides) == Then(Resolved(c, overrides), LAMBDA settings : Listeners(settings, c.disk))

\* run_secure: the options, all of them, checked with the file's other
\* settings against a server on 127.0.0.1; nothing is written.
RunSecure(c, options) ==
  /\ options.check /\ ~options.off
  /\ options.listen # {} /\ options.cert # {} /\ options.key # {} /\ options.token # {}
  /\ Then(LoadWith(c, TRUE), LAMBDA cfg :
       Then(SecuritySettings(cfg, c.disk, FALSE), LAMBDA sec :
         Then(GetOr(cfg, Port, DefaultPort), LAMBDA port :
           IF PlanAdmits([ip |-> "127.0.0.1", port |-> port],
                         [sec EXCEPT !.remote = options.listen, !.cert = options.cert,
                                     !.key = options.key, !.token = options.token], c.disk)
           THEN Good("checked") ELSE Bad("other")))).ok

-----------------------------------------------------------------------------
(* The token                                                               *)

\* check_bearer: an Authorization header of the Bearer scheme, in any case,
\* with the token the digest is of.
CheckBearer(header, digest) ==
  \E h \in header : h.text /\ h.scheme = "bearer" /\ h.token = digest.of

\* require_bearer, on the remote listener: all but /health needs the token.
RequireBearer(path, header, digest) == path = "/health" \/ CheckBearer(header, digest)
=============================================================================
