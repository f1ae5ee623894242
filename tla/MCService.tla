----------------------------- MODULE MCService -----------------------------
(* The embed server.  Its service, its startup, its interface and its log   *)
(* share no variable here: a behaviour is one of them, so that their states *)
(* add up and do not multiply.                                              *)
EXTENDS Service

S(v) == [type |-> "str", val |-> v]
I(v) == [type |-> "int", val |-> v]
B(v) == [type |-> "bool", val |-> v]

Ip(ip, port) == [ip |-> ip, port |-> port]
GoodDigest   == [hex |-> TRUE, len |-> 64, of |-> "t"]
OwnFile      == [os |-> "unix", othersMayRead |-> FALSE, owner |-> 1, uid |-> 1]
Secrets(st, state, entry, digest) == [state |-> state, st |-> st, entry |-> entry, value |-> digest]
GoodSecrets  == Secrets(OwnFile, "table", "string", GoodDigest)
Key(state, cert, others) == [state |-> state, of |-> cert, othersMayRead |-> others]
Disk(os, secrets, key, fips) ==
  [models |-> {"m.gguf"}, secrets |-> secrets, certs |-> [c \in {"cert", "junk"} |-> IF c = "cert" THEN "certificate" ELSE "text"],
   keys |-> "key" :> key, os |-> os, fipsBuild |-> fips]
GoodDisk == Disk("unix", GoodSecrets, Key("key", "cert", FALSE), FALSE)

Env == [root |-> {}, home |-> {<<"home", "u">>}, cwd |-> {<<"w">>}]
Launch(explicit, env, set, file, disk) ==
  [explicit |-> explicit, env |-> env, set |-> set, file |-> file, disk |-> disk, streams |-> 1]
From(table, disk) == Launch({}, Env, {}, [state |-> "good", table |-> table], disk)

None     == <<>>
Model    == "embed.gguf" :> S("m.gguf")
OnRemote == RemoteListen.name :> S(Ip("192.168.0.5", {8443}))
Tls      == TlsCert.name :> S("cert") @@ TlsKey.name :> S("key")

-----------------------------------------------------------------------------
(* The service: a file that is good, one that serves other machines, one    *)
(* whose host is refused at startup, and one that is not TOML.              *)

MCConfigs == {From(Model, GoodDisk), From(Model @@ OnRemote @@ Tls, GoodDisk),
              From(Model @@ Host.name :> S("0.0.0.0"), GoodDisk),
              [From(Model, GoodDisk) EXCEPT !.file = [state |-> "not_toml", table |-> None]]}
MCAddresses == {Ip("127.0.0.1", 8082), Ip("192.168.0.5", 8443)}

-----------------------------------------------------------------------------
(* The startup                                                              *)

Hosts == {None, Host.name :> S("0.0.0.0"), Host.name :> S("localhost"), Host.name :> S("192.168.0.5"),
          Port.name :> I(9000), Port.name :> S("9000"), Ctx.name :> I(512)}
Remotes == {None, OnRemote, RemoteListen.name :> S(Ip("192.168.0.5", {})),
            RemoteListen.name :> S(Ip("127.0.0.1", {})), RemoteListen.name :> S(Ip("embedder.lan", {8443})),
            RemoteListen.name :> B(TRUE)}
TlsFiles == {None, Tls, TlsCert.name :> S("cert"), TlsCert.name :> S("junk") @@ TlsKey.name :> S("key")}
FipsKeys == {None, FipsStrictKey.name :> B(TRUE), FipsModeKey.name :> B(TRUE), FipsStrictKey.name :> S("yes")}

Ace(fields, allow, inheritOnly, sid) == [fields |-> fields, allow |-> allow, inheritOnly |-> inheritOnly, sid |-> sid]
WindowsFile(dacl, name) == [os |-> "windows", dacl |-> dacl, names |-> {name}, owner |-> "S-1-5-21-7"]
MCSecretFiles ==
  {GoodSecrets, Secrets(OwnFile, "absent", "none", GoodDigest), Secrets(OwnFile, "table", "none", GoodDigest),
   Secrets(OwnFile, "malformed", "none", GoodDigest), Secrets(OwnFile, "table", "other", GoodDigest),
   Secrets([OwnFile EXCEPT !.othersMayRead = TRUE], "table", "string", GoodDigest),
   Secrets([OwnFile EXCEPT !.owner = 2], "table", "string", GoodDigest),
   Secrets(OwnFile, "table", "string", [GoodDigest EXCEPT !.len = 63]),
   Secrets(OwnFile, "table", "string", [GoodDigest EXCEPT !.hex = FALSE])}
WindowsSecrets ==
  {Secrets(WindowsFile(dacl, name), "table", "string", GoodDigest) :
     dacl \in {{}, {{Ace(6, TRUE, FALSE, "SY"), Ace(6, TRUE, FALSE, "S-1-5-21-7")}},
               {{Ace(6, TRUE, TRUE, "WD"), Ace(7, TRUE, FALSE, "WD"), Ace(6, FALSE, FALSE, "WD")}},
               {{Ace(6, TRUE, FALSE, "WD")}}},
     name \in {"S-1-5-21-7", "S-1-5-18", "S-1-5-21-8"}}
Disks == {Disk("unix", s, Key("key", "cert", FALSE), f) : s \in MCSecretFiles, f \in BOOLEAN}
         \cup {Disk("unix", GoodSecrets, k, FALSE) :
                 k \in {Key("key", "cert", TRUE), Key("key", "other", FALSE), Key("junk", "cert", FALSE)}}
         \cup {Disk("windows", s, Key("key", "cert", TRUE), FALSE) : s \in WindowsSecrets}
         \cup {[GoodDisk EXCEPT !.models = {}]}

Text(table) == [braces |-> TRUE, closed |-> TRUE, parses |-> TRUE, table |-> table]
Sets == {{}, {Text(Port.name :> I(9001))}, {Text(Port.name :> I(70000))}, {Text(SecretsFile.name :> S("x"))},
         {[Text(None) EXCEPT !.closed = FALSE]}}
BadFiles == {[state |-> s, table |-> None] : s \in {"absent", "unreadable", "not_utf8", "not_toml"}}

Tables == {Model @@ h @@ r @@ t @@ f : h \in Hosts, r \in Remotes, t \in TlsFiles, f \in FipsKeys}
PlainTables == {Model @@ h @@ r @@ Tls : h \in {None, Ctx.name :> I(512)}, r \in {None, OnRemote}}

Starts == {From(t, d) : t \in Tables, d \in {GoodDisk, [GoodDisk EXCEPT !.fipsBuild = TRUE]}}
          \cup {From(t, d) : t \in PlainTables, d \in Disks}
          \cup {[From(t, GoodDisk) EXCEPT !.set = s] : t \in PlainTables, s \in Sets}
          \cup {[From(None, GoodDisk) EXCEPT !.file = f, !.set = s] :
                  f \in BadFiles, s \in {{}, {Text(Model)}, {Text(Model @@ Host.name :> S("::1"))}}}
Path_(abs, parts) == [abs |-> abs, parts |-> parts]
Places_ ==
  {[From(Model, GoodDisk) EXCEPT !.explicit = e, !.env = [root |-> r, home |-> h, cwd |-> w]] :
     e \in {{}, {Path_(TRUE, <<>>)}, {Path_(FALSE, <<"~", "c.toml">>)}, {Path_(FALSE, <<"..", "..", ".", "c.toml">>)}},
     r \in {{}, {Path_(FALSE, <<"~", "m3">>)}}, h \in {{}, {<<"home", "u">>}}, w \in {{}, {<<"w">>}}}

Digests == {GoodDigest, [GoodDigest EXCEPT !.len = 10]}
Options ==
  [listen : {{}, {Ip("192.168.0.5", {8443})}, {Ip("127.0.0.1", {})}, {Ip("embedder.lan", {})}},
   cert : {{}, {"cert"}, {"junk"}}, key : {{}, {"key"}}, token : {{d} : d \in Digests} \cup {{}},
   check : BOOLEAN, off : BOOLEAN]
Word(w, inline) == [word |-> w, inline |-> inline]
ArgLists ==
  LET words == {Word("--config", TRUE), Word("--config", FALSE), Word("--set", TRUE), Word("--set", FALSE),
                Word("install", FALSE), Word("secure", FALSE), Word("serve", FALSE)}
  IN  UNION {[1..n -> words] : n \in 0..4}

MCQuestions ==
  {[fn |-> "start", config |-> c, overrides |-> o] : c \in Starts \cup Places_, o \in BOOLEAN}
  \cup {[fn |-> "install", config |-> c] : c \in Starts \cup Places_}
  \cup {[fn |-> "secure", config |-> c, options |-> o] :
          c \in {From(Model @@ h @@ f, d) : h \in {None, Port.name :> I(9000), Port.name :> S("x")},
                    f \in {None, FipsStrictKey.name :> B(TRUE)},
                    d \in {GoodDisk, Disk("unix", GoodSecrets, Key("key", "cert", TRUE), TRUE)}},
          o \in Options}
  \cup {[fn |-> "main", args |-> a] : a \in ArgLists}

-----------------------------------------------------------------------------
(* The interface                                                            *)

Post(path, body, tokenizer) ==
  [path |-> path, remote |-> FALSE, header |-> {}, digest |-> GoodDigest, body |-> body, tokenizer |-> tokenizer]
Header(text, scheme, token) == {[text |-> text, scheme |-> scheme, token |-> token]}
MCApiRequests ==
  {Post("/embedding", b, "ok") : b \in {"texts", "no_texts", "too_large", "not_json", "wrong_type", "not_strings"}}
  \cup {Post("/tokenize", "texts", t) : t \in {"ok", "config", "panic"}}
  \cup {[Post(p, "texts", "ok") EXCEPT !.remote = TRUE, !.header = h] :
          p \in {"/embedding", "/health", "/metrics"},
          h \in {{}, Header(TRUE, "bearer", "t"), Header(TRUE, "bearer", "u"), Header(TRUE, "basic", "t"),
                 Header(FALSE, "bearer", "t")}}

-----------------------------------------------------------------------------

mcVars == <<serviceVars, planVars, apiVars, logVars>>
MCInit == ServiceInit /\ PlanInit /\ ApiInit /\ LogInit

FirstFile == Settled(From(Model, GoodDisk))
AtServiceInit == budget.commands = MaxCommands /\ holder = [a \in Addresses |-> "free"] /\ ~calm
                 /\ platform = "systemd" /\ config = FirstFile /\ op = Idle
NoAnswer == question = NoQuestion
NoLog    == \A r \in Rejections : rejected[r].at = "read"
NoCall   == breaker = NewBreaker /\ \A c \in Clients : client[c] = NoReply

MCNext ==
  \/ NoAnswer /\ NoLog /\ NoCall /\ ServiceNext /\ UNCHANGED <<planVars, apiVars, logVars>>
  \/ AtServiceInit /\ NoLog /\ NoCall /\ PlanNext /\ UNCHANGED <<serviceVars, apiVars, logVars>>
  \/ AtServiceInit /\ NoAnswer /\ NoLog /\ ApiNext /\ UNCHANGED <<serviceVars, planVars, logVars>>
  \/ AtServiceInit /\ NoAnswer /\ NoCall /\ LogNext /\ UNCHANGED <<serviceVars, planVars, apiVars>>
MCSpec == MCInit /\ [][MCNext]_mcVars /\ ServiceFairness
=============================================================================
