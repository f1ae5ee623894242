------------------------------ MODULE Settings ------------------------------
(***************************************************************************)
(* m3-config: where m3_config.toml is, what a key is worth, what --set may *)
(* change, who may read the secrets file.                                  *)
(*                                                                         *)
(* A TOML value is [type, val].  A table is a function from dotted names to  *)
(* values, as `leaves` flattens it.  A result is [ok, value], an error     *)
(* [ok, kind]: "ConfigError" where the code returns one, "other" where it  *)
(* returns a plain message.  An optional value is a set of at most one.    *)
(***************************************************************************)
EXTENDS Integers, Sequences, FiniteSets, SequencesExt

Good(v)   == [ok |-> TRUE, value |-> v]
Bad(kind) == [ok |-> FALSE, kind |-> kind]
ConfigError == Bad("ConfigError")
Then(r, F(_)) == IF r.ok THEN F(r.value) ELSE r

-----------------------------------------------------------------------------
(* Where the file is                                                       *)

\* absolute: joined to the working directory unless it is absolute, then "."
\* dropped and ".." popping, lexically.
Absolute(p, cwd) ==
  FoldLeft(LAMBDA out, c : CASE c = "."  -> out
                             [] c = ".." -> IF out = <<>> THEN out ELSE Front(out)
                             [] OTHER    -> Append(out, c),
           <<>>, IF p.abs THEN p.parts ELSE cwd \o p.parts)

\* expand_user: "~" first is the home directory, where there is one.
ExpandUser(p, env) ==
  IF ~p.abs /\ p.parts # <<>> /\ Head(p.parts) = "~" /\ env.home # {}
  THEN [abs |-> TRUE, parts |-> (CHOOSE h \in env.home : TRUE) \o Tail(p.parts)]
  ELSE p

FromCwd(q, env) ==
  IF q.abs \/ env.cwd # {}
  THEN Good(Absolute(q, IF q.abs THEN <<>> ELSE CHOOSE d \in env.cwd : TRUE))
  ELSE Bad("other")
Located(p, env) == FromCwd(ExpandUser(p, env), env)

\* abs_root, and the path's components: a root that is absolute keeps its "..".
AbsRoot(p, env) ==
  LET q == ExpandUser(p, env)
  IN  IF q.abs THEN Good(SelectSeq(q.parts, LAMBDA c : c # ".")) ELSE Located(p, env)

\* locate: the directory of --config's file, else M3_CONFIG_ROOT, else
\* ~/.m3/config.  (The directory only: the file's name is given or fixed.)
Locate(explicit, env) ==
  CASE explicit # {} ->
         Then(Located(CHOOSE p \in explicit : TRUE, env),
              LAMBDA file : IF file = <<>> THEN Bad("other") ELSE Good(Front(file)))
    [] explicit = {} /\ env.root # {} -> AbsRoot(CHOOSE r \in env.root : TRUE, env)
    [] explicit = {} /\ env.root = {} /\ env.home # {} ->
         Good((CHOOSE h \in env.home : TRUE) \o <<".m3", "config">>)
    [] OTHER -> Bad("other")

-----------------------------------------------------------------------------
(* Values                                                                  *)

\* from_toml: the value has the key's own TOML type, an integer in its range,
\* a path something in it.
FromToml(key, raw) ==
  LET fits == CASE key.kind = "bool" -> raw.type = "bool"
                [] key.kind = "int"  -> raw.type = "int" /\ raw.val >= key.min /\ raw.val <= key.max
                [] key.kind = "str"  -> raw.type = "str"
                [] key.kind = "path" -> raw.type = "str" /\ raw.val # ""
  IN  IF fits THEN Good(raw.val) ELSE ConfigError

\* parse_set: a table in braces whose every name is a settable key with a
\* value of its type, or nothing at all.
ParseSet(text, known) ==
  IF text.braces /\ text.closed /\ text.parses
     /\ \A n \in DOMAIN text.table :
          \E k \in known : k.name = n /\ k.flag /\ FromToml(k, text.table[n]).ok
  THEN Good(text.table)
  ELSE ConfigError

\* Config::load: an absent file is an empty one, an unreadable one an error.
LoadFile(file) ==
  CASE file.state = "absent" -> Good(<<>>)
    [] file.state = "good"   -> Good(file.table)
    [] file.state \in {"unreadable", "not_utf8", "not_toml"} -> ConfigError

\* Config::get: --set, then the file, then nothing.
Get(cfg, key) ==
  CASE key.name \in DOMAIN cfg.set -> Then(FromToml(key, cfg.set[key.name]), LAMBDA v : Good({v}))
    [] key.name \notin DOMAIN cfg.set /\ key.name \in DOMAIN cfg.file ->
         Then(FromToml(key, cfg.file[key.name]), LAMBDA v : Good({v}))
    [] OTHER -> Good({})

\* bool_or, int_or.
GetOr(cfg, key, default) ==
  Then(Get(cfg, key), LAMBDA v : Good(IF v = {} THEN default ELSE CHOOSE x \in v : TRUE))

FipsModeKey   == [name |-> "crypto.fips_mode", kind |-> "bool", flag |-> TRUE]
FipsStrictKey == [name |-> "crypto.fips_strict", kind |-> "bool", flag |-> TRUE]

\* fips_tier: strict implies mode; both must be well typed.
FipsTier(cfg) ==
  Then(GetOr(cfg, FipsModeKey, FALSE), LAMBDA mode :
    Then(GetOr(cfg, FipsStrictKey, FALSE), LAMBDA strict :
      Good(CASE strict -> "strict" [] ~strict /\ mode -> "mode" [] OTHER -> "off")))

-----------------------------------------------------------------------------
(* Secrets                                                                 *)

Trusted == {"SY", "BA", "OW", "S-1-5-18", "S-1-5-32-544", "S-1-3-4"}

\* foreign_principals: whom an applying allow ace admits beyond the user, by
\* any of its names, and the system; no DACL admits everyone.
ForeignPrincipals(dacl, user, also) ==
  IF dacl = {} THEN {"Everyone (no DACL)"}
  ELSE {ace.sid : ace \in {a \in UNION dacl : a.fields = 6 /\ a.allow /\ ~a.inheritOnly}}
         \ (Trusted \cup user \cup also)

\* check_private, on Unix: user-only mode and the user's own.
PrivateOnUnix(st) == ~st.othersMayRead /\ st.owner = st.uid

\* check_private, on Windows: read as LocalSystem the owner counts as the user.
PrivateOnWindows(st) ==
  ForeignPrincipals(st.dacl, st.names, IF "S-1-5-18" \in st.names THEN {st.owner} ELSE {}) = {}

Private(st) == IF st.os = "windows" THEN PrivateOnWindows(st) ELSE PrivateOnUnix(st)

\* read_secret: absent is absent; what exists but is not private, not readable
\* or malformed is an error, and so is a value kept in the keyring.
ReadSecret(file) ==
  CASE file.state = "absent" -> Good({})
    [] file.state # "absent" /\ ~Private(file.st) -> ConfigError
    [] OTHER ->
         CASE file.state = "malformed" -> ConfigError
           [] file.state = "no_table"  -> Good({})
           [] file.state = "table"     ->
                CASE file.entry = "none"   -> Good({})
                  [] file.entry = "string" -> Good({file.value})
                  [] OTHER                 -> ConfigError
=============================================================================
