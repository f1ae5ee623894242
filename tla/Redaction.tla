----------------------------- MODULE Redaction -----------------------------
(***************************************************************************)
(* Secret redaction (m3-redact) and the scrub binding of m3-core-py with   *)
(* its thread's one-slot cache of a compiled redactor.  A text is a        *)
(* sequence of tokens <<"text", t>>; a match becomes <<"marker", group>>.  *)
(* A regular expression is [good |-> it compiles, matches |-> the tokens]. *)
(***************************************************************************)
EXTENDS Integers, SequencesExt

CONSTANT Builtin     \* the regular expressions of each built-in group

EvaluationOrder == <<"api_keys", "bearer_tokens", "jwt", "aws_keys", "github_tokens",
                     "custom_regex", "pii">>

\* A regular expression of a built-in group matches text and no marker.
ASSUME RedactionAssumption ==
  /\ DOMAIN Builtin = ToSet(EvaluationOrder) \ {"custom_regex"}
  /\ \A g \in DOMAIN Builtin :
       /\ Builtin[g] \in Seq(ToSet(Builtin[g]))
       /\ \A re \in ToSet(Builtin[g]), h \in ToSet(EvaluationOrder) : <<"marker", h>> \notin re.matches

VARIABLES cache,        \* the cached <<config, redactor>>, or none
          errors,       \* the thread's last compile errors
          scrubbed      \* the last call and what it returned, or none
redactVars == <<cache, errors, scrubbed>>

-----------------------------------------------------------------------------
(* Redactor::new                                                           *)

Active(config, group) ==
  /\ group \in ToSet(config.patterns)
  /\ group = "pii" => config.redactPii
  /\ group = "custom_regex" => config.custom # <<>>

\* A loop that pushes what it does not skip.
Skipping(s, skip) == FoldLeft(LAMBDA kept, e : IF e \in skip THEN kept ELSE Append(kept, e), <<>>, s)

Bad(config)      == {re \in ToSet(config.custom) : ~re.good}
Inactive(config) == {g \in ToSet(EvaluationOrder) : ~Active(config, g)}
Groups(config)   == Skipping(EvaluationOrder,
                             Inactive(config) \cup IF ToSet(config.custom) \subseteq Bad(config) THEN {"custom_regex"} ELSE {})

Compiled(config, group) ==
  [name |-> group,
   regexes |-> IF group = "custom_regex" THEN Skipping(config.custom, Bad(config)) ELSE Builtin[group]]

Unknown(config) == {i \in DOMAIN config.patterns : config.patterns[i] \notin ToSet(EvaluationOrder)}
Broken(config)  == {i \in DOMAIN config.custom : Active(config, "custom_regex") /\ config.custom[i] \in Bad(config)}

Reported(field, entries, wrong) ==
  LET at == Skipping([i \in DOMAIN entries |-> i], DOMAIN entries \ wrong)
  IN  [j \in DOMAIN at |-> <<field, at[j]>>]

NewRedactor(config) ==
  IF ~config.enabled THEN [enabled |-> FALSE, groups |-> <<>>, errors |-> <<>>]
  ELSE LET names == Groups(config)
       IN  [enabled |-> TRUE, groups |-> [j \in DOMAIN names |-> Compiled(config, names[j])],
            errors |-> Reported("patterns", config.patterns, Unknown(config))
                       \o Reported("custom_regex", config.custom, Broken(config))]

-----------------------------------------------------------------------------
(* Redactor::apply                                                         *)

\* Every match of one expression gives way to its group's marker; the texts
\* of later expressions include the markers of earlier ones.
Marked(st, re, group) ==
  [content |-> [i \in DOMAIN st.content |->
                  IF st.content[i] \in re.matches THEN <<"marker", group>> ELSE st.content[i]],
   count   |-> st.count + Cardinality({i \in DOMAIN st.content : st.content[i] \in re.matches}),
   fired   |-> st.fired]

AllMarked(st, group) == FoldLeft(LAMBDA acc, re : Marked(acc, re, group.name), st, group.regexes)

ApplyGroup(st, group) ==
  LET after == AllMarked(st, group)
  IN  IF after.count = st.count THEN after ELSE [after EXCEPT !.fired = Append(@, group.name)]

Apply(redactor, content) ==
  FoldLeft(ApplyGroup, [content |-> content, count |-> 0, fired |-> <<>>], redactor.groups)

-----------------------------------------------------------------------------
(* scrub and redaction_compile_errors, on one thread                       *)

RedactInit == cache = {} /\ errors = <<>> /\ scrubbed = {}

RebuildMutPatternsOnly(config) == \A c \in cache : c.config.patterns # config.patterns
Rebuild(config) == \A c \in cache : c.config # config

Scrub(config, content) ==
  LET slot == IF Rebuild(config)
              THEN [config |-> config, redactor |-> NewRedactor(config)]
              ELSE CHOOSE c \in cache : TRUE
      out  == Apply(slot.redactor, content)
  IN  /\ cache' = {slot}
      /\ errors' = slot.redactor.errors
      /\ scrubbed' = {[config |-> config, input |-> content, out |-> out]}

RedactNext(configs, contents) == \E c \in configs, t \in contents : Scrub(c, t)

-----------------------------------------------------------------------------

Place(group) == CHOOSE i \in DOMAIN EvaluationOrder : EvaluationOrder[i] = group

\* After any calls with any configurations, what scrub returned and the errors
\* the thread reads back are those of a redactor built for the last call's own
\* configuration; no secret of an active group is left, nothing is touched when
\* nothing matched, and a mistyped group or expression is always reported.
ScrubIsForItsOwnConfig ==
  \A s \in scrubbed :
    LET fresh   == NewRedactor(s.config)
        on(g)   == /\ s.config.enabled /\ g \in ToSet(s.config.patterns)
                   /\ g = "pii" => s.config.redactPii
        secrets == UNION {UNION {re.matches : re \in ToSet(Builtin[g])} :
                            g \in {x \in DOMAIN Builtin : on(x)}}
    IN  /\ s.out = Apply(fresh, s.input)
        /\ errors = fresh.errors
        /\ ToSet(s.out.content) \cap secrets = {}
        /\ s.out.count = 0 => s.out.content = s.input
        /\ s.out.count >= Cardinality({i \in DOMAIN s.input : s.input[i] \in secrets})
        /\ \A g \in ToSet(s.out.fired) : g \in ToSet(EvaluationOrder) /\ on(g)
        /\ \A i, j \in DOMAIN s.out.fired : i < j => Place(s.out.fired[i]) < Place(s.out.fired[j])
        /\ s.config.enabled =>
             \A i \in DOMAIN s.config.patterns :
               s.config.patterns[i] \notin ToSet(EvaluationOrder)
                 => <<"patterns", i>> \in ToSet(errors)

=============================================================================
