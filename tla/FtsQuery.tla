------------------------------ MODULE FtsQuery ------------------------------
(***************************************************************************)
(* Full-text query compilation (m3-fts, compile_fts_query and sanitize_fts *)
(* of m3-core-py).  A query is a sequence of lexemes: words, each with its *)
(* letters only ("alnum"), with an underscore ("snake") or an operator of  *)
(* the query language ("op"), blanks, and single characters of punctuation.*)
(* Two words never touch.                                                  *)
(***************************************************************************)
EXTENDS Integers, SequencesExt

Lexeme(kind, text) == [kind |-> kind, text |-> text]
Blank1 == Lexeme("blank", "_")
IsWord(x) == x.kind \in {"alnum", "snake", "op"}
Written(query) == \A i \in 1..(Len(query) - 1) : ~(IsWord(query[i]) /\ IsWord(query[i + 1]))

\* Leading and trailing blanks go.
Trim(s) == LET solid == {i \in DOMAIN s : s[i].kind # "blank"}
           IN  IF solid = {} THEN <<>> ELSE SubSeq(s, Min(solid), Max(solid))

\* Operator words become blanks, then so does whatever is no word or blank.
Neutral(x) == IF x.kind \in {"alnum", "snake", "blank"} THEN x ELSE Blank1
SanitizeFts(query, maxLen) ==
  Trim([i \in 1..Min({Len(query), maxLen}) |-> Neutral(query[i])])

SearchablePunct == {"?", "!", ":", ".", ",", ";", "/", "\"", "'"}
SanitizeForSearchable(s) ==
  [i \in DOMAIN s |-> IF s[i].text \in SearchablePunct THEN Blank1 ELSE s[i]]

\* A query as it is typed: no word has the text of a character of punctuation.
IsQuery(query) ==
  /\ query \in Seq(ToSet(query))
  /\ \A x \in ToSet(query) : IsWord(x) => x.text \notin SearchablePunct

Quoted(query, q) == query # <<>> /\ Head(query).text = q /\ Last(query).text = q
\* A phrase keeps what is between its quotes; a quote inside is doubled.
Doubled(s) == FoldLeft(LAMBDA out, x : IF x.text = "\"" THEN out \o <<x, x>> ELSE Append(out, x), <<>>, s)
Inner(query) == IF Len(query) <= 1 THEN <<>> ELSE SubSeq(query, 2, Len(query) - 1)

Picked(s, kinds) == FoldLeft(LAMBDA out, x : IF x.kind \in kinds THEN Append(out, x) ELSE out, <<>>, s)
Words(s) == Picked(s, {"alnum", "snake", "op"})

Match(form, terms) == [ok |-> TRUE, form |-> form, terms |-> terms]
NoMatch == [ok |-> FALSE, form |-> "none", terms |-> <<>>]

CompileFtsQuery(query, mode, maxLen) ==
  LET clean == Trim(SanitizeForSearchable(SanitizeFts(query, maxLen)))
      words == Words(clean)
  IN  CASE Quoted(query, "\"") \/ Quoted(query, "'") -> Match("phrase", Doubled(Inner(query)))
        [] OTHER ->
             IF clean = <<>> THEN NoMatch
             ELSE IF mode = "fts5" /\ Len(words) > 1 THEN Match("or", words)
             ELSE IF Len(clean) = 1 /\ clean[1].kind = "alnum" THEN Match("prefix", clean)
             ELSE Match("plain", clean)

\* Outside a phrase a compiled query has words only, no operator among them,
\* in the order they were typed; a wildcard stands on a single word; inside a
\* phrase every quote is doubled.  No match means no word was typed.
QueryIsSafe(query, mode, maxLen) ==
  LET r     == CompileFtsQuery(query, mode, maxLen)
      typed == Picked(SubSeq(query, 1, Min({Len(query), maxLen})), {"alnum", "snake"})
      quotes == {i \in DOMAIN r.terms : r.terms[i].text = "\""}
  IN  /\ r.form # "phrase" =>
           /\ \A i \in DOMAIN r.terms : r.terms[i].kind \in {"alnum", "snake", "blank"}
           /\ Words(r.terms) = typed
           /\ r.ok <=> typed # <<>>
      /\ r.form = "prefix" => Len(r.terms) = 1 /\ r.terms[1].kind = "alnum"
      /\ r.form = "or" => Len(r.terms) > 1
      /\ r.form = "phrase" =>
           /\ Cardinality(quotes) % 2 = 0
           /\ Cardinality(quotes) = 2 * Cardinality({i \in DOMAIN Inner(query) : Inner(query)[i].text = "\""})

=============================================================================
