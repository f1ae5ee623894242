----------------------------- MODULE Addressing -----------------------------
(***************************************************************************)
(* Which readers see a message addressed to a recipient: m3-dispatchd's    *)
(* addressing.rs.  An agent id is the sequence of what its "@" separate:   *)
(* "a" is <<"a">>, "a@1" is <<"a", "1">>, "a@" is <<"a", "">>.             *)
(***************************************************************************)
EXTENDS Naturals, SequencesExt

\* type@instance, the instance not empty.
IsQualified(id) == Len(id) > 1 /\ id # <<Head(id), "">>

\* A qualified reader sees exactly its own id, a bare one its own and every
\* instance of its type: what starts with the reader and an "@".
Sees(reader, recipient) ==
  \/ reader = recipient
  \/ ~ IsQualified(reader) /\ IsStrictPrefix(reader, recipient)

SeenByAny(readers, recipient) == \E reader \in readers : Sees(reader, recipient)
============================================================================
