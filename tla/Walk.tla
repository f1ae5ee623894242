-------------------------------- MODULE Walk --------------------------------
(***************************************************************************)
(* The directory sweep (m3-ingest walk, fs_walk and fs_walk_with_errors of *)
(* m3-core-py).  A tree is [listing |-> [directory -> sequence of entries],*)
(* unreadable |-> directories, unresolvable |-> paths]; an entry has a     *)
(* name, a kind -- "file", "dir", "gone" (its metadata cannot be read),    *)
(* "bad" (the listing itself fails there) or "link" -- and a target: the   *)
(* directory it is or leads to, FileTarget for a link to a file, NoTarget  *)
(* for a broken one.  A path is the names from the root; canonicalize      *)
(* fails on those that are unresolvable.                                   *)
(***************************************************************************)
EXTENDS Integers, SequencesExt

CONSTANTS MaxWalkDepth,           \* MAX_WALK_DEPTH
          FileTarget, NoTarget
ASSUME WalkAssumption == MaxWalkDepth \in Nat

Unbounded == -1                   \* a negative max_depth
Basenames == STRING

\* The names in a directory differ, a directory is one of the tree's, and what a
\* link leads to may be none.
IsTree(t) ==
  /\ t.listing \in [DOMAIN t.listing ->
                     Seq([name : Basenames, kind : {"file", "dir", "gone", "bad", "link"},
                          target : DOMAIN t.listing \cup {FileTarget, NoTarget}])]
  /\ t.unresolvable \subseteq Seq(Basenames)
  /\ FileTarget # NoTarget /\ {FileTarget, NoTarget} \cap DOMAIN t.listing = {}
  /\ \A dir \in DOMAIN t.listing : \A i, j \in DOMAIN t.listing[dir] :
       /\ t.listing[dir][i].name = t.listing[dir][j].name => i = j
       /\ t.listing[dir][i].kind = "dir" => t.listing[dir][i].target \in DOMAIN t.listing
       /\ t.listing[dir][i].kind = "file" => t.listing[dir][i].target = FileTarget
IsWalk(o) == o \in [follow : BOOLEAN, maxDepth : Nat \cup {Unbounded}, ignores : SUBSET Basenames]

Entry(path, isDir) == [path |-> path, isDir |-> isDir]
\* A root that does not resolve is not marked as walked.
NoWalk(t, root) ==
  [entries |-> <<>>, errors |-> <<>>, visited |-> IF <<>> \in t.unresolvable THEN {} ELSE {root}]
Listed(w, path, isDir) == [w EXCEPT !.entries = Append(@, Entry(path, isDir))]
RecordedMutNotBroken(w, path, why) ==
  IF why = "broken" THEN w ELSE [w EXCEPT !.errors = Append(@, <<path, why>>)]
Recorded(w, path, why) == [w EXCEPT !.errors = Append(@, <<path, why>>)]

\* What an entry is, its link followed if links are.
Follows(o, e, target) == e.kind = "link" /\ o.follow /\ e.target = target
IsFile(o, e) == e.kind = "file" \/ Follows(o, e, FileTarget)
IsDirectory(o, e) == \/ e.kind = "dir"
                     \/ e.kind = "link" /\ o.follow /\ e.target \notin {FileTarget, NoTarget}

\* A real directory is walked once, wherever links to it are.
AlreadyWalkedMutNever(o, w, dir) == FALSE
AlreadyWalked(o, w, dir) == o.follow /\ dir \in w.visited

\* max_depth counts from the root: 0 is its direct children.
TooDeep(o, depth) == o.maxDepth # Unbounded /\ depth > o.maxDepth

Reasons == {"unreadable", "listing", "metadata", "broken", "ceiling", "resolve", "alias"}
Sweeps(t) == [entries : Seq([path : Seq(Basenames), isDir : BOOLEAN]),
              errors : Seq(Seq(Basenames) \X Reasons), visited : SUBSET DOMAIN t.listing]

\* A call of recurse: the sweep so far, and the directory and where it is.
WalkCalls(t) == [w : Sweeps(t), path : Seq(Basenames), depth : Nat, dir : DOMAIN t.listing]
WalkCall(w, path, depth, dir) == [w |-> w, path |-> path, depth |-> depth, dir |-> dir]

\* One entry of the directory of call c; walk is recurse itself.
WalkEntry(walk, t, o, c, w, e) ==
  LET here  == Append(c.path, e.name)
      depth == c.depth + 1
      seen  == Listed(w, here, TRUE)
  IN  CASE e.kind = "bad"               -> Recorded(w, <<>>, "listing")
        [] e.kind = "gone"              -> Recorded(w, here, "metadata")
        [] e.kind = "link" /\ ~o.follow -> w
        [] Follows(o, e, NoTarget)      -> Recorded(w, here, "broken")
        [] IsFile(o, e)                 -> Listed(w, here, FALSE)
        [] OTHER ->
             IF e.name \in o.ignores THEN w
             ELSE IF TooDeep(o, depth) THEN seen
             ELSE IF depth > MaxWalkDepth THEN Recorded(seen, here, "ceiling")
             ELSE IF o.follow /\ here \in t.unresolvable THEN Recorded(seen, here, "resolve")
             ELSE IF AlreadyWalked(o, seen, e.target) THEN Recorded(seen, here, "alias")
             ELSE walk[WalkCall([seen EXCEPT !.visited = @ \cup {e.target}], here, depth, e.target)]
WalkDir(t, o, from) ==
  LET walk[c \in WalkCalls(t)] ==
        IF c.dir \in t.unreadable THEN Recorded(c.w, c.path, "unreadable")
        ELSE FoldLeft(LAMBDA w, e : WalkEntry(walk, t, o, c, w, e), c.w, t.listing[c.dir])
  IN  walk[WalkCall(NoWalk(t, from), <<>>, 0, from)]

\* A root that cannot be read is an error; below it, an error is recorded and
\* the sweep goes on.
WalkTree(t, o, root) ==
  IF root \in t.unreadable THEN [ok |-> FALSE]
  ELSE [ok |-> TRUE, value |-> WalkDir(t, o, root)]

-----------------------------------------------------------------------------
(* What the sweep promises                                                 *)

Paths(entries) == {entries[i].path : i \in DOMAIN entries}
\* The directory at a path, as a set.
DirsBelow(t, dirs, name) ==
  {e.target : e \in {x \in UNION {ToSet(t.listing[d]) : d \in dirs} : x.name = name}} \cap DOMAIN t.listing
DirsAt(t, root, path) == FoldLeft(LAMBDA dirs, name : DirsBelow(t, dirs, name), {root}, path)

\* A sweep tells of an entry of the directory at a path: it is listed as what it
\* is, or an error is recorded -- where it is, or, when the listing failed there,
\* of the listing -- or it is a link and links are not followed, or ignored.
Erred(w) == {w.errors[j][1] : j \in DOMAIN w.errors}
Told(o, w, path, e) ==
  LET here == Append(path, e.name)
  IN  \/ e.kind = "bad" /\ <<>> \in Erred(w)
      \/ (e.kind = "gone" \/ Follows(o, e, NoTarget)) /\ here \in Erred(w)
      \/ e.kind = "link" /\ ~o.follow
      \/ IsFile(o, e) /\ Entry(here, FALSE) \in ToSet(w.entries)
      \/ IsDirectory(o, e) /\ (e.name \in o.ignores \/ Entry(here, TRUE) \in ToSet(w.entries))

\* A directory is told of whole, unless, below the root, the depth or an error
\* recorded there says why it is not.
Accounted(t, o, root, w, p) ==
  \/ p # <<>> /\ (TooDeep(o, Len(p)) \/ p \in Erred(w))
  \/ \E dir \in DirsAt(t, root, p) : \A e \in ToSet(t.listing[dir]) : Told(o, w, p, e)

\* Every path is listed once, under directories that are listed and not
\* ignored, no deeper than asked for; of the root and of every directory listed,
\* every entry is listed, ignored or recorded; following links, the entries of a
\* directory are listed under one path only, that of a root that does not
\* resolve apart.
SweepIsComplete(t, o, root) ==
  LET r == WalkTree(t, o, root)
      w == r.value
      descended == {Front(p) : p \in Paths(w.entries)}
  IN  r.ok =>
        /\ Cardinality(Paths(w.entries)) = Len(w.entries)
        /\ \A p \in Paths(w.entries) :
             /\ \A i \in 1..(Len(p) - 1) : p[i] \notin o.ignores
             /\ o.maxDepth # Unbounded => Len(p) <= o.maxDepth + 1
             /\ Len(p) > 1 => Entry(Front(p), TRUE) \in ToSet(w.entries)
        /\ \A p \in {<<>>} \cup {e.path : e \in {x \in ToSet(w.entries) : x.isDir}} :
             Accounted(t, o, root, w, p)
        /\ o.follow => \A p, q \in descended \ ({<<>>} \cap t.unresolvable) :
             DirsAt(t, root, p) = DirsAt(t, root, q) => p = q

=============================================================================
