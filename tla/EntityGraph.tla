---------------------------- MODULE EntityGraph ----------------------------
(***************************************************************************)
(* The in-memory relationship graph (m3-graph, and GraphIndex of           *)
(* m3-core-py): nodes in the order they were named, directed edges in the  *)
(* order they were added, breadth-first queries over them.                 *)
(***************************************************************************)
EXTENDS Integers, SequencesExt

NoGraph == [nodes |-> <<>>, edges |-> <<>>]
Known(g, id) == id \in ToSet(g.nodes)

WithNode(g, id) == IF Known(g, id) THEN g ELSE [g EXCEPT !.nodes = Append(@, id)]
WithEdge(g, from, to) ==
  [WithNode(WithNode(g, from), to) EXCEPT !.edges = Append(@, <<from, to>>)]

\* The ends of a node's edges as petgraph walks them: the newest edge first.
Targets(g, id) ==
  FoldLeft(LAMBDA ends, e : IF e[1] = id THEN <<e[2]>> \o ends ELSE ends, <<>>, g.edges)

-----------------------------------------------------------------------------
(* The search: every node found, in the order it joined the queue, with the *)
(* node it was found from and its distance; `next` is the head of the queue *)

Found(id, from, dist) == [id |-> id, from |-> from, dist |-> dist]
Seen(found, id) == \E i \in DOMAIN found : found[i].id = id

\* The neighbours of the head of the queue join it.
Join(st, found, id) ==
  IF Seen(found, id) THEN found
  ELSE Append(found, Found(id, st.next, st.found[st.next].dist + 1))
Visit(g, st, maxHops) ==
  LET head == st.found[st.next]
  IN  [next  |-> st.next + 1,
       found |-> IF head.dist = maxHops THEN st.found
                 ELSE FoldLeft(LAMBDA found, id : Join(st, found, id), st.found, Targets(g, head.id))]

Bfs(g, start, maxHops) ==
  FoldLeft(LAMBDA st, n : IF st.next > Len(st.found) THEN st ELSE Visit(g, st, maxHops),
           [next |-> 1, found |-> <<Found(start, 0, 0)>>],
           g.nodes).found

NeighborsWithin(g, start, maxHops) ==
  IF ~Known(g, start) THEN <<>>
  ELSE LET found == Bfs(g, start, maxHops)
       IN  [i \in DOMAIN found |-> <<found[i].id, found[i].dist>>]

\* The path back along `from`, or none; the search stops at `to`, and nothing
\* found later is on the way to it.
ShortestPath(g, from, to) ==
  LET found == Bfs(g, from, Len(g.nodes))
      back[i \in 0..Len(found)] ==
        IF i = 0 THEN <<>> ELSE Append(back[found[i].from], found[i].id)
  IN  IF ~Known(g, from) \/ ~Known(g, to) \/ ~Seen(found, to) THEN {}
      ELSE {back[CHOOSE i \in DOMAIN found : found[i].id = to]}

\* What is near the seeds, each once and no seed, cut off at the limit.
Emit(seeds, limit, out, near) ==
  IF \/ Len(out) >= limit \/ near[1] \in ToSet(seeds) \/ near[1] \in ToSet(out)
  THEN out ELSE Append(out, near[1])
EmitAll(g, seeds, maxHops, limit, out, seed) ==
  FoldLeft(LAMBDA o, near : Emit(seeds, limit, o, near), out, NeighborsWithin(g, seed, maxHops))
Expand(g, seeds, maxHops, limit) ==
  FoldLeft(LAMBDA out, seed : EmitAll(g, seeds, maxHops, limit, out, seed), <<>>, seeds)

-----------------------------------------------------------------------------
(* What the queries promise                                                *)

IsPath(g, p) == \A i \in 1..(Len(p) - 1) : \E e \in ToSet(g.edges) : e = <<p[i], p[i + 1]>>
Ball(g, from, most) ==   \* the nodes within 0, 1, ... edges
  LET b[h \in 0..most] == IF h = 0 THEN {from}
                          ELSE b[h - 1] \cup {e[2] : e \in {x \in ToSet(g.edges) : x[1] \in b[h - 1]}}
  IN  b
\* The fewest edges to a node, if it is within so many.
Hops(g, from, to, most) ==
  LET ball == Ball(g, from, most)
  IN  {h \in 0..most : to \in ball[h] /\ (h > 0 => to \notin ball[h - 1])}

\* neighbors_within lists exactly the nodes within reach, each once, with its
\* true distance, nearest first; shortest_path is a path of that length.
SearchIsShortest(g, start, most) ==
  LET near == NeighborsWithin(g, start, most)
  IN  Known(g, start) =>
        /\ ToSet(near) = UNION {{<<id, h>> : h \in Hops(g, start, id, most)} : id \in ToSet(g.nodes)}
        /\ Len(near) = Cardinality(ToSet(near))
        /\ \A i, j \in DOMAIN near : i < j => near[i][2] <= near[j][2]
        /\ \A id \in ToSet(g.nodes) : \A p \in ShortestPath(g, start, id) :
             IsPath(g, p) /\ p[1] = start /\ Last(p) = id /\ Len(p) - 1 \in Hops(g, start, id, Len(g.nodes))
        /\ \A id \in ToSet(g.nodes) :
             ShortestPath(g, start, id) = {} <=> Hops(g, start, id, Len(g.nodes)) = {}

\* expand returns no seed and nothing twice, no more than the limit, and with
\* room to spare everything within reach.
ExpandIsComplete(g, seeds, most, limit) ==
  LET out  == Expand(g, seeds, most, limit)
      near == UNION {{n[1] : n \in ToSet(NeighborsWithin(g, s, most))} : s \in ToSet(seeds)}
  IN  /\ Cardinality(ToSet(out)) = Len(out)
      /\ ToSet(out) \subseteq near \ ToSet(seeds)
      /\ Len(out) = Min({limit, Cardinality(near \ ToSet(seeds))})

=============================================================================
