---------------------------- MODULE RoutingGraph ----------------------------
(***************************************************************************)
(* The routing graph of the link-state router (MultiGraph.tcc): the search *)
(* for a shortest path and the next hop it gives.  A graph is a set of     *)
(* nodes and a set of edges, records [id, source, dest, weight]; weights   *)
(* and distances are unsigned machine integers whose largest value says    *)
(* "no link" and "not reached".                                            *)
(***************************************************************************)
EXTENDS Integers, FiniteSets

CONSTANT MaxDistance    \* 0xffffffff

ASSUME MaxDistanceAssumption == MaxDistance \in Nat \ {0}

----------------------------------------------------------------------------
(* shortest_path *)

\* Nodes that were never queued are white, queued ones gray, expanded ones
\* black.
Start(V, a) ==
  [distance |-> [v \in V |-> IF v = a THEN 0 ELSE MaxDistance],
   prev |-> [v \in V |-> {}], gray |-> {a}, black |-> {}]

Sum(x, w) == (x + w) % (MaxDistance + 1)

\* Wrong: a node that is queued already keeps the first way found to it.
ShorteningOnce(E, s, cur, v) ==
  {e \in E : /\ e.source = cur /\ e.dest = v /\ e.weight # MaxDistance
             /\ Sum(s.distance[cur], e.weight) < s.distance[v]
             /\ v \notin s.black \cup s.gray}

\* The edges from cur that shorten the way to v; a black node keeps its own.
Shortening(E, s, cur, v) ==
  {e \in E : /\ e.source = cur /\ e.dest = v /\ e.weight # MaxDistance
             /\ Sum(s.distance[cur], e.weight) < s.distance[v]
             /\ v \notin s.black}

Lightest(F) == CHOOSE e \in F : \A f \in F : e.weight <= f.weight

Nearest(s) == CHOOSE v \in s.gray : \A u \in s.gray : s.distance[v] <= s.distance[u]

\* cur is expanded; shorter holds for each node the edges that shorten its way.
Relax(V, s, cur, shorter) ==
  [distance |-> [v \in V |-> IF shorter[v] = {} THEN s.distance[v]
                             ELSE Sum(s.distance[cur], Lightest(shorter[v]).weight)],
   prev |-> [v \in V |-> IF shorter[v] = {} THEN s.prev[v] ELSE {Lightest(shorter[v])}],
   gray |-> (s.gray \cup {v \in V : shorter[v] # {}}) \ {cur},
   black |-> s.black \cup {cur}]

Expand(V, E, s, cur) == Relax(V, s, cur, [v \in V |-> Shortening(E, s, cur, v)])

SearchState(V, E) ==
  {s \in [distance : [V -> 0 .. MaxDistance], prev : [V -> SUBSET E],
          gray : SUBSET V, black : SUBSET V] : s.gray \cap s.black = {}}

Ended(s, b) == b \in s.black \/ s.gray = {}

\* The search ends when the destination is expanded or nothing is queued.
Search(V, E, a, b) ==
  LET from[s \in SearchState(V, E)] ==
        IF Ended(s, b) THEN s ELSE from[Expand(V, E, s, Nearest(s))]
  IN from[Start(V, a)]

\* best_next_hop: the first edge of the path, read back from the destination;
\* none if the destination was not reached.
BestNextHop(V, E, a, b) ==
  LET prev == Search(V, E, a, b).prev
      first[v \in V] == IF \E e \in prev[v] : e.source # a
                        THEN first[(CHOOSE e \in prev[v] : TRUE).source] ELSE prev[v]
  IN first[b]

----------------------------------------------------------------------------
(* What a shortest distance is. *)

Smallest(S) == CHOOSE x \in S : \A y \in S : x <= y

Direct(V, E) ==
  [u \in V |-> [v \in V |->
     IF u = v THEN 0
     ELSE Smallest({MaxDistance} \cup
            {e.weight : e \in {f \in E : f.source = u /\ f.dest = v}})]]

\* r, or on the way over w, what is shorter.
Through(V, r, w) == [u \in V |-> [v \in V |-> Smallest({r[u][v], r[u][w] + r[w][v]})]]

\* For all u and v the least total weight of a path from u to v; d[S] allows
\* only paths with inner nodes in S.
Closure(V, direct) ==
  LET one(S) == CHOOSE w \in S : TRUE
      d[S \in SUBSET V] == IF S = {} THEN direct ELSE Through(V, d[S \ {one(S)}], one(S))
  IN d[V]

Distances(V, E) == Closure(V, Direct(V, E))
============================================================================
