------------------------- MODULE RoutingGraph_proofs -------------------------
(***************************************************************************)
(* Proofs about the search of the link-state router in every finite graph  *)
(* whose paths have a weight that fits a distance: best_next_hop returns   *)
(* the first edge of a shortest path, and none exactly if there is no path *)
(* at all (BestNextHopIsShortest).                                         *)
(*                                                                         *)
(* Distances are known by two facts, and never by the paths they come      *)
(* from: they obey the triangle inequality, and they are the greatest that *)
(* do and are no greater than the edges.                                   *)
(***************************************************************************)
EXTENDS RoutingGraph, FiniteSetTheorems, DataLemmas

LEMMA SmallestIs ==
  ASSUME NEW S, S \subseteq Nat, S # {}
  PROVE  Smallest(S) \in S /\ \A x \in S : Smallest(S) <= x
<1>1. \E x \in S : \A y \in S : x <= y
  BY NatMin
<1> QED BY <1>1 DEF Smallest

----------------------------------------------------------------------------
(* Distances. *)

Table(V) == {r \in [V -> [V -> 0 .. MaxDistance]] : \A v \in V : r[v][v] = 0}

\* Nothing in f is further apart than in r.
Feasible(V, r, f) == \A u, v \in V : f[v] <= f[u] + r[u][v]

\* r allows what direct does, and paths through S; and no more than paths.
Closed(V, direct, r, S) ==
  /\ r \in Table(V)
  /\ \A u, v \in V : r[u][v] <= direct[u][v]
  /\ \A u, v \in V : \A w \in S : r[u][v] <= r[u][w] + r[w][v]
  /\ \A f \in [V -> Nat] : Feasible(V, direct, f) => Feasible(V, r, f)

LEMMA TableEntries ==
  ASSUME NEW V, NEW r \in Table(V)
  PROVE  /\ \A u, v \in V : r[u][v] \in Nat /\ r[u][v] <= MaxDistance
         /\ \A v \in V : r[v][v] = 0
<1>1. MaxDistance \in Nat
  BY MaxDistanceAssumption
<1> QED BY <1>1 DEF Table

LEMMA ThroughOne ==
  ASSUME NEW V, NEW direct \in Table(V), NEW r, NEW S \in SUBSET V,
         NEW w \in V, Closed(V, direct, r, S)
  PROVE  Closed(V, direct, Through(V, r, w), S \cup {w})
<1> DEFINE q == Through(V, r, w)
<1>0. MaxDistance \in Nat
  BY MaxDistanceAssumption
<1>1. r \in Table(V)
  BY DEF Closed
<1>2. /\ \A u, v \in V : r[u][v] \in Nat /\ r[u][v] <= MaxDistance
      /\ \A v \in V : r[v][v] = 0
  BY <1>1, TableEntries
<1>3. ASSUME NEW u \in V, NEW v \in V
      PROVE  /\ q[u][v] = r[u][v] \/ q[u][v] = r[u][w] + r[w][v]
             /\ q[u][v] <= r[u][v] /\ q[u][v] <= r[u][w] + r[w][v]
             /\ q[u][v] \in 0 .. MaxDistance
  <2> DEFINE P == {r[u][v], r[u][w] + r[w][v]}
  <2>1. P \subseteq Nat /\ P # {}
    BY <1>2
  <2>2. q[u][v] = Smallest(P)
    BY DEF Through
  <2>3. q[u][v] \in P /\ \A x \in P : q[u][v] <= x
    <3> HIDE DEF P, q
    <3> QED BY <2>1, <2>2, SmallestIs
  <2> HIDE DEF q
  <2> QED BY <1>0, <1>2, <2>3
<1>4. \A v \in V : q[v][v] = 0
  <2> HIDE DEF q
  <2> QED BY <1>2, <1>3
<1>5. q \in Table(V)
  <2>1. q = [u \in V |-> [v \in V |-> q[u][v]]]
    BY DEF Through
  <2> HIDE DEF q
  <2> QED BY <1>3, <1>4, <2>1 DEF Table
<1>6. \A u, v \in V : r[u][v] <= direct[u][v] /\ direct[u][v] \in Nat
  BY TableEntries DEF Closed
<1> HIDE DEF q
<1>7. \A u \in V : q[u][w] = r[u][w] /\ q[w][u] = r[w][u]
  BY <1>2, <1>3
<1>8. ASSUME NEW u \in V, NEW v \in V, NEW x \in S \cup {w}
      PROVE  q[u][v] <= q[u][x] + q[x][v]
  <2>1. CASE x = w
    BY <1>3, <1>7, <2>1
  <2>2. CASE x \in S /\ x \in V
    <3>1. /\ r[u][v] <= r[u][x] + r[x][v] /\ r[u][w] <= r[u][x] + r[x][w]
          /\ r[w][v] <= r[w][x] + r[x][v]
      BY <2>2 DEF Closed
    <3>2. /\ q[u][x] = r[u][x] \/ q[u][x] = r[u][w] + r[w][x]
          /\ q[x][v] = r[x][v] \/ q[x][v] = r[x][w] + r[w][v]
          /\ q[u][v] <= r[u][v] /\ q[u][v] <= r[u][w] + r[w][v]
          /\ q[u][v] \in Nat
      BY <1>3, <2>2
    <3>3. /\ r[u][v] \in Nat /\ r[u][x] \in Nat /\ r[x][v] \in Nat /\ r[u][w] \in Nat
          /\ r[w][v] \in Nat /\ r[w][x] \in Nat /\ r[x][w] \in Nat
      BY <1>2, <2>2
    <3> QED BY <3>1, <3>2, <3>3
  <2> QED BY <2>1, <2>2
<1>9. ASSUME NEW f \in [V -> Nat], Feasible(V, direct, f) PROVE Feasible(V, q, f)
  <2> SUFFICES ASSUME NEW u \in V, NEW v \in V PROVE f[v] <= f[u] + q[u][v]
    BY DEF Feasible
  <2>1. f[v] <= f[u] + r[u][v] /\ f[w] <= f[u] + r[u][w] /\ f[v] <= f[w] + r[w][v]
    BY <1>9 DEF Closed, Feasible
  <2> QED BY <1>2, <1>3, <2>1
<1>10. \A u, v \in V : q[u][v] <= direct[u][v]
  BY <1>2, <1>3, <1>6
<1> QED BY <1>5, <1>8, <1>9, <1>10 DEF Closed, q

LEMMA OneLess ==
  ASSUME NEW V, IsFiniteSet(V), NEW S \in SUBSET V
  PROVE  /\ Cardinality(V) \in Nat /\ Cardinality(S) \in 0 .. Cardinality(V)
         /\ \A w \in S : Cardinality(S \ {w}) < Cardinality(S)
<1>1. /\ IsFiniteSet(S) /\ Cardinality(V) \in Nat /\ Cardinality(S) \in Nat
      /\ Cardinality(S) <= Cardinality(V)
  BY FS_Subset, FS_CardinalityType
<1>2. \A w \in S : Cardinality(S \ {w}) = Cardinality(S) - 1
  BY <1>1, FS_RemoveElement
<1> QED BY <1>1, <1>2

\* The equation that defines Closure.
Unfolds(V, direct, d) ==
  /\ d[{}] = direct /\ Closure(V, direct) = d[V]
  /\ \A S \in SUBSET V : S # {} => \E w \in S : d[S] = Through(V, d[S \ {w}], w)

LEMMA ClosureUnfolds ==
  ASSUME NEW V, IsFiniteSet(V), NEW direct \in Table(V)
  PROVE  \E d : Unfolds(V, direct, d)
<1> DEFINE one(S) == CHOOSE w \in S : TRUE
           D == SUBSET V
           rank == [S \in D |-> Cardinality(S)]
           next == [S \in D |-> S \ {one(S)}]
           out == [S \in D |-> direct]
           comb == [S \in D |-> [r \in Table(V) |-> IF S = {} THEN r ELSE Through(V, r, one(S))]]
           F(d) == [S \in SUBSET V |->
                      IF S = {} THEN direct ELSE Through(V, d[S \ {one(S)}], one(S))]
<1>1. \A S \in D : S # {} => one(S) \in S
  OBVIOUS
<1>2. rank \in [D -> 0 .. Cardinality(V)] /\ Cardinality(V) \in Nat
  BY OneLess
<1>3. next \in [D -> D] /\ out \in [D -> Table(V)]
  OBVIOUS
<1>4. comb \in [D -> [Table(V) -> Table(V)]]
  <2> SUFFICES ASSUME NEW S \in D, S # {}, NEW r \in Table(V)
               PROVE  Through(V, r, one(S)) \in Table(V)
    OBVIOUS
  <2>1. Closed(V, r, r, {})
    BY TableEntries DEF Closed
  <2>2. one(S) \in V
    BY <1>1
  <2> HIDE DEF one
  <2>3. Closed(V, r, Through(V, r, one(S)), {} \cup {one(S)})
    BY <2>1, <2>2, ThroughOne
  <2> QED BY <2>3 DEF Closed
<1>5. \A S \in D : S \notin {{}} => rank[next[S]] < rank[S]
  BY <1>1, OneLess
<1>6. \A S \in D : next[S] = S \ {one(S)} /\ out[S] = direct
  OBVIOUS
<1>7. \A S \in D, r \in Table(V) : S # {} => comb[S][r] = Through(V, r, one(S))
  OBVIOUS
<1> HIDE DEF one, rank, next, out, comb
<1>8. PICK d \in [D -> Table(V)] : Descends(d, D, {{}}, next, out, comb)
  BY <1>2, <1>3, <1>4, <1>5, Descent
<1>9. d = F(d)
  <2>1. ASSUME NEW S \in D
        PROVE  d[S] = IF S = {} THEN direct ELSE Through(V, d[S \ {one(S)}], one(S))
    <3>1. d[next[S]] \in Table(V)
      BY <1>3
    <3> QED BY <1>6, <1>7, <1>8, <3>1 DEF Descends
  <2> QED BY <2>1
<1> DEFINE g == CHOOSE h : h = F(h)
<1>10. Closure(V, direct) = g[V]
  BY Zenon DEF Closure, one
<1>11. g = F(g)
  BY <1>9, Zenon
<1> HIDE DEF g
<1>12. \A S \in SUBSET V :
         g[S] = IF S = {} THEN direct ELSE Through(V, g[S \ {one(S)}], one(S))
  BY <1>11, Zenon
<1>13. {} \in SUBSET V
  OBVIOUS
<1>14. \A S \in SUBSET V : S # {} => one(S) \in S /\ g[S] = Through(V, g[S \ {one(S)}], one(S))
  BY <1>1, <1>12
<1>15. Unfolds(V, direct, g)
  BY <1>10, <1>12, <1>13, <1>14 DEF Unfolds
<1> QED BY <1>15

LEMMA ClosureIsClosed ==
  ASSUME NEW V, IsFiniteSet(V), NEW direct \in Table(V)
  PROVE  Closed(V, direct, Closure(V, direct), V)
<1>0. PICK d : Unfolds(V, direct, d)
  BY ClosureUnfolds
<1>1. /\ d[{}] = direct /\ Closure(V, direct) = d[V]
      /\ \A S \in SUBSET V : S # {} => \E w \in S : d[S] = Through(V, d[S \ {w}], w)
  BY <1>0 DEF Unfolds
<1> DEFINE rank == [S \in SUBSET V |-> Cardinality(S)]
           G == {S \in SUBSET V : Closed(V, direct, d[S], S)}
<1>2. rank \in [SUBSET V -> Nat]
  BY OneLess
<1>3. ASSUME NEW S \in SUBSET V, \A T \in SUBSET V : rank[T] < rank[S] => T \in G
      PROVE  S \in G
  <2>1. CASE S = {}
    BY <1>1, <2>1, TableEntries DEF Closed
  <2>2. CASE S # {}
    <3>1. PICK w \in S : d[S] = Through(V, d[S \ {w}], w)
      BY <1>1, <2>2
    <3>2. Closed(V, direct, d[S \ {w}], S \ {w})
      BY <1>3, OneLess
    <3>3. Closed(V, direct, d[S], (S \ {w}) \cup {w})
      BY <3>1, <3>2, ThroughOne
    <3>4. (S \ {w}) \cup {w} = S
      OBVIOUS
    <3> QED BY <3>3, <3>4
  <2> QED BY <2>1, <2>2
<1>4. SUBSET V \subseteq G
  <2> HIDE DEF G, rank
  <2> QED BY <1>2, <1>3, Ascent
<1>5. V \in SUBSET V
  OBVIOUS
<1> QED BY <1>1, <1>4, <1>5

----------------------------------------------------------------------------
(* Distances in a graph. *)

IsGraph(V, E) ==
  /\ IsFiniteSet(V) /\ IsFiniteSet(E)
  /\ \A e \in E : e.source \in V /\ e.dest \in V /\ e.weight \in 0 .. MaxDistance

LEMMA DirectIs ==
  ASSUME NEW V, NEW E, IsGraph(V, E)
  PROVE  /\ Direct(V, E) \in Table(V)
         /\ \A e \in E : Direct(V, E)[e.source][e.dest] <= e.weight
         /\ \A u, v \in V :
              \/ u = v \/ Direct(V, E)[u][v] = MaxDistance
              \/ \E e \in E : e.source = u /\ e.dest = v /\ e.weight = Direct(V, E)[u][v]
<1> DEFINE W(u, v) == {MaxDistance} \cup
                        {e.weight : e \in {f \in E : f.source = u /\ f.dest = v}}
           direct == Direct(V, E)
<1>1. MaxDistance \in Nat
  BY MaxDistanceAssumption
<1>2. direct = [u \in V |-> [v \in V |-> IF u = v THEN 0 ELSE Smallest(W(u, v))]]
  BY DEF Direct
<1>3. ASSUME NEW u \in V, NEW v \in V
      PROVE  /\ W(u, v) \subseteq 0 .. MaxDistance
             /\ Smallest(W(u, v)) \in W(u, v) /\ \A x \in W(u, v) : Smallest(W(u, v)) <= x
  <2>1. W(u, v) \subseteq 0 .. MaxDistance /\ W(u, v) # {}
    BY <1>1 DEF IsGraph
  <2>2. W(u, v) \subseteq Nat
    BY <2>1
  <2> HIDE DEF W
  <2> QED BY <2>1, <2>2, SmallestIs
<1>4. \A u, v \in V : direct[u][v] = IF u = v THEN 0 ELSE Smallest(W(u, v))
  BY <1>2
<1>5. direct \in Table(V)
  <2>1. \A u, v \in V : (IF u = v THEN 0 ELSE Smallest(W(u, v))) \in 0 .. MaxDistance
    <3> HIDE DEF W
    <3> QED BY <1>1, <1>3
  <2>2. \A v \in V : direct[v][v] = 0
    BY <1>4
  <2>3. direct \in [V -> [V -> 0 .. MaxDistance]]
    <3> HIDE DEF W
    <3> QED BY <1>2, <2>1
  <2> QED BY <2>2, <2>3 DEF Table
<1>6. ASSUME NEW e \in E PROVE direct[e.source][e.dest] <= e.weight
  <2>1. e.source \in V /\ e.dest \in V /\ e.weight \in Nat
    BY <1>1 DEF IsGraph
  <2>2. e.weight \in W(e.source, e.dest)
    OBVIOUS
  <2> HIDE DEF W, direct
  <2>3. Smallest(W(e.source, e.dest)) <= e.weight
    BY <1>3, <2>1, <2>2
  <2> QED BY <1>4, <2>1, <2>3
<1>7. ASSUME NEW u \in V, NEW v \in V, u # v, direct[u][v] # MaxDistance
      PROVE  \E e \in E : e.source = u /\ e.dest = v /\ e.weight = direct[u][v]
  <2>1. direct[u][v] \in W(u, v)
    <3> HIDE DEF W, direct
    <3> QED BY <1>3, <1>4, <1>7
  <2> HIDE DEF direct
  <2> QED BY <1>7, <2>1
<1> HIDE DEF direct
<1>8. \A u, v \in V : \/ u = v \/ direct[u][v] = MaxDistance
                      \/ \E e \in E : e.source = u /\ e.dest = v /\ e.weight = direct[u][v]
  BY <1>7
<1> QED BY <1>5, <1>6, <1>8 DEF direct

\* What the distances of a graph are known by.
LEMMA DistancesAre ==
  ASSUME NEW V, NEW E, IsGraph(V, E)
  PROVE  /\ \A u, v \in V : Distances(V, E)[u][v] \in Nat /\ Distances(V, E)[u][v] <= MaxDistance
         /\ \A v \in V : Distances(V, E)[v][v] = 0
         /\ \A u, v, w \in V : Distances(V, E)[u][v] <= Distances(V, E)[u][w] + Distances(V, E)[w][v]
         /\ \A e \in E : Distances(V, E)[e.source][e.dest] <= e.weight
<1> DEFINE direct == Direct(V, E)
           D == Distances(V, E)
<1>1. direct \in Table(V) /\ \A e \in E : direct[e.source][e.dest] <= e.weight
  BY DirectIs
<1>2. Closed(V, direct, D, V)
  BY <1>1, ClosureIsClosed DEF IsGraph, Distances
<1> HIDE DEF D, direct
<1>3. D \in Table(V) /\ \A u, v \in V : D[u][v] <= direct[u][v]
  BY <1>2 DEF Closed
<1>4. /\ \A u, v \in V : D[u][v] \in Nat /\ D[u][v] <= MaxDistance
      /\ \A v \in V : D[v][v] = 0
  BY <1>3, TableEntries
<1>5. \A u, v, w \in V : D[u][v] <= D[u][w] + D[w][v]
  BY <1>2 DEF Closed
<1>6. ASSUME NEW e \in E PROVE D[e.source][e.dest] <= e.weight
  <2>1. e.source \in V /\ e.dest \in V /\ e.weight \in Nat
    BY MaxDistanceAssumption DEF IsGraph
  <2>2. direct[e.source][e.dest] \in Nat
    BY <1>1, <2>1, TableEntries
  <2> QED BY <1>1, <1>3, <1>4, <2>1, <2>2
<1> QED BY <1>4, <1>5, <1>6 DEF D

\* What no edge takes further, no path does.
LEMMA Potential ==
  ASSUME NEW V, NEW E, IsGraph(V, E), NEW f \in [V -> 0 .. MaxDistance],
         \A e \in E : f[e.dest] <= f[e.source] + e.weight
  PROVE  \A u, v \in V : f[v] <= f[u] + Distances(V, E)[u][v]
<1> DEFINE direct == Direct(V, E)
           D == Distances(V, E)
<1>0. MaxDistance \in Nat
  BY MaxDistanceAssumption
<1>1. direct \in Table(V)
  BY DirectIs
<1>2. Closed(V, direct, D, V)
  BY <1>1, ClosureIsClosed DEF IsGraph, Distances
<1>3. f \in [V -> Nat] /\ \A v \in V : f[v] \in Nat /\ f[v] <= MaxDistance
  BY <1>0
<1>4. ASSUME NEW u \in V, NEW v \in V PROVE f[v] <= f[u] + direct[u][v]
  <2>1. \/ u = v \/ direct[u][v] = MaxDistance
        \/ \E e \in E : e.source = u /\ e.dest = v /\ e.weight = direct[u][v]
    BY DirectIs
  <2>2. direct[u][v] \in Nat
    BY <1>1, TableEntries
  <2> HIDE DEF direct
  <2> QED BY <1>0, <1>3, <2>1, <2>2
<1> HIDE DEF direct, D
<1>5. Feasible(V, direct, f)
  BY <1>4 DEF Feasible
<1>6. Feasible(V, D, f)
  BY <1>2, <1>3, <1>5 DEF Closed
<1> QED BY <1>6 DEF Feasible, D

\* Nothing is reached from where no edge leads out.
LEMMA FromSink ==
  ASSUME NEW V, NEW E, IsGraph(V, E), NEW x \in V,
         \A e \in E : e.source = x => e.weight = MaxDistance
  PROVE  \A v \in V : v # x => Distances(V, E)[x][v] = MaxDistance
<1> DEFINE f == [v \in V |-> IF v = x THEN 0 ELSE MaxDistance]
<1>0. MaxDistance \in Nat
  BY MaxDistanceAssumption
<1>1. f \in [V -> 0 .. MaxDistance]
  BY <1>0
<1>2. \A v \in V : f[v] = IF v = x THEN 0 ELSE MaxDistance
  OBVIOUS
<1> HIDE DEF f
<1>3. \A e \in E : f[e.dest] <= f[e.source] + e.weight
  BY <1>0, <1>2 DEF IsGraph
<1>4. \A v \in V : f[v] <= f[x] + Distances(V, E)[x][v]
  BY <1>1, <1>3, Potential
<1>5. \A v \in V : Distances(V, E)[x][v] \in Nat /\ Distances(V, E)[x][v] <= MaxDistance
  BY DistancesAre
<1> QED BY <1>0, <1>2, <1>4, <1>5

\* Edges to sinks make no other path shorter, nor do edges that are down.
LEMMA MoreEdges ==
  ASSUME NEW V, NEW E, NEW F, IsGraph(V, E), IsGraph(V, F), NEW X,
         \A e \in F : e.weight = MaxDistance \/ e.dest \in X \/ e \in E,
         \A e \in F : e.source \in X => e.weight = MaxDistance
  PROVE  \A u, v \in V \ X : Distances(V, E)[u][v] <= Distances(V, F)[u][v]
<1> SUFFICES ASSUME NEW u \in V \ X PROVE \A v \in V \ X : Distances(V, E)[u][v] <= Distances(V, F)[u][v]
  OBVIOUS
<1> DEFINE D == Distances(V, E)
           f == [v \in V |-> IF v \in X THEN 0 ELSE D[u][v]]
<1>0. MaxDistance \in Nat
  BY MaxDistanceAssumption
<1>1. \A v, w \in V : D[v][w] \in Nat /\ D[v][w] <= MaxDistance /\ D[v][v] = 0
  BY DistancesAre
<1>2. \A v, w \in V : D[u][w] <= D[u][v] + D[v][w]
  BY DistancesAre
<1>3. \A e \in E : D[e.source][e.dest] <= e.weight
  BY DistancesAre
<1> HIDE DEF D
<1>4. f \in [V -> 0 .. MaxDistance]
  BY <1>0, <1>1
<1>5. \A v \in V : f[v] = IF v \in X THEN 0 ELSE D[u][v]
  OBVIOUS
<1> HIDE DEF f
<1>6. ASSUME NEW e \in F PROVE f[e.dest] <= f[e.source] + e.weight
  <2>1. e.source \in V /\ e.dest \in V /\ e.weight \in Nat
    BY <1>0 DEF IsGraph
  <2>2. f[e.dest] \in Nat /\ f[e.source] \in Nat /\ f[e.dest] <= MaxDistance
    BY <1>0, <1>4, <2>1
  <2>3. CASE e.weight = MaxDistance
    BY <1>0, <2>2, <2>3
  <2>4. CASE e.dest \in X
    BY <1>5, <2>1, <2>2, <2>4
  <2>5. CASE e \in E /\ e.dest \notin X /\ e.source \notin X
    <3>1. D[u][e.dest] <= D[u][e.source] + D[e.source][e.dest]
      BY <1>2, <2>1
    <3> QED BY <1>1, <1>3, <1>5, <2>1, <2>5, <3>1
  <2> QED BY <2>3, <2>4, <2>5
<1>7. \A v \in V : f[v] <= f[u] + Distances(V, F)[u][v]
  BY <1>4, <1>6, Potential
<1>8. \A v \in V : Distances(V, F)[u][v] \in Nat
  BY DistancesAre
<1> QED BY <1>1, <1>5, <1>7, <1>8 DEF D

----------------------------------------------------------------------------
(* The search.  Nodes are expanded in the order of their distance, so that *)
(* what is black is at its distance; of the rest, the distance is that by  *)
(* way of a black node.  No sum wraps while paths cost less than           *)
(* MaxDistance.                                                            *)

\* No more than c for each edge, and for all nodes less than a distance can hold.
Affordable(V, E, c) ==
  /\ c \in Nat /\ c * Cardinality(V) < MaxDistance
  /\ \A e \in E : e.weight = MaxDistance \/ e.weight <= c

Reached(s) == s.gray \cup s.black

\* The last edge on the way to v.
LastEdge(s, v, e) ==
  /\ s.prev[v] = {e} /\ e.dest = v /\ e.source \in s.black
  /\ e.weight # MaxDistance /\ s.distance[v] = s.distance[e.source] + e.weight

WaysKnown(V, E, a, s) ==
  /\ a \in Reached(s) /\ s.distance[a] = 0 /\ s.prev[a] = {}
  /\ \A v \in V : v # a /\ v \in Reached(s) => \E e \in E : LastEdge(s, v, e)
  /\ \A v \in V : v \notin Reached(s) => s.distance[v] = MaxDistance /\ s.prev[v] = {}

DistancesFit(V, c, s) ==
  \A v \in V : v \in Reached(s) => s.distance[v] <= c * Cardinality(s.black)

\* Black nodes are as near as their edges and those before them make possible.
EdgesUsed(E, s) ==
  \A e \in E : e.source \in s.black /\ e.weight # MaxDistance =>
    e.dest \in Reached(s) /\ s.distance[e.dest] <= s.distance[e.source] + e.weight

NearestFirst(s) == \A u \in s.black, v \in s.gray : s.distance[u] <= s.distance[v]

NoneTooNear(V, E, a, s) == \A v \in V : Distances(V, E)[a][v] <= s.distance[v]

\* The order in which the nodes became black.
Order(V, s, rank) ==
  /\ rank \in [V -> 0 .. Cardinality(V)]
  /\ \A v \in V : IF v \in s.black THEN rank[v] < Cardinality(s.black)
                  ELSE rank[v] = Cardinality(s.black)
  /\ \A v \in V : \A e \in s.prev[v] : rank[e.source] < rank[v]

Ordered(V, s) == \E rank : Order(V, s, rank)

SearchInv(V, E, a, c, s) ==
  /\ s \in SearchState(V, E)
  /\ WaysKnown(V, E, a, s) /\ DistancesFit(V, c, s) /\ EdgesUsed(E, s) /\ NearestFirst(s)
  /\ NoneTooNear(V, E, a, s) /\ Ordered(V, s)

LEMMA StateShape ==
  ASSUME NEW V, NEW E, NEW s \in SearchState(V, E)
  PROVE  /\ s.distance \in [V -> 0 .. MaxDistance] /\ s.prev \in [V -> SUBSET E]
         /\ s.gray \subseteq V /\ s.black \subseteq V /\ s.gray \cap s.black = {}
         /\ \A v \in V : s.distance[v] \in Nat /\ s.distance[v] <= MaxDistance
<1>1. /\ s.distance \in [V -> 0 .. MaxDistance] /\ s.prev \in [V -> SUBSET E]
      /\ s.gray \subseteq V /\ s.black \subseteq V /\ s.gray \cap s.black = {}
  BY DEF SearchState
<1> QED BY <1>1, MaxDistanceAssumption

\* What the choices of the search give.

LEMMA NearestIs ==
  ASSUME NEW V, NEW E, NEW s \in SearchState(V, E), s.gray # {}
  PROVE  Nearest(s) \in s.gray /\ \A u \in s.gray : s.distance[Nearest(s)] <= s.distance[u]
<1> DEFINE T == {s.distance[v] : v \in s.gray}
<1>1. T \subseteq Nat /\ T # {}
  BY StateShape
<1>2. PICK m \in T : \A n \in T : m <= n
  BY <1>1, NatMin
<1>3. \E v \in s.gray : \A u \in s.gray : s.distance[v] <= s.distance[u]
  BY <1>2
<1> QED BY <1>3 DEF Nearest

LEMMA LightestIs ==
  ASSUME NEW F, F # {}, \A e \in F : e.weight \in Nat
  PROVE  Lightest(F) \in F /\ \A e \in F : Lightest(F).weight <= e.weight
<1> DEFINE T == {e.weight : e \in F}
<1>1. T \subseteq Nat /\ T # {}
  OBVIOUS
<1>2. PICK m \in T : \A n \in T : m <= n
  BY <1>1, NatMin
<1>3. \E e \in F : \A f \in F : e.weight <= f.weight
  BY <1>2
<1> QED BY <1>3 DEF Lightest

\* A turn ends in a state of the search, whatever wraps.
LEMMA ExpandStays ==
  ASSUME NEW V, NEW E, IsGraph(V, E), NEW s \in SearchState(V, E), NEW cur \in s.gray
  PROVE  /\ Expand(V, E, s, cur) \in SearchState(V, E)
         /\ Expand(V, E, s, cur).black = s.black \cup {cur}
<1> DEFINE t == Expand(V, E, s, cur)
           F(v) == Shortening(E, s, cur, v)
           Dist(v) == IF F(v) = {} THEN s.distance[v] ELSE Sum(s.distance[cur], Lightest(F(v)).weight)
           Prev(v) == IF F(v) = {} THEN s.prev[v] ELSE {Lightest(F(v))}
<1>0. MaxDistance \in Nat
  BY MaxDistanceAssumption
<1>1. /\ s.distance \in [V -> 0 .. MaxDistance] /\ s.prev \in [V -> SUBSET E]
      /\ s.gray \subseteq V /\ s.black \subseteq V /\ s.gray \cap s.black = {} /\ cur \in V
      /\ \A v \in V : s.distance[v] \in Nat
  BY StateShape
<1>2. \A v \in V : F(v) \subseteq E /\ (F(v) # {} => v \notin s.black)
  BY DEF Shortening
<1>3. t = [distance |-> [v \in V |-> Dist(v)], prev |-> [v \in V |-> Prev(v)],
           gray |-> (s.gray \cup {v \in V : F(v) # {}}) \ {cur}, black |-> s.black \cup {cur}]
  BY DEF Expand, Relax
<1> HIDE DEF F, t
<1>4. ASSUME NEW v \in V PROVE Dist(v) \in 0 .. MaxDistance /\ Prev(v) \subseteq E
  <2>1. CASE F(v) = {}
    BY <1>1, <2>1
  <2>2. CASE F(v) # {}
    <3>1. \A e \in F(v) : e \in E /\ e.weight \in Nat
      BY <1>0, <1>2 DEF IsGraph
    <3>2. Lightest(F(v)) \in F(v)
      BY <2>2, <3>1, LightestIs
    <3>3. Lightest(F(v)) \in E /\ Lightest(F(v)).weight \in Nat
      BY <3>1, <3>2
    <3>4. \A x, w \in Nat : Sum(x, w) \in 0 .. MaxDistance
      BY <1>0 DEF Sum
    <3> QED BY <1>1, <2>2, <3>3, <3>4
  <2> QED BY <2>1, <2>2
<1>5. /\ t.distance = [v \in V |-> Dist(v)] /\ t.prev = [v \in V |-> Prev(v)]
      /\ t.gray = (s.gray \cup {v \in V : F(v) # {}}) \ {cur} /\ t.black = s.black \cup {cur}
      /\ t = [distance |-> t.distance, prev |-> t.prev, gray |-> t.gray, black |-> t.black]
  <2> HIDE DEF Dist, Prev
  <2> QED BY <1>3
<1> HIDE DEF Dist, Prev
<1>6. t.distance \in [V -> 0 .. MaxDistance] /\ t.prev \in [V -> SUBSET E]
  BY <1>4, <1>5
<1>7. t.gray \subseteq V /\ t.black \subseteq V /\ t.gray \cap t.black = {}
  BY <1>1, <1>2, <1>5
<1>8. t \in SearchState(V, E)
  BY <1>5, <1>6, <1>7 DEF SearchState
<1> QED BY <1>5, <1>8 DEF t

\* The expansion of a node that makes nothing wrap, node by node.
ExpandsTo(V, E, s, cur, t) ==
  /\ t.black = s.black \cup {cur}
  /\ \A v \in V :
       \/ /\ t.distance[v] = s.distance[v] /\ t.prev[v] = s.prev[v]
          /\ v \in t.gray <=> v \in s.gray /\ v # cur
          /\ v \notin s.black => \A f \in E : f.source = cur /\ f.dest = v /\ f.weight # MaxDistance =>
                                   s.distance[v] <= s.distance[cur] + f.weight
       \/ \E e \in E :
          /\ e.source = cur /\ e.dest = v /\ e.weight # MaxDistance /\ t.prev[v] = {e}
          /\ t.distance[v] = s.distance[cur] + e.weight /\ t.distance[v] < s.distance[v]
          /\ v \notin s.black /\ v # cur /\ v \in t.gray
          /\ \A f \in E : f.source = cur /\ f.dest = v /\ f.weight # MaxDistance =>
               t.distance[v] <= s.distance[cur] + f.weight

LEMMA ExpandDoes ==
  ASSUME NEW V, NEW E, IsGraph(V, E), NEW s \in SearchState(V, E), NEW cur \in s.gray,
         \A e \in E : e.source = cur /\ e.weight # MaxDistance =>
           s.distance[cur] + e.weight < MaxDistance
  PROVE  ExpandsTo(V, E, s, cur, Expand(V, E, s, cur))
<1> DEFINE t == Expand(V, E, s, cur)
           F(v) == Shortening(E, s, cur, v)
<1>0. MaxDistance \in Nat
  BY MaxDistanceAssumption
<1>1. /\ s.distance \in [V -> 0 .. MaxDistance] /\ s.prev \in [V -> SUBSET E]
      /\ s.gray \subseteq V /\ s.black \subseteq V /\ s.gray \cap s.black = {} /\ cur \in V
      /\ \A v \in V : s.distance[v] \in Nat /\ s.distance[v] <= MaxDistance
  BY StateShape
<1>2. \A e \in E : e.weight \in Nat
  BY <1>0 DEF IsGraph
<1>3. ASSUME NEW e \in E, e.source = cur, e.weight # MaxDistance
      PROVE  Sum(s.distance[cur], e.weight) = s.distance[cur] + e.weight
  <2>1. s.distance[cur] + e.weight \in 0 .. MaxDistance
    BY <1>0, <1>1, <1>2, <1>3
  <2> QED BY <1>0, <2>1 DEF Sum
<1>4. \A v \in V : \A e \in E : e \in F(v) <=>
        /\ e.source = cur /\ e.dest = v /\ e.weight # MaxDistance
        /\ s.distance[cur] + e.weight < s.distance[v] /\ v \notin s.black
  BY <1>3 DEF Shortening
<1>5. \A v \in V : F(v) \subseteq E
  BY DEF Shortening
<1>6. /\ t.distance = [v \in V |-> IF F(v) = {} THEN s.distance[v]
                                   ELSE Sum(s.distance[cur], Lightest(F(v)).weight)]
      /\ t.prev = [v \in V |-> IF F(v) = {} THEN s.prev[v] ELSE {Lightest(F(v))}]
      /\ t.gray = (s.gray \cup {v \in V : F(v) # {}}) \ {cur}
      /\ t.black = s.black \cup {cur}
      /\ t = [distance |-> t.distance, prev |-> t.prev, gray |-> t.gray, black |-> t.black]
  BY DEF Expand, Relax
<1> HIDE DEF F, t
<1>7. ASSUME NEW v \in V, F(v) # {}
      PROVE  /\ Lightest(F(v)) \in E /\ Lightest(F(v)) \in F(v)
             /\ \A f \in F(v) : Lightest(F(v)).weight <= f.weight
             /\ t.distance[v] = s.distance[cur] + Lightest(F(v)).weight
             /\ t.prev[v] = {Lightest(F(v))}
  <2>1. /\ Lightest(F(v)) \in F(v) /\ \A f \in F(v) : Lightest(F(v)).weight <= f.weight
    BY <1>2, <1>5, <1>7, LightestIs
  <2>2. Lightest(F(v)) \in E
    BY <1>5, <2>1
  <2>3. Sum(s.distance[cur], Lightest(F(v)).weight) = s.distance[cur] + Lightest(F(v)).weight
    BY <1>3, <1>4, <2>1, <2>2
  <2> QED BY <1>6, <1>7, <2>1, <2>2, <2>3
<1>8. cur \notin s.black /\ F(cur) = {}
  <2>1. \A e \in E : ~(s.distance[cur] + e.weight < s.distance[cur])
    BY <1>1, <1>2
  <2> QED BY <1>1, <1>4, <1>5, <2>1
<1>9. ASSUME NEW v \in V
      PROVE  \/ /\ t.distance[v] = s.distance[v] /\ t.prev[v] = s.prev[v]
                /\ v \in t.gray <=> v \in s.gray /\ v # cur
                /\ v \notin s.black => \A f \in E : f.source = cur /\ f.dest = v /\ f.weight # MaxDistance =>
                                         s.distance[v] <= s.distance[cur] + f.weight
             \/ \E e \in E :
                /\ e.source = cur /\ e.dest = v /\ e.weight # MaxDistance /\ t.prev[v] = {e}
                /\ t.distance[v] = s.distance[cur] + e.weight /\ t.distance[v] < s.distance[v]
                /\ v \notin s.black /\ v # cur /\ v \in t.gray
                /\ \A f \in E : f.source = cur /\ f.dest = v /\ f.weight # MaxDistance =>
                     t.distance[v] <= s.distance[cur] + f.weight
  <2>1. CASE F(v) = {}
    <3>1. /\ t.distance[v] = s.distance[v] /\ t.prev[v] = s.prev[v]
          /\ v \in t.gray <=> v \in s.gray /\ v # cur
      BY <1>6, <2>1
    <3>2. ASSUME v \notin s.black, NEW f \in E, f.source = cur, f.dest = v, f.weight # MaxDistance
          PROVE  s.distance[v] <= s.distance[cur] + f.weight
      <4>1. ~(s.distance[cur] + f.weight < s.distance[v])
        BY <1>4, <2>1, <3>2
      <4> QED BY <1>1, <1>2, <4>1
    <3> QED BY <3>1, <3>2
  <2>2. CASE F(v) # {}
    <3> DEFINE e == Lightest(F(v))
    <3>1. /\ e \in E /\ e \in F(v) /\ \A f \in F(v) : e.weight <= f.weight
          /\ t.distance[v] = s.distance[cur] + e.weight /\ t.prev[v] = {e}
      BY <1>7, <2>2
    <3> HIDE DEF e
    <3>2. /\ e.source = cur /\ e.dest = v /\ e.weight # MaxDistance
          /\ t.distance[v] < s.distance[v] /\ v \notin s.black
      BY <1>4, <3>1
    <3>3. v # cur /\ v \in t.gray
      BY <1>6, <1>8, <2>2
    <3>4. ASSUME NEW f \in E, f.source = cur, f.dest = v, f.weight # MaxDistance
          PROVE  t.distance[v] <= s.distance[cur] + f.weight
      <4>1. CASE f \in F(v)
        BY <1>1, <1>2, <3>1, <4>1
      <4>2. CASE f \notin F(v)
        <5>1. ~(s.distance[cur] + f.weight < s.distance[v])
          BY <1>4, <3>2, <3>4, <4>2
        <5> QED BY <1>1, <1>2, <3>1, <3>2, <5>1
      <4> QED BY <4>1, <4>2
    <3> QED BY <3>1, <3>2, <3>3, <3>4
  <2> QED BY <2>1, <2>2
<1>10. ExpandsTo(V, E, s, cur, t)
  BY <1>6, <1>9 DEF ExpandsTo
<1> QED BY <1>10 DEF t

\* Room for another edge.
LEMMA Fits ==
  ASSUME NEW V, NEW E, NEW c, IsGraph(V, E), Affordable(V, E, c),
         NEW s \in SearchState(V, E), NEW cur \in s.gray
  PROVE  /\ Cardinality(s.black) \in Nat /\ Cardinality(V) \in Nat
         /\ Cardinality(s.black) < Cardinality(V)
         /\ Cardinality(s.black \cup {cur}) = Cardinality(s.black) + 1
         /\ c * Cardinality(s.black) \in Nat
         /\ c * (Cardinality(s.black) + 1) = c * Cardinality(s.black) + c
         /\ c * Cardinality(s.black) + c < MaxDistance
<1>1. s.black \subseteq V /\ cur \in V \ s.black
  BY StateShape
<1>2. IsFiniteSet(V) /\ IsFiniteSet(s.black) /\ IsFiniteSet(s.black \cup {cur})
  BY <1>1, FS_Subset DEF IsGraph
<1> DEFINE k == Cardinality(s.black)
           n == Cardinality(V)
<1>3. k \in Nat /\ n \in Nat
  BY <1>2, FS_CardinalityType
<1>4. Cardinality(s.black \cup {cur}) = k + 1
  BY <1>1, <1>2, FS_AddElement
<1>5. k + 1 <= n
  BY <1>1, <1>2, <1>4, FS_Subset
<1>6. c \in Nat /\ c * n < MaxDistance
  BY DEF Affordable
<1> HIDE DEF k, n
<1>7. PICK r \in Nat : n = (k + 1) + r
  <2>1. n - (k + 1) \in Nat /\ n = (k + 1) + (n - (k + 1))
    BY <1>3, <1>5
  <2> QED BY <2>1
<1>8. c * n = c * k + c + c * r /\ c * k \in Nat /\ c * r \in Nat /\ c * (k + 1) = c * k + c
  BY <1>3, <1>6, <1>7
<1>9. c * k + c < MaxDistance
  BY <1>6, <1>8, MaxDistanceAssumption
<1> QED BY <1>3, <1>4, <1>5, <1>8, <1>9 DEF k, n

\* The node that is expanded, and where its edges lead.
LEMMA Expanded ==
  ASSUME NEW V, NEW E, NEW a \in V, NEW c, IsGraph(V, E), Affordable(V, E, c),
         NEW s, SearchInv(V, E, a, c, s), s.gray # {}
  PROVE  LET cur == Nearest(s)  t == Expand(V, E, s, cur) IN
         /\ cur \in s.gray /\ cur \in V /\ cur \notin s.black
         /\ \A u \in s.gray : s.distance[cur] <= s.distance[u]
         /\ t \in SearchState(V, E) /\ ExpandsTo(V, E, s, cur, t)
<1> DEFINE cur == Nearest(s)
<1>1. s \in SearchState(V, E) /\ DistancesFit(V, c, s)
  BY DEF SearchInv
<1>2. cur \in s.gray /\ \A u \in s.gray : s.distance[cur] <= s.distance[u]
  BY <1>1, NearestIs
<1> HIDE DEF cur
<1>3. cur \in V /\ cur \notin s.black /\ s.distance[cur] \in Nat
  BY <1>1, <1>2, StateShape
<1>4. s.distance[cur] <= c * Cardinality(s.black)
  BY <1>1, <1>2, <1>3 DEF DistancesFit, Reached
<1>5. /\ c * Cardinality(s.black) \in Nat /\ c * Cardinality(s.black) + c < MaxDistance
  BY <1>1, <1>2, Fits
<1>6. ASSUME NEW e \in E, e.weight # MaxDistance PROVE s.distance[cur] + e.weight < MaxDistance
  <2>1. e.weight \in Nat /\ e.weight <= c /\ c \in Nat
    BY <1>6, MaxDistanceAssumption DEF IsGraph, Affordable
  <2> QED BY <1>3, <1>4, <1>5, <2>1, MaxDistanceAssumption
<1>7. Expand(V, E, s, cur) \in SearchState(V, E) /\ ExpandsTo(V, E, s, cur, Expand(V, E, s, cur))
  BY <1>1, <1>2, <1>6, ExpandDoes, ExpandStays
<1> QED BY <1>2, <1>3, <1>7 DEF cur

LEMMA ExpandKeeps ==
  ASSUME NEW V, NEW E, NEW a \in V, NEW c, IsGraph(V, E), Affordable(V, E, c),
         NEW s, SearchInv(V, E, a, c, s), s.gray # {}
  PROVE  SearchInv(V, E, a, c, Expand(V, E, s, Nearest(s)))
<1> DEFINE cur == Nearest(s)
           t == Expand(V, E, s, cur)
<1>0. MaxDistance \in Nat
  BY MaxDistanceAssumption
<1>1. /\ s \in SearchState(V, E)
      /\ WaysKnown(V, E, a, s) /\ DistancesFit(V, c, s) /\ EdgesUsed(E, s) /\ NearestFirst(s)
      /\ NoneTooNear(V, E, a, s) /\ Ordered(V, s)
  BY DEF SearchInv
<1>2. /\ cur \in s.gray /\ cur \in V /\ cur \notin s.black
      /\ \A u \in s.gray : s.distance[cur] <= s.distance[u]
      /\ t \in SearchState(V, E) /\ ExpandsTo(V, E, s, cur, t)
  BY Expanded
<1> HIDE DEF cur, t
<1>3. /\ s.black \subseteq V /\ s.gray \subseteq V /\ s.gray \cap s.black = {}
      /\ t.black \subseteq V /\ t.gray \subseteq V /\ t.gray \cap t.black = {}
      /\ \A v \in V : /\ s.distance[v] \in Nat /\ s.distance[v] <= MaxDistance
                      /\ t.distance[v] \in Nat /\ t.distance[v] <= MaxDistance
  BY <1>1, <1>2, StateShape
<1>4. \A e \in E : e.source \in V /\ e.dest \in V /\ e.weight \in Nat /\ e.weight <= MaxDistance
  BY <1>0 DEF IsGraph
<1>5. t.black = s.black \cup {cur}
  BY <1>2 DEF ExpandsTo
<1> DEFINE Changed(v, e) ==
             /\ e.source = cur /\ e.dest = v /\ e.weight # MaxDistance /\ t.prev[v] = {e}
             /\ t.distance[v] = s.distance[cur] + e.weight /\ t.distance[v] < s.distance[v]
             /\ v \notin s.black /\ v # cur /\ v \in t.gray
             /\ \A f \in E : f.source = cur /\ f.dest = v /\ f.weight # MaxDistance =>
                  t.distance[v] <= s.distance[cur] + f.weight
           Same(v) ==
             /\ t.distance[v] = s.distance[v] /\ t.prev[v] = s.prev[v]
             /\ v \in t.gray <=> v \in s.gray /\ v # cur
             /\ v \notin s.black => \A f \in E : f.source = cur /\ f.dest = v /\ f.weight # MaxDistance =>
                                      s.distance[v] <= s.distance[cur] + f.weight
<1>6. \A v \in V : Same(v) \/ \E e \in E : Changed(v, e)
  BY <1>2 DEF ExpandsTo
<1>7. \A v \in V : v \in s.black \/ v = cur => t.distance[v] = s.distance[v] /\ t.prev[v] = s.prev[v]
  BY <1>6
<1>8. \A v \in V : Same(v) => (v \in Reached(t) <=> v \in Reached(s))
  BY <1>2, <1>5 DEF Reached
<1>9. /\ Cardinality(s.black) \in Nat /\ Cardinality(V) \in Nat
      /\ Cardinality(s.black) < Cardinality(V)
      /\ Cardinality(t.black) = Cardinality(s.black) + 1
      /\ c * Cardinality(s.black) \in Nat /\ c \in Nat
      /\ c * Cardinality(t.black) = c * Cardinality(s.black) + c
      /\ c * Cardinality(s.black) + c < MaxDistance
  <2>1. /\ Cardinality(s.black) \in Nat /\ Cardinality(V) \in Nat
        /\ Cardinality(s.black) < Cardinality(V)
        /\ Cardinality(s.black \cup {cur}) = Cardinality(s.black) + 1
        /\ c * Cardinality(s.black) \in Nat
        /\ c * (Cardinality(s.black) + 1) = c * Cardinality(s.black) + c
        /\ c * Cardinality(s.black) + c < MaxDistance
    BY <1>1, <1>2, Fits, Zenon
  <2>2. Cardinality(t.black) = Cardinality(s.black) + 1
    BY <1>5, <2>1, Zenon
  <2>3. c * Cardinality(t.black) = c * Cardinality(s.black) + c
    BY <2>1, <2>2, Zenon
  <2>4. c \in Nat
    BY DEF Affordable
  <2> QED BY <2>1, <2>2, <2>3, <2>4, Zenon
<1>10. \A u \in s.black : s.distance[u] <= s.distance[cur]
  BY <1>1, <1>2 DEF NearestFirst
<1>11. \A u \in V : u \notin s.black => s.distance[cur] <= s.distance[u]
  BY <1>1, <1>2, <1>3 DEF WaysKnown, Reached
<1>12. a \in V /\ (a = cur \/ a \in s.black \/ a \in s.gray)
  BY <1>1 DEF WaysKnown, Reached
<1>13. WaysKnown(V, E, a, t)
  <2>1. a \in Reached(t) /\ t.distance[a] = 0 /\ t.prev[a] = {}
    <3>1. ~ \E e \in E : Changed(a, e)
      BY <1>1, <1>3, <1>12 DEF WaysKnown
    <3>2. Same(a)
      BY <1>6, <3>1
    <3> QED BY <1>1, <1>8, <3>2 DEF WaysKnown
  <2>2. ASSUME NEW v \in V, v # a, v \in Reached(t) PROVE \E e \in E : LastEdge(t, v, e)
    <3>1. CASE Same(v)
      <4>1. PICK e \in E : LastEdge(s, v, e)
        BY <1>1, <1>8, <2>2, <3>1 DEF WaysKnown
      <4>2. t.distance[e.source] = s.distance[e.source] /\ e.source \in t.black
        BY <1>4, <1>5, <1>7, <4>1 DEF LastEdge
      <4> QED BY <3>1, <4>1, <4>2 DEF LastEdge
    <3>2. ASSUME NEW e \in E, Changed(v, e) PROVE LastEdge(t, v, e)
      BY <1>2, <1>5, <1>7, <3>2 DEF LastEdge
    <3> QED BY <1>6, <3>1, <3>2
  <2>3. ASSUME NEW v \in V, v \notin Reached(t) PROVE t.distance[v] = MaxDistance /\ t.prev[v] = {}
    <3>1. ~ \E e \in E : Changed(v, e)
      BY <2>3 DEF Reached
    <3> QED BY <1>1, <1>6, <1>8, <2>3, <3>1 DEF WaysKnown
  <2> HIDE DEF Changed, Same
  <2> QED BY <2>1, <2>2, <2>3 DEF WaysKnown
<1>14. DistancesFit(V, c, t)
  <2> SUFFICES ASSUME NEW v \in V, v \in Reached(t)
               PROVE  t.distance[v] <= c * Cardinality(s.black) + c
    BY <1>9 DEF DistancesFit
  <2>1. CASE Same(v)
    <3>1. s.distance[v] <= c * Cardinality(s.black)
      BY <1>1, <1>8, <2>1 DEF DistancesFit
    <3> QED BY <1>3, <1>9, <2>1, <3>1
  <2>2. ASSUME NEW e \in E, Changed(v, e)
        PROVE  t.distance[v] <= c * Cardinality(s.black) + c
    <3>1. s.distance[cur] <= c * Cardinality(s.black)
      BY <1>1, <1>2 DEF DistancesFit, Reached
    <3>2. e.weight <= c
      BY <2>2 DEF Affordable
    <3> QED BY <1>2, <1>3, <1>4, <1>9, <2>2, <3>1, <3>2
  <2> HIDE DEF Changed, Same
  <2> QED BY <1>6, <2>1, <2>2
<1>15. EdgesUsed(E, t)
  <2> SUFFICES ASSUME NEW e \in E, e.source \in t.black, e.weight # MaxDistance
               PROVE  e.dest \in Reached(t) /\ t.distance[e.dest] <= t.distance[e.source] + e.weight
    BY DEF EdgesUsed
  <2>0. e.source \in V /\ e.dest \in V /\ e.weight \in Nat /\ e.weight < MaxDistance
    BY <1>0, <1>4
  <2>1. t.distance[e.source] = s.distance[e.source]
    BY <1>5, <1>7, <2>0
  <2>2. CASE e.source \in s.black
    <3>1. e.dest \in Reached(s) /\ s.distance[e.dest] <= s.distance[e.source] + e.weight
      BY <1>1, <2>2 DEF EdgesUsed
    <3>2. CASE Same(e.dest)
      BY <1>8, <2>0, <2>1, <3>1, <3>2
    <3>3. ASSUME NEW f \in E, Changed(e.dest, f)
          PROVE  e.dest \in Reached(t) /\ t.distance[e.dest] <= s.distance[e.source] + e.weight
      BY <1>3, <2>0, <3>1, <3>3 DEF Reached
    <3> HIDE DEF Changed, Same
    <3> QED BY <1>6, <2>0, <2>1, <3>2, <3>3
  <2>3. CASE e.source = cur
    <3>1. CASE e.dest \in s.black
      <4>1. s.distance[e.dest] <= s.distance[cur] /\ t.distance[e.dest] = s.distance[e.dest]
        BY <1>7, <1>10, <2>0, <3>1
      <4> QED BY <1>2, <1>3, <1>5, <2>0, <2>1, <2>3, <3>1, <4>1 DEF Reached
    <3>2. CASE e.dest \notin s.black /\ Same(e.dest)
      <4>1. s.distance[e.dest] <= s.distance[cur] + e.weight
        BY <2>3, <3>2
      <4>2. s.distance[cur] + e.weight < MaxDistance
        <5>1. s.distance[cur] <= c * Cardinality(s.black) /\ e.weight <= c
          BY <1>1, <1>2 DEF DistancesFit, Reached, Affordable
        <5> QED BY <1>0, <1>2, <1>3, <1>9, <2>0, <5>1
      <4>3. e.dest \in Reached(s)
        BY <1>0, <1>1, <1>2, <1>3, <2>0, <4>1, <4>2 DEF WaysKnown
      <4> QED BY <1>8, <2>0, <2>1, <2>3, <3>2, <4>1, <4>3
    <3>3. ASSUME NEW f \in E, Changed(e.dest, f)
          PROVE  e.dest \in Reached(t) /\ t.distance[e.dest] <= s.distance[cur] + e.weight
      BY <2>3, <3>3 DEF Reached
    <3> HIDE DEF Changed, Same
    <3> QED BY <1>6, <2>0, <2>1, <2>3, <3>1, <3>2, <3>3
  <2> QED BY <1>5, <2>2, <2>3
<1>16. NearestFirst(t)
  <2> SUFFICES ASSUME NEW u \in t.black, NEW v \in t.gray PROVE t.distance[u] <= t.distance[v]
    BY DEF NearestFirst
  <2>1. u \in V /\ v \in V /\ v \notin s.black /\ t.distance[u] = s.distance[u]
    BY <1>3, <1>5, <1>7
  <2>2. s.distance[u] <= s.distance[cur]
    BY <1>2, <1>3, <1>5, <1>10
  <2>3. s.distance[cur] <= t.distance[v]
    <3>1. CASE Same(v)
      BY <1>11, <2>1, <3>1
    <3>2. ASSUME NEW e \in E, Changed(v, e) PROVE s.distance[cur] <= t.distance[v]
      BY <1>2, <1>3, <1>4, <3>2
    <3> HIDE DEF Changed, Same
    <3> QED BY <1>6, <2>1, <3>1, <3>2
  <2> QED BY <1>2, <1>3, <2>1, <2>2, <2>3
<1>17. NoneTooNear(V, E, a, t)
  <2> DEFINE D == Distances(V, E)
  <2>1. /\ \A v \in V : D[a][v] \in Nat
        /\ \A v, w \in V : D[a][v] <= D[a][w] + D[w][v] /\ D[w][v] \in Nat
        /\ \A e \in E : D[e.source][e.dest] <= e.weight
    BY DistancesAre
  <2>2. \A v \in V : D[a][v] <= s.distance[v]
    BY <1>1 DEF NoneTooNear
  <2> HIDE DEF D
  <2> SUFFICES ASSUME NEW v \in V PROVE D[a][v] <= t.distance[v]
    BY DEF NoneTooNear, D
  <2>3. CASE Same(v)
    BY <2>2, <2>3
  <2>4. ASSUME NEW e \in E, Changed(v, e) PROVE D[a][v] <= t.distance[v]
    <3>1. D[a][v] <= D[a][cur] + D[cur][v] /\ D[a][cur] <= s.distance[cur] /\ D[cur][v] <= e.weight
      BY <1>2, <2>1, <2>2, <2>4
    <3>2. t.distance[v] = s.distance[cur] + e.weight
      BY <2>4
    <3> HIDE DEF Changed, Same
    <3> QED BY <1>2, <1>3, <1>4, <2>1, <3>1, <3>2
  <2> HIDE DEF Changed, Same
  <2> QED BY <1>6, <2>3, <2>4
<1>18. Ordered(V, t)
  <2>1. PICK rank : Order(V, s, rank)
    BY <1>1 DEF Ordered
  <2> DEFINE k == Cardinality(s.black)
             next == [v \in V |-> IF v \in t.black THEN rank[v] ELSE k + 1]
  <2>2. /\ \A v \in V : rank[v] \in Nat /\ (IF v \in s.black THEN rank[v] < k ELSE rank[v] = k)
        /\ \A v \in V : \A e \in s.prev[v] : rank[e.source] < rank[v]
    BY <1>9, <2>1 DEF Order
  <2>3. k \in Nat /\ k + 1 <= Cardinality(V) /\ Cardinality(t.black) = k + 1
    BY <1>9
  <2>4. \A v \in V : next[v] = IF v \in t.black THEN rank[v] ELSE k + 1
    OBVIOUS
  <2>5. next \in [V -> 0 .. Cardinality(V)]
    <3>1. \A v \in V : (IF v \in t.black THEN rank[v] ELSE k + 1) \in 0 .. Cardinality(V)
      <4> HIDE DEF k
      <4> QED BY <1>9, <2>2, <2>3
    <3> QED BY <3>1
  <2> HIDE DEF next, k
  <2>6. \A v \in V : IF v \in t.black THEN next[v] < k + 1 ELSE next[v] = k + 1
    BY <1>2, <1>5, <2>2, <2>3, <2>4
  <2>7. ASSUME NEW v \in V, NEW e \in t.prev[v] PROVE next[e.source] < next[v]
    <3>1. CASE Same(v)
      <4>0. v \in Reached(s) /\ v # a /\ e \in s.prev[v]
        BY <1>1, <2>7, <3>1 DEF WaysKnown
      <4>1. e \in s.prev[v] /\ e.source \in s.black /\ e.source \in V
        BY <1>1, <1>3, <4>0 DEF WaysKnown, LastEdge
      <4>2. rank[e.source] < rank[v] /\ rank[e.source] < k /\ next[e.source] = rank[e.source]
        BY <1>5, <2>2, <2>4, <4>1
      <4> HIDE DEF Changed, Same
      <4> QED BY <2>2, <2>3, <2>4, <4>1, <4>2
    <3>2. ASSUME NEW f \in E, Changed(v, f) PROVE next[e.source] < next[v]
      <4>1. e = f /\ e.source = cur /\ v \notin t.black
        BY <1>3, <2>7, <3>2
      <4>2. next[cur] = rank[cur] /\ rank[cur] = k /\ next[v] = k + 1
        BY <1>2, <1>5, <2>2, <2>4, <4>1
      <4> HIDE DEF Changed, Same
      <4> QED BY <2>3, <4>1, <4>2
    <3> HIDE DEF Changed, Same
    <3> QED BY <1>6, <3>1, <3>2
  <2>8. Order(V, t, next)
    BY <2>3, <2>5, <2>6, <2>7 DEF Order
  <2> QED BY <2>8 DEF Ordered
<1> HIDE DEF Changed, Same
<1>19. SearchInv(V, E, a, c, t)
  BY <1>2, <1>13, <1>14, <1>15, <1>16, <1>17, <1>18 DEF SearchInv
<1> QED BY <1>19 DEF t, cur

LEMMA StartIs ==
  ASSUME NEW V, NEW E, NEW a \in V, NEW c, IsGraph(V, E), Affordable(V, E, c)
  PROVE  SearchInv(V, E, a, c, Start(V, a))
<1> DEFINE s == Start(V, a)
<1>0. MaxDistance \in Nat
  BY MaxDistanceAssumption
<1>1. /\ s = [distance |-> s.distance, prev |-> s.prev, gray |-> s.gray, black |-> s.black]
      /\ s.distance = [v \in V |-> IF v = a THEN 0 ELSE MaxDistance] /\ s.prev = [v \in V |-> {}]
      /\ s.gray = {a} /\ s.black = {}
  BY DEF Start
<1> HIDE DEF s
<1>2. s \in SearchState(V, E)
  <2>1. s.distance \in [V -> 0 .. MaxDistance] /\ s.prev \in [V -> SUBSET E]
    BY <1>0, <1>1
  <2> QED BY <1>1, <2>1 DEF SearchState
<1>3. Cardinality(s.black) = 0 /\ Cardinality(V) \in Nat /\ c * 0 = 0
  BY <1>1, FS_EmptySet, FS_CardinalityType DEF IsGraph, Affordable
<1>4. WaysKnown(V, E, a, s)
  BY <1>1 DEF WaysKnown, Reached
<1>5. DistancesFit(V, c, s)
  BY <1>1, <1>3 DEF DistancesFit, Reached
<1>6. EdgesUsed(E, s) /\ NearestFirst(s)
  BY <1>1 DEF EdgesUsed, NearestFirst
<1>7. NoneTooNear(V, E, a, s)
  <2>1. Distances(V, E)[a][a] = 0 /\ \A v \in V : Distances(V, E)[a][v] <= MaxDistance
    BY DistancesAre
  <2> QED BY <1>1, <2>1 DEF NoneTooNear
<1>8. Order(V, s, [v \in V |-> 0])
  BY <1>1, <1>3 DEF Order
<1>9. Ordered(V, s)
  BY <1>8 DEF Ordered
<1>10. SearchInv(V, E, a, c, s)
  BY <1>2, <1>4, <1>5, <1>6, <1>7, <1>9 DEF SearchInv
<1> QED BY <1>10 DEF s

\* The equation that defines Search.
SearchUnfolds(V, E, a, b, from) ==
  /\ Search(V, E, a, b) = from[Start(V, a)]
  /\ \A s \in SearchState(V, E) :
       from[s] = IF Ended(s, b) THEN s ELSE from[Expand(V, E, s, Nearest(s))]

LEMMA SearchIsDefined ==
  ASSUME NEW V, NEW E, IsGraph(V, E), NEW a, NEW b
  PROVE  \E from : SearchUnfolds(V, E, a, b, from)
<1> DEFINE D == SearchState(V, E)
           N == Cardinality(V)
           rank == [s \in D |-> N - Cardinality(s.black)]
           final == {s \in D : Ended(s, b)}
           next == [s \in D |-> IF Ended(s, b) THEN s ELSE Expand(V, E, s, Nearest(s))]
           out == [s \in D |-> s]
           comb == [s \in D |-> [x \in D |-> x]]
           F(from) == [s \in SearchState(V, E) |->
                         IF Ended(s, b) THEN s ELSE from[Expand(V, E, s, Nearest(s))]]
<1>1. ASSUME NEW s \in D
      PROVE  N \in Nat /\ IsFiniteSet(s.black) /\ Cardinality(s.black) \in Nat /\ Cardinality(s.black) <= N
  BY StateShape, FS_Subset, FS_CardinalityType DEF IsGraph
<1>2. N \in Nat
  BY FS_CardinalityType DEF IsGraph
<1>3. \A s \in D : rank[s] = N - Cardinality(s.black)
  OBVIOUS
<1>4. rank \in [D -> 0 .. N]
  <2>1. \A s \in D : N - Cardinality(s.black) \in 0 .. N
    <3> HIDE DEF N, D
    <3> QED BY <1>1
  <2> QED BY <2>1
<1>5. ASSUME NEW s \in D, ~Ended(s, b)
      PROVE  /\ Expand(V, E, s, Nearest(s)) \in D
             /\ rank[Expand(V, E, s, Nearest(s))] < rank[s]
  <2> DEFINE t == Expand(V, E, s, Nearest(s))
  <2>1. Nearest(s) \in s.gray
    BY <1>5, NearestIs DEF Ended
  <2>2. t \in D /\ t.black = s.black \cup {Nearest(s)}
    BY <2>1, ExpandStays
  <2>3. Nearest(s) \notin s.black
    BY <2>1, StateShape
  <2> HIDE DEF t, D, N, rank
  <2>4. Cardinality(t.black) = Cardinality(s.black) + 1
    BY <1>1, <2>2, <2>3, FS_AddElement
  <2>5. Cardinality(t.black) <= N /\ Cardinality(s.black) \in Nat /\ N \in Nat
    BY <1>1, <2>2
  <2>6. rank[t] = N - Cardinality(t.black) /\ rank[s] = N - Cardinality(s.black)
    BY <1>3, <2>2
  <2>7. rank[t] < rank[s]
    BY <2>4, <2>5, <2>6
  <2> QED BY <2>2, <2>7 DEF t
<1>6. next \in [D -> D] /\ out \in [D -> D] /\ comb \in [D -> [D -> D]]
  <2>1. \A s \in D : (IF Ended(s, b) THEN s ELSE Expand(V, E, s, Nearest(s))) \in D
    BY <1>5
  <2> HIDE DEF D
  <2> QED BY <2>1
<1>7. \A s \in D : next[s] = IF Ended(s, b) THEN s ELSE Expand(V, E, s, Nearest(s))
  OBVIOUS
<1>8. \A s \in D : (s \in final <=> Ended(s, b)) /\ out[s] = s /\ \A x \in D : comb[s][x] = x
  OBVIOUS
<1>9. \A s \in D : s \notin final => rank[next[s]] < rank[s]
  BY <1>5, <1>7, <1>8
<1> HIDE DEF D, N, rank, final, next, out, comb
<1>10. PICK f \in [D -> D] : Descends(f, D, final, next, out, comb)
  BY <1>2, <1>4, <1>6, <1>9, Descent
<1>11. f = F(f)
  <2>1. ASSUME NEW s \in D
        PROVE  f[s] = IF Ended(s, b) THEN s ELSE f[Expand(V, E, s, Nearest(s))]
    <3>1. f[next[s]] \in D
      BY <1>6
    <3> QED BY <1>7, <1>8, <1>10, <3>1 DEF Descends
  <2> QED BY <2>1 DEF D
<1> DEFINE g == CHOOSE h : h = F(h)
<1>12. Search(V, E, a, b) = g[Start(V, a)]
  BY Zenon DEF Search
<1>13. g = F(g)
  BY <1>11, Zenon
<1> HIDE DEF g
<1>14. \A s \in SearchState(V, E) :
         g[s] = IF Ended(s, b) THEN s ELSE g[Expand(V, E, s, Nearest(s))]
  BY <1>13, Zenon
<1>15. SearchUnfolds(V, E, a, b, g)
  BY <1>12, <1>14, Zenon DEF SearchUnfolds
<1> QED BY <1>15

\* The search ends as it should.
LEMMA SearchEnds ==
  ASSUME NEW V, NEW E, NEW a \in V, NEW b \in V, NEW c, IsGraph(V, E), Affordable(V, E, c)
  PROVE  LET s == Search(V, E, a, b) IN SearchInv(V, E, a, c, s) /\ Ended(s, b)
<1>1. PICK from : SearchUnfolds(V, E, a, b, from)
  BY SearchIsDefined
<1> DEFINE D == SearchState(V, E)
           rank == [s \in D |-> Cardinality(V) - Cardinality(s.black)]
           G == {s \in D : SearchInv(V, E, a, c, s) =>
                             SearchInv(V, E, a, c, from[s]) /\ Ended(from[s], b)}
<1>2. ASSUME NEW s \in D
      PROVE  /\ Cardinality(V) \in Nat /\ Cardinality(s.black) \in Nat
             /\ Cardinality(s.black) <= Cardinality(V) /\ IsFiniteSet(s.black)
  BY StateShape, FS_Subset, FS_CardinalityType DEF IsGraph
<1>3. \A s \in D : rank[s] = Cardinality(V) - Cardinality(s.black)
  OBVIOUS
<1>4. rank \in [D -> Nat]
  <2>1. \A s \in D : Cardinality(V) - Cardinality(s.black) \in Nat
    <3> HIDE DEF D
    <3> QED BY <1>2
  <2> QED BY <2>1
<1> HIDE DEF rank
<1>5. ASSUME NEW s \in D, \A t \in D : rank[t] < rank[s] => t \in G
      PROVE  s \in G
  <2> SUFFICES ASSUME SearchInv(V, E, a, c, s)
               PROVE  SearchInv(V, E, a, c, from[s]) /\ Ended(from[s], b)
    OBVIOUS
  <2>1. CASE Ended(s, b)
    BY <1>1, <2>1 DEF SearchUnfolds
  <2>2. CASE ~Ended(s, b)
    <3> DEFINE t == Expand(V, E, s, Nearest(s))
    <3>1. from[s] = from[t] /\ s.gray # {}
      BY <1>1, <2>2 DEF SearchUnfolds, Ended
    <3>2. SearchInv(V, E, a, c, t)
      BY <3>1, ExpandKeeps
    <3>3. t \in D /\ Nearest(s) \notin s.black /\ t.black = s.black \cup {Nearest(s)}
      BY <3>1, Expanded DEF ExpandsTo
    <3> HIDE DEF t, D
    <3>4. Cardinality(t.black) = Cardinality(s.black) + 1
      BY <1>2, <3>3, FS_AddElement
    <3>5. /\ rank[t] = Cardinality(V) - Cardinality(t.black)
          /\ rank[s] = Cardinality(V) - Cardinality(s.black)
      BY <1>3, <3>3
    <3>6. Cardinality(V) \in Nat /\ Cardinality(s.black) \in Nat
      BY <1>2
    <3>7. rank[t] < rank[s]
      BY <3>4, <3>5, <3>6
    <3> QED BY <1>5, <3>1, <3>2, <3>3, <3>7
  <2> QED BY <2>1, <2>2
<1>6. D \subseteq G
  <2> HIDE DEF G, D
  <2> QED BY <1>4, <1>5, Ascent
<1>7. SearchInv(V, E, a, c, Start(V, a)) /\ Start(V, a) \in D
  BY StartIs DEF SearchInv
<1> HIDE DEF D
<1>8. SearchInv(V, E, a, c, from[Start(V, a)]) /\ Ended(from[Start(V, a)], b)
  BY <1>6, <1>7
<1> QED BY <1>1, <1>8 DEF SearchUnfolds

----------------------------------------------------------------------------
(* What it finds. *)

\* Nodes no further than the destination are at their distance: the distance of
\* the search, cut off at that of the destination, is a potential.
LEMMA DistancesFound ==
  ASSUME NEW V, NEW E, NEW a \in V, NEW b \in V, NEW c, IsGraph(V, E),
         NEW s, SearchInv(V, E, a, c, s), Ended(s, b)
  PROVE  \A v \in V : s.distance[v] <= s.distance[b] => s.distance[v] = Distances(V, E)[a][v]
<1> DEFINE m == s.distance[b]
           f == [v \in V |-> IF s.distance[v] <= m THEN s.distance[v] ELSE m]
<1>0. MaxDistance \in Nat
  BY MaxDistanceAssumption
<1>1. /\ s \in SearchState(V, E) /\ WaysKnown(V, E, a, s) /\ EdgesUsed(E, s) /\ NearestFirst(s)
      /\ NoneTooNear(V, E, a, s)
  BY DEF SearchInv
<1>2. \A v \in V : s.distance[v] \in Nat /\ s.distance[v] <= MaxDistance
  BY <1>1, StateShape
<1>3. m \in Nat /\ m <= MaxDistance
  BY <1>2
<1>4. \A v \in V : f[v] = IF s.distance[v] <= m THEN s.distance[v] ELSE m
  OBVIOUS
<1>5. f \in [V -> 0 .. MaxDistance]
  BY <1>0, <1>2
<1>6. ASSUME NEW v \in V, v \notin s.black PROVE m <= s.distance[v]
  <2>1. CASE v \in s.gray
    BY <1>1, <1>6, <2>1 DEF Ended, NearestFirst
  <2>2. CASE v \notin s.gray
    BY <1>1, <1>3, <1>6, <2>2 DEF WaysKnown, Reached
  <2> QED BY <2>1, <2>2
<1> HIDE DEF m, f
<1>7. ASSUME NEW e \in E PROVE f[e.dest] <= f[e.source] + e.weight
  <2>1. e.source \in V /\ e.dest \in V /\ e.weight \in Nat
    BY <1>0 DEF IsGraph
  <2>2. /\ f[e.dest] \in Nat /\ f[e.source] \in Nat /\ f[e.dest] <= MaxDistance /\ f[e.dest] <= m
        /\ f[e.dest] <= s.distance[e.dest]
    BY <1>0, <1>2, <1>3, <1>4, <2>1
  <2>3. CASE e.weight = MaxDistance
    BY <1>0, <2>2, <2>3
  <2>4. CASE e.source \in s.black /\ e.weight # MaxDistance
    <3>1. s.distance[e.dest] <= s.distance[e.source] + e.weight
      BY <1>1, <2>4 DEF EdgesUsed
    <3> QED BY <1>2, <1>3, <1>4, <2>1, <2>2, <3>1
  <2>5. CASE e.source \notin s.black
    <3>1. f[e.source] = m
      BY <1>2, <1>3, <1>4, <1>6, <2>1, <2>5
    <3> QED BY <1>3, <2>1, <2>2, <3>1
  <2> QED BY <2>3, <2>4, <2>5
<1> DEFINE D == Distances(V, E)
<1>8. \A v \in V : f[v] <= f[a] + D[a][v]
  BY <1>5, <1>7, Potential
<1>9. \A v \in V : D[a][v] \in Nat /\ D[a][v] <= s.distance[v]
  BY <1>1, DistancesAre DEF NoneTooNear
<1> HIDE DEF D
<1>10. f[a] = 0
  BY <1>1, <1>3, <1>4 DEF WaysKnown
<1>11. ASSUME NEW v \in V, s.distance[v] <= m PROVE s.distance[v] = D[a][v]
  BY <1>2, <1>4, <1>8, <1>9, <1>10, <1>11
<1> QED BY <1>11 DEF m, D

\* The equation that defines best_next_hop.
FirstUnfolds(V, a, b, prev, first, hop) ==
  /\ hop = first[b]
  /\ \A v \in V : first[v] = IF \E e \in prev[v] : e.source # a
                             THEN first[(CHOOSE e \in prev[v] : TRUE).source] ELSE prev[v]

LEMMA FirstIsDefined ==
  ASSUME NEW V, NEW E, NEW a, NEW b, NEW c, IsGraph(V, E), SearchInv(V, E, a, c, Search(V, E, a, b))
  PROVE  \E first : FirstUnfolds(V, a, b, Search(V, E, a, b).prev, first, BestNextHop(V, E, a, b))
<1> DEFINE s == Search(V, E, a, b)
           prev == s.prev
           last(v) == (CHOOSE e \in prev[v] : TRUE).source
           Onward(v) == \E e \in prev[v] : e.source # a
           final == {v \in V : ~Onward(v)}
           next == [v \in V |-> IF Onward(v) THEN last(v) ELSE v]
           X == SUBSET E
           comb == [v \in V |-> [x \in X |-> x]]
           F(first) == [v \in V |-> IF Onward(v) THEN first[last(v)] ELSE prev[v]]
<1>1. s \in SearchState(V, E) /\ Ordered(V, s)
  BY DEF SearchInv
<1> HIDE DEF s
<1>2. PICK rank : Order(V, s, rank)
  BY <1>1 DEF Ordered
<1>3. Cardinality(V) \in Nat /\ rank \in [V -> 0 .. Cardinality(V)]
  BY <1>2, FS_CardinalityType DEF Order, IsGraph
<1>4. prev \in [V -> X]
  BY <1>1, StateShape
<1>5. ASSUME NEW v \in V, Onward(v) PROVE last(v) \in V /\ rank[last(v)] < rank[v]
  <2>1. PICK e \in prev[v] : e = CHOOSE d \in prev[v] : TRUE
    BY <1>5
  <2>2. e \in E
    BY <1>4, <2>1
  <2> QED BY <1>2, <2>1, <2>2 DEF Order, IsGraph
<1>6. next \in [V -> V] /\ comb \in [V -> [X -> X]]
  <2>1. \A v \in V : (IF Onward(v) THEN last(v) ELSE v) \in V
    BY <1>5
  <2> HIDE DEF Onward, last
  <2> QED BY <2>1
<1>7. \A v \in V : /\ next[v] = IF Onward(v) THEN last(v) ELSE v
                   /\ v \in final <=> ~Onward(v)
                   /\ \A x \in X : comb[v][x] = x
  <2> HIDE DEF Onward, last
  <2> QED OBVIOUS
<1>8. \A v \in V : v \notin final => rank[next[v]] < rank[v]
  BY <1>5, <1>7
<1> HIDE DEF final, next, comb, X
<1>9. PICK f \in [V -> X] : Descends(f, V, final, next, prev, comb)
  BY <1>3, <1>4, <1>6, <1>8, Descent
<1>10. f = F(f)
  <2>1. ASSUME NEW v \in V PROVE f[v] = IF Onward(v) THEN f[last(v)] ELSE prev[v]
    <3>1. f[next[v]] \in X
      BY <1>6
    <3> HIDE DEF Onward, last
    <3> QED BY <1>7, <1>9, <3>1 DEF Descends
  <2> HIDE DEF Onward, last
  <2> QED BY <2>1
<1> DEFINE g == CHOOSE h : h = F(h)
<1>11. BestNextHop(V, E, a, b) = g[b]
  BY Zenon DEF BestNextHop, s
<1>12. g = F(g)
  BY <1>10, Zenon
<1> HIDE DEF g
<1>13. \A v \in V : g[v] = IF Onward(v) THEN g[last(v)] ELSE prev[v]
  BY <1>12, Zenon
<1>14. FirstUnfolds(V, a, b, prev, g, BestNextHop(V, E, a, b))
  BY <1>11, <1>13, Zenon DEF FirstUnfolds
<1> QED BY <1>14 DEF s

\* The first edge of a way to v that is as short as the search says.
BeginsWay(V, E, a, s, v, e) ==
  /\ e \in E /\ e.source = a /\ e.weight # MaxDistance
  /\ e.weight + Distances(V, E)[e.dest][v] <= s.distance[v]

LEMMA FirstBegins ==
  ASSUME NEW V, NEW E, NEW a \in V, NEW b \in V, NEW c, IsGraph(V, E),
         NEW s, SearchInv(V, E, a, c, s), NEW first, NEW hop,
         FirstUnfolds(V, a, b, s.prev, first, hop)
  PROVE  /\ first[a] = {}
         /\ \A v \in V \ {a} :
              IF v \in Reached(s) THEN \E e : first[v] = {e} /\ BeginsWay(V, E, a, s, v, e)
              ELSE first[v] = {}
<1>0. MaxDistance \in Nat
  BY MaxDistanceAssumption
<1>1. s \in SearchState(V, E) /\ WaysKnown(V, E, a, s) /\ Ordered(V, s)
  BY DEF SearchInv
<1>2. PICK rank : Order(V, s, rank)
  BY <1>1 DEF Ordered
<1>3. \A v \in V : first[v] = IF \E e \in s.prev[v] : e.source # a
                              THEN first[(CHOOSE e \in s.prev[v] : TRUE).source] ELSE s.prev[v]
  BY DEF FirstUnfolds
<1>4. first[a] = {}
  BY <1>1, <1>3 DEF WaysKnown
<1>5. ASSUME NEW v \in V \ {a}, v \notin Reached(s) PROVE first[v] = {}
  BY <1>1, <1>3, <1>5 DEF WaysKnown
<1> DEFINE Good(v) == v # a /\ v \in Reached(s) =>
                        \E e : first[v] = {e} /\ BeginsWay(V, E, a, s, v, e)
           G == {v \in V : Good(v)}
           D == Distances(V, E)
<1>6. /\ \A u, v \in V : D[u][v] \in Nat
      /\ \A v \in V : D[v][v] = 0
      /\ \A u, v, w \in V : D[u][v] <= D[u][w] + D[w][v]
      /\ \A e \in E : D[e.source][e.dest] <= e.weight
  BY DistancesAre
<1> HIDE DEF D
<1>7. ASSUME NEW v \in V, \A u \in V : rank[u] < rank[v] => u \in G
      PROVE  v \in G
  <2> SUFFICES ASSUME v # a, v \in Reached(s)
               PROVE  \E e : first[v] = {e} /\ BeginsWay(V, E, a, s, v, e)
    OBVIOUS
  <2>1. PICK e \in E : LastEdge(s, v, e)
    BY <1>1 DEF WaysKnown
  <2>2. /\ e.source \in V /\ e.dest = v /\ e.weight \in Nat /\ e.weight # MaxDistance
        /\ s.prev[v] = {e} /\ e.source \in Reached(s)
        /\ s.distance[v] = s.distance[e.source] + e.weight
    BY <1>0, <2>1 DEF LastEdge, IsGraph, Reached
  <2>3. s.distance[e.source] \in Nat
    BY <1>1, <2>2, StateShape
  <2>4. CASE e.source = a
    <3>1. first[v] = {e}
      BY <1>3, <2>2, <2>4
    <3>2. s.distance[v] = e.weight /\ D[e.dest][v] = 0
      BY <1>1, <1>6, <2>2, <2>4 DEF WaysKnown
    <3>3. BeginsWay(V, E, a, s, v, e)
      BY <2>2, <2>4, <3>2 DEF BeginsWay, D
    <3> QED BY <3>1, <3>3
  <2>5. CASE e.source # a
    <3>1. first[v] = first[e.source]
      <4>1. \E d \in s.prev[v] : d.source # a
        BY <2>2, <2>5
      <4>2. (CHOOSE d \in s.prev[v] : TRUE) = e
        BY <2>2
      <4> QED BY <1>3, <4>1, <4>2
    <3>2. rank[e.source] < rank[v]
      BY <1>2, <2>2 DEF Order
    <3>3. PICK f : first[e.source] = {f} /\ BeginsWay(V, E, a, s, e.source, f)
      BY <1>7, <2>2, <2>5, <3>2
    <3>4. /\ f \in E /\ f.source = a /\ f.weight # MaxDistance
          /\ f.weight + D[f.dest][e.source] <= s.distance[e.source]
      BY <3>3 DEF BeginsWay, D
    <3>5. f.dest \in V /\ f.weight \in Nat
      BY <1>0, <3>4 DEF IsGraph
    <3>6. D[f.dest][v] <= D[f.dest][e.source] + D[e.source][v] /\ D[e.source][v] <= e.weight
      BY <1>6, <2>2, <3>5
    <3>7. f.weight + D[f.dest][v] <= s.distance[v]
      <4>1. D[f.dest][v] \in Nat /\ D[f.dest][e.source] \in Nat /\ D[e.source][v] \in Nat
        BY <1>6, <2>2, <3>5
      <4> QED BY <2>2, <2>3, <3>4, <3>5, <3>6, <4>1
    <3>8. BeginsWay(V, E, a, s, v, f)
      BY <3>4, <3>7 DEF BeginsWay, D
    <3> QED BY <3>1, <3>3, <3>8
  <2> QED BY <2>4, <2>5
<1>8. V \subseteq G
  <2>1. rank \in [V -> Nat]
    <3>1. Cardinality(V) \in Nat
      BY FS_CardinalityType DEF IsGraph
    <3> QED BY <1>2, <3>1 DEF Order
  <2> HIDE DEF G
  <2> QED BY <1>7, <2>1, Ascent
<1>9. ASSUME NEW v \in V \ {a}, v \in Reached(s)
      PROVE  \E e : first[v] = {e} /\ BeginsWay(V, E, a, s, v, e)
  BY <1>8, <1>9
<1> QED BY <1>4, <1>5, <1>9

\* best_next_hop gives the first edge of a shortest path, and none exactly if no
\* path leads to the destination, in every graph in which the weights of a path
\* fit a distance (shortest_path of MultiGraph.tcc).
THEOREM BestNextHopIsShortest ==
  ASSUME NEW V, NEW E, NEW a \in V, NEW b \in V \ {a}, NEW c, IsGraph(V, E), Affordable(V, E, c)
  PROVE  LET hop == BestNextHop(V, E, a, b)  D == Distances(V, E) IN
         /\ hop = {} <=> D[a][b] = MaxDistance
         /\ \A e \in hop :
              /\ hop = {e} /\ e \in E /\ e.source = a /\ e.weight # MaxDistance
              /\ e.weight + D[e.dest][b] = D[a][b]
<1> DEFINE s == Search(V, E, a, b)
           hop == BestNextHop(V, E, a, b)
           D == Distances(V, E)
<1>0. MaxDistance \in Nat
  BY MaxDistanceAssumption
<1>1. SearchInv(V, E, a, c, s) /\ Ended(s, b)
  BY SearchEnds
<1>2. PICK first : FirstUnfolds(V, a, b, s.prev, first, hop)
  BY <1>1, FirstIsDefined
<1> HIDE DEF s, hop
<1>3. s \in SearchState(V, E) /\ WaysKnown(V, E, a, s) /\ DistancesFit(V, c, s)
  BY <1>1 DEF SearchInv
<1>4. s.distance[b] \in Nat /\ s.distance[b] <= MaxDistance
  BY <1>3, StateShape
<1>5. D[a][b] = s.distance[b]
  BY <1>1, <1>4, DistancesFound
<1>6. /\ \A u, v \in V : D[u][v] \in Nat
      /\ \A u, v, w \in V : D[u][v] <= D[u][w] + D[w][v]
      /\ \A e \in E : D[e.source][e.dest] <= e.weight
  BY DistancesAre
<1>7. hop = first[b]
  BY <1>2 DEF FirstUnfolds
<1>8. CASE b \in Reached(s)
  <2>1. PICK e : hop = {e} /\ BeginsWay(V, E, a, s, b, e)
    BY <1>1, <1>2, <1>7, <1>8, FirstBegins
  <2>2. /\ e \in E /\ e.source = a /\ e.weight # MaxDistance /\ e.weight + D[e.dest][b] <= D[a][b]
    BY <1>5, <2>1 DEF BeginsWay
  <2> HIDE DEF D
  <2>3. e.dest \in V /\ e.weight \in Nat
    BY <1>0, <2>2 DEF IsGraph
  <2>4. D[a][b] <= D[a][e.dest] + D[e.dest][b] /\ D[a][e.dest] <= e.weight
    BY <1>6, <2>2, <2>3
  <2>5. e.weight + D[e.dest][b] = D[a][b]
    <3>1. D[a][b] \in Nat /\ D[e.dest][b] \in Nat /\ D[a][e.dest] \in Nat
      BY <1>6, <2>3
    <3> QED BY <2>2, <2>3, <2>4, <3>1
  <2>6. D[a][b] # MaxDistance
    <3>1. s.distance[b] <= c * Cardinality(s.black)
      BY <1>3, <1>8 DEF DistancesFit
    <3>2. c * Cardinality(s.black) < MaxDistance
      <4>1. /\ IsFiniteSet(V) /\ s.black \subseteq V /\ c \in Nat /\ c * Cardinality(V) < MaxDistance
        BY <1>3, StateShape DEF IsGraph, Affordable
      <4> DEFINE k == Cardinality(s.black)
                 n == Cardinality(V)
      <4>2. k \in Nat /\ n \in Nat /\ k <= n
        BY <4>1, FS_Subset, FS_CardinalityType
      <4>3. c * n < MaxDistance
        BY <4>1
      <4> HIDE DEF k, n
      <4>4. PICK r \in Nat : n = k + r
        <5>1. n - k \in Nat /\ n = k + (n - k)
          BY <4>2
        <5> QED BY <5>1
      <4>5. c * n = c * k + c * r /\ c * k \in Nat /\ c * r \in Nat
        BY <4>1, <4>2, <4>4
      <4>6. c * k < MaxDistance
        BY <1>0, <4>3, <4>5
      <4> QED BY <4>6 DEF k
    <3>3. c * Cardinality(s.black) \in Nat
      BY <1>3, StateShape, FS_Subset, FS_CardinalityType DEF IsGraph, Affordable
    <3> QED BY <1>0, <1>4, <1>5, <3>1, <3>2, <3>3
  <2> QED BY <2>1, <2>2, <2>5, <2>6 DEF D, hop
<1>9. CASE b \notin Reached(s)
  <2>1. hop = {}
    BY <1>1, <1>2, <1>7, <1>9, FirstBegins
  <2>2. D[a][b] = MaxDistance
    BY <1>3, <1>5, <1>9 DEF WaysKnown
  <2> QED BY <2>1, <2>2 DEF D, hop
<1> QED BY <1>8, <1>9
=============================================================================
