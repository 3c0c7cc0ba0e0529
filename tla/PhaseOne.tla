----------------------------- MODULE PhaseOne -----------------------------
(***************************************************************************)
(* Phase one of Unibo-CGR (cgr/phase_one.c) for one destination: Dijkstra's *)
(* search over the contact graph, one route for each neighbor, and Yen's   *)
(* algorithm, with Lawler's modification, for more of them; and what       *)
(* becomes of the routes when their contacts expire (routes/routes.c).     *)
(*                                                                         *)
(* A contact is a record [from, to, start, end, owlt]; owlt is the one-way *)
(* light time with its margin of the range that applies at the start, or   *)
(* NoRange.  All contacts are certain.  The vertices of the search are     *)
(* contacts: it begins at a contact of the local node with itself.         *)
(***************************************************************************)
EXTENDS Integers, FiniteSets, SequencesExt

CONSTANTS
  LocalNode, Destination,
  Plans,        \* the contact plans to begin with
  Infinity,     \* MAX_POSIX_TIME
  MaxNow,       \* the clock stops here (bound)
  Wanted        \* the numbers of missing neighbors phase two asks for (bound)

ASSUME PhaseOneAssumption ==
  /\ LocalNode # Destination
  /\ {Infinity, MaxNow} \subseteq Nat
  /\ Wanted \subseteq Nat \ {0}

VARIABLES
  plan, now,
  routes,       \* the routes that exist, by number
  selected,     \* selectedRoutes: numbers of routes ("list A")
  known,        \* knownRoutes ("list B")
  computed,     \* ALREADY_COMPUTED
  notFound      \* ROUTES_NOT_FOUND

vars == <<plan, now, routes, selected, known, computed, notFound>>

NoRange == -1
NoRoute == 0

Root == [from |-> LocalNode, to |-> LocalNode, start |-> 0, end |-> Infinity, owlt |-> 0]

Later(x, y) == IF x > y THEN x ELSE y

\* The order of the contact tree.
Before(a, b) ==
  \/ a.from < b.from
  \/ a.from = b.from /\ a.to < b.to
  \/ a.from = b.from /\ a.to = b.to /\ a.start < b.start

Neighbor(r) == r.hops[1].to

----------------------------------------------------------------------------
(* Dijkstra's search. *)

Better(x, y) ==
  \/ x.arrival < y.arrival
  \/ x.arrival = y.arrival /\ x.hops < y.hops
  \/ x.arrival = y.arrival /\ x.hops = y.hops /\ x.owlts < y.owlts

Unreached == [arrival |-> Infinity, hops |-> 0, owlts |-> 0, pred |-> Root]

Hop(note, c, cur) ==
  [arrival |-> Later(c.start, note.arrival) + c.owlt, hops |-> note.hops + 1,
   owlts |-> note.owlts + c.owlt, pred |-> cur]

\* compute_new_distances: the contacts that leave where cur arrives, but not
\* back to where it came from.
Relax(w, visited, cur, barred) ==
  [c \in DOMAIN w |->
     IF /\ c.from = cur.to /\ (cur = Root \/ c.to # cur.from)
        /\ c \notin visited \cup barred /\ c # Root
        /\ c.end > Later(c.start, w[cur].arrival) /\ c.owlt # NoRange
        /\ Better(Hop(w[cur], c, cur), w[c])
     THEN Hop(w[cur], c, cur) ELSE w[c]]

\* find_best_contact
Nearest(w, open) ==
  CHOOSE c \in open : \A d \in open \ {c} :
    Better(w[c], w[d]) \/ (~Better(w[d], w[c]) /\ Before(c, d))

RECURSIVE PathTo(_, _)
PathTo(w, c) == IF c = Root THEN <<>> ELSE Append(PathTo(w, w[c].pred), c)

Found(hops, note, spur) ==
  [hops |-> hops, arrival |-> note.arrival, owlts |-> note.owlts, at |-> now, spur |-> spur,
   done |-> FALSE, father |-> NoRoute, before |-> NoRoute]

RECURSIVE Search(_, _, _, _, _)

Visit(w, visited, best, barred, spur) ==
  IF best.to = Destination THEN {Found(PathTo(w, best), w[best], spur)}
  ELSE Search(w, visited, best, barred, spur)

VisitNearest(w, visited, barred, spur) ==
  LET open == {c \in plan \ (visited \cup barred) : w[c].arrival # Infinity}
  IN IF open = {} THEN {} ELSE Visit(w, visited, Nearest(w, open), barred, spur)

\* The route found from the contact cur, at most one.
Search(w, visited, cur, barred, spur) ==
  VisitNearest(Relax(w, visited, cur, barred), visited \cup {cur}, barred, spur)

\* The notes of the contacts of a root path, the first i hops of a route.
RootNotes(hops, i) ==
  LET note[k \in 0 .. i] ==
        IF k = 0 THEN [Unreached EXCEPT !.arrival = now]
        ELSE Hop(note[k - 1], hops[k], IF k = 1 THEN Root ELSE hops[k - 1])
  IN note

\* initialize_root_path: each contact is still open when the one before
\* arrives there.
RootUsable(hops, i) ==
  \A k \in 1 .. i : /\ hops[k].owlt # NoRange
                    /\ RootNotes(hops, i)[k - 1].arrival <= hops[k].end

\* Wrong: only the contacts of the root path itself.
RootPathContactsOnly(hops, i) == {hops[k] : k \in 1 .. i}

\* suppress_root_path_ipn_node: all contacts of the nodes the root path
\* leaves from.
RootPathContacts(hops, i) == {c \in plan : \E k \in 1 .. i : c.from = hops[k].from}

SearchFrom(hops, i, barred) ==
  LET note == RootNotes(hops, i)
      at(c) == {k \in 1 .. i : hops[k] = c}
      w == [c \in plan \cup {Root} |->
              IF c = Root THEN note[0]
              ELSE IF at(c) # {} THEN note[CHOOSE k \in at(c) : TRUE] ELSE Unreached]
  IN Search(w, {}, IF i = 0 THEN Root ELSE hops[i], barred, i)

----------------------------------------------------------------------------
(* Routes and the two lists.  t is a record [routes, selected, known].      *)

Numbered(list, S) == SelectSeq(list, LAMBDA i : i \in S)

Excluded(t) == {Neighbor(t.routes[i]) : i \in ToSet(t.selected)}

Fresh(t) == CHOOSE i \in 1 .. Cardinality(DOMAIN t.routes) + 1 : i \notin DOMAIN t.routes

Create(t, r) ==
  [t EXCEPT !.routes = [i \in DOMAIN t.routes \cup {Fresh(t)} |->
                          IF i \in DOMAIN t.routes THEN t.routes[i] ELSE r]]

Insert_selected(t, r) == [Create(t, r) EXCEPT !.selected = <<Fresh(t)>> \o @]
Insert_known(t, r) == [Create(t, r) EXCEPT !.known = <<Fresh(t)>> \o @]

\* delete_cgr_route and update_references: the route's sons are orphans, its
\* selected child follows its selected father; a father whose child goes
\* without one may be branched from again.
Delete(t, i) ==
  LET gone == t.routes[i]
      child == \E k \in DOMAIN t.routes : t.routes[k].before = i
      left(k, r) ==
        [r EXCEPT !.father = IF @ = i THEN NoRoute ELSE @,
                  !.before = IF @ = i THEN gone.before ELSE @,
                  !.done = @ /\ (k = gone.before => child)]
  IN [routes |-> [k \in DOMAIN t.routes \ {i} |-> left(k, t.routes[k])],
      selected |-> SelectSeq(t.selected, LAMBDA k : k # i),
      known |-> SelectSeq(t.known, LAMBDA k : k # i)]

RECURSIVE DeleteAll(_, _)
DeleteAll(t, S) ==
  IF S = {} THEN t
  ELSE LET i == CHOOSE i \in S : TRUE IN DeleteAll(Delete(t, i), S \ {i})

\* remove_neighbor_from_known_routes
ForgetKnown(t, n) ==
  DeleteAll(t, {i \in ToSet(t.known) : Neighbor(t.routes[i]) = n})

\* A route over a neighbor that had none.
Discover(t, r) == ForgetKnown(Insert_selected(t, r), Neighbor(r))

RECURSIVE OneRoutePerNeighbor(_, _)

DiscoverEach(t, missing, found) ==
  IF found = {} THEN t
  ELSE OneRoutePerNeighbor(Discover(t, CHOOSE r \in found : TRUE), missing - 1)

\* computeOneRoutePerNeighbor
OneRoutePerNeighbor(t, missing) ==
  IF missing = 0 THEN t
  ELSE DiscoverEach(t, missing,
         SearchFrom(<<>>, 0, {c \in plan : c.from = LocalNode /\ c.to \in Excluded(t)}))

----------------------------------------------------------------------------
(* Yen's algorithm. *)

\* avoid_duplicate_routes: where a selected route with the same root path goes
\* on from there.
AvoidDuplicates(t, hops, i) ==
  {t.routes[k].hops[i + 1] : k \in
     {k \in ToSet(t.selected) : /\ Len(t.routes[k].hops) > i
                                /\ SubSeq(t.routes[k].hops, 1, i) = SubSeq(hops, 1, i)}}

\* compute_spur_route: from the graph root no other neighbor that has a route.
SpurRoute(t, f, i) ==
  LET r == t.routes[f]
  IN SearchFrom(r.hops, i,
       AvoidDuplicates(t, r.hops, i) \cup RootPathContacts(r.hops, i)
       \cup {c \in plan : i = 0 /\ c.from = LocalNode /\ c.to \in Excluded(t) \ {Neighbor(r)}})

RECURSIVE Spurs(_, _, _, _)

Kept(t, f, spur) == Insert_known(t, [spur EXCEPT !.father = f])

\* Wrong: after a route over another neighbor the root path is left.
SpursOnce(t, f, i, last, found) ==
  LET spur == CHOOSE q \in found : TRUE
  IN IF found = {} THEN Spurs(t, f, i + 1, last)
     ELSE IF Neighbor(spur) # Neighbor(t.routes[f]) THEN Spurs(Discover(t, spur), f, i + 1, last)
     ELSE Spurs(Kept(t, f, spur), f, i + 1, last)

\* After a route over another neighbor the same root path is tried again.
SpursAfter(t, f, i, last, found) ==
  LET spur == CHOOSE q \in found : TRUE
  IN IF found = {} THEN Spurs(t, f, i + 1, last)
     ELSE IF Neighbor(spur) # Neighbor(t.routes[f]) THEN Spurs(Discover(t, spur), f, i, last)
     ELSE Spurs(Kept(t, f, spur), f, i + 1, last)

\* compute_all_spurs, from the root paths of i to last hops.
Spurs(t, f, i, last) ==
  IF i > last \/ ~RootUsable(t.routes[f].hops, i) THEN t
  ELSE SpursAfter(t, f, i, last, SpurRoute(t, f, i))

Children(t, f) == {i \in DOMAIN t.routes : t.routes[i].father = f}

\* Wrong: the first known route of the neighbor.
FirstKnown(t, n) ==
  LET mine == Numbered(t.known, {i \in ToSet(t.known) : Neighbor(t.routes[i]) = n})
  IN IF mine = <<>> THEN {} ELSE {mine[1]}

\* get_best_known_route: the first of the best ones of the neighbor, unless its
\* values say that it cannot be used.
BestKnown(t, n) ==
  LET mine == Numbered(t.known, {i \in ToSet(t.known) : Neighbor(t.routes[i]) = n})
      cost(k) == LET r == t.routes[mine[k]]
                 IN [arrival |-> r.arrival, hops |-> Len(r.hops), owlts |-> r.owlts]
      best == {k \in DOMAIN mine : \A j \in DOMAIN mine \ {k} :
                 Better(cost(k), cost(j)) \/ (~Better(cost(j), cost(k)) /\ k < j)}
  IN {mine[k] : k \in {k \in best : cost(k).arrival # Infinity}}

\* move_route_from_known_to_selected, as the selected child of f.
Move(t, i, f) ==
  [routes |-> [t.routes EXCEPT ![i].before = f],
   selected |-> <<i>> \o t.selected,
   known |-> SelectSeq(t.known, LAMBDA k : k # i)]

\* A route with sons lets the known ones do.
Branched(t, f) ==
  IF Children(t, f) = {} THEN Spurs(t, f, t.routes[f].spur, Len(t.routes[f].hops) - 1) ELSE t

\* If there are none, and Lawler's modification skipped the root paths before
\* that of the route, these are tried as well.
Retried(t, f) ==
  LET r == t.routes[f]
  IN IF r.spur > 0 /\ BestKnown(t, Neighbor(r)) = {} THEN Spurs(t, f, 0, r.spur - 1) ELSE t

BestMoved(t, f) ==
  LET best == BestKnown(t, Neighbor(t.routes[f]))
  IN IF best = {} THEN t ELSE Move(t, CHOOSE i \in best : TRUE, f)

Marked(t, f) == [t EXCEPT !.routes[f].done = TRUE]

\* compute_another_route
AnotherRoute(t, f) ==
  IF t.routes[f].done THEN t ELSE BestMoved(Marked(Retried(Branched(t, f), f), f), f)

\* Whether compute_another_route, which turned t into next, did not return one
\* of the errors -3 and -4.
Performed(t, next, f) ==
  ~t.routes[f].done /\ (Children(t, f) = {} \/ next.selected # t.selected)

\* update_cost_values: the contact is that of the first hop all along.
UpdatedCosts(r) ==
  LET c == r.hops[1]
      depart(a) == Later(c.start, a)
      arrival[k \in 1 .. Len(r.hops)] ==
        IF k = 1 THEN depart(now) + c.owlt
        ELSE IF arrival[k - 1] = Infinity \/ depart(arrival[k - 1]) > c.end THEN Infinity
        ELSE depart(arrival[k - 1]) + c.owlt
      last == arrival[Len(r.hops)]
  IN [r EXCEPT !.arrival = last, !.owlts = IF last = Infinity THEN Infinity ELSE Len(r.hops) * c.owlt]

UpdateKnown(t) ==
  [t EXCEPT !.routes = [i \in DOMAIN t.routes |->
     IF i \in ToSet(t.known) /\ t.routes[i].at # now THEN UpdatedCosts(t.routes[i])
     ELSE t.routes[i]]]

\* computeOtherRoutes, when some branchings were performed and those of subset
\* are left; if none is, routes over other neighbors are searched.
RECURSIVE AnotherRoutes(_, _, _, _)

BranchNext(t, next, subset, some, missing) ==
  AnotherRoutes(next, Tail(subset), some \/ Performed(t, next, Head(subset)), missing)

AnotherRoutes(t, subset, some, missing) ==
  IF subset # <<>> THEN BranchNext(t, AnotherRoute(t, Head(subset)), subset, some, missing)
  ELSE IF some THEN t ELSE OneRoutePerNeighbor(t, missing)

OtherRoutes(t, subset, missing) ==
  AnotherRoutes(IF subset = <<>> THEN t ELSE UpdateKnown(t), subset, FALSE, missing)

----------------------------------------------------------------------------

Lists == [routes |-> routes, selected |-> selected, known |-> known]

Become(t) == routes' = t.routes /\ selected' = t.selected /\ known' = t.known

Init ==
  /\ plan \in Plans
  /\ now = 0
  /\ routes = <<>> /\ selected = <<>> /\ known = <<>>
  /\ computed = FALSE /\ notFound = FALSE

\* computeRoutes for the first time, or after the last selected route expired.
FirstRoutes(missing) ==
  /\ ~notFound
  /\ selected = <<>> \/ ~computed
  /\ Become(OneRoutePerNeighbor(IF computed THEN DeleteAll(Lists, ToSet(known)) ELSE Lists, missing))
  /\ computed' = TRUE
  /\ notFound' = (selected' = <<>>)
  /\ UNCHANGED <<plan, now>>

\* computeRoutes with the routes that phase two recommends to branch from, one
\* of a neighbor.
MoreRoutes(missing) ==
  \E S \in SUBSET {i \in ToSet(selected) : ~routes[i].done} :
    /\ ~notFound /\ computed /\ selected # <<>>
    /\ \A i, j \in S : Neighbor(routes[i]) = Neighbor(routes[j]) => i = j
    /\ Become(OtherRoutes(Lists, SelectSeq(selected, LAMBDA i : i \in S), missing))
    /\ UNCHANGED <<plan, now, computed, notFound>>

\* removeExpiredContacts, by the next call: a freed contact takes the routes
\* that cite it along.
Tick ==
  LET expired == {c \in plan : c.end <= now + 1}
  IN /\ now < MaxNow
     /\ now' = now + 1
     /\ plan' = plan \ expired
     /\ Become(DeleteAll(Lists, {i \in DOMAIN routes : ToSet(routes[i].hops) \cap expired # {}}))
     /\ UNCHANGED <<computed, notFound>>

Next == Tick \/ \E missing \in Wanted : FirstRoutes(missing) \/ MoreRoutes(missing)

Spec == Init /\ [][Next]_vars

----------------------------------------------------------------------------
(* Properties. *)

\* When the last byte of nothing arrives at the end of each hop.
ArrivalBy(hops, from) ==
  LET a[k \in 0 .. Len(hops)] == IF k = 0 THEN from ELSE Later(hops[k].start, a[k - 1]) + hops[k].owlt
  IN a

RECURSIVE Extensions(_, _)
Extensions(path, a) ==
  LET end == IF path = <<>> THEN LocalNode ELSE Last(path).to
      passed == {LocalNode} \cup {c.to : c \in ToSet(path)}
  IN IF end = Destination THEN {path}
     ELSE UNION {Extensions(Append(path, c), Later(c.start, a) + c.owlt) :
                   c \in {c \in plan : /\ c.from = end /\ c.to \notin passed
                                       /\ c.owlt # NoRange /\ Later(c.start, a) < c.end}}

\* All paths a bundle can take from now on.
Paths == Extensions(<<>>, now)

\* Every route is in exactly one of the two lists, consists of contacts that
\* still exist, and names fathers that still exist, whichever contacts expired
\* (delete_cgr_route and update_references of routes.c).
TypeOK ==
  /\ plan \subseteq UNION Plans
  /\ ToSet(selected) \cup ToSet(known) = DOMAIN routes
  /\ ToSet(selected) \cap ToSet(known) = {}
  /\ Len(selected) + Len(known) = Cardinality(DOMAIN routes)
  /\ \A i \in DOMAIN routes :
       /\ ToSet(routes[i].hops) \subseteq plan
       /\ {routes[i].father, routes[i].before} \subseteq DOMAIN routes \cup {NoRoute}

\* A known route that its values, as recomputed, declare of no use: no call
\* selects it, and it stays until one of its contacts expires.
Discarded(i) == i \in ToSet(known) /\ routes[i].arrival = Infinity

\* What compute_spur_route and computeOneRoutePerNeighbor put together is a way
\* from the local node to the destination, without a loop although the search
\* itself marks contacts and not nodes, over contacts that are open when it
\* gets there; and the two lists are in shape (TypeOK).  No way is selected
\* twice, nor found twice, although it could be from different root paths and
\* before and after a contact expires, but for a known route that
\* update_cost_values has put out of use (see CostsCurrent): the search from the
\* root that follows may meet that way again.
RoutesAreWays ==
  /\ TypeOK
  /\ \A i \in DOMAIN routes :
       LET r == routes[i]
           a == ArrivalBy(r.hops, r.at)
           n == Len(r.hops)
       IN /\ r.hops[1].from = LocalNode /\ r.hops[n].to = Destination
          /\ \A k \in 1 .. n - 1 : r.hops[k].to = r.hops[k + 1].from
          /\ Cardinality({LocalNode} \cup {r.hops[k].to : k \in 1 .. n}) = n + 1
          /\ \A k \in 1 .. n : a[k - 1] <= r.hops[k].end
  /\ \A i, j \in DOMAIN routes :
       i # j /\ routes[i].hops = routes[j].hops => Discarded(i) \/ Discarded(j)

\* While the clock stands, routes over a neighbor are selected in the order in
\* which they arrive.  The first one is the earliest of all paths (Dijkstra's
\* search keeps one predecessor of a contact, and neighbors are excluded from
\* it), and no path that is not selected yet is earlier than one that is (Yen's
\* algorithm: compute_another_route, get_best_known_route).
SelectedInOrder ==
  (\A i \in DOMAIN routes : routes[i].at = now) =>
  \A i \in ToSet(selected) : \A p \in Paths :
      /\ p[1].to = Neighbor(routes[i])
      /\ \/ routes[i].before = NoRoute /\ routes[i].spur = 0
         \/ \A k \in ToSet(selected) : routes[k].hops # p
      => routes[i].arrival <= ArrivalBy(p, now)[Len(p)]

\* Yen's algorithm with Lawler's modification misses nothing: where branching
\* from the last route over a neighbor yielded no other (ROUTE_NOT_FOUND in
\* compute_another_route, after the root paths that were skipped), every path
\* over the neighbor has been selected.
YenExhausts ==
  (\A i \in DOMAIN routes : routes[i].at = now) =>
  \A i \in ToSet(selected) :
     routes[i].done /\ (\A k \in DOMAIN routes : routes[k].before # i) =>
       \A p \in Paths : p[1].to = Neighbor(routes[i]) => \E k \in ToSet(selected) : routes[k].hops = p

\* update_cost_values says that it updates a route's values (phase_one.c:931):
\* a known route that is selected arrives when its hops say.
CostsCurrent ==
  [][\A i \in DOMAIN routes \cap DOMAIN routes' :
       i \in ToSet(known) /\ i \in ToSet(selected') =>
         routes'[i].arrival = ArrivalBy(routes[i].hops, now)[Len(routes[i].hops)]]_vars
============================================================================
