----------------------------- MODULE LinkState -----------------------------
(***************************************************************************)
(* A network of link-state routers (DTLSRRouter.cc).  Each router keeps a  *)
(* graph with its own links, which its contacts set up and down, and the   *)
(* links of the others, which their announcements (LSAs) describe.  It     *)
(* announces its links when one changes, at most once in a minimum         *)
(* interval, and holds the latest announcement of every router, which the  *)
(* bundle layer floods over the links of its routes.                       *)
(*                                                                         *)
(* A link is a pair <<router, peer>>, its name on that router; a pair      *)
(* <<router, endpoint>> is the edge to a registration, which is always up. *)
(* Weights are the configured costs (weight function COST), creation times *)
(* are in seconds as in the code.                                          *)
(***************************************************************************)
EXTENDS RoutingGraph

CONSTANTS
  Router, Endpoint,
  Link,              \* pairs of a router and a router or endpoint
  Cost,              \* [Link -> cost]
  Settled,           \* how the network starts
  KeepDownLinks,     \* keep_down_links_
  MinLsaInterval,    \* min_lsa_interval_, in seconds
  LsaLifetime,       \* lsa_lifetime_, in seconds
  MaxTime,           \* the clock stops here unless a timer is pending (bound)
  MaxPeriodic,       \* [router -> its periodic announcements] (bound)
  MaxChanges,        \* [link with contacts -> its contact changes] (bound)
  MaxRestarts        \* [router -> its restarts] (bound)

ASSUME LinkStateAssumption ==
  /\ IsFiniteSet(Router \cup Endpoint) /\ Router \cap Endpoint = {}
  /\ Link \subseteq Router \X (Router \cup Endpoint)
  /\ Cost \in [Link -> 0 .. (MaxDistance - 1)]
  /\ {Settled, KeepDownLinks} \subseteq BOOLEAN
  /\ {MinLsaInterval, LsaLifetime, MaxTime} \subseteq Nat
  /\ {MaxPeriodic, MaxRestarts} \subseteq [Router -> Nat]
  /\ MaxChanges \in [{l \in Link : l[2] \in Router} -> Nat]

VARIABLES
  now,
  up,                \* the links that have a contact
  changes,           \* contact changes so far
  graph,             \* of each router: the state of every link, or absent
  routes,            \* of each router: destination -> link of the route
  lastSeqno, lastCreation, \* of each router: what it last took from each source
  currentLsas,       \* of each router
  sent,              \* of each router: its current LSAs and the peers that need them not
  lastTransmit,      \* last_lsa_transmit_, or never
  delayedLsa,        \* when the delayed LSA timer is due, or none
  periodic,          \* periodic announcements sent so far
  restarts,
  arriving           \* LSAs on their way to each router, with the sender

networkVars == <<up, changes>>
nodeVars    == <<graph, routes, lastSeqno, lastCreation, currentLsas, sent>>
timerVars   == <<lastTransmit, delayedLsa, periodic>>
vars == <<now, up, changes, graph, routes, lastSeqno, lastCreation, currentLsas, sent,
          lastTransmit, delayedLsa, periodic, restarts, arriving>>

Never == -1    \* no time

Out(n) == {l \in Link : l[1] = n}
Contacts == {l \in Link : l[2] \in Router}
Vertex == Router \cup Endpoint

TypeOK ==
  /\ now \in Nat
  /\ up \subseteq Contacts
  /\ graph \in [Router -> [Link -> {"absent", "up", "down"}]]
  /\ {lastSeqno, lastCreation} \subseteq [Router -> [Router -> Nat]]
  /\ \A n \in Router :
       /\ sent[n] \subseteq currentLsas[n] \X Router
       /\ \A a \in currentLsas[n] \cup {m[1] : m \in arriving[n]} :
            a.source \in Router /\ a.seqno \in Nat \ {0} /\ DOMAIN a.links \subseteq Out(a.source)
  /\ \A n \in Router : routes[n] \in [Vertex \ {n} -> SUBSET (Out(n) \cap Contacts)]
  /\ lastTransmit \in [Router -> (0 .. now) \cup {Never}]
  /\ delayedLsa \in [Router -> Nat \cup {Never}]
  /\ \A n \in Router : \A a, b \in currentLsas[n] : a.source = b.source => a = b

----------------------------------------------------------------------------
(* Routes. *)

Weight(s, l) == IF s = "up" THEN Cost[l] ELSE MaxDistance

Edges(g) ==
  {[id |-> l, source |-> l[1], dest |-> l[2], weight |-> Weight(g[l], l)] :
     l \in {k \in Link : g[k] # "absent"}}

\* recompute_routes, with the graph g: an edge to a registration of the router
\* itself has no link and makes no route.
RoutesOf(n, g) ==
  [d \in Vertex \ {n} |-> {e.id : e \in BestNextHop(Vertex, Edges(g), n, d)} \cap Contacts]

RecomputeRoutes(n, g) == routes' = [routes EXCEPT ![n] = RoutesOf(n, g)]

FullLsa(s) == [source |-> s, seqno |-> 1, ts |-> 0, links |-> [l \in Out(s) |-> "up"]]

\* A network that starts, or one in which every contact is open and every
\* router has heard of every other one.
Init ==
  /\ now = 1
  /\ up = IF Settled THEN Contacts ELSE {}
  /\ changes = [l \in Contacts |-> 0]
  /\ graph = [n \in Router |-> [l \in Link |-> IF Settled THEN "up" ELSE "absent"]]
  /\ routes = [n \in Router |-> RoutesOf(n, graph[n])]
  /\ lastSeqno = [n \in Router |-> [s \in Router |-> IF Settled THEN 1 ELSE 0]]
  /\ lastCreation = [n \in Router |-> [s \in Router |-> 0]]
  /\ currentLsas = [n \in Router |-> IF Settled THEN {FullLsa(s) : s \in Router} ELSE {}]
  /\ sent = [n \in Router |-> currentLsas[n] \X Router]
  /\ lastTransmit = [n \in Router |-> IF Settled THEN 0 ELSE Never]
  /\ delayedLsa = [n \in Router |-> Never]
  /\ periodic = [n \in Router |-> 0]
  /\ restarts = [n \in Router |-> 0]
  /\ arriving = [n \in Router |-> {}]

----------------------------------------------------------------------------
(* Announcements. *)

\* Wrong: what comes is new.
StaleNever(n, a) == FALSE

\* update_current_lsa: stale is what is no newer in number and older in time, by
\* whole seconds.
Stale(n, a) == a.seqno <= lastSeqno[n][a.source] /\ a.ts < lastCreation[n][a.source]

\* Wrong: the LSA joins the current ones.
UpdateCurrentLsaBeside(n, a, from) ==
  /\ lastSeqno' = [lastSeqno EXCEPT ![n][a.source] = a.seqno]
  /\ lastCreation' = [lastCreation EXCEPT ![n][a.source] = a.ts]
  /\ currentLsas' = [currentLsas EXCEPT ![n] = @ \cup {a}]
  /\ sent' = [sent EXCEPT ![n] = @ \cup {<<a, from>>}]

\* The LSA takes the place of the current one of its source, whose
\* transmissions are suppressed and which is deleted.
UpdateCurrentLsa(n, a, from) ==
  /\ lastSeqno' = [lastSeqno EXCEPT ![n][a.source] = a.seqno]
  /\ lastCreation' = [lastCreation EXCEPT ![n][a.source] = a.ts]
  /\ currentLsas' =
       [currentLsas EXCEPT ![n] = {b \in @ : b.source # a.source} \cup {a}]
  /\ sent' = [sent EXCEPT ![n] = {m \in @ : m[1].source # a.source} \cup {<<a, from>>}]

\* Wrong: an announcement lists the links that are up.
OnlyUp(g) == {l \in Link : g[l] = "up"}

Announced(g) == {l \in Link : g[l] # "absent"}

\* send_lsa, with the router's graph g.
SendLsa(n, g) ==
  /\ UpdateCurrentLsa(n,
       [source |-> n, seqno |-> lastSeqno[n][n] + 1, ts |-> now,
        links |-> [l \in Announced(g) \cap Out(n) |-> g[l]]], n)
  /\ lastTransmit' = [lastTransmit EXCEPT ![n] = now]

\* schedule_lsa: at once, or when the minimum interval is over.
ScheduleLsa(n, g) ==
  IF delayedLsa[n] # Never
  THEN UNCHANGED <<lastSeqno, lastCreation, currentLsas, sent, lastTransmit, delayedLsa>>
  ELSE IF lastTransmit[n] = Never \/ now - lastTransmit[n] > MinLsaInterval
  THEN SendLsa(n, g) /\ UNCHANGED delayedLsa
  ELSE /\ delayedLsa' = [delayedLsa EXCEPT ![n] = lastTransmit[n] + MinLsaInterval]
       /\ UNCHANGED <<lastSeqno, lastCreation, currentLsas, sent, lastTransmit>>

\* The router ignores its own LSAs and stale ones.  A new one sets the links
\* it lists and leaves the others as they are.
HandleLsa(n) ==
  \E m \in arriving[n] :
    LET a == m[1] IN
    /\ arriving' = [arriving EXCEPT ![n] = @ \ {m}]
    /\ IF a.source = n \/ Stale(n, a)
       THEN UNCHANGED nodeVars
       ELSE /\ UpdateCurrentLsa(n, a, m[2])
            /\ graph' = [graph EXCEPT ![n] =
                 [l \in Link |-> IF l \in DOMAIN a.links THEN a.links[l] ELSE @[l]]]
            /\ RecomputeRoutes(n, graph'[n])
    /\ UNCHANGED <<now, networkVars, timerVars, restarts>>

LsaExpired(n) ==
  \E a \in currentLsas[n] :
    /\ now >= a.ts + LsaLifetime
    /\ currentLsas' = [currentLsas EXCEPT ![n] = @ \ {a}]
    /\ sent' = [sent EXCEPT ![n] = {m \in @ : m[1] # a}]
    /\ UNCHANGED <<now, networkVars, graph, routes, lastSeqno, lastCreation, timerVars, restarts,
                   arriving>>

----------------------------------------------------------------------------
(* Contacts, registrations and timers. *)

ContactUp(n) ==
  \E l \in (Out(n) \cap Contacts) \ up :
    /\ changes[l] < MaxChanges[l]
    /\ changes' = [changes EXCEPT ![l] = @ + 1]
    /\ up' = up \cup {l}
    /\ graph' = [graph EXCEPT ![n][l] = "up"]
    /\ RecomputeRoutes(n, graph'[n])
    /\ ScheduleLsa(n, graph'[n])
    /\ UNCHANGED <<now, periodic, restarts, arriving>>

\* The link is announced as down, if that can be done at once; a link that is
\* not kept is removed after that.
ContactDown(n) ==
  \E l \in Out(n) \cap up :
    /\ changes[l] < MaxChanges[l]
    /\ changes' = [changes EXCEPT ![l] = @ + 1]
    /\ up' = up \ {l}
    /\ LET g == [graph[n] EXCEPT ![l] = "down"] IN RecomputeRoutes(n, g) /\ ScheduleLsa(n, g)
    /\ graph' = [graph EXCEPT ![n][l] = IF KeepDownLinks THEN "down" ELSE "absent"]
    /\ UNCHANGED <<now, periodic, restarts, arriving>>

RegistrationAdded(n) ==
  \E l \in Out(n) \ Contacts :
    /\ graph[n][l] = "absent"
    /\ graph' = [graph EXCEPT ![n][l] = "up"]
    /\ ScheduleLsa(n, graph'[n])
    /\ UNCHANGED <<now, networkVars, routes, periodic, restarts, arriving>>

DelayedLsaTimeout(n) ==
  /\ delayedLsa[n] # Never /\ now >= delayedLsa[n]
  /\ delayedLsa' = [delayedLsa EXCEPT ![n] = Never]
  /\ SendLsa(n, graph[n])
  /\ UNCHANGED <<now, networkVars, graph, routes, periodic, restarts, arriving>>

PeriodicLsaTimeout(n) ==
  /\ periodic[n] < MaxPeriodic[n]
  /\ periodic' = [periodic EXCEPT ![n] = @ + 1]
  /\ SendLsa(n, graph[n])
  /\ UNCHANGED <<now, networkVars, graph, routes, delayedLsa, restarts, arriving>>

Tick ==
  /\ now < MaxTime \/ \E n \in Router : delayedLsa[n] > now
  /\ now' = now + 1
  /\ UNCHANGED <<networkVars, nodeVars, timerVars, restarts, arriving>>

\* The graph and the timers are lost; bundles in the store are received again.
Restart(n) ==
  /\ restarts[n] < MaxRestarts[n]
  /\ restarts' = [restarts EXCEPT ![n] = @ + 1]
  /\ up' = up \ Out(n)
  /\ graph' = [graph EXCEPT ![n] = [l \in Link |-> "absent"]]
  /\ routes' = [routes EXCEPT ![n] = [d \in Vertex \ {n} |-> {}]]
  /\ lastSeqno' = [lastSeqno EXCEPT ![n] = [s \in Router |-> 0]]
  /\ lastCreation' = [lastCreation EXCEPT ![n] = [s \in Router |-> 0]]
  /\ arriving' = [arriving EXCEPT ![n] = @ \cup (currentLsas[n] \X {n})]
  /\ currentLsas' = [currentLsas EXCEPT ![n] = {}]
  /\ sent' = [sent EXCEPT ![n] = {}]
  /\ lastTransmit' = [lastTransmit EXCEPT ![n] = Never]
  /\ delayedLsa' = [delayedLsa EXCEPT ![n] = Never]
  /\ UNCHANGED <<now, changes, periodic>>

----------------------------------------------------------------------------
(* The bundle layer, which floods the LSAs over the links of the routes. *)

Flood(n) ==
  \E l \in (UNION {routes[n][d] : d \in Vertex \ {n}}) \cap up, a \in currentLsas[n] :
    /\ <<a, l[2]>> \notin sent[n]
    /\ sent' = [sent EXCEPT ![n] = @ \cup {<<a, l[2]>>}]
    /\ arriving' = [arriving EXCEPT ![l[2]] = @ \cup {<<a, n>>}]
    /\ UNCHANGED <<now, networkVars, graph, routes, lastSeqno, lastCreation, currentLsas, timerVars,
                   restarts>>

----------------------------------------------------------------------------

\* What the daemon, the clock and the timers do by themselves.
Progress ==
  \/ Tick
  \/ \E n \in Router : Flood(n) \/ DelayedLsaTimeout(n) \/ HandleLsa(n)

Next ==
  \/ Progress
  \/ \E n \in Router :
       \/ ContactUp(n) \/ ContactDown(n) \/ RegistrationAdded(n)
       \/ PeriodicLsaTimeout(n) \/ LsaExpired(n) \/ Restart(n)

Spec == Init /\ [][Next]_vars

\* While one of them can do something, one of them does.
FairSpec == Spec /\ WF_vars(Progress)

----------------------------------------------------------------------------
(* Properties. *)

\* A router hears, over links that stay up, of every link there is.
Reachable(n) ==
  LET r[k \in 0 .. Cardinality(Router)] ==
        IF k = 0 THEN {n}
        ELSE r[k - 1] \cup {m \in Router : \E q \in r[k - 1] : <<m, q>> \in up}
  IN r[Cardinality(Router)]

Agrees(n, s) == \A l \in Out(s) : graph[n][l] = graph[s][l]

\* Once contacts stop changing, every router's graph has the links of each
\* router whose announcements reach it as that router has them: the last
\* change of a link is announced although the minimum interval delays the LSA
\* (schedule_lsa), it is flooded over the routes that the routers compute
\* meanwhile, and neither a late nor a duplicate LSA undoes it (handle_lsa).
Converged == \A n \in Router : \A s \in Reachable(n) : Agrees(n, s)

ViewsConverge == <>[]Converged

\* The cost of a path fits the width of a distance.  Nothing checks that the
\* configured costs do: with larger ones the sums of the search wrap.
CostsFit ==
  \E c \in 0 .. MaxDistance :
    c * Cardinality(Vertex) < MaxDistance /\ \A l \in Link : Cost[l] <= c

\* The routes of n, given the distances in its graph.
LeadShortest(n, distance) ==
  \A d \in {v \in Vertex \ {n} : <<n, v>> \notin Link \ Contacts} :
    /\ routes[n][d] = {} <=> distance[n][d] >= MaxDistance
    /\ \A l \in routes[n][d] :
         Weight(graph[n][l], l) + distance[l[2]][d] = distance[n][d]

\* A route leads over the first link of a shortest path in the router's present
\* graph, and there is one exactly for the destinations that have a path
\* (recompute_routes with best_next_hop): no route survives the contact or the
\* announcement that took its path away.  The registrations of the router
\* itself are reached over no link.
RoutesShortest ==
  \A n \in Router : LeadShortest(n, Distances(Vertex, Edges(graph[n])))

\* No router ever replaces the LSA it holds of a source by one that the source
\* made before it, but by one of the very same second, in whatever order, how often
\* and by which way they arrive, also when the router itself restarts and gets them
\* from its store (update_current_lsa).  The numbers tell which was first; the code
\* does without them where creation times are equal, so that a source's LSAs of one
\* second can overtake each other.  All this as long as the source, whose numbers
\* start again with it, does not restart: an LSA from before that is taken when it
\* comes late, for its high number.
TakesNoOlder ==
  \A n \in Router : \A a \in currentLsas[n], b \in currentLsas'[n] :
    a.source = b.source /\ restarts[a.source] = 0 => a.seqno <= b.seqno \/ a.ts = b.ts

MostRecentHeld == [][TakesNoOlder]_vars
============================================================================
