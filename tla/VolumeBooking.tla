--------------------------- MODULE VolumeBooking ---------------------------
(***************************************************************************)
(* Phases two and three of Unibo-CGR (cgr/phase_two.c, cgr/phase_three.c)  *)
(* for one destination: which of the computed routes can carry a bundle,   *)
(* when it would arrive, which are taken, and the volume of the contacts   *)
(* that is booked for it.                                                  *)
(*                                                                         *)
(* A contact is a record [from, to, start, end, rate, owlt, seen]: rate is *)
(* what it had when it was added, seen the interval of the range between   *)
(* the two nodes and owlt its one-way light time with the margin.  A route *)
(* is the sequence of its contacts.  A bundle is a record [priority,       *)
(* critical, evc, expires, excluded, failed, geo].  The queues of the      *)
(* neighbors and their transmission belong to the node (external).         *)
(***************************************************************************)
EXTENDS FiniteSets, Lists

CONSTANTS
  LocalNode,
  Contacts,     \* the contacts of the plan
  RouteSets,    \* sets of routes that phase one may have computed
  Bundles,      \* the bundles to be forwarded
  MaxEvc,       \* the volume of the largest (bound)
  NewRates,     \* transmit rates that the contact plan may be given anew
  MaxNow        \* the clock stops here (bound)

Priorities == 0 .. 2

Volume(c) == c.rate * (c.end - c.start)

ASSUME VolumeAssumption ==
  /\ {MaxNow, MaxEvc} \subseteq Nat
  /\ NewRates \subseteq Nat \ {0}
  /\ IsFiniteSet(Contacts)
  /\ \A c \in Contacts :
       /\ {c.start, c.end, c.owlt} \subseteq Nat /\ c.rate \in Nat \ {0}
       /\ c.start <= c.end /\ 0 < c.end
  /\ \A R \in RouteSets : \A r \in R :
       /\ r \in Seq(Contacts) /\ r # <<>> /\ r[1].from = LocalNode
       /\ \A i \in 2 .. Len(r) : r[i].from # LocalNode
       /\ \A i, j \in 1 .. Len(r) : r[i] = r[j] => i = j
  /\ \A b \in Bundles : b.priority \in Priorities /\ b.evc \in 1 .. MaxEvc
                        /\ b.expires \in Nat /\ b.critical \in BOOLEAN

VARIABLES
  now,
  rate,         \* xmitRate of each contact
  mtv,          \* the maximum transmission volume left, of each contact and priority
  arrival,      \* the computed routes, with the arrivalTime each has cached
  pending,      \* the bundles that have no route yet
  queue,        \* for each neighbor the bundles [bundle, left, eto, over] to be sent,
                \* with what they were promised: when, over which contact (history)
  shaken        \* the bundles that were queued for a neighbor when the rate of a
                \* contact with it was revised (history)

vars == <<now, rate, mtv, arrival, pending, queue, shaken>>

Neighbors == {c.to : c \in {c \in Contacts : c.from = LocalNode}}
ToNeighbor(n) == {c \in Contacts : c.from = LocalNode /\ c.to = n}

Routes == DOMAIN arrival
Hops(r) == {r[i] : i \in DOMAIN r}
Neighbor(r) == r[1].to

Later(x, y) == IF x > y THEN x ELSE y
Earlier(x, y) == IF x < y THEN x ELSE y

----------------------------------------------------------------------------
(* Phase two. *)

Total(f, n) ==
  LET upTo[k \in 0 .. n] == IF k = 0 THEN 0 ELSE upTo[k - 1] + f[k]
  IN upTo[n]

\* computeApplicableBacklog: what must be sent to the neighbor before.
Backlog(n, priority) ==
  Total([k \in DOMAIN queue[n] |->
           IF queue[n][k].bundle.priority >= priority THEN queue[n][k].left ELSE 0],
        Len(queue[n]))

\* Wrong: as if no contact had begun.
WholeVolume(c) == rate[c] * (c.end - c.start)

\* What a contact can still send, of all its time if it has not begun.
ApplicableVolume(c) == rate[c] * (c.end - Later(now, c.start))

\* The sum of a function's values, in any order.
SumOf(f) ==
  LET n == Cardinality(DOMAIN f)
      order == CHOOSE o \in [1 .. n -> DOMAIN f] : \A i, j \in 1 .. n : o[i] = o[j] => i = j
  IN Total([i \in 1 .. n |-> f[order[i]]], n)

\* computeResidualBacklog: the contacts with the neighbor before the first one
\* of the route relieve the backlog.
Relief(n, c) ==
  SumOf([d \in {d \in ToNeighbor(n) : d.start < c.start /\ d.end > now} |-> ApplicableVolume(d)])

Residual(c, priority) == Later(0, Backlog(c.to, priority) - Relief(c.to, c))

\* The division of C, towards zero.
Quotient(x, y) == IF x >= 0 THEN x \div y ELSE -((-x) \div y)

\* SABR 3.2.6.3, the earliest transmission opportunity.
Eto(r, priority) == Later(now, r[1].start) + Residual(r[1], priority) \div rate[r[1]]

\* Wrong: the volume left and the one booked are confused.
DelayByVolumeLeft(c, priority) == Quotient(mtv[c][priority] - rate[c] * (c.end - c.start), rate[c])

\* What is booked already delays a bundle at the contacts after the first.
QueueDelay(c, priority) == Quotient(rate[c] * (c.end - c.start) - mtv[c][priority], rate[c])

\* When the first and the last byte of the bundle leave over contact c, and the
\* last arrives.
Sent(first, c, b) ==
  LET last == first + b.evc \div rate[c]
  IN [first |-> first, last |-> last, arrives |-> last + c.owlt]

\* The same at each hop.
Journey(r, b) ==
  LET hop[k \in 1 .. Len(r)] ==
        IF k = 1 THEN Sent(Eto(r, b.priority), r[1], b)
        ELSE Sent(Later(hop[k - 1].arrives, r[k].start + QueueDelay(r[k], b.priority)), r[k], b)
  IN hop

\* The first end of a contact from hop k on.
FirstEnd(r, k) ==
  LET ends == {r[i].end : i \in k .. Len(r)} IN CHOOSE e \in ends : \A f \in ends : e <= f

\* The effective volume limit of hop k, SABR 3.2.6.8.9.
EffectiveDuration(r, k, first) == FirstEnd(r, k) - first

VolumeLimit(r, k, b, first) ==
  Earlier(EffectiveDuration(r, k, first) * rate[r[k]], mtv[r[k]][b.priority])

\* computeExpectedBundleDeliveryTime
Deliverable(r, b) ==
  LET hop == Journey(r, b)
  IN \A k \in DOMAIN r :
       /\ hop[k].last <= r[k].end
       /\ r[k].seen[1] <= hop[k].first /\ hop[k].first < r[k].seen[2]
       /\ mtv[r[k]][b.priority] > 0
       /\ EffectiveDuration(r, k, hop[k].first) > 0
       /\ VolumeLimit(r, k, b, hop[k].first) >= b.evc

Pbat(r, b) == Journey(r, b)[Len(r)].arrives

\* The conditions of checkRoute before the computation of the PBAT.
Checked(r, b) ==
  /\ arrival[r] <= b.expires
  /\ Neighbor(r) \notin b.excluded

Viable(r, b) == Checked(r, b) /\ Deliverable(r, b) /\ Pbat(r, b) <= b.expires

\* The arrival time without the bundle's own transmission.
ArrivalTime(r) ==
  LET a[k \in DOMAIN r] ==
        Later(IF k = 1 THEN now ELSE a[k - 1], r[k].start) + r[k].owlt
  IN a[Len(r)]

Owlts(r) == Total([k \in DOMAIN r |-> r[k].owlt], Len(r))

\* loopIdentified: NO_LOOP, POSSIBLE_LOOP, CLOSING_LOOP, FAILED_NEIGHBOR
Loop(r, b) ==
  LET passed == {k \in 1 .. Len(r) - 1 : r[k].to \in b.geo}
  IN IF Neighbor(r) \in b.failed THEN 4
     ELSE IF passed = {} THEN 1
     ELSE IF 1 \in passed THEN 3 ELSE 2

----------------------------------------------------------------------------
(* Phase three. *)

\* best_route_cost_function: what comes first decides.
Cost(r, b) ==
  <<Loop(r, b), Pbat(r, b), Len(r), -FirstEnd(r, 1), Owlts(r), Neighbor(r)>>

Cheaper(x, y) ==
  \E i \in 1 .. 6 : x[i] < y[i] /\ \A j \in 1 .. i - 1 : x[j] = y[j]

Best(S, b) == {r \in S : \A q \in S : ~Cheaper(Cost(q, b), Cost(r, b))}

\* Wrong: a critical bundle takes all the routes.
ChosenAll(S, b) == IF b.critical THEN {S} ELSE {{r} : r \in Best(S, b)}

\* chooseBestRoutes: one route, or for a critical bundle one for each
\* neighbor.  Which one of equals depends on the order of their computation.
Chosen(S, b) ==
  IF b.critical
  THEN {T \in SUBSET S :
          \A n \in {Neighbor(r) : r \in S} :
            \E r \in Best({q \in S : Neighbor(q) = n}, b) :
              {q \in T : Neighbor(q) = n} = {r}}
  ELSE {{r} : r \in Best(S, b)}

\* Wrong: the volume for higher priorities is booked.
BookedAbove(T, b) ==
  [c \in Contacts |->
     [p \in Priorities |->
        IF p >= b.priority THEN mtv[c][p] - b.evc * Cardinality({r \in T : c \in Hops(r)})
        ELSE mtv[c][p]]]

\* update_volumes
Booked(T, b) ==
  [c \in Contacts |->
     [p \in Priorities |->
        IF p <= b.priority THEN mtv[c][p] - b.evc * Cardinality({r \in T : c \in Hops(r)})
        ELSE mtv[c][p]]]

\* The queue of a neighbor is sent in the order of priority (external).
Enqueue(q, item) ==
  LET ahead == {k \in DOMAIN q : q[k].bundle.priority >= item.bundle.priority}
      n == Cardinality(ahead)
  IN SubSeq(q, 1, n) \o <<item>> \o SubSeq(q, n + 1, Len(q))

----------------------------------------------------------------------------

Init ==
  /\ now = 0
  /\ rate = [c \in Contacts |-> c.rate]
  /\ mtv = [c \in Contacts |-> [p \in Priorities |-> Volume(c)]]
  /\ \E R \in RouteSets : arrival = [r \in R |-> ArrivalTime(r)]
  /\ pending = Bundles
  /\ queue = [n \in Neighbors |-> <<>>]
  /\ shaken = {}

\* The arrivalTime of the routes the check of b went through.
Recomputed(b) ==
  [r \in Routes |-> IF Checked(r, b) /\ Deliverable(r, b) THEN ArrivalTime(r) ELSE arrival[r]]

\* getCandidateRoutes and chooseBestRoutes, some route being viable.
Forward(b) ==
  /\ b \in pending
  /\ \E r \in Routes : Viable(r, b)
  /\ \E T \in Chosen({r \in Routes : Viable(r, b)}, b) :
       /\ mtv' = Booked(T, b)
       /\ queue' = [n \in Neighbors |->
            IF \E r \in T : Neighbor(r) = n
            THEN LET r == CHOOSE r \in T : Neighbor(r) = n
                 IN Enqueue(queue[n], [bundle |-> b, left |-> b.evc,
                                       eto |-> Eto(r, b.priority), over |-> r[1]])
            ELSE queue[n]]
  /\ arrival' = Recomputed(b)
  /\ pending' = pending \ {b}
  /\ UNCHANGED <<now, rate, shaken>>

\* The same without a viable route.
NoRouteFor(b) ==
  /\ b \in pending
  /\ \A r \in Routes : ~Viable(r, b)
  /\ arrival' = Recomputed(b)
  /\ UNCHANGED <<now, rate, mtv, pending, queue, shaken>>

QueuedFor(n) == {queue[n][k].bundle : k \in DOMAIN queue[n]}

\* add_contact_to_graph of a contact that is there with another rate: what is
\* booked stays as it is.
ReviseRate(c, new) ==
  /\ c.end > now /\ new # rate[c]
  /\ rate' = [rate EXCEPT ![c] = new]
  /\ shaken' = shaken \cup {b \in Bundles : c.from = LocalNode /\ b \in QueuedFor(c.to)}
  /\ UNCHANGED <<now, mtv, arrival, pending, queue>>

\* What the neighbor's queue can send now, and what it sends of each bundle.
Capacity(n) ==
  SumOf([c \in {c \in ToNeighbor(n) : c.start <= now /\ now < c.end} |-> rate[c]])

Ahead(n, k) == Total([j \in DOMAIN queue[n] |-> queue[n][j].left], k - 1)

Sends(n, k) == Earlier(queue[n][k].left, Later(0, Capacity(n) - Ahead(n, k)))

Unexpired(r, t) == \A c \in Hops(r) : c.end > t

\* A unit of time passes: bytes are sent, contacts expire and take their routes
\* along (removeExpiredContacts, by the next call).
Tick ==
  /\ now < MaxNow
  /\ now' = now + 1
  /\ queue' = [n \in Neighbors |->
       LET after == [k \in DOMAIN queue[n] |-> [queue[n][k] EXCEPT !.left = @ - Sends(n, k)]]
       IN Only({after[k] : k \in {k \in DOMAIN after : after[k].left > 0}}, after)]
  /\ arrival' = [r \in {r \in Routes : Unexpired(r, now + 1)} |-> arrival[r]]
  /\ UNCHANGED <<rate, mtv, pending, shaken>>

Next ==
  \/ Tick
  \/ \E b \in Bundles : Forward(b) \/ NoRouteFor(b)
  \/ \E c \in Contacts, new \in NewRates : ReviseRate(c, new)

Spec == Init /\ [][Next]_vars

----------------------------------------------------------------------------
(* Properties. *)

\* What is queued for a neighbor has a route, each bundle once, and is not
\* complete; a route does not outlive the first contact of its own to end.
TypeOK ==
  /\ now \in 0 .. MaxNow
  /\ rate \in [Contacts -> Nat \ {0}]
  /\ mtv \in [Contacts -> [Priorities -> Int]]
  /\ \E R \in RouteSets : Routes \subseteq R
  /\ \A r \in Routes, c \in Contacts : c \in Hops(r) => now < c.end
  /\ pending \subseteq Bundles
  /\ DOMAIN queue = Neighbors
  /\ \A n \in Neighbors : \A k \in DOMAIN queue[n] :
       LET item == queue[n][k]
       IN /\ item.left \in 1 .. item.bundle.evc /\ item.bundle \notin pending
          /\ \A j \in DOMAIN queue[n] \ {k} : queue[n][j].bundle # item.bundle

VolumesOrdered == \A c \in Contacts : mtv[c][0] <= mtv[c][1] /\ mtv[c][1] <= mtv[c][2]

OverbookingBounded ==
  \A c \in Contacts :
    \/ mtv[c][2] >= 0
    \/ c.from # LocalNode /\ mtv[c][2] >= -((Cardinality(Neighbors) - 1) * MaxEvc)

\* update_volumes books a bundle for its priority and those below, so there is
\* never more left for bulk than for standard, or for standard than for
\* expedited traffic, whatever rates are revised in between.  And expedited
\* traffic never overbooks a contact of the local node.  A contact farther on it
\* can, since each of the routes of a critical bundle is checked as if it were
\* the only one, but only by the bundle for all neighbors but one.  The queues
\* are in shape (TypeOK).
BookingsBounded == TypeOK /\ VolumesOrdered /\ OverbookingBounded

\* An expedited bundle's first byte is sent by the earliest transmission
\* opportunity that computeExpectedBundleDeliveryTime took from the backlog, over
\* all the contacts the queue is sent in, unless one of them has been given
\* another rate since.  Only where another contact with the neighbor encloses the
\* first one of the route (add_contact_to_graph lets that in) it can be later, since
\* all that the outer contact has left is taken to relieve the backlog before the
\* inner one begins; but then the first byte leaves while the outer one lasts.
SentByEto ==
  [][\A n \in Neighbors : \A k \in DOMAIN queue[n] :
       LET item == queue[n][k]
       IN /\ now' > now /\ item.bundle.priority = 2 /\ item.bundle \notin shaken
          /\ item.left = item.bundle.evc /\ Sends(n, k) > 0
          => \/ now <= item.eto
             \/ \E d \in ToNeighbor(n) :
                  d.start < item.over.start /\ item.over.start < d.end /\ now < d.end]_vars

\* A viable route's delivery time never counts on a hop before the bundle is
\* there, nor, where the contact is not slower than when it was booked, before
\* the contact begins: the queue delay taken from the booked volume is then not
\* negative.
PromiseNotEarly ==
  \A b \in pending : \A r \in Routes : Viable(r, b) =>
    LET hop == Journey(r, b)
    IN \A k \in DOMAIN r :
         /\ rate[r[k]] >= r[k].rate => hop[k].first >= r[k].start
         /\ k > 1 => hop[k].first >= hop[k - 1].arrives
============================================================================
