# Verification of the DTN2 routing layer with Unibo-CGR

The repository is the routing directory of the DTN2 bundle protocol agent with
Unibo-CGR added to it: the routers in the top directory (C++), and under
`uniboCGR/` the Contact Graph Routing library (C) with its DTN2 interface. This
directory holds TLA+ models of its core, the TLC runs that check them and the
TLAPS proofs of what holds for every instance.

To repeat everything: `tlc -config X.cfg M` for each run of `PROJECT.json`,
`tlapm M.tla` for `DataLemmas` and the modules whose name ends in `_proofs`.

## 1. The system

A router is a handler of the events of the bundle daemon (bundle received,
transmitted, cancelled, contact up, contact down, ...), run one at a time in the
daemon's thread. It answers by queueing bundles on links. `UniboCGRBundleRouter`
is a copy of `TableBasedRouter` that asks the library for the next hop before it
looks a bundle up in the route table. The library holds a contact plan, searches
routes in it for a destination and keeps the routes from one call to the next.

    bundle daemon --events--> router --callUniboCGR--> getBestRoutes (cgr.c)
        ^   ^                  |  route table             |   removeExpired
        |   |                  v                          v
      links +---- queue <- deferred lists        phase 2 <-> phase 1 -> phase 3
        ^                      ^                     |          |
        +---- reroute timers --+                     contact plan, nodes, routes

| part (sources) | state | operations | interacts with | hard behaviour |
|---|---|---|---|---|
| contact plan (`contactPlan.c`, `contacts.c`, `ranges.c`, `nodes.c`) | trees of contacts and ranges, list of neighbors, three cached expiry times | add, revise, remove one or all, expire, reset, destroy, build the neighbors, look a range up | freed contacts delete the routes that cite them; the phases read it | boundary instants, nested intervals, caches that outlive what they were computed from |
| phases (`cgr.c`, `phase_one.c`, `phase_two.c`, `phase_three.c`) | per destination: selected and known routes, Yen marks, citing neighbors, sticky flags; per call: suppressed and excluded neighbors, counts, candidates | getBestRoutes, executeCGR, computeRoutes, getCandidateRoutes, chooseBestRoutes | plan, route objects, bundle record | two phases that feed each other until neither has more; state kept over calls while the plan expires |
| route objects (`routes.c`) | citations between routes and contacts, father and child routes, chain of selected routes | insert, move, delete, clear | freed contacts, Yen | deletion in the middle of structures that point at each other |
| forwarding (`UniboCGRBundleRouter.cc`, `TableBasedRouter.cc`, `BundleRouter.cc`) | deferred list of each link, reception cache, reroute timers; the forwarding logs, queues and pending list of the daemon | one handler per event, route_bundle, check_next_hop, reroute_all_bundles | daemon, links, timer thread | events that are handled after the world has changed, several links waiting for one bundle, timers against contacts |
| sessions (same files) | sessions, subscribers, sequence ids, resubscribe timers | subscribe, unsubscribe, add to session, resubscribe | forwarding, registrations | a timer that replaces itself |
| route table (`RouteTable.cc`, `RouteEntry.cc`) | entries | add, delete, match | routers | recursion through next hops |
| library life cycle and DTN2 interface (`cgr.c`, `interface_unibocgr_dtn2.cc`) | reference time, last time, edit times, excluded nodes | initialize, call, destroy, read the plan file | router, phases | times that go back, edits between calls |
| MSR (`msr.c`, `msr_utils.c`) | route proposals in bundles | tryMSR | contact plan, phase two | compiled out (`MSR` is 0) |
| DTLSR (`DTLSRRouter.cc`, `MultiGraph.tcc`) | graph, last LSA of each node and its sequence number, timers | LSA received, expired, sent; link up and down | forwarding | LSAs late, twice, out of order, reloaded after a restart |
| TCA (`TcaRouter.cc`, ...) | registrations, routes, links | register, change of address, ask, advertise | forwarding | answers that arrive after the node has moved |
| flood router (`FloodBundleRouter.cc`) | a route per link | bundle received, link created | forwarding | copies and their deletion |
| Prophet router (`ProphetRouter.cc`, ...) | lists that wrap bundles, nodes, links | adapter of daemon events | engine outside this repository | - |
| external router (`ExternalRouter.cc`) | outstanding hello, queue of messages | events to XML and back | process outside | I/O |
| link schedule estimator (`LinkScheduleEstimator.cc`) | - | statistics over contact logs | none | numeric |
| containers (`list.c`, `rbt.c`, `scalar.c`) | - | list, tree, 64-bit scalar | the library | users that delete while they iterate |

What would make each correct: the plan keeps exactly what has not expired and is
unambiguous to search; a call of the library searches all it may, answers with
nothing the caller excludes, and ends; routes never cite a contact that is gone;
the forwarding sends each bundle over one link at most, in order, and does not
leave it behind; link-state keeps the newest announcement and its views converge; a
session's bundles reach its subscribers.

`router.cc`/`router.h` (generated from `router.xsd`), object files, HTML and
`UniboCGRBundleRouterVECCHIO.*` (an old copy) are left aside.

## 2. The modules

### ContactPlan, with IntervalStore and ExpiringStore

`ContactPlan` has one action per operation of `contactPlan.c`, with everything
below it: `contacts` and `ranges` are the two trees, `neighbors` is
`local_node_neighbors`, the three `time...ToRemove` are the caches that decide
whether a sweep takes place, `neighbors_list_builded` and `initialized` are the
flags. `now` is the time of the last `removeExpired`. The rules the two trees
share, the scan of an insertion that gives up at the first overlap, the lookup
of a range, the sweep, are operators of `IntervalStore`. Sets stand for the
trees because a tree is always read in the order of its key. A contact or range
may start and end at once, as in the code, which refuses only an end before the
start (`contacts.c:864`, `ranges.c:447`): such an instant stops no longer entry of
its start, and two entries then share a key. `Precedes` is the order the tree has
them in (`rbt_insert` puts the younger one first), `Foremost` what a deletion by key
takes, `Swept` what a sweep leaves. Volumes (MTVs) and confidence are not among the
inputs.

`ExpiringStore` is the abstract specification: entries enter under a key of
their own or that of an instant, are revised without changing their interval, are
removed, and when the clock moves the expired entries go and no others, but for
what shares its key with an expired instant. It has no caches. `ContactPlan`
implements it twice, by contacts and by ranges.

### CgrCall

One destination and its calls of `executeCGR`. A route is `<<neighbor, k>>`, the
`k`-th path by cost that begins with that neighbor; `graph` is what the plan
offers. The variables are the destination's routing object (selected routes,
Yen's marks, the citations that say which neighbors reach it, the flags
ALREADY_COMPUTED, ROUTES_NOT_FOUND, NEIGHBORS_DISCOVERED) and the call's (the
caller's exclusions, the suppressed list, the counts, the candidates). The
actions are `StartCall`, `PhaseTwo`, `PhaseOne`, `EndCall`, and between calls
`EditPlan` and `Expire`. What a check says about a route (expired, too small, late,
...) depends on the bundle; it is a choice at each check, kept apart only where
the order of the tests matters: before or after the exclusion test. Costs
appear as the order of a neighbor's paths. Freed memory that the code still
points at (entries of the suppressed list whose numbers phase two frees) is a
choice between matching and not matching.

Phase one's branching (`Yen`) may find the next path of a neighbor or not: the code
may add nothing and close the route all the same, because the known routes cost
the maximum (`phase_one.c:1121`), the root path cannot be followed (`:1732`) or a
route that has children is not searched from the root (`:1844`). So `Yen` takes any
subset of the next paths; a route that was branched from before and reopened by an
expiry (`reopened`) gets no search of its own, and if all routes of the subset are
such, missing neighbors are searched for as at first (`NothingToBranch`). When the
search from the root fails, all neighbors are known.

`PhaseTwo` is one step, put together from what its loop decides: the routes that may
be branched from (`OpenRoutes`), the neighbors that are suppressed anew
(`NewlySuppressed`), when the phase stops (`StopsChecking`, `GivesUp`) and when it
asks phase one for more (`AsksForMore`).

A neighbor may expire before its contacts, as `ContactPlan` shows for plans with
nested contacts; `outlived` remembers that it happened since the last edit.

### BundleForwarding

Two parties: the handlers, run one at a time by `HandleEvent` from the daemon's
event queue, and the links, timers, operator and clock, which change links and
queues at any time and post events. So an event is handled in a state that may
have changed since. The handlers are `BundleReceived`, `BundleTransmitted`,
`BundleCancelled`, `ContactUp`, `ContactDown`, `LinkAvailable`,
`CustodyTimeout`, `CheckDeferred`, `AddRoute` and `DeleteRoute`; each calls
`RouteBundle`, `CheckNextHop` and `RemoveFromDeferred` where the code does,
`RerouteAll` included with its habit of calling `check_next_hop` for the first
bundle only. `RerouteTimeout` runs in the timer thread: its step is the whole
`reroute_bundles`, which holds the lock of the queue. `timers` and `scheduled`
are apart because the code's map entry outlives the firing of the timer.

The daemon, the links and the convergence layers are not in the repository;
`Transmit`, `LinkOpens`, `LinkGoesDown`, `Expire` and the others are modelled
from how the router uses them and marked external. All bundles have the same
matching routes: the answer of `callUniboCGR` is always empty in this version of
the interface, and in `TableBasedRouter`, whose code is otherwise the same, the
bundles of the model have one destination.

### PhaseOne

`cgr/phase_one.c` for one destination, with real searches: a contact has a start,
an end and a light time, and `Search` is Dijkstra's algorithm as the code has it,
over contacts, with the order of the contact tree and the ties of
`compare_dijkstra_edges`. `Spurs`, `SpurRoute` and `AnotherRoute` are Yen's
algorithm with Lawler's modification, the suppression of root path nodes and of
known routes, and the retry from the first hop. `selected` and `known` are the
two lists. That the loop of `update_cost_values` never advances its contact is in
`UpdateKnown`: a known route may get values by which it is out of use (`Discarded`), and
the same way is then found again. Actions: `FirstRoutes` and `MoreRoutes` (`computeRoutes`, with any set
of routes that phase two recommends) and `Tick`, in which contacts expire and
delete routes. `Paths` is the reference: all loop-free ways a bundle can take,
by enumeration. Contacts are certain (confidence 1).

### VolumeBooking

Phases two and three for one destination: `Residual` (what the queue of a
neighbor leaves of a contact), `Journey` and `Pbat` (when a bundle would arrive
over a route and how much of it gets through), `Viable` (the order of the tests),
`Chosen` (phase three) and `Booked` (the volume of every priority taken from every
contact). Actions: `Forward` and `NoRouteFor` for a bundle, `Tick`, in which
neighbors send what they can and contacts expire, and `ReviseRate`. The queues and
their transmission are the node's (external): they give what was promised a
meaning.

### RouteObjects

What the routes are made of, field by field: `heap` holds every route, list and
list element there is, under a name for its purpose, and an operation is the
composition of the pointer assignments the code makes. The list operations of
`list.c` call the delete function of the list, which its kind decides (`DeleteData`). `DeleteRoute`,
`UpdateReferences`, `FreeContact`, `RemoveCitation`, `FreeNeighbor` and the rest
are the functions of `routes.c`, `contacts.c` and `nodes.c`; loops read the next
element before or after the deletion as the code does, and reading or writing
what is not allocated allocates `Broken`. `OneRoute`, `NoMoreRoutes` and
`Branches` are phase one as far as it changes objects: which route is found is a
choice among `Ways` that `PhaseOne` narrows down. `GetBestRoutes` is the
beginning of a call (discard after an edit, expire, add the node);
`AddContact`, `RemoveContact`, `DestroyPlan` are the edits.

### RedBlackTree

`rbt.c` with its top-down insertion and deletion: `InsertFrom` and `DeleteFrom`
go down one level per step of the loop, with `RotateOnce` and `RotateTwice`, the
dummy root and the copying of the deleted data. `Sweep` is the users' loop that
deletes the node it stands on and goes on from the next one. It justifies the sets
in `ContactPlan`, as far as the keys in a tree are distinct; what two entries with
one key do is in `IntervalStore`. `MCRouteObjects` runs it beside the route objects.

### Sessions

One session at all routers of a tree towards its root. A router's record has the
upstream, the subscribers, the bundles kept, the session's sequence id and the
pending resubscribe timers. `RegisterSubscribe`, `RegisterPublish`,
`RegisterCustody`, `AddRoute`, `Receive`, `Expire` and `Timeout` are the handlers;
each calls `UpstreamFound`, `SubscriptionHandled`, `SubscriberAdded`, `Sifted` and
`Subscribed` where the code does. Links are up, keep their order and lose nothing
(what else can happen to them is BundleForwarding's matter), and a subscription
bundle is handled before the next event since it is posted at the head of the
queue. The text of the code is the same in `TableBasedRouter.cc` and
`UniboCGRBundleRouter.cc`. The timer thread is taken to run between handlers.

The loops over a session's bundles have closed forms: `Routed` logs and sends every
bundle to its `Targets`, `Sifted` keeps the bundles that the new one does not make
obsolete. `TreeAssumption` says that the routes towards the root have no cycle;
`SourceAssumption`, that a bundle counts for at least one source and that the
counters of a source are used at one router, as those of an endpoint are. Without
the second, an id in a subscription may count a bundle of another origin under the
same source, and the subscriber is never sent it: TLC then finds `SubscribersServed`
violated.

### LinkState, with RoutingGraph

`RoutingGraph` is the search of `MultiGraph.tcc` (white, gray and black nodes,
distances that wrap at their width) and `best_next_hop`, and beside them, as the
reference, `Distances`: least weights of paths, of which a node after the other is
allowed inside (Floyd and Warshall's way, which shares nothing with the search).
`LinkState` is a network
of DTLSR routers: each has its graph, the routes it computed, the last sequence
number and creation time it took of each source, the current announcements and
the two timers. Links weigh what they are configured to cost (the weight function
COST); under the default, ESTIMATED_DELAY, a down link has a finite weight that
grows with time, which is not modelled. Announcements flood over the links that are up and arrive in any
order. `ContactUp`, `ContactDown`, `RegistrationAdded`, `HandleLsa`,
`LsaExpired`, `DelayedLsaTimeout`, `PeriodicLsaTimeout` are the handlers,
`Restart` loses everything but the stored announcements and reloads them.

### Lists and DataLemmas

`Lists` says what `BundleForwarding`, `Sessions` and `VolumeBooking` need of a list: who is in it,
that none is in it twice, and the part of it that belongs to a set (`Only`, which
stands for `SelectSeq`: the prover does not know that one). `DataLemmas` has what the
proofs need of lists, naturals and definitions by recursion on a rank.

### How they fit

`CgrCall`'s `Expire` is the effect of `ContactPlan`'s `RemoveExpired` on one
destination, its `EditPlan` that of any edit; `BundleForwarding`'s `RouteBundle`
begins where a call ends. `PhaseOne` and `VolumeBooking` are what `CgrCall` takes
as choices; `RouteObjects` is the memory below `PhaseOne`, `CgrCall` and
`ContactPlan`, `RedBlackTree` that below `ContactPlan`. They share no variables:
the plan changes only between calls, which all run in one thread.

## 3. What the runs check

| run | instance | checks |
|---|---|---|
| `plan` | contacts of one pair, and ranges, each alone over four instants, two rates and light times; contacts and a registration with a range, or with the neighbors, over three | `TypeOK`, `KeysAlmostUnique`, `PlanNestedOrDisjoint`, `ExpiryCachesSound`, `ExpiryExact`, `LookupFindsRange`, refinement of the store by contacts and by ranges |
| `cgr_call` | two neighbors with three and two paths, MAX_DIJKSTRA_ROUTES 1, paths and neighbors that expire, contacts that outlive their neighbor | `TypeOK`, `FlagsStayTrue`, `SearchComplete`, `OneOpenRoutePerNeighbor`, `ChainsCloseInVain`, `CallEnds` |
| `phase_one` | eleven plans of up to nine contacts between four nodes, expiry at three instants | `RoutesAreWays`, `SelectedInOrder`, `YenExhausts` |
| `route_objects` | three ways over one neighbor and one over another, a second destination; expiry, one edit; beside them the tree with eight keys, any order of operations | `HeapSound`, `ReferencesMutual`, `ForgetsExactly`, `TreeBalanced`, `TreeActsAsSortedSet` |
| `volumes` | seven contacts, one enclosed by another, six routes, four bundles, rates that sink | `BookingsBounded`, `PromiseNotEarly`, `SentByEto` |
| `forwarding` | two bundles, one in custody, two links; failures, expiry, a lost link, a discovered link, route edits | `TypeOK`, `QueuedIsOnItsWay`, `NoOvertaking`, `OneCopy`, `TransmittedNotDeferred` |
| `fwd_live` | two bundles, one of two links lost twice | `RoutedIsTransmitted`, `DownLinkIsDrained` |
| `sessions` | a line of three routers, three bundles, two subscriptions at the far end, a custodian that appears | `NoObsolete`, `SubscribersServed`, `SubscriptionKept` |
| `link_state` | a triangle of which a link flaps; three routers that start cold and keep no link that is down, one restarts | `TypeOK`, `RoutesShortest`, `MostRecentHeld`, `MCViewsConverge` |

Distinct states: `plan` 79,924, `cgr_call` 182,733, `phase_one` 61,907,
`route_objects` 38,181, `volumes` 121,294, `link_state` 24,529.

Three more runs end in a counterexample.

- `stale_cost`: `update_cost_values` walks the hops of a route but reads the first
  contact each time (`phase_one.c:1000`), against its own comment; a route found
  earlier is then compared under values that are not its own.
- `plan_sweep`: a sweep meets an expired contact but deletes by its key, and takes
  the first entry of that key (`contacts.c:184`). With a contact of length zero and
  a longer one of the same start the one in force goes and the expired one stays.
  `ExpiryExact` and the store say what holds beyond that.
- `cgr_excluded`: phase two removes entries from the caller's exclusion list instead
  of the suppressed list (`phase_two.c:1019`), and a route through an excluded
  neighbor that is computed afterwards is answered. It may also count a neighbor it
  may not use, so `SearchComplete` is about calls in which the list has not been
  edited.

What the same models show besides, without a run of its own:

- A contact that encloses one already in the plan is inserted, since only its ends
  are compared (`contacts.c:955`). `PlanNestedOrDisjoint` says what does hold.
- A registration is stored under the largest time and searched under 0, so it cannot
  be removed (`contacts.c:1143`).
- At the instant where one range ends and the next begins no range is found
  (`ranges.c:1097`); `LookupFindsRange` says exactly when the lookup fails.
- The residual backlog counts all that an earlier contact with the neighbor can send,
  also what it sends after the route's own contact has begun (`phase_two.c:350`). With one contact inside
  another a bundle may then be sent after its earliest transmission opportunity;
  `SentByEto` bounds how much later, and TLC finds it violated without that clause.
- DTLSR takes an announcement unless both its number and its time are older
  (`DTLSRRouter.cc:654-655`), times in whole seconds, while its log says that the time
  is not newer (`:657-660`). Of two announcements of one second the older one
  replaces the newer when it comes second; TLC finds `TakesNoOlder` violated without
  its clause on equal times. A source that restarts counts from the beginning, and
  one of its announcements from before that comes late is taken for its high number.
- DTLSR adds costs in 32 bits (`MultiGraph.tcc:270`). Where they do not fit, a sum wraps and
  TLC finds `RoutesShortest` violated.
- With nested contacts a neighbor takes the end of the contact that starts last
  (`nodes.c:1382`), may expire before its other contacts, and a call that meets a
  route through it fails as a whole (`CgrCall`'s `error`). Where a contact has outlived
  its neighbor the counts of phase two are wrong: TLC finds `FlagsStayTrue` and
  `SearchComplete` violated without their `~outlived`.
- A chain of selected routes may be closed although the neighbor offers more paths
  (see `Yen` above); these are then out of reach until the plan is edited.
  `ChainsCloseInVain` says that nothing but a search that found nothing does this.
- A bundle cancelled on a dead link and deferred earlier on another one is skipped by
  `route_bundle` and with it the only call of `check_next_hop`; it waits on an open,
  idle link (`UniboCGRBundleRouter.cc:884`). `RoutedIsTransmitted` has as its premise
  that the links open again and again, which ends the wait.
- A failed transmission routes a bundle that has expired meanwhile
  (`UniboCGRBundleRouter.cc:369`), which the handler of cancellations avoids.
- A publish registration, and a route that appears, set a session's upstream without
  sending a subscription; a subscription that comes later is suppressed because the
  upstream is known, and the upstream is never told (`TableBasedRouter.cc:1161`).
  `SubscriptionKept` is about the routers to which this has not happened
  (`untold` remembers). The resubscribe timer forgets its successor, so timers
  multiply with the registrations (`TableBasedRouter.cc:1219`).
- `rbt_insert` returns the root of the tree and not the new node (against
  `rbt.c:623`; its callers only compare with NULL), and `rbt_clear` leaves the length
  as it was.

Read, but in no model: `discardRoute` (`nodes.c:300`) frees a route without its
children although their delete function would write to it; its only caller is
commented out in `cgr.c`.

Each property of a passing run has a mutant, a plausible slip in the code
(`Wrong:` in the modules) under which TLC finds the property violated.

### Bounds

- `plan`, `plan_sweep`: a plan of one node pair is decided by the order of the end
  points of two or three intervals; four instants give equal, touching, nested,
  enclosing and crossing intervals, a gap, and entries of length zero at each place
  of these. The constraint `FinePartOrCoarsePlan` lets contacts
  or ranges use all four, each alone; contacts with a range, and contacts with the
  neighbors, use three instants, and all have at most three entries at a time. (Ranges
  and neighbors share nothing but the operations that sweep both.) Two payloads make revisions visible. `MaxTime`
  stands for MAX_POSIX_TIME. Two pairs suffice for the neighbors, since an entry
  only meets entries of its own pair.
- `cgr_call`, `cgr_excluded`: of two neighbors one can be found and the other
  suppressed, missing or excluded; one has three paths, for a route deleted between
  two others of a chain, the other two (one in `cgr_excluded`), so that the neighbors run out of
  routes in different calls. All properties of `cgr_call` were also checked once with
  three neighbors (three, one and one paths without a limit, two, one and one with a limit
  of one: 914,746 and 391,444 states), which takes too long to repeat with each run;
  the proofs are for all.
- `phase_one`: nine contacts, and each plan that lacks one of them, on four nodes:
  a neighbor with two contacts, one that opens late, cycles between the neighbors
  and back to the local node. In the eleventh plan, `LongWay`, the light time of a
  first contact is longer than the contact, and the retry from the root finds a known way
  again. `MaxNow` 3 lets two contacts expire, `Wanted` lets
  phase two miss one or two neighbors.
- `route_objects`: three ways over one neighbor give a father with two children
  and a chain of three; the way over the other neighbor and the second destination
  give citations of both kinds. `MaxExpired` 1 contact at a time, `MaxSpurs` 2
  spurs in a run of `compute_all_spurs`, `MaxEdits` 1 edit, and the constraint
  `FewRoutes`: three routes at once, one when there are two destinations.
  The tree beside it has eight keys, which make four levels, in which insertion and deletion
  take each of their rotations.
- `volumes`: seven contacts, two to one neighbor one after the other, two to the other
  one inside the other, and one shared by routes over both; bundles of each class that the tests of phase two tell apart
  (critical, of low priority, in the loop of a neighbor, past a node it has seen);
  `MaxEvc` 3 is the volume of the largest of them.
- `forwarding`, `fwd_live`: two links compete for a bundle, two bundles have an
  order; `MaxDowns` for each link, `MaxChanges` and `MaxEvents` (how many events are
  outstanding when the environment still adds one) bound what is otherwise
  unlimited. The route table offers all links at first, or one (`FirstTables`), so
  that one edit may add a route or delete one. Queue marks 1 and 2 make low and
  high different.
- `sessions`: three routers, so that one passes on what it subscribes to;
  `MaxRegistrations` 2 at the far end, since the second meets the upstream of the
  first, and one firing of a resubscribe timer at each router (`MaxFirings`).
- `link_state`: in the triangle a change reaches the third router by another way
  than the traffic; `MaxChanges` lets one contact go, come and go. In the other scenario,
  three routers begin with no contact, one gains and loses a contact and announces itself
  once more for its timer, perhaps in the same second, one restarts, the third is idle. The largest cost times the four nodes is below
  `MaxDistance` (`CostsFit`). The clock stops at `MaxTime` unless an LSA is due.

No run uses symmetry. CHECK_DEADLOCK is FALSE where the bounds end a behavior: the clock, the
edits or the events run out, and a forwarding node or a session is at rest when
all is delivered.

### Fairness

`CgrCall`: weak fairness of the call's own steps; `getBestRoutes` is a function
that waits for nothing. `BundleForwarding`: weak fairness of `TakeEvent` (the
daemon's thread takes events while there are any; only `HandleEvent` takes one, so
this is the fairness of `HandleEvent`, and cheaper to check), of `Transmit` (an open link
sends what it has) and of `RerouteTimeout` (a scheduled timer fires);
`RoutedIsTransmitted` has a condition on the network as its premise, that each
link is open again and again, and its run has no failing transmissions.
`LinkState`: weak fairness of `Progress`, that is, while time can pass, an
announcement be flooded or handled, or a delayed one be due, one of these happens;
the contacts owe nothing. `ViewsConverge` is checked where the contacts come to
rest. The other modules have no liveness properties and need none.

## 4. What is proved

The proofs assume of the constants what the modules' ASSUMEs say, and are for all
nodes, times, payloads, paths, bundles, links and limits. TLC evaluates the ASSUMEs
in the runs. All of the inductive invariants are stronger than the properties they
are for; what each adds is the point of the proof.

- `ContactPlan_proofs`: `TypeCorrect` and `CachesCorrect`. The cached expiries
  are an inductive invariant with the types: insertions lower the cache, sweeps
  recompute it as the minimum, every other operation shrinks the set, and a cache
  below every end stays below every end of a subset.
- In the same module, about the trees as stores: `LookupCorrect` needs only that the scan looks at
  the earliest entry that has not ended. `ExpiryIsExact` uses `CachesCorrect`: a
  sweep that the cache suppresses would have removed nothing. `KeysCorrect` and
  `NestingCorrect` rest on a strengthening, `SeparateEntries`: entries of a pair
  have different starts unless one of the two is an instant, and each either ends
  before the other begins or lies strictly inside it. Neither of the two stated invariants is inductive alone,
  since the scan stops early: that it has seen every entry it could collide with
  needs both. `ContactsRefineStore` and `RangesRefineStore` map each step to a step
  of the abstract store or a stutter, using `KeysCorrect` for insertions and
  revisions and `ExpiryIsExact` for sweeps.
- `CgrCall_proofs`: `TypeCorrect`; `OneOpenRouteCorrect` and `ChainsCorrect` from
  `Chains`: the selected routes of a neighbor are its cheapest paths and all but the
  last are closed. A round of phase one extends a chain at its open end or closes
  it in vain (`RoundClosesInVain`), and an expiry, which cuts routes out of the middle, opens it
  again where the code does (`ExpireKeepsOpen`). `SubsetIsOpen` says that what phase two
  hands over has not been branched from in the meantime.
- In the same module, about the answers: `FlagsCorrect` and `SearchIsComplete`, for
  every plan. A neighbor that expires before its contacts takes itself out of what
  the flags are about; `NeighborsLast`, under `~outlived`, is what they rest on, and
  `RoundDeclares` that a round which finds nothing new says so truly.
  `SearchIsComplete` is the larger: `Counts` says
  that the suppressed neighbors, of which phase two only compares the number, are
  served and among those that may reach the destination, and that the open end of every
  chain is handed to phase one or its neighbor is served; the proof then follows the
  steps in which a call can end.
- `RoutingGraph_proofs`: `BestNextHopIsShortest`, about the search itself, in every
  finite graph. Neither distances nor searches are treated by induction over paths.
  Of `Distances` two facts are proved and only those are used: they obey the triangle
  inequality and are no greater than the edges (`DistancesAre`), and any other
  function with `f[e.dest] <= f[e.source] + e.weight` also has `f[v] <= f[u]` plus the
  distance from `u` to `v` (`Potential`). The
  invariant of the search (`SearchInv`) is Dijkstra's: every node reached has a last
  edge that starts at a black node and explains its distance (`WaysKnown`), every edge
  from a black node has been used (`EdgesUsed`), no gray node is nearer than a black one
  (`NearestFirst`), no distance is too small (`NoneTooNear`), and the last edges lead back
  to the source (`Ordered`: there is a rank that falls along them). `DistancesFit` bounds
  a distance by the number of black nodes times the dearest edge, which is why no sum
  wraps. At the end the distances, none counted for more than the destination's, are
  such an `f`: so the destination's is not too large either. That the
  recursive functions of the search and of the walk back are what they say
  (`SearchIsDefined`, `FirstIsDefined`) rests on `Descent`: the black nodes grow with
  each step, the rank falls.
- `LinkState_proofs`: `MostRecentCorrect`, from `LsaInv`. An announcement is taken if
  its number or its time is newer, so the two have to agree for all announcements of
  a source, those under way included (`NumbersAreInOrder`, up to the second), and a source that did
  not restart is ahead of everything that is around of it (`SourceIsAhead`).
- In the same module `TypeCorrect` and `RoutesCorrect`, from `RouterInv`, under the
  assumption `CostsFit`: some bound on the costs, times the number of nodes, is below the
  largest distance. The code does not check it, with larger costs TLC finds
  `RoutesShortest` violated, and `MCLinkState` has TLC evaluate it for the run. `RightRoutes` relates a
  router's routes to its graph. It follows from `BestNextHopIsShortest` where
  `recompute_routes` is called; that the first edge is a link, and not the edge to a
  registration, is because registrations have no edges of their own (`FromSink`). It
  also has to survive two changes after which the code computes nothing: a lost link
  is removed after the routes were computed with it as down, and a registration adds an
  edge. `StillRight` shows that neither alters a distance that matters (`MoreEdges`).
  What an announcement says of a link is up or down (`LinksListed`), without which
  the graph would not stay well typed.
- `BundleForwarding_proofs`: `TypeCorrect`, `OneCopyCorrect`, `QueuedCorrect` and
  `TransmittedCorrect` from `ForwardInv`: the forwarding log agrees with the queues
  and with the outstanding events, each of which is there once, and queues and
  deferred lists hold a bundle once. What the decisions of the router do is stated of
  the record they work on (`Good`, `Grows`) and carries over from `CheckNextHop` to
  the loops around it. `OrderCorrect` is the action property: what a step queues from
  a deferred list, it queues in the order of that list (`Orderly`).
- `Sessions_proofs`: `SessionsCorrect` is the inductive invariant. `Flow` says of
  each router that its ids count only what was received at or below it, and that what it
  sends and keeps is known to it; `Control`, which of upstream, timer, waiting list and
  subscribers go together; `Link`, that what is under way was sent so; `Told`, that
  an upstream knows of its subscriber or will. `Inward` and `Outward` are about
  subtrees: a bundle enters and leaves a subtree through its top. From these,
  `ServedCorrect` (`SubscriptionHarmless`): where the id of a subscription
  suppresses a bundle, the subscriber's subtree has, by `SourceAssumption`, some bundle
  of the same origin. If the origin is in the subtree, the suppressed bundle left it
  through the subscriber; if not, the subscriber must have been one before and been
  sent the bundle then. `ObsoleteCorrect` and
  `SubscriptionCorrect` follow from `Flow`, `Timers` and `Told`.
- `VolumeBooking_proofs`: `BookingsCorrect` and `PromiseCorrect`, from `VolumeInv`, and the
  action property `EtoCorrect`. Phase
  three takes one route at most over a neighbor (`ChosenRoutes`), so a contact of the local
  node is booked once for a bundle and any other at most once for each neighbor
  (`BookedTimes`); phase two has found enough volume for one of these bookings
  (`ViableHasVolume`), so what is overbooked are the others. `PromiseCorrect` needs that no
  contact has more left than its volume (`WithinVolume`): the queue delay is then not
  negative at a contact that is not slower than it was. `EtoCorrect` is from `EtoInv`: queues are in
  the order of priority, and what is ahead of an expedited bundle that is not sent in
  part is less than what the contacts with its neighbor send from now to the end of
  its transmission opportunity (`Promised`). A unit of time takes the capacity off both
  sides (`SendingLefts`, `CapacityServed`); a new bundle is put after exactly the backlog
  phase two counted (`BacklogAhead`), and that is relieved in time (`ReliefServed`,
  `PromiseKept`): a viable route's first contact has not ended by then, and an earlier
  contact that lasts longer encloses it, so that what the earlier ones can send is sent
  by the end of the last of them (`LastEnd`); hence the clause about an enclosing
  contact. `Promised` is about bundles that are not in `shaken`, those that were queued
  when a rate of their neighbor was revised; new rates bind only who comes
  after. Sums over contacts in any order (`ListedSame`, `SumOfPart`) take the place of an
  induction over time.
- `DataLemmas`: lists (what is in, before, and without duplicates in an append, a
  tail, a concatenation and `Only`), least and greatest of a set of naturals,
  induction up to a bound and the existence of functions defined by recursion on it
  (`UpTo`, `Recursion`), both also along a rank (`Ascent`, `Descent`), since the induction theorems of the library cannot be
  instantiated.

Only model-checked, and why:

- liveness (`CallEnds`, `RoutedIsTransmitted`, `DownLinkIsDrained`,
  `MCViewsConverge`): fairness and ENABLED are outside the prover's reach;
- `PhaseOne`, `RouteObjects`, `RedBlackTree`: what their recursive searches, walks and
  rotations compute is induction over data, in RECURSIVE operators, for which the
  prover has no SMT backend.

## 5. Not modelled, and the plan

| step | modules | state |
|---|---|---|
| 1 | `ContactPlan`, `IntervalStore`, `ExpiringStore` | modelled; all properties proved |
| 2 | `CgrCall` | modelled; all safety properties proved |
| 3 | `BundleForwarding` | modelled; all safety properties proved |
| 4 | `RouteObjects`, `RedBlackTree` | modelled |
| 5 | `PhaseOne`, `VolumeBooking` | modelled; all properties of `VolumeBooking` proved |
| 6 | `Sessions`, `LinkState` | modelled; all safety properties proved |

What is left out, and why:

- Library life cycle and DTN2 interface: the interface is unfinished at this
  commit, its update of the contact plan always reports an error and the library is
  never entered (`interface_unibocgr_dtn2.cc:904`). What the library does when it
  is called, edited and destroyed is in `ContactPlan` and `RouteObjects`.
- MSR: compiled out. The ION interface: not built here.
- TCA: the router turns events into control bundles and back; registrations and
  answers are decided by an application outside the repository.
- Flood router: a route for every link that is created; what follows is the
  forwarding that `BundleForwarding` has for any route table.
- Prophet: the engine is outside the repository. External router: XML, and a
  process outside. Link schedule estimator: used by no router.
- Generated code (`router.cc`, `router.h`, about half of all lines), logging, dumps,
  two-word integers, confidence of contacts, memory exhaustion, sorting and
  searching of lists.
