-------------------------- MODULE BundleForwarding --------------------------
(***************************************************************************)
(* The forwarding half of UniboCGRBundleRouter.cc (which, but for the      *)
(* route lookup, is TableBasedRouter.cc): a bundle that is to be routed is *)
(* put on the deferred list of every matching link, and an open link with  *)
(* room in its queue takes bundles from its deferred list in order.  The   *)
(* forwarding log keeps a bundle from going out twice; a reroute timer     *)
(* cancels what stays queued on a link that is down.                       *)
(*                                                                         *)
(* Handlers run one at a time in the bundle daemon's thread, fed by its    *)
(* event queue; links change state, finish transmissions and let timers    *)
(* fire at any time, so an event may find the system changed since it was  *)
(* posted.  The daemon, the links and the convergence layers are external  *)
(* and modelled from how the router uses them.  The lookup offers the same *)
(* links to all bundles: callUniboCGR leaves its answer empty              *)
(* (interface_unibocgr_dtn2.cc), and in TableBasedRouter they would have   *)
(* one destination.  Destinations are singletons, all routes have the      *)
(* action FORWARD.  Sessions, suppression, duplicates of a bundle and      *)
(* links created or deleted on the way are left out, and the route of a    *)
(* link to its own remote node, which is created with the link.            *)
(***************************************************************************)
EXTENDS Integers, Lists, FiniteSets

CONSTANTS
  Bundle, Link, Node,
  LinkOrder,  \* the links in the priority order of their routes
  Remote,     \* the node at the other end of each link
  QueueLow,   \* a link takes bundles only below this queue length
  QueueHigh,  \* and up to this one
  Custody,    \* bundles in local custody, kept after transmission
  FirstTables, \* what the lookup in the route table may offer at first
  Sources,    \* where bundles come from: nodes, or NoNode for this one
  Opportunistic, \* links that are discovered
  MaxDowns,   \* how often each link goes down (bound)
  MaxEvents,  \* events outstanding when a new bundle, expiry, custody timeout,
              \* discovery or loss of a link still adds one (bound)
  CanFail,    \* may a transmission fail?
  CanExpire,  \* may a bundle expire?
  MaxChanges  \* how often the operator edits the routes (bound)

NoNode == "no node"

ASSUME BundleForwardingAssumption ==
  /\ Remote \in [Link -> Node] /\ NoNode \notin Node
  /\ LinkOrder \in Seq(Link) /\ FirstTables \subseteq SUBSET Link
  /\ Sources \subseteq Node \cup {NoNode} /\ Opportunistic \subseteq Link
  /\ QueueLow \in Nat \ {0} /\ QueueHigh \in Nat /\ QueueLow <= QueueHigh
  /\ Custody \subseteq Bundle
  /\ MaxDowns \in [Link -> Nat] /\ {MaxChanges, MaxEvents} \subseteq Nat
  /\ {CanFail, CanExpire} \subseteq BOOLEAN

VARIABLES
  linkState,  \* unavailable, available, opening or open
  queue,      \* the link's transmit queue
  deferred,   \* the link's DeferredList
  fwdlog,     \* latest entry of each bundle's forwarding log, per link
  pending,    \* pending bundles, in order of arrival
  expired,    \* bundles that have expired
  reception,  \* reception_cache_: the node a bundle came from
  routes,     \* links that the lookup in the route table offers
  timers,     \* reroute_timers_: the links with an entry
  scheduled,  \* the links whose reroute timer is still to fire
  events,     \* the daemon's event queue
  arrived, downs, changes

vars == <<linkState, queue, deferred, fwdlog, pending, expired, reception, routes,
          timers, scheduled, events, arrived, downs, changes>>

LogState == {"NONE", "QUEUED", "TRANSMITTED", "TRANSMIT_FAILED", "CANCELLED", "CUSTODY_TIMEOUT"}

Without(b, s) == Only(Bundle \ {b}, s)

TypeOK ==
  /\ linkState \in [Link -> {"unavailable", "available", "opening", "open"}]
  /\ queue \in [Link -> Seq(Bundle)] /\ deferred \in [Link -> Seq(Bundle)]
  /\ \A l \in Link : Len(queue[l]) <= QueueHigh /\ NoDuplicates(queue[l] \o deferred[l])
  /\ fwdlog \in [Bundle -> [Link -> LogState]]
  /\ pending \in Seq(Bundle) /\ NoDuplicates(pending)
  /\ expired \subseteq arrived /\ arrived \subseteq Bundle
  /\ reception \in [Bundle -> Node \cup {NoNode}]
  /\ routes \subseteq Link
  /\ scheduled \subseteq timers /\ timers \subseteq Link

Init ==
  /\ linkState \in [Link -> {"unavailable", "open"}]
  /\ queue = [l \in Link |-> <<>>] /\ deferred = [l \in Link |-> <<>>]
  /\ fwdlog = [b \in Bundle |-> [l \in Link |-> "NONE"]]
  /\ pending = <<>> /\ expired = {} /\ arrived = {}
  /\ reception = [b \in Bundle |-> NoNode]
  /\ routes \in FirstTables
  /\ timers = {} /\ scheduled = {}
  /\ events = <<>>
  /\ downs = [l \in Link |-> 0] /\ changes = 0

----------------------------------------------------------------------------
(* The decisions of the router, on a record of the state they change:      *)
(* the links, their queues, the deferred lists and the forwarding log.     *)

Now == [link |-> linkState, queue |-> queue, deferred |-> deferred, log |-> fwdlog]

Become(s) ==
  linkState' = s.link /\ queue' = s.queue /\ deferred' = s.deferred /\ fwdlog' = s.log

Sent(s, b, l) == s.log[b][l] \in {"QUEUED", "TRANSMITTED"}

\* Wrong: the log is consulted for the link and its remote node only.
ShouldForwardThere(s, b, l) == \A k \in Link : Sent(s, b, k) => Remote[k] # Remote[l]

\* BundleRouter::should_fwd: not sent nor queued on this link, to its remote
\* node or, the destination being a singleton, on any other link.
ShouldForward(s, b, l) == \A k \in Link : ~Sent(s, b, k)

\* UniboCGRBundleRouter::should_fwd: nor back to the node it came from.
ShouldRoute(s, b, l) == ShouldForward(s, b, l) /\ reception[b] # Remote[l]

Open(s, l) == IF s.link[l] = "available" THEN [s EXCEPT !.link[l] = "opening"] ELSE s

Smallest(m, n) == IF m < n THEN m ELSE n

\* The bundles in moved leave the deferred list of l for its queue.
Move(s, l, moved) ==
  [s EXCEPT
     !.deferred[l] = Only({b \in Bundle : ~In(b, moved)}, @),
     !.queue[l] = @ \o moved,
     !.log = [b \in Bundle |->
                IF In(b, moved) THEN [s.log[b] EXCEPT ![l] = "QUEUED"] ELSE s.log[b]]]

\* The first of them, up to the high mark of the queue.
UpToHigh(q, willing) ==
  SubSeq(willing, 1, Smallest(QueueHigh - Len(q), Len(willing)))

\* An open link with room takes bundles in order; those that must not be sent
\* now are stepped over and stay.
CheckNextHop(s, l) ==
  IF s.link[l] # "open" \/ Len(s.queue[l]) >= QueueLow THEN s
  ELSE Move(s, l, UpToHigh(s.queue[l],
                    Only({b \in Bundle : ShouldForward(s, b, l)}, s.deferred[l])))

ForwardToNextHop(s, b, l) == [Open(s, l) EXCEPT !.deferred[l] = Append(@, b)]

\* Wrong: a link that is already deferring the bundle defers it again.
TryRouteAgain(s, b, l, skip) ==
  IF ~ShouldRoute(s, b, l) THEN s
  ELSE IF skip THEN ForwardToNextHop(s, b, l)
  ELSE CheckNextHop(ForwardToNextHop(s, b, l), l)

\* Wrong: an open link with room takes the new bundle at once.
TryRouteLeaping(s, b, l, skip) ==
  IF ~ShouldRoute(s, b, l) \/ In(b, s.deferred[l]) THEN s
  ELSE IF ~skip /\ s.link[l] = "open" /\ Len(s.queue[l]) < QueueLow
  THEN CheckNextHop([s EXCEPT !.queue[l] = Append(@, b), !.log[b][l] = "QUEUED"], l)
  ELSE ForwardToNextHop(s, b, l)

\* One match of route_bundle.
TryRoute(s, b, l, skip) ==
  IF ~ShouldRoute(s, b, l) \/ In(b, s.deferred[l]) THEN s
  ELSE IF skip THEN ForwardToNextHop(s, b, l)
  ELSE CheckNextHop(ForwardToNextHop(s, b, l), l)

RouteBundle(s, b, table, skip) ==
  LET matches == Only(table, LinkOrder)
      tried[i \in 0 .. Len(matches)] ==
        IF i = 0 THEN s ELSE TryRoute(tried[i - 1], b, matches[i], skip)
  IN tried[Len(matches)]

\* Only the first pending bundle has check_next_hop called for its links.
RerouteAll(s, table) ==
  LET rerouted[i \in 0 .. Len(pending)] ==
        IF i = 0 THEN s ELSE RouteBundle(rerouted[i - 1], pending[i], table, i > 1)
  IN rerouted[Len(pending)]

\* Wrong: only the link of the transmission forgets the bundle.
RemovedHere(s, b, links) ==
  [s EXCEPT !.deferred = [l \in Link |->
     IF s.log[b][l] = "TRANSMITTED" THEN Without(b, @[l]) ELSE @[l]]]

RemoveFromDeferred(s, b, links) ==
  [s EXCEPT !.deferred = [l \in Link |-> IF l \in links THEN Without(b, @[l]) ELSE @[l]]]

Logged(s, b, l, state) == [s EXCEPT !.log[b][l] = state]

----------------------------------------------------------------------------
(* Handlers, one per event. *)

BundleReceived(e) ==
  /\ pending' = Append(pending, e.bundle)
  /\ Become(RouteBundle(Now, e.bundle, routes, FALSE))
  /\ UNCHANGED <<expired, reception, timers, scheduled>>

\* can_delete_bundle: transmitted and not in custody.
CanDelete(s, b) == b \notin Custody /\ \E l \in Link : s.log[b][l] = "TRANSMITTED"

\* The daemon notes the outcome in the log before the router sees it, and
\* deletes the bundle after it if it may.
BundleTransmitted(e) ==
  LET logged  == Logged(Now, e.bundle, e.link,
                        IF e.success THEN "TRANSMITTED" ELSE "TRANSMIT_FAILED")
      handled == IF e.success THEN RemoveFromDeferred(logged, e.bundle, Link)
                 ELSE RouteBundle(logged, e.bundle, routes, FALSE)
      after   == CheckNextHop(handled, e.link)
  IN /\ Become(after)
     /\ pending' = IF CanDelete(after, e.bundle) THEN Without(e.bundle, pending) ELSE pending
     /\ UNCHANGED <<expired, reception, timers, scheduled>>

\* Wrong: the test for expiry is inverted.
BundleCancelledInverted(e) ==
  /\ Become(IF e.bundle \in expired THEN RouteBundle(Now, e.bundle, routes, FALSE) ELSE Now)
  /\ UNCHANGED <<pending, expired, reception, timers, scheduled>>

BundleCancelled(e) ==
  /\ Become(IF e.bundle \in expired THEN Now ELSE RouteBundle(Now, e.bundle, routes, FALSE))
  /\ UNCHANGED <<pending, expired, reception, timers, scheduled>>

\* Wrong: the timer's entry survives the contact.
ContactUpKeepingTimer(e) ==
  /\ Become(CheckNextHop(Now, e.link))
  /\ scheduled' = scheduled \ {e.link}
  /\ UNCHANGED <<pending, expired, reception, timers>>

ContactUp(e) ==
  /\ Become(CheckNextHop(Now, e.link))
  /\ timers' = timers \ {e.link}
  /\ scheduled' = scheduled \ {e.link}
  /\ UNCHANGED <<pending, expired, reception>>

ContactDown(e) ==
  /\ IF queue[e.link] # <<>> /\ e.link \notin timers
     THEN timers' = timers \cup {e.link} /\ scheduled' = scheduled \cup {e.link}
     ELSE UNCHANGED <<timers, scheduled>>
  /\ UNCHANGED <<linkState, queue, deferred, fwdlog, pending, expired, reception>>

\* A discovered link is opened; check_next_hop finds it not open yet.
LinkAvailable(e) ==
  /\ Become(CheckNextHop(Open(Now, e.link), e.link))
  /\ UNCHANGED <<pending, expired, reception, timers, scheduled>>

CustodyTimeout(e) ==
  /\ LET logged == Logged(Now, e.bundle, e.link, "CUSTODY_TIMEOUT") IN
     Become(IF In(e.bundle, pending) THEN RouteBundle(logged, e.bundle, routes, FALSE)
            ELSE logged)
  /\ UNCHANGED <<pending, expired, reception, timers, scheduled>>

Handler(e) ==
  \/ e.type = "received" /\ BundleReceived(e)
  \/ e.type = "transmitted" /\ BundleTransmitted(e)
  \/ e.type = "cancelled" /\ BundleCancelled(e)
  \/ e.type = "up" /\ ContactUp(e)
  \/ e.type = "down" /\ ContactDown(e)
  \/ e.type = "available" /\ LinkAvailable(e)
  \/ e.type = "custody" /\ CustodyTimeout(e)

TakeEvent == events # <<>> /\ events' = Tail(events)

HandleEvent ==
  /\ TakeEvent
  /\ Handler(Head(events))
  /\ UNCHANGED <<routes, arrived, downs, changes>>

----------------------------------------------------------------------------
(* What the daemon, the operator, the links and the timers do. *)

Post(e) == events' = Append(events, e)

FewEvents == Len(events) < MaxEvents

Arrive(b) ==
  /\ b \notin arrived /\ FewEvents
  /\ arrived' = arrived \cup {b}
  /\ \E n \in Sources : reception' = [reception EXCEPT ![b] = n]
  /\ Post([type |-> "received", bundle |-> b])
  /\ UNCHANGED <<linkState, queue, deferred, fwdlog, pending, expired, routes, timers,
                 scheduled, downs, changes>>

\* The daemon cancels what is queued of an expired bundle and deletes it.
Expire(b) ==
  /\ CanExpire
  /\ In(b, pending) /\ FewEvents
  /\ LET held == {l \in Link : In(b, queue[l])} IN
     /\ Become([RemoveFromDeferred(Now, b, Link) EXCEPT
                  !.queue = [l \in Link |-> Without(b, queue[l])],
                  !.log[b] = [l \in Link |-> IF l \in held THEN "CANCELLED" ELSE @[l]]])
     /\ \/ held = {} /\ UNCHANGED events
        \/ \E l \in held : Post([type |-> "cancelled", bundle |-> b])
  /\ pending' = Without(b, pending)
  /\ expired' = expired \cup {b}
  /\ UNCHANGED <<reception, routes, timers, scheduled, arrived, downs, changes>>

\* A transmission ends; the forwarding log learns of it with the event.
Transmit(l) ==
  /\ linkState[l] = "open"
  /\ queue[l] # <<>>
  /\ queue' = [queue EXCEPT ![l] = Tail(@)]
  /\ \E ok \in (IF CanFail THEN BOOLEAN ELSE {TRUE}) :
       Post([type |-> "transmitted", bundle |-> Head(queue[l]), link |-> l, success |-> ok])
  /\ UNCHANGED <<linkState, deferred, fwdlog, pending, expired, reception, routes, timers,
                 scheduled, arrived, downs, changes>>

TimeOutCustody(b, l) ==
  /\ b \in Custody /\ FewEvents
  /\ fwdlog[b][l] = "TRANSMITTED"
  /\ ~ \E i \in 1 .. Len(events) : events[i].type = "custody" /\ events[i].bundle = b
  /\ Post([type |-> "custody", bundle |-> b, link |-> l])
  /\ UNCHANGED <<linkState, queue, deferred, fwdlog, pending, expired, reception, routes,
                 timers, scheduled, arrived, downs, changes>>

SetLink(l, state, type) ==
  /\ linkState' = [linkState EXCEPT ![l] = state]
  /\ Post([type |-> type, link |-> l])
  /\ UNCHANGED <<queue, deferred, fwdlog, pending, expired, reception, routes, timers,
                 scheduled, arrived, changes>>

LinkOpens(l) ==
  linkState[l] \in {"unavailable", "opening"} /\ SetLink(l, "open", "up") /\ UNCHANGED downs

LinkDiscovered(l) ==
  /\ l \in Opportunistic /\ linkState[l] = "unavailable" /\ FewEvents
  /\ SetLink(l, "available", "available")
  /\ UNCHANGED downs

LinkGoesDown(l) ==
  /\ linkState[l] = "open"
  /\ downs[l] < MaxDowns[l] /\ FewEvents
  /\ downs' = [downs EXCEPT ![l] = @ + 1]
  /\ SetLink(l, "unavailable", "down")

\* Wrong: the queue is emptied and the forwarding log not told.
RerouteTimeoutUnlogged(l) ==
  /\ l \in scheduled
  /\ scheduled' = scheduled \ {l}
  /\ IF linkState[l] # "unavailable"
     THEN UNCHANGED <<queue, events>>
     ELSE /\ queue' = [queue EXCEPT ![l] = <<>>]
          /\ events' = events \o [i \in 1 .. Len(queue[l]) |->
                          [type |-> "cancelled", bundle |-> queue[l][i]]]
  /\ UNCHANGED <<linkState, deferred, fwdlog, pending, expired, reception, routes, timers,
                 arrived, downs, changes>>

\* In the timer thread.  Every queued bundle is cancelled, if the link is
\* still down; the entry stays in reroute_timers_.
RerouteTimeout(l) ==
  /\ l \in scheduled
  /\ scheduled' = scheduled \ {l}
  /\ IF linkState[l] # "unavailable"
     THEN UNCHANGED <<queue, fwdlog, events>>
     ELSE /\ queue' = [queue EXCEPT ![l] = <<>>]
          /\ fwdlog' = [b \in Bundle |-> IF In(b, queue[l])
                          THEN [fwdlog[b] EXCEPT ![l] = "CANCELLED"] ELSE fwdlog[b]]
          /\ events' = events \o [i \in 1 .. Len(queue[l]) |->
                          [type |-> "cancelled", bundle |-> queue[l][i]]]
  /\ UNCHANGED <<linkState, deferred, pending, expired, reception, routes, timers, arrived,
                 downs, changes>>

\* The operator adds a route: everything pending is routed again.
AddRoute(l) ==
  /\ changes < MaxChanges
  /\ l \notin routes
  /\ changes' = changes + 1
  /\ routes' = routes \cup {l}
  /\ reception' = [b \in Bundle |-> NoNode]
  /\ Become(RerouteAll(Now, routes'))
  /\ UNCHANGED <<pending, expired, timers, scheduled, events, arrived, downs>>

\* or deletes it: bundles deferred on its link stay there.
DeleteRoute(l) ==
  /\ changes < MaxChanges
  /\ l \in routes
  /\ changes' = changes + 1
  /\ routes' = routes \ {l}
  /\ reception' = [b \in Bundle |-> NoNode]
  /\ UNCHANGED <<linkState, queue, deferred, fwdlog, pending, expired, timers, scheduled,
                 events, arrived, downs>>

\* LinkCheckDeferredEvent; the repository does not say who posts it.
CheckDeferred(l) ==
  /\ Become(CheckNextHop(Now, l))
  /\ UNCHANGED <<pending, expired, reception, routes, timers, scheduled, events, arrived,
                 downs, changes>>

----------------------------------------------------------------------------

LinkStep(l) ==
  \/ CheckDeferred(l) \/ Transmit(l) \/ LinkOpens(l) \/ LinkDiscovered(l) \/ LinkGoesDown(l)
  \/ RerouteTimeout(l) \/ AddRoute(l) \/ DeleteRoute(l)

Next ==
  \/ HandleEvent
  \/ \E b \in Bundle : Arrive(b) \/ Expire(b) \/ \E l \in Link : TimeOutCustody(b, l)
  \/ \E l \in Link : LinkStep(l)

Spec == Init /\ [][Next]_vars

\* The daemon handles its events, open links transmit and timers fire.  Only
\* HandleEvent takes events.
FairSpec ==
  /\ Spec
  /\ WF_events(TakeEvent)
  /\ \A l \in Link : WF_vars(Transmit(l)) /\ WF_vars(RerouteTimeout(l))

----------------------------------------------------------------------------
(* Properties. *)

\* A bundle for a singleton destination is never queued on, in flight on or
\* sent over two links, although it is deferred on all of them and each link
\* takes it on its own (should_fwd).
OneCopy ==
  \A b \in Bundle : \A k, l \in Link : Sent(Now, b, k) /\ Sent(Now, b, l) => k = l

\* What the log calls QUEUED is in the link's queue or on its way: the bundle
\* is there or its transmitted event is still to be handled.  An entry that
\* no event would ever change kept the bundle from every other link.
QueuedIsOnItsWay ==
  \A b \in Bundle, l \in Link : fwdlog[b][l] = "QUEUED" =>
    \/ In(b, queue[l])
    \/ \E i \in 1 .. Len(events) :
         events[i].type = "transmitted" /\ events[i].bundle = b /\ events[i].link = l

\* Once a bundle is transmitted it waits on no link's deferred list
\* (handle_bundle_transmitted), however many links had it deferred.
TransmittedNotDeferred ==
  \A b \in Bundle : (\E l \in Link : fwdlog[b][l] = "TRANSMITTED") =>
    \A l \in Link : ~In(b, deferred[l])

\* Bundles do not overtake on a link: while a bundle that could be sent stays
\* on its deferred list, only those deferred before it are queued.
NoOvertaking ==
  [][\A l \in Link : \A i \in 1 .. Len(deferred[l]) :
        In(deferred[l][i], deferred'[l]) /\ ShouldForward(Now', deferred[l][i], l) =>
          \A c \in Bundle : In(c, queue'[l]) =>
            In(c, queue[l]) \/ In(c, SubSeq(deferred[l], 1, i - 1))]_vars

\* Bundles queued on a link that went down do not wait for it forever: the
\* reroute timer takes them off unless the link leaves the down state.
DownLinkIsDrained ==
  \A l \in Link :
    (queue[l] # <<>> /\ linkState[l] = "unavailable")
      ~> (queue[l] = <<>> \/ linkState[l] # "unavailable")

\* If the links open again and again, every bundle with a link to take is
\* transmitted, though a link may be lost with the bundle in its queue.
RoutedIsTransmitted ==
  (\A l \in Link : []<>(linkState[l] = "open")) =>
  \A b \in Bundle :
    (b \in arrived /\ \E l \in Link : Remote[l] # reception[b])
      ~> (\E l \in Link : fwdlog[b][l] = "TRANSMITTED")
============================================================================
