------------------------------ MODULE Sessions ------------------------------
(***************************************************************************)
(* The sessions of the table-based routers (TableBasedRouter.cc, and       *)
(* UniboCGRBundleRouter.cc with the same text): one session, spread over   *)
(* routers whose routes towards its root form a tree.                      *)
(*                                                                         *)
(* A subscription travels up the tree and leaves a subscriber at each      *)
(* router; the bundles of the session go to all subscribers but the one    *)
(* they came from.  A bundle carries a sequence id and says up to which    *)
(* ids it makes others obsolete.  The links are up and lose nothing, and   *)
(* what is routed is sent: BundleForwarding is about the rest.             *)
(***************************************************************************)
EXTENDS Integers, Lists

CONSTANTS
  Router,
  Hop,          \* the next router on the way to the root of the session
  Custodian,    \* the routers where a custody registration appears
  Bundle, Source,
  Origin, Id, Obsoletes,  \* of the bundles: where they are sent, their ids
  Expiring,               \* the routers at which bundles expire (bound)
  MaxRegistrations,       \* subscriptions at a router (bound)
  MaxFirings              \* of resubscribe timers at a router (bound)

Nobody == 0
Local == -1
NoBundle == "none"      \* in a subscription

ASSUME SessionsAssumption ==
  /\ {Local, Nobody} \cap Router = {}
  /\ NoBundle \notin Bundle
  /\ Hop \in [Router -> Router \cup {Nobody}]
  /\ Custodian \cup Expiring \subseteq Router
  /\ Origin \in [Bundle -> Router]
  /\ {Id, Obsoletes} \subseteq [Bundle -> [Source -> Nat]]
  /\ MaxRegistrations \in [Router -> Nat] /\ MaxFirings \in Nat

\* Every walk along the routes ends: they form trees.
ASSUME TreeAssumption ==
  \A R \in SUBSET Router : R # {} => \E r \in R : Hop[r] \notin R

\* A source is an endpoint: it counts what is sent at its own router, and every
\* bundle of the session is counted.
ASSUME SourceAssumption ==
  \A b \in Bundle : \E s \in Source :
    Id[b][s] > 0 /\ \A c \in Bundle : Id[c][s] > 0 => Origin[c] = Origin[b]

VARIABLES
  session,      \* the session as each router knows it, and its bundles
  channel,      \* the queues of the links
  registered,   \* how many subscriptions were registered (bound)
  fired,        \* how many timers went off (bound)
  seen,         \* the bundles that each router ever received (history)
  untold        \* routers that took an upstream without a subscription (history)

vars == <<session, channel, registered, fired, seen, untold>>

\* Sequence ids are vectors of counters.
Covers(v, w) == \A s \in Source : w[s] <= v[s]
NoId == [s \in Source |-> 0]
Updated(v, w) == [s \in Source |-> IF v[s] < w[s] THEN w[s] ELSE v[s]]

Data(b) == [bundle |-> b, id |-> NoId]
Messages(bundles) == [i \in DOMAIN bundles |-> Data(bundles[i])]
Subscription(v) == [bundle |-> NoBundle, id |-> v]

NewSession ==
  [upstream |-> Nobody, subscribers |-> {}, bundles |-> <<>>, id |-> NoId,
   log |-> [b \in Bundle |-> {}],           \* sent to, or suppressed
   cache |-> [b \in Bundle |-> {}],         \* reception_cache_: the node before
   waiting |-> <<>>,                        \* subscriptions without a route
   open |-> FALSE, custody |-> FALSE, routed |-> FALSE,
   timer |-> FALSE,                         \* resubscribe_timer()
   stray |-> 0,                             \* timers the session forgot
   out |-> [r \in Router |-> <<>>]]         \* sent by the handler

Sent(s, to, m) == [s EXCEPT !.out = [p \in Router |-> IF p \in to THEN Append(@[p], m) ELSE @[p]]]

----------------------------------------------------------------------------
(* The parts of the handlers.  s is the session of router r. *)

Kept(s) == {b \in Bundle : In(b, s.bundles)}

\* should_fwd: the nodes that b goes to.
Targets(s, b) == s.subscribers \ ({Local} \cup s.log[b] \cup s.cache[b])

\* route_bundle for those of B, in the order in which they are kept
Routed(s, B) ==
  LET sent(p) == Only({b \in B : p \in Targets(s, b)}, s.bundles)
  IN [s EXCEPT !.log = [b \in Bundle |-> IF b \in B THEN @[b] \cup Targets(s, b) ELSE @[b]],
               !.out = [p \in Router |-> @[p] \o Messages(sent(p))]]

\* route_bundle for a subscription, which waits if there is no route
RouteSubscription(s, r, sub) ==
  IF s.routed /\ Hop[r] # sub.from THEN Sent(s, {Hop[r]}, Subscription(sub.id))
  ELSE [s EXCEPT !.waiting = Append(@, sub)]

\* Wrong: the bundles at hand are not for the new subscriber.
SubscriberAddedOnly(s, peer, id) == [s EXCEPT !.subscribers = @ \cup {peer}]

\* add_subscriber: the bundles it does not know are routed to it.
SubscriberAdded(s, peer, id) ==
  LET known == {b \in Kept(s) : Covers(id, Id[b])}
  IN Routed([s EXCEPT !.subscribers = @ \cup {peer},
                      !.log = [b \in Bundle |-> IF b \in known THEN @[b] \cup {peer} ELSE @[b]]],
            Kept(s) \ known)

\* find_session_upstream
UpstreamFound(s, r) ==
  IF s.custody THEN [s EXCEPT !.upstream = Local]
  ELSE IF s.routed /\ s.upstream # Hop[r] THEN SubscriberAdded([s EXCEPT !.upstream = Hop[r]], Hop[r], NoId)
  ELSE s

\* handle_session_bundle: a subscription goes on only if no upstream was known.
SubscriptionHandled(s, r, sub) ==
  LET found == IF s.upstream = Nobody THEN UpstreamFound(s, r) ELSE s
      added == IF sub.from = Nobody THEN found ELSE SubscriberAdded(found, sub.from, sub.id)
  IN IF s.upstream = Nobody /\ found.upstream # Local THEN RouteSubscription(added, r, sub) ELSE added

\* Wrong: an old timer is left running.
SubscribedAnew(s, r) ==
  IF s.upstream = Local THEN s
  ELSE [SubscriptionHandled(s, r, [id |-> s.id, from |-> Nobody]) EXCEPT
          !.timer = TRUE, !.stray = @ + (IF s.timer THEN 1 ELSE 0)]

\* subscribe_to_session.  The bundle it posts at the head of the queue is the
\* next event; the timer before is cancelled.
Subscribed(s, r) ==
  IF s.upstream = Local THEN s
  ELSE [SubscriptionHandled(s, r, [id |-> s.id, from |-> Nobody]) EXCEPT !.timer = TRUE]

\* One of the two makes the other obsolete, or they are the same version.
Replaces(old, new) == Covers(Obsoletes[old], Id[new]) \/ Id[old] = Id[new]

\* Wrong: the bundles that the new one makes obsolete stay.
SiftedOut(bundles, b) ==
  [ok |-> \A i \in DOMAIN bundles : ~Replaces(bundles[i], b), kept |-> bundles]

\* The loop of add_bundle_to_session: what the new bundle makes obsolete goes,
\* until one that stays makes the new bundle obsolete.
Sifted(bundles, b) ==
  LET obsolete(i) == Covers(Obsoletes[b], Id[bundles[i]])
      stops == {i \in DOMAIN bundles : ~obsolete(i) /\ Replaces(bundles[i], b)}
      gone == {bundles[i] : i \in {i \in DOMAIN bundles : obsolete(i) /\ \A j \in stops : i < j}}
  IN [ok |-> stops = {}, kept |-> Only(Bundle \ gone, bundles)]

\* handle_bundle_received for a bundle of the session, from a node or nobody.
Received(s, b, from) ==
  LET sifted == Sifted(s.bundles, b)
      noted == [s EXCEPT !.open = TRUE, !.cache[b] = {from}, !.bundles = sifted.kept]
  IN IF ~sifted.ok THEN noted
     ELSE Routed([noted EXCEPT !.bundles = Append(@, b), !.id = Updated(@, Id[b]), !.log[b] = {}], {b})

\* handle_changed_routes: reroute_all_bundles, then reroute_all_sessions.
RoutesChanged(s, r) ==
  LET cleared == [s EXCEPT !.cache = [b \in Bundle |-> {}], !.waiting = <<>>]
      resent == [i \in DOMAIN s.waiting |-> Subscription(s.waiting[i].id)]
      rerouted == [Routed(cleared, Kept(s)) EXCEPT !.out[Hop[r]] = @ \o resent]
  IN IF s.open THEN UpstreamFound(rerouted, r) ELSE rerouted

----------------------------------------------------------------------------

Init ==
  /\ session = [r \in Router |-> NewSession]
  /\ channel = [r \in Router |-> [p \in Router |-> <<>>]]
  /\ registered = [r \in Router |-> 0]
  /\ fired = [r \in Router |-> 0]
  /\ seen = [r \in Router |-> {}]
  /\ untold = {}

\* The handler leaves s behind, and what it sends goes to the links.
Become(r, s, queues) ==
  /\ session' = [session EXCEPT ![r] = [s EXCEPT !.out = NewSession.out]]
  /\ channel' = [queues EXCEPT ![r] = [p \in Router |-> @[p] \o s.out[p]]]

RegisterCustody(r) ==
  /\ r \in Custodian /\ ~session[r].custody
  /\ Become(r, [session[r] EXCEPT !.custody = TRUE], channel)
  /\ UNCHANGED <<registered, fired, seen, untold>>

RegisterSubscribe(r) ==
  /\ registered[r] < MaxRegistrations[r]
  /\ registered' = [registered EXCEPT ![r] = @ + 1]
  /\ Become(r, Subscribed([session[r] EXCEPT !.open = TRUE, !.subscribers = @ \cup {Local}], r), channel)
  /\ UNCHANGED <<fired, seen, untold>>

\* An upstream is looked for, but nothing subscribes to it.
RegisterPublish(r) ==
  LET s == [session[r] EXCEPT !.open = TRUE]
  IN /\ s.upstream = Nobody
     /\ Become(r, UpstreamFound(s, r), channel)
     /\ untold' = IF s.routed /\ ~s.custody THEN untold \cup {r} ELSE untold
     /\ UNCHANGED <<registered, fired, seen>>

\* handle_route_add: the route towards the root appears.
AddRoute(r) ==
  LET s == session[r]
  IN /\ Hop[r] # Nobody /\ ~s.routed
     /\ Become(r, RoutesChanged([s EXCEPT !.routed = TRUE], r), channel)
     /\ untold' = IF s.open /\ s.waiting = <<>> /\ ~s.custody THEN untold \cup {r} ELSE untold
     /\ UNCHANGED <<registered, fired, seen>>

\* A local application sends a bundle.
Publish(b) ==
  LET r == Origin[b]
  IN /\ \A p \in Router : b \notin seen[p]
     /\ Become(r, Received(session[r], b, Nobody), channel)
     /\ seen' = [seen EXCEPT ![r] = @ \cup {b}]
     /\ UNCHANGED <<registered, fired, untold>>

\* delete_bundle, when a bundle expires.  The session's id still covers it.
Expire(r, b) ==
  /\ r \in Expiring /\ b \in Kept(session[r])
  /\ Become(r, [session[r] EXCEPT !.bundles = Only(Bundle \ {b}, @)], channel)
  /\ UNCHANGED <<registered, fired, seen, untold>>

\* handle_bundle_received, from the link of p.
Receive(r, p) ==
  LET s == session[r]
      m == Head(channel[p][r])
      queues == [channel EXCEPT ![p][r] = Tail(@)]
  IN /\ channel[p][r] # <<>>
     /\ IF m.bundle = NoBundle
        THEN /\ Become(r, SubscriptionHandled([s EXCEPT !.open = TRUE], r, [id |-> m.id, from |-> p]), queues)
             /\ UNCHANGED seen
        ELSE /\ Become(r, IF s.cache[m.bundle] # {} THEN s ELSE Received(s, m.bundle, p), queues)
             /\ seen' = [seen EXCEPT ![r] = @ \cup {m.bundle}]
     /\ UNCHANGED <<registered, fired, untold>>

\* ResubscribeTimer::timeout.  It subscribes and then makes the session forget
\* the timer that this has set.
Timeout(r) ==
  LET s == session[r]
      t == Subscribed(s, r)
      running == IF s.upstream # Local THEN 1 ELSE 0
  IN /\ fired[r] < MaxFirings
     /\ fired' = [fired EXCEPT ![r] = @ + 1]
     /\ \/ s.timer /\ Become(r, [t EXCEPT !.timer = FALSE, !.stray = @ + running], channel)
        \/ /\ s.stray > 0
           /\ Become(r, [t EXCEPT !.timer = FALSE,
                                  !.stray = @ - 1 + (IF s.timer THEN 1 ELSE running)], channel)
     /\ UNCHANGED <<registered, seen, untold>>

Next ==
  \/ \E r \in Router : \/ RegisterCustody(r) \/ RegisterSubscribe(r) \/ RegisterPublish(r)
                       \/ AddRoute(r) \/ Timeout(r) \/ \E p \in Router : Receive(r, p)
  \/ \E b \in Bundle : Publish(b) \/ \E r \in Router : Expire(r, b)

Spec == Init /\ [][Next]_vars

----------------------------------------------------------------------------
(* Properties. *)

Underway(p, r, b) == \E i \in DOMAIN channel[p][r] : channel[p][r][i].bundle = b

AskedFor(p, r) == \E i \in DOMAIN channel[p][r] : channel[p][r][i].bundle = NoBundle

\* The session's id covers its bundles, an upstream node is a subscriber too,
\* and a subscription waits only where there is no route.
TypeOK ==
  \A r \in Router :
    LET s == session[r]
    IN /\ s.upstream \in Router \cup {Local, Nobody}
       /\ s.subscribers \subseteq Router \cup {Local}
       /\ s.upstream \in Router => s.upstream \in s.subscribers
       /\ s.bundles \in Seq(seen[r])
       /\ \A b \in Kept(s) : Covers(s.id, Id[b])
       /\ s.waiting # <<>> => ~s.routed
       /\ s.out = NewSession.out

\* No bundle of a session makes another one obsolete or has its id, whatever
\* order they arrive in (the loop of add_bundle_to_session); the sessions are in shape
\* (TypeOK).
NoObsolete ==
  /\ TypeOK
  /\ \A r \in Router : LET l == session[r].bundles IN
       \A i, j \in DOMAIN l : i # j => ~Covers(Obsoletes[l[i]], Id[l[j]]) /\ Id[l[i]] # Id[l[j]]

\* Every subscriber gets every bundle its neighbor keeps: it has received it or
\* it is on the way.  The bundle may have come before or after the subscription,
\* or be suppressed by the ids in it (add_subscriber), or by the reception cache.
SubscribersServed ==
  \A r, p \in Router : p \in session[r].subscribers =>
    \A b \in Kept(session[r]) : b \in seen[p] \/ Underway(r, p, b)

\* A local subscription is kept up: its resubscribe timer runs as long as the
\* upstream is a node, and, where no router on the way found its upstream for
\* another reason, the next router knows of the subscriber or will.
SubscriptionKept ==
  \A r \in Router : LET s == session[r] IN
    Local \in s.subscribers /\ s.upstream # Local =>
      /\ s.timer \/ s.stray > 0
      /\ s.stray + (IF s.timer THEN 1 ELSE 0) <= registered[r]
      /\ s.routed /\ r \notin untold =>
           r \in session[Hop[r]].subscribers \/ AskedFor(r, Hop[r])
=============================================================================
