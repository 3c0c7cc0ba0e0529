---------------------------- MODULE ContactPlan ----------------------------
(***************************************************************************)
(* The contact plan of Unibo-CGR (contactPlan.c): the contacts graph, the  *)
(* ranges graph and the list of the local node's neighbors, each with the  *)
(* cached time of its earliest expiry, which lets removeExpired skip the   *)
(* sweep when nothing can have expired.                                    *)
(*                                                                         *)
(* A call that returns an error or "-1, overlapped" changes nothing and is *)
(* a stuttering step.  Confidence and MTVs, which no operation of the plan *)
(* reads, are left out; xmitRate and owlt stay because revisions write     *)
(* them.                                                                   *)
(***************************************************************************)
EXTENDS IntervalStore

CONSTANTS
  Node,        \* ipn node numbers
  LocalNode,   \* the node that runs this CGR
  ContactPairs, \* <<sender, receiver>> pairs whose contacts are edited
  RangePairs,  \* <<sender, receiver>> pairs whose ranges are edited
  Times,       \* start, end and current times the callers use
  Rates,       \* transmission rates offered
  Owlts        \* one-way light times offered

ASSUME ContactPlanAssumption ==
  /\ LocalNode \in Node
  /\ ContactPairs \subseteq Node \X Node
  /\ RangePairs \subseteq Node \X Node
  /\ Times \subseteq 0 .. (MaxTime - 1)
  /\ Rates \subseteq Nat
  /\ Owlts \subseteq Nat

VARIABLES
  contacts,               \* contacts graph
  timeContactToRemove,    \* earliest expiry of a contact, cached
  ranges,                 \* ranges graph
  timeRangeToRemove,      \* earliest expiry of a range, cached
  neighbors,              \* local_node_neighbors
  timeNeighborToRemove,   \* earliest expiry of a neighbor, cached
  neighbors_list_builded, \* has the list been built since the last reset
  initialized,            \* do the three structures exist
  now                     \* the time of the last removeExpired

contactVars  == <<contacts, timeContactToRemove>>
rangeVars    == <<ranges, timeRangeToRemove>>
neighborVars == <<neighbors, timeNeighborToRemove, neighbors_list_builded>>
vars == <<contacts, timeContactToRemove, ranges, timeRangeToRemove, neighbors,
          timeNeighborToRemove, neighbors_list_builded, initialized, now>>

EndTime == Times \cup {MaxTime}

Contact == [from : Node, to : Node, fromTime : EndTime, toTime : EndTime, xmitRate : Rates \cup {0}]
Range   == [from : Node, to : Node, fromTime : Times, toTime : EndTime, owlt : Owlts]
Neighbor == [ipn_number : Node, toTime : EndTime]

TypeOK ==
  /\ contacts \subseteq Contact
  /\ ranges \subseteq Range
  /\ neighbors \subseteq Neighbor
  /\ {timeContactToRemove, timeRangeToRemove, timeNeighborToRemove} \subseteq EndTime
  /\ {neighbors_list_builded, initialized} \subseteq BOOLEAN
  /\ now \in Times \cup {0}

Init ==
  /\ contacts = {} /\ timeContactToRemove = MaxTime
  /\ ranges = {} /\ timeRangeToRemove = MaxTime
  /\ neighbors = {} /\ timeNeighborToRemove = MaxTime
  /\ neighbors_list_builded = FALSE
  /\ initialized = FALSE
  /\ now = 0

\* A wrong insertion that leaves the cache alone.
CacheKept(cache, t) == cache

Earlier(cache, t) == IF cache > t THEN t ELSE cache

----------------------------------------------------------------------------
(* Contacts. *)

\* A wrong registration that keeps the start -1 with which it is asked for.
RegistrationAsAsked(n) ==
  [from |-> n, to |-> n, fromTime |-> -1, toTime |-> MaxTime, xmitRate |-> 0]

\* A registration says that a node takes part in the plan; it never expires
\* and never enters the expiry cache.
Registration(n) ==
  [from |-> n, to |-> n, fromTime |-> MaxTime, toTime |-> MaxTime, xmitRate |-> 0]

AddRegistration(n) ==
  /\ ~ \E c \in Between(contacts, n, n) : c.fromTime = MaxTime
  /\ contacts' = contacts \cup {Registration(n)}
  /\ initialized' = TRUE
  /\ UNCHANGED <<timeContactToRemove, rangeVars, neighborVars, now>>

AddContact(f, t, ft, tt, rate) ==
  /\ ft <= tt
  /\ Deciding(contacts, f, t, ft, tt) = {}
  /\ contacts' = contacts \cup
       {[from |-> f, to |-> t, fromTime |-> ft, toTime |-> tt, xmitRate |-> rate]}
  /\ timeContactToRemove' = Earlier(timeContactToRemove, tt)
  /\ initialized' = TRUE
  /\ UNCHANGED <<rangeVars, neighborVars, now>>

\* Adding a contact that is there already revises its rate.
ReviseByAddContact(f, t, ft, tt, rate) ==
  \E c \in Deciding(contacts, f, t, ft, tt) :
    /\ SameInterval(c, ft, tt)
    /\ contacts' = (contacts \ {c}) \cup {[c EXCEPT !.xmitRate = rate]}
    /\ UNCHANGED <<timeContactToRemove, rangeVars, neighborVars, initialized, now>>

\* A search by key finds either of two entries that share it.
ReviseXmitRate(f, t, ft, rate) ==
  \E c \in Between(contacts, f, t) :
    /\ c.fromTime = ft
    /\ contacts' = (contacts \ {c}) \cup {[c EXCEPT !.xmitRate = rate]}
    /\ UNCHANGED <<timeContactToRemove, rangeVars, neighborVars, initialized, now>>

\* The key that remove_contact_from_graph looks for; -1 asks for the
\* registration of a node and becomes 0 in the search argument.
SearchedStart(f, t, ft) == IF ft = -1 /\ f = t THEN 0 ELSE ft

RemoveContact(f, t, ft) ==
  /\ initialized
  /\ (ft = -1 /\ f = t) \/ f # t
  /\ contacts' = contacts \ Foremost(contacts, f, t, SearchedStart(f, t, ft))
  /\ UNCHANGED <<timeContactToRemove, rangeVars, neighborVars, initialized, now>>

RemoveAllContacts(f, t) ==
  /\ initialized
  /\ contacts' = contacts \ Between(contacts, f, t)
  /\ UNCHANGED <<timeContactToRemove, rangeVars, neighborVars, initialized, now>>

RemoveExpiredContacts(t) ==
  IF t >= timeContactToRemove
  THEN /\ contacts' = Swept(contacts, t)
       /\ timeContactToRemove' \in NextExpiry(Unexpired(contacts, t))
  ELSE UNCHANGED contactVars

----------------------------------------------------------------------------
(* Ranges. *)

\* A range offered with toTime 0 never expires.
RangeEnd(tt) == IF tt = 0 THEN MaxTime ELSE tt

AddRange(f, t, ft, toTime, owlt) ==
  LET tt == RangeEnd(toTime) IN
  /\ ft <= tt
  /\ Deciding(ranges, f, t, ft, tt) = {}
  /\ ranges' = ranges \cup
       {[from |-> f, to |-> t, fromTime |-> ft, toTime |-> tt, owlt |-> owlt]}
  /\ timeRangeToRemove' = Earlier(timeRangeToRemove, tt)
  /\ initialized' = TRUE
  /\ UNCHANGED <<contactVars, neighborVars, now>>

\* A wrong revision that moves the end of the range it overlaps.
ExtendByAddRange(f, t, ft, toTime, owlt) ==
  \E r \in Deciding(ranges, f, t, ft, RangeEnd(toTime)) :
    /\ r.fromTime = ft
    /\ ranges' = (ranges \ {r}) \cup {[r EXCEPT !.toTime = RangeEnd(toTime), !.owlt = owlt]}
    /\ UNCHANGED <<contactVars, timeRangeToRemove, neighborVars, initialized, now>>

ReviseByAddRange(f, t, ft, toTime, owlt) ==
  \E r \in Deciding(ranges, f, t, ft, RangeEnd(toTime)) :
    /\ SameInterval(r, ft, RangeEnd(toTime))
    /\ ranges' = (ranges \ {r}) \cup {[r EXCEPT !.owlt = owlt]}
    /\ UNCHANGED <<contactVars, timeRangeToRemove, neighborVars, initialized, now>>

ReviseOwlt(f, t, ft, owlt) ==
  \E r \in Between(ranges, f, t) :
    /\ r.fromTime = ft
    /\ ranges' = (ranges \ {r}) \cup {[r EXCEPT !.owlt = owlt]}
    /\ UNCHANGED <<contactVars, timeRangeToRemove, neighborVars, initialized, now>>

RemoveRange(f, t, ft) ==
  /\ initialized
  /\ ranges' = ranges \ Foremost(ranges, f, t, ft)
  /\ UNCHANGED <<contactVars, timeRangeToRemove, neighborVars, initialized, now>>

RemoveAllRanges(f, t) ==
  /\ initialized
  /\ ranges' = ranges \ Between(ranges, f, t)
  /\ UNCHANGED <<contactVars, timeRangeToRemove, neighborVars, initialized, now>>

RemoveExpiredRanges(t) ==
  IF t >= timeRangeToRemove
  THEN /\ ranges' = Swept(ranges, t)
       /\ timeRangeToRemove' \in NextExpiry(Unexpired(ranges, t))
  ELSE UNCHANGED rangeVars

----------------------------------------------------------------------------
(* Neighbors of the local node. *)

\* The contacts that are last, in the order of the tree, towards their receiver.
LastContacts ==
  {c \in contacts :
      /\ c.from = LocalNode
      /\ \A d \in Between(contacts, LocalNode, c.to) : ~Precedes(c, d)}

BuildNeighbors ==
  /\ initialized
  /\ ~neighbors_list_builded
  /\ neighbors' = {[ipn_number |-> c.to, toTime |-> c.toTime] : c \in LastContacts}
  /\ \E m \in NextExpiry(neighbors') :
        timeNeighborToRemove' = Earlier(timeNeighborToRemove, m)
  /\ neighbors_list_builded' = TRUE
  /\ UNCHANGED <<contactVars, rangeVars, initialized, now>>

\* A wrong sweep that waits until the earliest expiry has passed.
RemoveOldNeighborsLate(t) ==
  IF t > timeNeighborToRemove
  THEN /\ neighbors' = Unexpired(neighbors, t)
       /\ timeNeighborToRemove' \in NextExpiry(neighbors')
  ELSE UNCHANGED <<neighbors, timeNeighborToRemove>>

RemoveOldNeighbors(t) ==
  IF t >= timeNeighborToRemove
  THEN /\ neighbors' = Unexpired(neighbors, t)
       /\ timeNeighborToRemove' \in NextExpiry(neighbors')
  ELSE UNCHANGED <<neighbors, timeNeighborToRemove>>

----------------------------------------------------------------------------
(* The plan as a whole. *)

\* getBestRoutes refuses a time before that of its last call.
RemoveExpired(t) ==
  /\ initialized
  /\ t >= now
  /\ now' = t
  /\ RemoveExpiredContacts(t)
  /\ RemoveExpiredRanges(t)
  /\ RemoveOldNeighbors(t)
  /\ UNCHANGED <<neighbors_list_builded, initialized>>

ForgetNeighbors ==
  /\ neighbors' = {}
  /\ timeNeighborToRemove' = MaxTime
  /\ neighbors_list_builded' = FALSE

\* Every route and the neighbors list go when the plan was edited.
ResetNodesTree ==
  /\ initialized
  /\ ForgetNeighbors
  /\ UNCHANGED <<contactVars, rangeVars, initialized, now>>

ForgetPlan ==
  /\ contacts' = {} /\ timeContactToRemove' = MaxTime
  /\ ranges' = {} /\ timeRangeToRemove' = MaxTime
  /\ ForgetNeighbors

ResetContactPlan ==
  /\ initialized
  /\ ForgetPlan
  /\ UNCHANGED <<initialized, now>>

DestroyContactPlan ==
  /\ initialized
  /\ ForgetPlan
  /\ initialized' = FALSE
  /\ UNCHANGED now

----------------------------------------------------------------------------

EditContacts(f, t) ==
  \/ RemoveAllContacts(f, t)
  \/ \E ft \in Times \cup {-1} : RemoveContact(f, t, ft)
  \/ \E ft \in EndTime, rate \in Rates : ReviseXmitRate(f, t, ft, rate)
  \/ \E ft, tt \in Times, rate \in Rates :
        AddContact(f, t, ft, tt, rate) \/ ReviseByAddContact(f, t, ft, tt, rate)

EditRanges(f, t) ==
  \/ RemoveAllRanges(f, t)
  \/ \E ft \in Times : RemoveRange(f, t, ft)
  \/ \E ft \in Times, owlt \in Owlts : ReviseOwlt(f, t, ft, owlt)
  \/ \E ft \in Times, tt \in Times \cup {0}, owlt \in Owlts :
        AddRange(f, t, ft, tt, owlt) \/ ReviseByAddRange(f, t, ft, tt, owlt)

Next ==
  \/ \E n \in Node : <<n, n>> \in ContactPairs /\ AddRegistration(n)
  \/ \E p \in ContactPairs : EditContacts(p[1], p[2])
  \/ \E p \in RangePairs : EditRanges(p[1], p[2])
  \/ BuildNeighbors
  \/ ResetNodesTree
  \/ \E t \in Times : RemoveExpired(t)
  \/ ResetContactPlan
  \/ DestroyContactPlan

Spec == Init /\ [][Next]_vars

----------------------------------------------------------------------------
(* Properties. *)

WithLength(S) == {e \in S : ~Instant(e)}

\* The cached expiry times are never late: no neighbor, and no contact or range
\* that has a length, expires before the time at which removeExpired will next
\* look.  The caches are kept by the insertions (add_contact_to_graph,
\* add_range_to_graph, add_neighbor), by the sweeps and by the resets, in three
\* source files.
ExpiryCachesSound ==
  /\ CacheSound(timeContactToRemove, WithLength(contacts))
  /\ CacheSound(timeRangeToRemove, WithLength(ranges))
  /\ CacheSound(timeNeighborToRemove, neighbors)

\* S became T at x as it should: what expired and has a length went, and what
\* went had expired or shares its start with an entry that had.
ExpiredWent(S, T, x) ==
  /\ T \subseteq S
  /\ WithLength(T) \subseteq Unexpired(S, x)
  /\ \A e \in S \ T : \E d \in S : SameKey(d, e) /\ d.toTime <= x

\* When the clock moves, the expired contacts, ranges and neighbors go and
\* nothing else does, whatever was added, revised and removed since the last
\* sweep, and although the sweep is skipped whenever the cache says so.  The
\* exception is a pair of entries with one key, see SweepAsDocumented.
ExpiryExact ==
  [][now' # now =>
        /\ ExpiredWent(contacts, contacts', now')
        /\ ExpiredWent(ranges, ranges', now')
        /\ neighbors' = Unexpired(neighbors, now')]_vars

\* What removeExpiredContacts is described to do: delete the contacts whose
\* toTime is not after the given time.  It deletes by key, so a contact that
\* starts with an expired instant goes in the instant's place.
SweepAsDocumented == [][now' # now => contacts' = Unexpired(contacts, now')]_vars

\* Two contacts (ranges) of one node pair start together only if one of them is
\* an instant and the other is not, so that at most two share the key
\* (fromNode, toNode, fromTime) by which the trees search, revise and delete.
KeySharedWithInstant(S) ==
  \A d, e \in S : SameKey(d, e) /\ d # e => (Instant(d) <=> ~Instant(e))

KeysAlmostUnique == KeySharedWithInstant(contacts) /\ KeySharedWithInstant(ranges)

\* What the overlap scan does guarantee: two entries of one pair are disjoint
\* or one lies strictly inside the other.
NestedOrDisjoint(S) ==
  \A d, e \in S : SamePair(d, e) /\ d # e =>
     Disjoint(d, e) \/ StrictlyInside(d, e) \/ StrictlyInside(e, d)

PlanNestedOrDisjoint == NestedOrDisjoint(contacts) /\ NestedOrDisjoint(ranges)

\* get_applicable_range finds a range in force at x, through whatever ranges
\* were stacked on the pair, exactly when one is in force before which no
\* range ends at x: a range that ends at x stops the scan.
LookupFindsRange ==
  \A p \in RangePairs, x \in Times :
     LET S == Between(ranges, p[1], p[2]) IN
     Applicable(ranges, p[1], p[2], x) # {}
       <=> \E r \in S : /\ Covers(r, x)
                       /\ \A d \in S : d.fromTime < r.fromTime => d.toTime # x

\* The two graphs seen as stores that promise nothing about their caches.
ContactsStore == INSTANCE ExpiringStore WITH items <- contacts
RangesStore   == INSTANCE ExpiringStore WITH items <- ranges

ContactsImplementStore == ContactsStore!Spec
RangesImplementStore   == RangesStore!Spec
============================================================================
