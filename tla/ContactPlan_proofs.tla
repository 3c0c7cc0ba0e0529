------------------------- MODULE ContactPlan_proofs -------------------------
(***************************************************************************)
(* Proofs about ContactPlan for every set of nodes, times, rates and light *)
(* times.                                                                  *)
(*                                                                         *)
(* After the types, that the two trees behave as keyed stores although an  *)
(* insertion looks at one entry after the other and gives up at the first  *)
(* it takes for an overlap.  The argument: the earliest hit of the scan is *)
(* never hidden by an entry that stops it sooner, so an insertion that is  *)
(* not refused meets no hit at all (NoHit); hence the entries of a pair    *)
(* stay disjoint or nested, and only an instant shares its start with      *)
(* another entry (Separate), which in turn is what makes the earliest hit  *)
(* unique.                                                                 *)
(*                                                                         *)
(* Then the cached expiries: a cache only falls when an entry is inserted  *)
(* and is recomputed by the sweep that may raise it.  So a sweep that the  *)
(* cache suppresses would have removed nothing but instants, and the steps *)
(* of the trees are steps of the abstract store.                           *)
(***************************************************************************)
EXTENDS ContactPlan, DataLemmas

\* Every action is one of these: a change of the contacts alone, of the
\* ranges alone, or one that involves the neighbors or everything.
ContactStep ==
  \/ \E n \in Node : AddRegistration(n)
  \/ \E f, t \in Node : EditContacts(f, t)

RangeStep == \E f, t \in Node : EditRanges(f, t)

LEMMA StepKinds ==
  Next => \/ ContactStep \/ RangeStep \/ BuildNeighbors \/ ResetNodesTree
          \/ (\E t \in Times : RemoveExpired(t))
          \/ ResetContactPlan \/ DestroyContactPlan
<1> SUFFICES ASSUME Next
             PROVE  \/ ContactStep \/ RangeStep \/ BuildNeighbors \/ ResetNodesTree
                    \/ (\E t \in Times : RemoveExpired(t))
                    \/ ResetContactPlan \/ DestroyContactPlan
  OBVIOUS
<1>1. ASSUME NEW p \in ContactPairs, EditContacts(p[1], p[2])
      PROVE  ContactStep
  BY <1>1, ContactPlanAssumption DEF ContactStep
<1>2. ASSUME NEW p \in RangePairs, EditRanges(p[1], p[2])
      PROVE  RangeStep
  BY <1>2, ContactPlanAssumption DEF RangeStep
<1> QED BY <1>1, <1>2 DEF Next, ContactStep

----------------------------------------------------------------------------
(* Types. *)

LEMMA TimesInEndTime == Times \subseteq EndTime /\ EndTime \subseteq Nat /\ MaxTime \in EndTime
BY ContactPlanAssumption, MaxTimeAssumption DEF EndTime

\* The earliest expiry of entries whose ends are in EndTime is in EndTime.
LEMMA NextExpiryType ==
  ASSUME NEW S, \A e \in S : e.toTime \in EndTime, NEW m \in NextExpiry(S)
  PROVE  m \in EndTime
BY TimesInEndTime DEF NextExpiry

LEMMA ContactStepType ==
  ASSUME TypeOK, ContactStep
  PROVE  TypeOK'
<1> USE TimesInEndTime
<1>1. ASSUME NEW n \in Node, AddRegistration(n)
      PROVE  TypeOK'
  BY <1>1 DEF AddRegistration, Registration, TypeOK, Contact, rangeVars, neighborVars
<1>2. ASSUME NEW f \in Node, NEW t \in Node, RemoveAllContacts(f, t)
      PROVE  TypeOK'
  BY <1>2 DEF RemoveAllContacts, TypeOK, rangeVars, neighborVars
<1>3. ASSUME NEW f \in Node, NEW t \in Node, NEW ft \in Times \cup {-1}, RemoveContact(f, t, ft)
      PROVE  TypeOK'
  BY <1>3 DEF RemoveContact, TypeOK, rangeVars, neighborVars
<1>4. ASSUME NEW f \in Node, NEW t \in Node, NEW ft \in EndTime, NEW rate \in Rates,
             ReviseXmitRate(f, t, ft, rate)
      PROVE  TypeOK'
  BY <1>4 DEF ReviseXmitRate, Between, TypeOK, Contact, rangeVars, neighborVars
<1>5. ASSUME NEW f \in Node, NEW t \in Node, NEW ft \in Times, NEW tt \in Times,
             NEW rate \in Rates, AddContact(f, t, ft, tt, rate)
      PROVE  TypeOK'
  BY <1>5 DEF AddContact, Earlier, TypeOK, Contact, rangeVars, neighborVars
<1>6. ASSUME NEW f \in Node, NEW t \in Node, NEW ft \in Times, NEW tt \in Times,
             NEW rate \in Rates, ReviseByAddContact(f, t, ft, tt, rate)
      PROVE  TypeOK'
  BY <1>6 DEF ReviseByAddContact, Deciding, Between, TypeOK, Contact, rangeVars, neighborVars
<1> QED BY <1>1, <1>2, <1>3, <1>4, <1>5, <1>6 DEF ContactStep, EditContacts

LEMMA RangeStepType ==
  ASSUME TypeOK, RangeStep
  PROVE  TypeOK'
<1> USE TimesInEndTime
<1>1. ASSUME NEW f \in Node, NEW t \in Node, RemoveAllRanges(f, t)
      PROVE  TypeOK'
  BY <1>1 DEF RemoveAllRanges, TypeOK, contactVars, neighborVars
<1>2. ASSUME NEW f \in Node, NEW t \in Node, NEW ft \in Times, RemoveRange(f, t, ft)
      PROVE  TypeOK'
  BY <1>2 DEF RemoveRange, TypeOK, contactVars, neighborVars
<1>3. ASSUME NEW f \in Node, NEW t \in Node, NEW ft \in Times, NEW owlt \in Owlts,
             ReviseOwlt(f, t, ft, owlt)
      PROVE  TypeOK'
  BY <1>3 DEF ReviseOwlt, Between, TypeOK, Range, contactVars, neighborVars
<1>4. ASSUME NEW f \in Node, NEW t \in Node, NEW ft \in Times, NEW tt \in Times \cup {0},
             NEW owlt \in Owlts, AddRange(f, t, ft, tt, owlt)
      PROVE  TypeOK'
  <2>1. RangeEnd(tt) \in EndTime
    BY DEF RangeEnd
  <2> QED
    BY <2>1, <1>4 DEF AddRange, Earlier, TypeOK, Range, contactVars, neighborVars
<1>5. ASSUME NEW f \in Node, NEW t \in Node, NEW ft \in Times, NEW tt \in Times \cup {0},
             NEW owlt \in Owlts, ReviseByAddRange(f, t, ft, tt, owlt)
      PROVE  TypeOK'
  BY <1>5 DEF ReviseByAddRange, Deciding, Between, TypeOK, Range, contactVars, neighborVars
<1> QED BY <1>1, <1>2, <1>3, <1>4, <1>5 DEF RangeStep, EditRanges

LEMMA ExpireType ==
  ASSUME TypeOK, NEW t \in Times, RemoveExpired(t)
  PROVE  TypeOK'
<1> USE TimesInEndTime DEF RemoveExpired
<1>1. contacts' \subseteq Contact /\ timeContactToRemove' \in EndTime
  <2>1. CASE t >= timeContactToRemove
    <3>1. contacts' \subseteq Contact
      BY <2>1 DEF RemoveExpiredContacts, Swept, TypeOK
    <3>2. \A c \in Unexpired(contacts, t) : c.toTime \in EndTime
      BY DEF Unexpired, TypeOK, Contact
    <3> QED BY <2>1, <3>1, <3>2, NextExpiryType DEF RemoveExpiredContacts
  <2>2. CASE ~ (t >= timeContactToRemove)
    BY <2>2 DEF RemoveExpiredContacts, contactVars, TypeOK
  <2> QED BY <2>1, <2>2
<1>2. ranges' \subseteq Range /\ timeRangeToRemove' \in EndTime
  <2>1. CASE t >= timeRangeToRemove
    <3>1. ranges' \subseteq Range
      BY <2>1 DEF RemoveExpiredRanges, Swept, TypeOK
    <3>2. \A r \in Unexpired(ranges, t) : r.toTime \in EndTime
      BY DEF Unexpired, TypeOK, Range
    <3> QED BY <2>1, <3>1, <3>2, NextExpiryType DEF RemoveExpiredRanges
  <2>2. CASE ~ (t >= timeRangeToRemove)
    BY <2>2 DEF RemoveExpiredRanges, rangeVars, TypeOK
  <2> QED BY <2>1, <2>2
<1>3. neighbors' \subseteq Neighbor /\ timeNeighborToRemove' \in EndTime
  <2>1. CASE t >= timeNeighborToRemove
    <3>1. neighbors' \subseteq Neighbor
      BY <2>1 DEF RemoveOldNeighbors, Unexpired, TypeOK
    <3>2. \A n \in neighbors' : n.toTime \in EndTime
      BY <3>1 DEF Neighbor
    <3> QED BY <2>1, <3>1, <3>2, NextExpiryType DEF RemoveOldNeighbors
  <2>2. CASE ~ (t >= timeNeighborToRemove)
    BY <2>2 DEF RemoveOldNeighbors, TypeOK
  <2> QED BY <2>1, <2>2
<1> QED BY <1>1, <1>2, <1>3 DEF TypeOK

LEMMA BuildType ==
  ASSUME TypeOK, BuildNeighbors
  PROVE  TypeOK'
<1> USE TimesInEndTime DEF BuildNeighbors
<1>1. neighbors' \subseteq Neighbor
  BY DEF LastContacts, TypeOK, Contact, Neighbor
<1>2. PICK m \in NextExpiry(neighbors') : timeNeighborToRemove' = Earlier(timeNeighborToRemove, m)
  OBVIOUS
<1>3. m \in EndTime
  BY <1>1, NextExpiryType DEF Neighbor
<1> QED BY <1>1, <1>2, <1>3 DEF Earlier, TypeOK, contactVars, rangeVars

\* The state keeps its types whatever the calls: entries have their ends
\* among the offered times, and the caches hold such an end or MaxTime.
THEOREM TypeCorrect == Spec => []TypeOK
<1>1. Init => TypeOK
  BY TimesInEndTime DEF Init, TypeOK
<1>2. TypeOK /\ [Next]_vars => TypeOK'
  <2> SUFFICES ASSUME TypeOK, [Next]_vars PROVE TypeOK'
    OBVIOUS
  <2>1. CASE ContactStep
    BY <2>1, ContactStepType
  <2>2. CASE RangeStep
    BY <2>2, RangeStepType
  <2>3. CASE BuildNeighbors
    BY <2>3, BuildType
  <2>4. CASE ResetNodesTree
    BY <2>4, TimesInEndTime
    DEF ResetNodesTree, ForgetNeighbors, TypeOK, contactVars, rangeVars
  <2>5. ASSUME NEW t \in Times, RemoveExpired(t) PROVE TypeOK'
    BY <2>5, ExpireType
  <2>6. CASE ResetContactPlan
    BY <2>6, TimesInEndTime DEF ResetContactPlan, ForgetPlan, ForgetNeighbors, TypeOK
  <2>7. CASE DestroyContactPlan
    BY <2>7, TimesInEndTime DEF DestroyContactPlan, ForgetPlan, ForgetNeighbors, TypeOK
  <2>8. CASE UNCHANGED vars
    BY <2>8 DEF vars, TypeOK
  <2> QED BY <2>1, <2>2, <2>3, <2>4, <2>5, <2>6, <2>7, <2>8, StepKinds
<1> QED BY <1>1, <1>2, PTL DEF Spec

LEMMA EndsAreNat ==
  ASSUME TypeOK
  PROVE  /\ \A c \in contacts : c.toTime \in Nat /\ c.fromTime \in Nat
         /\ \A r \in ranges : r.toTime \in Nat /\ r.fromTime \in Nat
         /\ \A n \in neighbors : n.toTime \in Nat
         /\ timeContactToRemove \in Nat
         /\ timeRangeToRemove \in Nat
         /\ timeNeighborToRemove \in Nat
BY TimesInEndTime DEF TypeOK, Contact, Range, Neighbor

----------------------------------------------------------------------------
(* Entries of a pair are disjoint or nested, and share no start but with an instant. *)

TimedEntries(S) == \A e \in S : e.fromTime \in Nat /\ e.toTime \in Nat

Ordered(S) == \A e \in S : e.fromTime <= e.toTime

Separate(S) == Ordered(S) /\ KeySharedWithInstant(S) /\ NestedOrDisjoint(S)

\* Among entries, one that starts first.
LEMMA EarliestEntry ==
  ASSUME NEW S, S # {}, \A e \in S : e.fromTime \in Nat
  PROVE  \E e \in S : \A d \in S : e.fromTime <= d.fromTime
<1> DEFINE T == {e.fromTime : e \in S}
<1>1. T \subseteq Nat /\ T # {}
  OBVIOUS
<1>2. PICK m \in T : \A n \in T : m <= n
  BY <1>1, NatMin
<1>3. PICK e \in S : e.fromTime = m
  BY <1>2
<1> QED BY <1>2, <1>3

\* Of entries that start together the longer one comes first, so among some
\* entries of a pair one is first in the order of the tree.
LEMMA FirstEntry ==
  ASSUME NEW S, TimedEntries(S), Separate(S), NEW f, NEW t,
         NEW H, H \subseteq Between(S, f, t), H # {}
  PROVE  \E e \in H : /\ \A d \in H : ~Precedes(d, e)
                     /\ \A d \in H : e.fromTime <= d.fromTime
<1>1. \A e \in H : e \in S /\ e.fromTime \in Nat /\ e.toTime \in Nat /\ e.fromTime <= e.toTime
  BY DEF Between, TimedEntries, Separate, Ordered
<1>2. \A d, e \in H : d.fromTime = e.fromTime /\ d # e => (Instant(d) <=> ~Instant(e))
  BY DEF Separate, KeySharedWithInstant, SameKey, SamePair, Between
<1>3. PICK e \in H : \A d \in H : e.fromTime <= d.fromTime
  BY <1>1, EarliestEntry
<1>4. CASE \A d \in H : ~Precedes(d, e)
  BY <1>3, <1>4
<1>5. ASSUME NEW d \in H, Precedes(d, e)
      PROVE  \E c \in H : (\A b \in H : ~Precedes(b, c)) /\ (\A b \in H : c.fromTime <= b.fromTime)
  <2>1. d.fromTime = e.fromTime /\ d.toTime > e.toTime
    BY <1>1, <1>3, <1>5 DEF Precedes
  <2>2. ~Instant(d)
    BY <1>1, <2>1 DEF Instant
  <2>3. \A b \in H : d.fromTime <= b.fromTime
    BY <1>3, <2>1
  <2>4. ASSUME NEW b \in H, Precedes(b, d)
        PROVE  FALSE
    <3>1. b.fromTime = d.fromTime /\ b.toTime > d.toTime
      BY <1>1, <2>3, <2>4 DEF Precedes
    <3>2. ~Instant(b) /\ b # d
      BY <1>1, <2>1, <3>1 DEF Instant
    <3> QED BY <1>2, <2>2, <3>1, <3>2
  <2> QED BY <2>3, <2>4
<1> QED BY <1>4, <1>5

\* An insertion that is not decided by an entry meets no hit: what stops the
\* scan before the first hit starts no sooner than the offered end, and a hit
\* does not start later.
LEMMA NoHit ==
  ASSUME NEW S, TimedEntries(S), Separate(S), NEW f, NEW t,
         NEW ft \in Nat, NEW tt \in Nat, ft <= tt,
         Deciding(S, f, t, ft, tt) = {}
  PROVE  \A e \in Between(S, f, t) : ~Hits(e, ft, tt)
<1> DEFINE H == {e \in Between(S, f, t) : Hits(e, ft, tt)}
<1> SUFFICES ASSUME H # {} PROVE FALSE
  OBVIOUS
<1>1. \A e \in Between(S, f, t) : e.fromTime \in Nat /\ e.toTime \in Nat /\ e.fromTime <= e.toTime
  BY DEF Between, TimedEntries, Separate, Ordered
<1>2. PICK e \in H : \A d \in H : ~Precedes(d, e)
  <2>1. H \subseteq Between(S, f, t)
    OBVIOUS
  <2> QED BY <2>1, FirstEntry
<1>3. PICK d \in Between(S, f, t) : Precedes(d, e) /\ Stops(d, ft, tt)
  BY <1>2 DEF Deciding
<1>4. ~Hits(d, ft, tt)
  BY <1>2, <1>3
<1>5. tt <= d.fromTime
  BY <1>3, <1>4 DEF Stops
<1>6. e.fromTime <= ft \/ e.fromTime < tt
  BY <1>1, <1>2 DEF Hits, SameInterval
<1>7. d.fromTime = e.fromTime /\ d.fromTime = ft /\ e.toTime < d.toTime
  BY <1>1, <1>2, <1>3, <1>5, <1>6 DEF Precedes
<1>8. e.fromTime <= e.toTime /\ e.toTime \in Nat /\ d.toTime \in Nat
  BY <1>1, <1>2
<1>9. ft < d.toTime
  BY <1>7, <1>8
<1> QED BY <1>4, <1>7, <1>9 DEF Hits

LEMMA SeparateSubset ==
  ASSUME NEW S, NEW T, T \subseteq S, Separate(S)
  PROVE  Separate(T)
BY DEF Separate, Ordered, KeySharedWithInstant, NestedOrDisjoint

\* A revision keeps the pair and the interval.
LEMMA SeparateRevise ==
  ASSUME NEW S, TimedEntries(S), Separate(S), NEW old \in S, NEW new,
         SamePair(old, new), SameInterval(new, old.fromTime, old.toTime)
  PROVE  Separate((S \ {old}) \cup {new})
<1> DEFINE T == (S \ {old}) \cup {new}
<1>1. Ordered(T)
  BY DEF Separate, Ordered, SameInterval
<1>2. KeySharedWithInstant(T)
  <2> SUFFICES ASSUME NEW d \in T, NEW e \in T, SameKey(d, e), d # e
               PROVE  (Instant(d) <=> ~Instant(e))
    BY DEF KeySharedWithInstant
  <2>1. CASE d \in S /\ e \in S
    BY <2>1 DEF Separate, KeySharedWithInstant
  <2>2. CASE d = new /\ e \in S /\ e # old
    <3>1. SameKey(old, e) /\ (Instant(old) <=> Instant(d))
      BY <2>2 DEF SameKey, SamePair, SameInterval, Instant
    <3> QED BY <2>2, <3>1 DEF Separate, KeySharedWithInstant
  <2>3. CASE e = new /\ d \in S /\ d # old
    <3>1. SameKey(d, old) /\ (Instant(old) <=> Instant(e))
      BY <2>3 DEF SameKey, SamePair, SameInterval, Instant
    <3> QED BY <2>3, <3>1 DEF Separate, KeySharedWithInstant
  <2> QED BY <2>1, <2>2, <2>3
<1>3. NestedOrDisjoint(T)
  <2> SUFFICES ASSUME NEW d \in T, NEW e \in T, SamePair(d, e), d # e
               PROVE  Disjoint(d, e) \/ StrictlyInside(d, e) \/ StrictlyInside(e, d)
    BY DEF NestedOrDisjoint
  <2>1. CASE d \in S /\ e \in S
    BY <2>1 DEF Separate, NestedOrDisjoint
  <2>2. CASE d = new /\ e \in S /\ e # old
    BY <2>2 DEF Separate, NestedOrDisjoint, SamePair, SameInterval, Disjoint, StrictlyInside
  <2>3. CASE e = new /\ d \in S /\ d # old
    BY <2>3 DEF Separate, NestedOrDisjoint, SamePair, SameInterval, Disjoint, StrictlyInside
  <2> QED BY <2>1, <2>2, <2>3
<1> QED BY <1>1, <1>2, <1>3 DEF Separate

\* An entry that the scan lets in has no hit in its pair.
LEMMA SeparateInsert ==
  ASSUME NEW S, TimedEntries(S), Separate(S), NEW new,
         new.fromTime \in Nat, new.toTime \in Nat, new.fromTime <= new.toTime,
         Deciding(S, new.from, new.to, new.fromTime, new.toTime) = {}
  PROVE  /\ Separate(S \cup {new})
         /\ \A d \in S : SameKey(d, new) => Instant(d) /\ new.fromTime < new.toTime
<1> DEFINE ft == new.fromTime
           tt == new.toTime
<1>1. ASSUME NEW d \in S, SamePair(d, new)
      PROVE  ~Hits(d, ft, tt) /\ d.fromTime \in Nat /\ d.toTime \in Nat /\ d.fromTime <= d.toTime
  BY <1>1, NoHit DEF Between, SamePair, TimedEntries, Separate, Ordered
<1>2. ASSUME NEW d \in S, SamePair(d, new)
      PROVE  Disjoint(d, new) \/ StrictlyInside(d, new)
  BY <1>1, <1>2 DEF Hits, Disjoint, StrictlyInside
<1>3. ASSUME NEW d \in S, SameKey(d, new)
      PROVE  Instant(d) /\ new.fromTime < new.toTime
  <2>1. SamePair(d, new) /\ d.fromTime = ft
    BY <1>3 DEF SameKey
  <2>2. d.toTime = ft
    BY <1>1, <2>1 DEF Hits
  <2>3. tt # ft
    BY <1>1, <2>1, <2>2 DEF Hits, SameInterval
  <2> QED BY <2>1, <2>2, <2>3 DEF Instant
<1>4. Ordered(S \cup {new})
  BY DEF Separate, Ordered
<1>5. KeySharedWithInstant(S \cup {new})
  <2> SUFFICES ASSUME NEW d \in S \cup {new}, NEW e \in S \cup {new}, SameKey(d, e), d # e
               PROVE  (Instant(d) <=> ~Instant(e))
    BY DEF KeySharedWithInstant
  <2>1. CASE d \in S /\ e \in S
    BY <2>1 DEF Separate, KeySharedWithInstant
  <2>2. CASE d \in S /\ e = new
    BY <1>3, <2>2 DEF Instant
  <2>3. CASE e \in S /\ d = new
    BY <1>3, <2>3 DEF SameKey, SamePair, Instant
  <2> QED BY <2>1, <2>2, <2>3
<1>6. NestedOrDisjoint(S \cup {new})
  BY <1>2 DEF Separate, NestedOrDisjoint, SamePair, Disjoint, StrictlyInside
<1> QED BY <1>3, <1>4, <1>5, <1>6 DEF Separate

----------------------------------------------------------------------------
(* What one call can do to a tree. *)

Inserted(S, T) ==
  \E new :
     /\ new.fromTime \in Nat /\ new.toTime \in Nat
     /\ new.fromTime <= new.toTime /\ new.toTime <= MaxTime
     /\ Deciding(S, new.from, new.to, new.fromTime, new.toTime) = {}
     /\ T = S \cup {new}

Revised(S, T) ==
  \E old \in S : \E new :
     /\ SamePair(old, new)
     /\ SameInterval(new, old.fromTime, old.toTime)
     /\ T = (S \ {old}) \cup {new}

Removed(S, T) ==
  /\ T \subseteq S
  /\ \A d, e \in S \ T : SamePair(d, e)

Registered(S, T) ==
  \E n : /\ \A c \in Between(S, n, n) : c.fromTime # MaxTime
         /\ T = S \cup {Registration(n)}

Edited(S, T) == Inserted(S, T) \/ Revised(S, T) \/ Removed(S, T)

LEMMA ContactStepEdits ==
  ASSUME TypeOK, ContactStep
  PROVE  /\ Edited(contacts, contacts') \/ Registered(contacts, contacts')
         /\ UNCHANGED <<ranges, now>>
<1> USE TimesInEndTime, EndsAreNat
<1> DEFINE Goal == /\ Edited(contacts, contacts') \/ Registered(contacts, contacts')
                   /\ UNCHANGED <<ranges, now>>
<1>1. ASSUME NEW n \in Node, AddRegistration(n)
      PROVE  Goal
  BY <1>1 DEF AddRegistration, Registered, rangeVars
<1>2. ASSUME NEW f \in Node, NEW t \in Node, RemoveAllContacts(f, t)
      PROVE  Goal
  BY <1>2 DEF RemoveAllContacts, Between, Edited, Removed, SamePair, rangeVars
<1>3. ASSUME NEW f \in Node, NEW t \in Node, NEW ft \in Times \cup {-1}, RemoveContact(f, t, ft)
      PROVE  Goal
  BY <1>3 DEF RemoveContact, Foremost, Between, Edited, Removed, SamePair, rangeVars
<1>4. ASSUME NEW c \in contacts, NEW rate, contacts' = (contacts \ {c}) \cup {[c EXCEPT !.xmitRate = rate]}
      PROVE  Revised(contacts, contacts')
  <2>1. SamePair(c, [c EXCEPT !.xmitRate = rate])
    BY DEF TypeOK, Contact, SamePair
  <2>2. SameInterval([c EXCEPT !.xmitRate = rate], c.fromTime, c.toTime)
    BY DEF TypeOK, Contact, SameInterval
  <2> QED BY <1>4, <2>1, <2>2 DEF Revised
<1>5. ASSUME NEW f \in Node, NEW t \in Node, NEW ft \in EndTime, NEW rate \in Rates,
             ReviseXmitRate(f, t, ft, rate)
      PROVE  Goal
  BY <1>4, <1>5 DEF ReviseXmitRate, Between, Edited, rangeVars
<1>6. ASSUME NEW f \in Node, NEW t \in Node, NEW ft \in Times, NEW tt \in Times,
             NEW rate \in Rates, AddContact(f, t, ft, tt, rate)
      PROVE  Goal
  <2> DEFINE new == [from |-> f, to |-> t, fromTime |-> ft, toTime |-> tt, xmitRate |-> rate]
  <2>1. new.fromTime <= new.toTime /\ new.toTime <= MaxTime
    BY <1>6, ContactPlanAssumption, MaxTimeAssumption DEF AddContact
  <2> QED BY <1>6, <2>1 DEF AddContact, Edited, Inserted, rangeVars
<1>7. ASSUME NEW f \in Node, NEW t \in Node, NEW ft \in Times, NEW tt \in Times,
             NEW rate \in Rates, ReviseByAddContact(f, t, ft, tt, rate)
      PROVE  Goal
  BY <1>4, <1>7 DEF ReviseByAddContact, Deciding, Between, Edited, rangeVars
<1> QED BY <1>1, <1>2, <1>3, <1>5, <1>6, <1>7 DEF ContactStep, EditContacts

LEMMA RangeStepEdits ==
  ASSUME TypeOK, RangeStep
  PROVE  Edited(ranges, ranges') /\ UNCHANGED <<contacts, now>>
<1> USE TimesInEndTime, EndsAreNat
<1> DEFINE Goal == Edited(ranges, ranges') /\ UNCHANGED <<contacts, now>>
<1>1. ASSUME NEW f \in Node, NEW t \in Node, RemoveAllRanges(f, t)
      PROVE  Goal
  BY <1>1 DEF RemoveAllRanges, Between, Edited, Removed, SamePair, contactVars
<1>2. ASSUME NEW f \in Node, NEW t \in Node, NEW ft \in Times, RemoveRange(f, t, ft)
      PROVE  Goal
  BY <1>2 DEF RemoveRange, Foremost, Between, Edited, Removed, SamePair, contactVars
<1>3. ASSUME NEW r \in ranges, NEW owlt, ranges' = (ranges \ {r}) \cup {[r EXCEPT !.owlt = owlt]}
      PROVE  Revised(ranges, ranges')
  <2>1. SamePair(r, [r EXCEPT !.owlt = owlt])
    BY DEF TypeOK, Range, SamePair
  <2>2. SameInterval([r EXCEPT !.owlt = owlt], r.fromTime, r.toTime)
    BY DEF TypeOK, Range, SameInterval
  <2> QED BY <1>3, <2>1, <2>2 DEF Revised
<1>4. ASSUME NEW f \in Node, NEW t \in Node, NEW ft \in Times, NEW owlt \in Owlts,
             ReviseOwlt(f, t, ft, owlt)
      PROVE  Goal
  BY <1>3, <1>4 DEF ReviseOwlt, Between, Edited, contactVars
<1>5. ASSUME NEW f \in Node, NEW t \in Node, NEW ft \in Times, NEW tt \in Times \cup {0},
             NEW owlt \in Owlts, AddRange(f, t, ft, tt, owlt)
      PROVE  Goal
  <2> DEFINE new == [from |-> f, to |-> t, fromTime |-> ft, toTime |-> RangeEnd(tt), owlt |-> owlt]
  <2>1. RangeEnd(tt) \in Nat /\ RangeEnd(tt) <= MaxTime
    BY ContactPlanAssumption, MaxTimeAssumption DEF RangeEnd
  <2>2. new.fromTime <= new.toTime
    BY <1>5 DEF AddRange
  <2> QED BY <1>5, <2>1, <2>2 DEF AddRange, Edited, Inserted, contactVars
<1>6. ASSUME NEW f \in Node, NEW t \in Node, NEW ft \in Times, NEW tt \in Times \cup {0},
             NEW owlt \in Owlts, ReviseByAddRange(f, t, ft, tt, owlt)
      PROVE  Goal
  BY <1>3, <1>6 DEF ReviseByAddRange, Deciding, Between, Edited, contactVars
<1> QED BY <1>1, <1>2, <1>4, <1>5, <1>6 DEF RangeStep, EditRanges

LEMMA EntriesAreTimed ==
  ASSUME TypeOK
  PROVE  TimedEntries(contacts) /\ TimedEntries(ranges)
BY EndsAreNat DEF TimedEntries

LEMMA EditKeepsSeparate ==
  ASSUME NEW S, NEW T, TimedEntries(S), Separate(S), Edited(S, T)
  PROVE  Separate(T)
<1>1. CASE Inserted(S, T)
  BY <1>1, SeparateInsert DEF Inserted
<1>2. CASE Revised(S, T)
  BY <1>2, SeparateRevise DEF Revised
<1>3. CASE Removed(S, T)
  BY <1>3, SeparateSubset DEF Removed
<1> QED BY <1>1, <1>2, <1>3 DEF Edited

\* A registration starts and ends at MaxTime, where nothing else starts.
LEMMA RegistrationKeepsSeparate ==
  ASSUME NEW S, NEW T, TimedEntries(S), \A e \in S : e.toTime <= MaxTime,
         Separate(S), Registered(S, T)
  PROVE  Separate(T)
<1>1. PICK n : /\ \A c \in Between(S, n, n) : c.fromTime # MaxTime
               /\ T = S \cup {Registration(n)}
  BY DEF Registered
<1>2. Ordered(T)
  BY <1>1, MaxTimeAssumption DEF Separate, Ordered, Registration
<1>3. KeySharedWithInstant(T)
  <2>1. ASSUME NEW c \in S
        PROVE  ~SameKey(c, Registration(n)) /\ ~SameKey(Registration(n), c)
    BY <1>1 DEF SameKey, SamePair, Between, Registration
  <2> QED BY <1>1, <2>1 DEF Separate, KeySharedWithInstant
<1>4. NestedOrDisjoint(T)
  BY <1>1 DEF Separate, NestedOrDisjoint, SamePair, Disjoint, Registration
<1> QED BY <1>2, <1>3, <1>4 DEF Separate

LEMMA EndsInPlan ==
  ASSUME TypeOK
  PROVE  \A c \in contacts : c.toTime <= MaxTime
<1>1. \A x \in EndTime : x <= MaxTime
  BY ContactPlanAssumption, MaxTimeAssumption DEF EndTime
<1> QED BY <1>1 DEF TypeOK, Contact

\* Apart from the edits, entries only go.
LEMMA OtherSteps ==
  ASSUME [Next]_vars
  PROVE  \/ ContactStep \/ RangeStep
         \/ \E t \in Times : RemoveExpired(t)
         \/ UNCHANGED <<contacts, ranges, now>>
         \/ contacts' = {} /\ ranges' = {} /\ UNCHANGED now
<1>1. CASE BuildNeighbors
  BY <1>1 DEF BuildNeighbors, contactVars, rangeVars
<1>2. CASE ResetNodesTree
  BY <1>2 DEF ResetNodesTree, contactVars, rangeVars
<1>3. CASE ResetContactPlan \/ DestroyContactPlan
  BY <1>3 DEF ResetContactPlan, DestroyContactPlan, ForgetPlan
<1>4. CASE UNCHANGED vars
  BY <1>4 DEF vars
<1> QED BY <1>1, <1>2, <1>3, <1>4, StepKinds

LEMMA SweepOnlyRemoves ==
  ASSUME NEW t \in Times, RemoveExpired(t)
  PROVE  contacts' \subseteq contacts /\ ranges' \subseteq ranges
BY DEF RemoveExpired, RemoveExpiredContacts, RemoveExpiredRanges, Swept, contactVars, rangeVars

SeparateEntries == Separate(contacts) /\ Separate(ranges)

\* Entries never end before they start, two that share their start are an
\* instant and a longer one, and two of a pair are disjoint or nested.
THEOREM SeparateCorrect == Spec => []SeparateEntries
<1>1. Init => SeparateEntries
  BY DEF Init, SeparateEntries, Separate, Ordered, KeySharedWithInstant, NestedOrDisjoint
<1>2. TypeOK /\ SeparateEntries /\ [Next]_vars => SeparateEntries'
  <2> SUFFICES ASSUME TypeOK, SeparateEntries, [Next]_vars
               PROVE  SeparateEntries'
    OBVIOUS
  <2> USE DEF SeparateEntries
  <2>1. CASE ContactStep
    BY <2>1, ContactStepEdits, EntriesAreTimed, EndsInPlan,
       EditKeepsSeparate, RegistrationKeepsSeparate
  <2>2. CASE RangeStep
    BY <2>2, RangeStepEdits, EntriesAreTimed, EditKeepsSeparate
  <2>3. CASE \E t \in Times : RemoveExpired(t)
    BY <2>3, SeparateSubset, SweepOnlyRemoves
  <2>4. CASE UNCHANGED <<contacts, ranges, now>>
    BY <2>4
  <2>5. CASE contacts' = {} /\ ranges' = {} /\ UNCHANGED now
    BY <2>5, SeparateSubset
  <2> QED BY <2>1, <2>2, <2>3, <2>4, <2>5, OtherSteps
<1> QED BY <1>1, <1>2, TypeCorrect, PTL DEF Spec

\* Two entries of a pair share the start by which the trees search only if one
\* of them is an instant and the other is not.
THEOREM KeysCorrect == Spec => []KeysAlmostUnique
<1>1. SeparateEntries => KeysAlmostUnique
  BY DEF SeparateEntries, Separate, KeysAlmostUnique
<1> QED BY <1>1, SeparateCorrect, PTL

\* Two entries of a pair are disjoint or one lies strictly inside the other.
THEOREM NestingCorrect == Spec => []PlanNestedOrDisjoint
<1>1. SeparateEntries => PlanNestedOrDisjoint
  BY DEF SeparateEntries, Separate, PlanNestedOrDisjoint
<1> QED BY <1>1, SeparateCorrect, PTL

----------------------------------------------------------------------------
(* The lookup. *)

LEMMA LookupFinds ==
  ASSUME NEW S, TimedEntries(S), Separate(S), NEW f, NEW t, NEW x \in Nat
  PROVE  Applicable(S, f, t, x) # {}
           <=> \E r \in Between(S, f, t) :
                 /\ Covers(r, x)
                 /\ \A d \in Between(S, f, t) : d.fromTime < r.fromTime => d.toTime # x
<1> DEFINE C == {r \in Between(S, f, t) : Covers(r, x)}
           Clear(r) == \A d \in Between(S, f, t) : d.fromTime < r.fromTime => d.toTime # x
<1>1. \A e \in Between(S, f, t) : e.fromTime \in Nat /\ e.toTime \in Nat
  BY DEF Between, TimedEntries
<1>2. ASSUME NEW r \in Applicable(S, f, t, x)
      PROVE  r \in C /\ Clear(r)
  BY <1>1, <1>2 DEF Applicable, Precedes
<1>3. ASSUME NEW q \in C, Clear(q)
      PROVE  Applicable(S, f, t, x) # {}
  <2>1. C \subseteq Between(S, f, t) /\ C # {}
    OBVIOUS
  <2>2. PICK r \in C : (\A d \in C : ~Precedes(d, r)) /\ (\A d \in C : r.fromTime <= d.fromTime)
    BY <2>1, FirstEntry
  <2>3. ASSUME NEW d \in Between(S, f, t), Precedes(d, r)
        PROVE  d.toTime < x
    <3>1. d \notin C
      BY <2>2, <2>3
    <3>2. d.fromTime <= x /\ d.toTime <= x
      BY <1>1, <2>2, <2>3, <3>1 DEF Covers, Precedes
    <3>3. d.fromTime < r.fromTime
      BY <1>1, <2>2, <2>3, <3>2 DEF Covers, Precedes
    <3>4. d.toTime # x
      BY <1>1, <1>3, <2>2, <3>3
    <3> QED BY <1>1, <3>2, <3>4
  <2> QED BY <2>2, <2>3 DEF Applicable
<1> QED BY <1>2, <1>3

\* get_applicable_range finds a range in force exactly when one is in force
\* before which no range of the pair ends at that time.
THEOREM LookupCorrect == Spec => []LookupFindsRange
<1>1. TypeOK /\ SeparateEntries => LookupFindsRange
  <2> SUFFICES ASSUME TypeOK, SeparateEntries, NEW p \in RangePairs, NEW x \in Times
               PROVE  Applicable(ranges, p[1], p[2], x) # {}
                        <=> \E r \in Between(ranges, p[1], p[2]) :
                              /\ Covers(r, x)
                              /\ \A d \in Between(ranges, p[1], p[2]) :
                                    d.fromTime < r.fromTime => d.toTime # x
    BY DEF LookupFindsRange
  <2>1. TimedEntries(ranges) /\ x \in Nat
    BY EntriesAreTimed, TimesInEndTime
  <2> QED BY <2>1, LookupFinds DEF SeparateEntries
<1> QED BY <1>1, TypeCorrect, SeparateCorrect, PTL

----------------------------------------------------------------------------
(* Expiry caches. *)

LEMMA EarlierBound ==
  ASSUME NEW a \in Nat, NEW b \in Nat
  PROVE  Earlier(a, b) <= a /\ Earlier(a, b) <= b /\ Earlier(a, b) \in Nat
BY DEF Earlier

\* The bound survives an insertion that lowers the cache to the new end, and
\* any change that brings no new end.
LEMMA CacheSoundInsert ==
  ASSUME NEW S, NEW T, NEW cache \in Nat, NEW end \in Nat,
         \A e \in S : e.toTime \in Nat,
         \A e \in T : e \in S \/ e.toTime = end,
         CacheSound(cache, WithLength(S))
  PROVE  CacheSound(Earlier(cache, end), WithLength(T))
BY EarlierBound DEF CacheSound, Earlier, WithLength

LEMMA CacheSoundNoNewEnd ==
  ASSUME NEW S, NEW T, NEW cache,
         \A e \in T : \E d \in S : d.fromTime = e.fromTime /\ d.toTime = e.toTime,
         CacheSound(cache, WithLength(S))
  PROVE  CacheSound(cache, WithLength(T))
BY DEF CacheSound, WithLength, Instant

LEMMA CacheSoundSubset ==
  ASSUME NEW S, NEW T, T \subseteq S, NEW cache, CacheSound(cache, WithLength(S))
  PROVE  CacheSound(cache, WithLength(T))
BY DEF CacheSound, WithLength

LEMMA NextExpirySound ==
  ASSUME NEW S, NEW m \in NextExpiry(S)
  PROVE  CacheSound(m, S)
BY DEF NextExpiry, CacheSound

\* Of what has a length a sweep leaves the unexpired alone: an expired entry stays
\* only beside an unexpired one of its start, and then it is an instant.
LEMMA SweptWithLength ==
  ASSUME NEW S, NEW x \in Nat, \A e \in S : e.toTime \in Nat, KeySharedWithInstant(S),
         \A e \in S : e.fromTime <= e.toTime, \A e \in S : e.fromTime \in Nat
  PROVE  WithLength(Swept(S, x)) \subseteq Unexpired(S, x)
<1> SUFFICES ASSUME NEW e \in Swept(S, x), ~Instant(e), e \notin Unexpired(S, x)
             PROVE  FALSE
  BY DEF WithLength, Swept
<1>1. PICK d \in Unexpired(S, x) : SameKey(d, e)
  BY DEF Swept
<1>2. d \in S /\ e \in S /\ d # e
  BY <1>1 DEF Unexpired, Swept
<1>3. Instant(d)
  BY <1>1, <1>2 DEF KeySharedWithInstant
<1>4. d.toTime = e.fromTime /\ d.toTime > x /\ e.toTime <= x
  BY <1>1, <1>2, <1>3 DEF SameKey, Instant, Unexpired
<1> QED BY <1>2, <1>4

LEMMA ContactsSweptWithLength ==
  ASSUME TypeOK, SeparateEntries, NEW t \in Times
  PROVE  WithLength(Swept(contacts, t)) \subseteq Unexpired(contacts, t)
BY SweptWithLength, EndsAreNat, TimesInEndTime DEF SeparateEntries, Separate, Ordered

LEMMA RangesSweptWithLength ==
  ASSUME TypeOK, SeparateEntries, NEW t \in Times
  PROVE  WithLength(Swept(ranges, t)) \subseteq Unexpired(ranges, t)
BY SweptWithLength, EndsAreNat, TimesInEndTime DEF SeparateEntries, Separate, Ordered

LEMMA ContactStepCache ==
  ASSUME TypeOK, ExpiryCachesSound, ContactStep
  PROVE  ExpiryCachesSound'
<1> USE EndsAreNat DEF ExpiryCachesSound
<1>1. ASSUME NEW n \in Node, AddRegistration(n)
      PROVE  ExpiryCachesSound'
  <2>1. \A c \in contacts' : c \in contacts \/ c.toTime = MaxTime
    BY <1>1 DEF AddRegistration, Registration
  <2>2. timeContactToRemove <= MaxTime
    BY TimesInEndTime, ContactPlanAssumption, MaxTimeAssumption DEF TypeOK, EndTime
  <2> QED
    BY <1>1, <2>1, <2>2 DEF AddRegistration, rangeVars, neighborVars, CacheSound, WithLength
<1>2. ASSUME NEW f \in Node, NEW t \in Node, RemoveAllContacts(f, t)
      PROVE  ExpiryCachesSound'
  BY <1>2, CacheSoundSubset DEF RemoveAllContacts, rangeVars, neighborVars
<1>3. ASSUME NEW f \in Node, NEW t \in Node, NEW ft \in Times \cup {-1}, RemoveContact(f, t, ft)
      PROVE  ExpiryCachesSound'
  BY <1>3, CacheSoundSubset DEF RemoveContact, rangeVars, neighborVars
<1>4. ASSUME NEW f \in Node, NEW t \in Node, NEW ft \in EndTime, NEW rate \in Rates,
             ReviseXmitRate(f, t, ft, rate)
      PROVE  ExpiryCachesSound'
  <2>1. \A e \in contacts' : \E d \in contacts : d.fromTime = e.fromTime /\ d.toTime = e.toTime
    BY <1>4 DEF ReviseXmitRate, Between, TypeOK, Contact
  <2> QED BY <1>4, <2>1, CacheSoundNoNewEnd DEF ReviseXmitRate, rangeVars, neighborVars
<1>5. ASSUME NEW f \in Node, NEW t \in Node, NEW ft \in Times, NEW tt \in Times,
             NEW rate \in Rates, AddContact(f, t, ft, tt, rate)
      PROVE  ExpiryCachesSound'
  <2>1. \A e \in contacts' : e \in contacts \/ e.toTime = tt
    BY <1>5 DEF AddContact
  <2>2. CacheSound(timeContactToRemove, WithLength(contacts))'
    BY <1>5, <2>1, CacheSoundInsert, TimesInEndTime DEF AddContact
  <2> QED BY <1>5, <2>2 DEF AddContact, rangeVars, neighborVars
<1>6. ASSUME NEW f \in Node, NEW t \in Node, NEW ft \in Times, NEW tt \in Times,
             NEW rate \in Rates, ReviseByAddContact(f, t, ft, tt, rate)
      PROVE  ExpiryCachesSound'
  <2>1. \A e \in contacts' : \E d \in contacts : d.fromTime = e.fromTime /\ d.toTime = e.toTime
    BY <1>6 DEF ReviseByAddContact, Deciding, Between, TypeOK, Contact
  <2> QED BY <1>6, <2>1, CacheSoundNoNewEnd DEF ReviseByAddContact, rangeVars, neighborVars
<1> QED BY <1>1, <1>2, <1>3, <1>4, <1>5, <1>6 DEF ContactStep, EditContacts

LEMMA RangeStepCache ==
  ASSUME TypeOK, ExpiryCachesSound, RangeStep
  PROVE  ExpiryCachesSound'
<1> USE EndsAreNat DEF ExpiryCachesSound
<1>1. ASSUME NEW f \in Node, NEW t \in Node, RemoveAllRanges(f, t)
      PROVE  ExpiryCachesSound'
  BY <1>1, CacheSoundSubset DEF RemoveAllRanges, contactVars, neighborVars
<1>2. ASSUME NEW f \in Node, NEW t \in Node, NEW ft \in Times, RemoveRange(f, t, ft)
      PROVE  ExpiryCachesSound'
  BY <1>2, CacheSoundSubset DEF RemoveRange, contactVars, neighborVars
<1>3. ASSUME NEW f \in Node, NEW t \in Node, NEW ft \in Times, NEW owlt \in Owlts,
             ReviseOwlt(f, t, ft, owlt)
      PROVE  ExpiryCachesSound'
  <2>1. \A e \in ranges' : \E d \in ranges : d.fromTime = e.fromTime /\ d.toTime = e.toTime
    BY <1>3 DEF ReviseOwlt, Between, TypeOK, Range
  <2> QED BY <1>3, <2>1, CacheSoundNoNewEnd DEF ReviseOwlt, contactVars, neighborVars
<1>4. ASSUME NEW f \in Node, NEW t \in Node, NEW ft \in Times, NEW tt \in Times \cup {0},
             NEW owlt \in Owlts, AddRange(f, t, ft, tt, owlt)
      PROVE  ExpiryCachesSound'
  <2>1. RangeEnd(tt) \in Nat
    BY TimesInEndTime DEF RangeEnd
  <2>2. \A e \in ranges' : e \in ranges \/ e.toTime = RangeEnd(tt)
    BY <1>4 DEF AddRange
  <2>3. CacheSound(timeRangeToRemove, WithLength(ranges))'
    BY <1>4, <2>1, <2>2, CacheSoundInsert DEF AddRange
  <2> QED BY <1>4, <2>3 DEF AddRange, contactVars, neighborVars
<1>5. ASSUME NEW f \in Node, NEW t \in Node, NEW ft \in Times, NEW tt \in Times \cup {0},
             NEW owlt \in Owlts, ReviseByAddRange(f, t, ft, tt, owlt)
      PROVE  ExpiryCachesSound'
  <2>1. \A e \in ranges' : \E d \in ranges : d.fromTime = e.fromTime /\ d.toTime = e.toTime
    BY <1>5 DEF ReviseByAddRange, Deciding, Between, TypeOK, Range
  <2> QED BY <1>5, <2>1, CacheSoundNoNewEnd DEF ReviseByAddRange, contactVars, neighborVars
<1> QED BY <1>1, <1>2, <1>3, <1>4, <1>5 DEF RangeStep, EditRanges

LEMMA ExpireCache ==
  ASSUME TypeOK, SeparateEntries, ExpiryCachesSound, NEW t \in Times, RemoveExpired(t)
  PROVE  ExpiryCachesSound'
<1> USE DEF RemoveExpired, ExpiryCachesSound
<1>1. CacheSound(timeContactToRemove, WithLength(contacts))'
  <2>1. CASE t >= timeContactToRemove
    BY <2>1, ContactsSweptWithLength, NextExpirySound DEF RemoveExpiredContacts, CacheSound
  <2>2. CASE ~ (t >= timeContactToRemove)
    BY <2>2 DEF RemoveExpiredContacts, contactVars
  <2> QED BY <2>1, <2>2
<1>2. CacheSound(timeRangeToRemove, WithLength(ranges))'
  <2>1. CASE t >= timeRangeToRemove
    BY <2>1, RangesSweptWithLength, NextExpirySound DEF RemoveExpiredRanges, CacheSound
  <2>2. CASE ~ (t >= timeRangeToRemove)
    BY <2>2 DEF RemoveExpiredRanges, rangeVars
  <2> QED BY <2>1, <2>2
<1>3. CacheSound(timeNeighborToRemove, neighbors)'
  BY NextExpirySound DEF RemoveOldNeighbors, CacheSound
<1> QED BY <1>1, <1>2, <1>3

LEMMA BuildCache ==
  ASSUME TypeOK, ExpiryCachesSound, BuildNeighbors
  PROVE  ExpiryCachesSound'
<1>1. PICK m \in NextExpiry(neighbors') : timeNeighborToRemove' = Earlier(timeNeighborToRemove, m)
  BY DEF BuildNeighbors
<1>2. neighbors' \subseteq Neighbor
  BY DEF BuildNeighbors, LastContacts, TypeOK, Contact, Neighbor
<1>3. m \in Nat
  BY <1>2, NextExpiryType, TimesInEndTime DEF Neighbor
<1>4. \A n \in neighbors' : n.toTime \in Nat
  BY <1>2, TimesInEndTime DEF Neighbor
<1>5. CacheSound(timeNeighborToRemove, neighbors)'
  BY <1>1, <1>3, <1>4, EndsAreNat DEF Earlier, NextExpiry, CacheSound
<1> QED BY <1>5 DEF BuildNeighbors, ExpiryCachesSound, contactVars, rangeVars

\* The three cached expiry times never pass the first expiry of what has a
\* length.  Only instants escape: one that a sweep left behind is in no cache.
THEOREM CachesCorrect == Spec => []ExpiryCachesSound
<1>1. Init => ExpiryCachesSound
  BY DEF Init, ExpiryCachesSound, CacheSound, WithLength
<1>2. TypeOK /\ SeparateEntries /\ ExpiryCachesSound /\ [Next]_vars => ExpiryCachesSound'
  <2> SUFFICES ASSUME TypeOK, SeparateEntries, ExpiryCachesSound, [Next]_vars
               PROVE  ExpiryCachesSound'
    OBVIOUS
  <2>1. CASE ContactStep
    BY <2>1, ContactStepCache
  <2>2. CASE RangeStep
    BY <2>2, RangeStepCache
  <2>3. CASE BuildNeighbors
    BY <2>3, BuildCache
  <2>4. CASE ResetNodesTree
    BY <2>4 DEF ResetNodesTree, ForgetNeighbors, ExpiryCachesSound, CacheSound, contactVars, rangeVars
  <2>5. ASSUME NEW t \in Times, RemoveExpired(t) PROVE ExpiryCachesSound'
    BY <2>5, ExpireCache
  <2>6. CASE ResetContactPlan
    BY <2>6 DEF ResetContactPlan, ForgetPlan, ForgetNeighbors, ExpiryCachesSound, CacheSound, WithLength
  <2>7. CASE DestroyContactPlan
    BY <2>7 DEF DestroyContactPlan, ForgetPlan, ForgetNeighbors, ExpiryCachesSound, CacheSound, WithLength
  <2>8. CASE UNCHANGED vars
    BY <2>8 DEF vars, ExpiryCachesSound, CacheSound
  <2> QED BY <2>1, <2>2, <2>3, <2>4, <2>5, <2>6, <2>7, <2>8, StepKinds
<1> QED BY <1>1, <1>2, TypeCorrect, SeparateCorrect, PTL DEF Spec

----------------------------------------------------------------------------
(* The sweeps are exact. *)

\* A sweep does as it should to a tree whose cache is sound: if it is skipped,
\* nothing that has a length has expired.
LEMMA SweepExact ==
  ASSUME NEW S, NEW T, NEW x \in Nat, NEW cache \in Nat,
         TimedEntries(S), Separate(S), CacheSound(cache, WithLength(S)),
         T = IF x >= cache THEN Swept(S, x) ELSE S
  PROVE  ExpiredWent(S, T, x)
<1>1. CASE x >= cache
  <2>1. WithLength(T) \subseteq Unexpired(S, x)
    BY <1>1, SweptWithLength DEF TimedEntries, Separate, Ordered
  <2>2. ASSUME NEW e \in S \ T
        PROVE  \E d \in S : SameKey(d, e) /\ d.toTime <= x
    <3>1. CASE e \in Unexpired(S, x)
      BY <1>1, <2>2, <3>1 DEF Swept, TimedEntries
    <3>2. CASE e \notin Unexpired(S, x)
      BY <2>2, <3>2 DEF Unexpired, SameKey, SamePair, TimedEntries
    <3> QED BY <3>1, <3>2
  <2> QED BY <1>1, <2>1, <2>2 DEF ExpiredWent, Swept
<1>2. CASE ~ (x >= cache)
  <2>1. WithLength(S) \subseteq Unexpired(S, x)
    BY <1>2 DEF CacheSound, WithLength, Unexpired, TimedEntries
  <2> QED BY <1>2, <2>1 DEF ExpiredWent
<1> QED BY <1>1, <1>2

SweptPlan ==
  /\ now' \in Nat /\ now' >= now
  /\ ExpiredWent(contacts, contacts', now')
  /\ ExpiredWent(ranges, ranges', now')
  /\ neighbors' = Unexpired(neighbors, now')

LEMMA SweepIsExact ==
  ASSUME TypeOK, SeparateEntries, ExpiryCachesSound, NEW t \in Times, RemoveExpired(t)
  PROVE  SweptPlan
<1> USE EndsAreNat, EntriesAreTimed, TimesInEndTime
        DEF RemoveExpired, ExpiryCachesSound, SeparateEntries
<1>1. ExpiredWent(contacts, contacts', t)
  <2>1. contacts' = IF t >= timeContactToRemove THEN Swept(contacts, t) ELSE contacts
    BY DEF RemoveExpiredContacts, contactVars
  <2> QED BY <2>1, SweepExact
<1>2. ExpiredWent(ranges, ranges', t)
  <2>1. ranges' = IF t >= timeRangeToRemove THEN Swept(ranges, t) ELSE ranges
    BY DEF RemoveExpiredRanges, rangeVars
  <2> QED BY <2>1, SweepExact
<1>3. neighbors' = Unexpired(neighbors, t)
  BY DEF RemoveOldNeighbors, CacheSound, Unexpired
<1> QED BY <1>1, <1>2, <1>3 DEF SweptPlan

\* When the clock moves, everything expired that has a length goes, and what
\* goes had expired or shares its start with an instant that had.  The caches
\* never being late is what makes the skipped sweeps harmless.
THEOREM ExpiryIsExact == Spec => ExpiryExact
<1>1. TypeOK /\ SeparateEntries /\ ExpiryCachesSound /\ [Next]_vars =>
        [now' # now =>
            /\ ExpiredWent(contacts, contacts', now')
            /\ ExpiredWent(ranges, ranges', now')
            /\ neighbors' = Unexpired(neighbors, now')]_vars
  BY OtherSteps, SweepIsExact, ContactStepEdits, RangeStepEdits DEF SweptPlan
<1> QED BY <1>1, TypeCorrect, SeparateCorrect, CachesCorrect, PTL DEF Spec, ExpiryExact

----------------------------------------------------------------------------
(* The two trees implement the store. *)

\* What an edit is to a tree whose entries stay separate: nothing, a new entry
\* beside instants at most, a new value in an old entry's place, or a removal.
LEMMA EditKinds ==
  ASSUME NEW S, NEW T, TimedEntries(S), Separate(S), Edited(S, T)
  PROVE  \/ T = S
         \/ \E e \in T \ S : /\ T = S \cup {e}
                             /\ \A d \in S : SameKey(d, e) => Instant(d) /\ e.fromTime < e.toTime
         \/ \E old \in S, new \in T \ S :
              /\ T = (S \ {old}) \cup {new}
              /\ SamePair(old, new) /\ SameInterval(new, old.fromTime, old.toTime)
         \/ Removed(S, T)
<1>1. CASE Inserted(S, T)
  <2>1. PICK new :
           /\ \A d \in S : SameKey(d, new) => Instant(d) /\ new.fromTime < new.toTime
           /\ T = S \cup {new}
    BY <1>1, SeparateInsert DEF Inserted
  <2>2. CASE new \in S
    BY <2>1, <2>2
  <2>3. CASE new \notin S
    BY <2>1, <2>3
  <2> QED BY <2>2, <2>3
<1>2. CASE Revised(S, T)
  <2>1. PICK old, new :
           /\ old \in S
           /\ SamePair(old, new)
           /\ SameInterval(new, old.fromTime, old.toTime)
           /\ T = (S \ {old}) \cup {new}
    BY <1>2 DEF Revised
  <2>2. CASE new \in S
    <3>1. new = old
      BY <2>1, <2>2 DEF Separate, KeySharedWithInstant, SameKey, SamePair, SameInterval, Instant
    <3> QED BY <2>1, <3>1
  <2>3. CASE new \notin S
    BY <2>1, <2>3
  <2> QED BY <2>2, <2>3
<1> QED BY <1>1, <1>2 DEF Edited

LEMMA ContactsEditIsStoreStep ==
  ASSUME TypeOK, SeparateEntries, Edited(contacts, contacts') \/ Registered(contacts, contacts'), UNCHANGED now
  PROVE  [ContactsStore!Next]_(ContactsStore!vars)
<1> USE DEF ContactsStore!Next, ContactsStore!vars, ContactsStore!SameKey, SameKey, SamePair
<1>1. CASE Registered(contacts, contacts')
  BY <1>1 DEF Registered, Registration, Between, ContactsStore!Insert
<1>2. CASE Edited(contacts, contacts')
  <2>1. \/ contacts' = contacts
        \/ \E e \in contacts' \ contacts :
             /\ contacts' = contacts \cup {e}
             /\ \A d \in contacts : SameKey(d, e) => Instant(d) /\ e.fromTime < e.toTime
        \/ \E old \in contacts, new \in contacts' \ contacts :
             /\ contacts' = (contacts \ {old}) \cup {new}
             /\ SamePair(old, new) /\ SameInterval(new, old.fromTime, old.toTime)
        \/ Removed(contacts, contacts')
    BY <1>2, EntriesAreTimed, EditKinds, Zenon DEF SeparateEntries
  <2> QED BY <2>1 DEF SameInterval, Removed, Instant, ContactsStore!Insert, ContactsStore!Revise, ContactsStore!Remove
<1> QED BY <1>1, <1>2

LEMMA SweptIsContactsExpire ==
  ASSUME TypeOK, SweptPlan
  PROVE  ContactsStore!Expire
<1>1. \A e \in contacts : e.fromTime < e.toTime => ~Instant(e)
  BY EndsAreNat DEF Instant
<1> QED
  BY <1>1 DEF SweptPlan, ExpiredWent, WithLength, Unexpired, SameKey, SamePair,
     ContactsStore!Expire, ContactsStore!SameKey

\* Every behaviour of the plan, seen through its contacts and its clock, is
\* one of the store: starts shared with instants at most, revisions in place,
\* and sweeps that leave nothing expired but instants and take nothing unexpired
\* but what starts with an expired one.
THEOREM ContactsRefineStore == Spec => ContactsImplementStore
<1>1. Init => ContactsStore!Init
  BY DEF Init, ContactsStore!Init
<1>2. TypeOK /\ SeparateEntries /\ ExpiryCachesSound /\ [Next]_vars
        => [ContactsStore!Next]_(ContactsStore!vars)
  <2> SUFFICES ASSUME TypeOK, ExpiryCachesSound, SeparateEntries, [Next]_vars
               PROVE  [ContactsStore!Next]_(ContactsStore!vars)
    OBVIOUS
  <2>1. CASE ContactStep
    BY <2>1, ContactStepEdits, ContactsEditIsStoreStep
  <2>2. CASE RangeStep \/ UNCHANGED <<contacts, ranges, now>>
    BY <2>2, RangeStepEdits DEF ContactsStore!vars
  <2>3. CASE \E t \in Times : RemoveExpired(t)
    BY <2>3, SweepIsExact, SweptIsContactsExpire DEF ContactsStore!Next
  <2>4. CASE contacts' = {} /\ ranges' = {} /\ UNCHANGED now
    BY <2>4 DEF ContactsStore!Next, ContactsStore!Clear
  <2> QED BY <2>1, <2>2, <2>3, <2>4, OtherSteps
<1> QED
  BY <1>1, <1>2, TypeCorrect, CachesCorrect, SeparateCorrect, PTL
  DEF Spec, ContactsImplementStore, ContactsStore!Spec

LEMMA RangesEditIsStoreStep ==
  ASSUME TypeOK, SeparateEntries, Edited(ranges, ranges'), UNCHANGED now
  PROVE  [RangesStore!Next]_(RangesStore!vars)
<1> USE DEF RangesStore!Next, RangesStore!vars, RangesStore!SameKey, SameKey, SamePair
<1>1. \/ ranges' = ranges
      \/ \E e \in ranges' \ ranges :
           /\ ranges' = ranges \cup {e}
           /\ \A d \in ranges : SameKey(d, e) => Instant(d) /\ e.fromTime < e.toTime
      \/ \E old \in ranges, new \in ranges' \ ranges :
           /\ ranges' = (ranges \ {old}) \cup {new}
           /\ SamePair(old, new) /\ SameInterval(new, old.fromTime, old.toTime)
      \/ Removed(ranges, ranges')
  BY EntriesAreTimed, EditKinds, Zenon DEF SeparateEntries
<1> QED BY <1>1 DEF SameInterval, Removed, Instant, RangesStore!Insert, RangesStore!Revise, RangesStore!Remove

LEMMA SweptIsRangesExpire ==
  ASSUME TypeOK, SweptPlan
  PROVE  RangesStore!Expire
<1>1. \A e \in ranges : e.fromTime < e.toTime => ~Instant(e)
  BY EndsAreNat DEF Instant
<1> QED
  BY <1>1 DEF SweptPlan, ExpiredWent, WithLength, Unexpired, SameKey, SamePair,
     RangesStore!Expire, RangesStore!SameKey

\* The same of the ranges graph: a behaviour of the plan, seen through its
\* ranges and its clock, is one of the store.
THEOREM RangesRefineStore == Spec => RangesImplementStore
<1>1. Init => RangesStore!Init
  BY DEF Init, RangesStore!Init
<1>2. TypeOK /\ SeparateEntries /\ ExpiryCachesSound /\ [Next]_vars
        => [RangesStore!Next]_(RangesStore!vars)
  <2> SUFFICES ASSUME TypeOK, ExpiryCachesSound, SeparateEntries, [Next]_vars
               PROVE  [RangesStore!Next]_(RangesStore!vars)
    OBVIOUS
  <2>1. CASE RangeStep
    BY <2>1, RangeStepEdits, RangesEditIsStoreStep
  <2>2. CASE ContactStep \/ UNCHANGED <<contacts, ranges, now>>
    BY <2>2, ContactStepEdits DEF RangesStore!vars
  <2>3. CASE \E t \in Times : RemoveExpired(t)
    BY <2>3, SweepIsExact, SweptIsRangesExpire DEF RangesStore!Next
  <2>4. CASE contacts' = {} /\ ranges' = {} /\ UNCHANGED now
    BY <2>4 DEF RangesStore!Next, RangesStore!Clear
  <2> QED BY <2>1, <2>2, <2>3, <2>4, OtherSteps
<1> QED
  BY <1>1, <1>2, TypeCorrect, CachesCorrect, SeparateCorrect, PTL
  DEF Spec, RangesImplementStore, RangesStore!Spec
============================================================================
