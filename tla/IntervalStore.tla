--------------------------- MODULE IntervalStore ---------------------------
(***************************************************************************)
(* The rules that the contacts graph (contacts.c) and the ranges graph     *)
(* (ranges.c) share.  Both are trees of entries ordered by                 *)
(* (fromNode, toNode, fromTime); an entry is a record with the fields      *)
(* from, to, fromTime, toTime and a payload that no rule here looks at.    *)
(* An insertion scans the entries of its node pair in order and gives up   *)
(* at the first one it takes for an overlap; a sweep drops the expired     *)
(* entries and recomputes the earliest expiry.                             *)
(*                                                                         *)
(* An entry may start and end at once.  Such an instant does not stop a    *)
(* longer entry of its start, so two entries can have one key: rbt_insert  *)
(* puts the younger, longer one first, and rbt_delete takes the first.     *)
(***************************************************************************)
EXTENDS Integers

CONSTANT MaxTime        \* MAX_POSIX_TIME, "never expires"

ASSUME MaxTimeAssumption == MaxTime \in Nat \ {0}

----------------------------------------------------------------------------
(* The scan of an insertion. *)

Between(S, f, t) == {e \in S : e.from = f /\ e.to = t}

SamePair(d, e) == d.from = e.from /\ d.to = e.to

SameKey(d, e) == SamePair(d, e) /\ d.fromTime = e.fromTime

\* The order of the entries of a pair in the tree.
Precedes(d, e) == d.fromTime < e.fromTime \/ (d.fromTime = e.fromTime /\ d.toTime > e.toTime)

\* The entry that a deletion by key takes.
Foremost(S, f, t, ft) ==
  {e \in Between(S, f, t) :
      e.fromTime = ft /\ \A d \in Between(S, f, t) : Precedes(d, e) => d.fromTime # ft}

SameInterval(e, ft, tt) == e.fromTime = ft /\ e.toTime = tt

\* Wrong scans: one that lets an interval start inside an entry, and one
\* that lets it end inside an entry.
HitsAtEndOnly(e, ft, tt) == SameInterval(e, ft, tt) \/ (e.fromTime < tt /\ tt <= e.toTime)
HitsAtStartOnly(e, ft, tt) == SameInterval(e, ft, tt) \/ (e.fromTime <= ft /\ ft < e.toTime)

\* The entry is the one offered, or the scan takes it for an overlap.
Hits(e, ft, tt) ==
  \/ SameInterval(e, ft, tt)
  \/ e.fromTime <= ft /\ ft < e.toTime
  \/ e.fromTime < tt /\ tt <= e.toTime

\* The scan goes no further: a hit, or the entries left start too late.
Stops(e, ft, tt) == Hits(e, ft, tt) \/ tt <= e.fromTime

\* The entry that decides the insertion: the scan stops there with a hit.
\* Empty when the offered interval is to be inserted.
Deciding(S, f, t, ft, tt) ==
  {e \in Between(S, f, t) :
      /\ Hits(e, ft, tt)
      /\ \A d \in Between(S, f, t) : Precedes(d, e) => ~Stops(d, ft, tt)}

----------------------------------------------------------------------------
(* Lookup of the entry in force at a time. *)

Covers(e, x) == e.fromTime <= x /\ x < e.toTime

\* A wrong lookup that tries only the first range of the pair.
ApplicableIfFirst(S, f, t, x) ==
  {e \in Between(S, f, t) :
      Covers(e, x) /\ \A d \in Between(S, f, t) : d.fromTime >= e.fromTime}

\* The scan steps over an entry only if it ended strictly before x.
Applicable(S, f, t, x) ==
  {e \in Between(S, f, t) :
      /\ Covers(e, x)
      /\ \A d \in Between(S, f, t) : Precedes(d, e) => d.toTime < x}

----------------------------------------------------------------------------
(* Expiry. *)

\* A wrong sweep that keeps what ends now.
UnexpiredOrEndingNow(S, x) == {e \in S : e.toTime >= x}

Unexpired(S, x) == {e \in S : e.toTime > x}

\* What a sweep leaves of a tree.  It meets the entries in order and deletes
\* those expired by their keys: of two with one key it deletes the longer one
\* while only the instant has expired, and the instant stays.
Swept(S, x) ==
  {e \in S : IF e \in Unexpired(S, x)
             THEN \A d \in S : SameKey(d, e) => d.toTime > x
             ELSE \E d \in Unexpired(S, x) : SameKey(d, e)}

\* The earliest expiry of S, MaxTime when nothing in S expires earlier.
NextExpiry(S) ==
  {m \in {MaxTime} \cup {e.toTime : e \in S} : m <= MaxTime /\ \A e \in S : m <= e.toTime}

\* A cached expiry that never makes a sweep come too late.
CacheSound(cache, S) == \A e \in S : cache <= e.toTime

----------------------------------------------------------------------------
(* What two entries of one node pair can look like. *)

Instant(e) == e.fromTime = e.toTime

Disjoint(d, e) == d.toTime <= e.fromTime \/ e.toTime <= d.fromTime

StrictlyInside(d, e) == e.fromTime < d.fromTime /\ d.toTime < e.toTime

============================================================================
