--------------------------- MODULE ExpiringStore ---------------------------
(***************************************************************************)
(* What the contact plan promises about one of its trees: entries enter    *)
(* one at a time, under a start of their own or that of an instant, which  *)
(* starts and ends at once; a revision keeps the interval; a removal       *)
(* touches one node pair or empties the tree.  When the clock moves, every *)
(* expired entry that has a length goes, and an unexpired one goes only if *)
(* an expired one has its start.  Nothing is said of the cached earliest   *)
(* expiry with which the code avoids most sweeps.                          *)
(***************************************************************************)
EXTENDS Integers

VARIABLES items, now

vars == <<items, now>>

Init == items = {} /\ now = 0

SameKey(d, e) == d.from = e.from /\ d.to = e.to /\ d.fromTime = e.fromTime

Insert ==
  /\ \E e \in items' \ items :
        /\ items' = items \cup {e}
        /\ \A d \in items : SameKey(d, e) => d.fromTime = d.toTime /\ e.fromTime < e.toTime
  /\ UNCHANGED now

Revise ==
  /\ \E old \in items, new \in items' \ items :
        /\ items' = (items \ {old}) \cup {new}
        /\ SameKey(old, new)
        /\ old.toTime = new.toTime
  /\ UNCHANGED now

Remove ==
  /\ items' \subseteq items
  /\ \A d, e \in items \ items' : d.from = e.from /\ d.to = e.to
  /\ UNCHANGED now

Clear == items' = {} /\ UNCHANGED now

Expire ==
  /\ now' >= now
  /\ items' \subseteq items
  /\ \A e \in items' : e.fromTime < e.toTime => e.toTime > now'
  /\ \A e \in items \ items' : \E d \in items : SameKey(d, e) /\ d.toTime <= now'

Next == Insert \/ Revise \/ Remove \/ Clear \/ Expire

Spec == Init /\ [][Next]_vars
============================================================================
