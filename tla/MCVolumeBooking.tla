-------------------------- MODULE MCVolumeBooking --------------------------
(* Instances of VolumeBooking for TLC. *)
EXTENDS VolumeBooking

C(a, b, s, e, r) ==
  [from |-> a, to |-> b, start |-> s, end |-> e, rate |-> r, owlt |-> 0, seen |-> <<0, 9>>]

\* From node 1 to node 4 over its neighbors 2 and 3: two contacts with node 2, one
\* of node 3 that encloses another, and a contact from 3 to 4 that the routes over
\* both neighbors share.
C12 == C(1, 2, 0, 2, 2)
C12later == C(1, 2, 3, 6, 2)
C13 == C(1, 3, 1, 6, 1)
C13inner == C(1, 3, 2, 5, 1)
C24 == C(2, 4, 2, 7, 2)
C34 == C(3, 4, 4, 8, 2)
C23 == C(2, 3, 0, 5, 1)
Plan == {C12, C12later, C13, C13inner, C24, C34, C23}

AllRoutes ==
  {<<C12, C24>>, <<C12later, C24>>, <<C13, C34>>, <<C13inner, C34>>,
   <<C12, C23, C34>>, <<C12later, C23, C34>>}
SomeRoutes == {AllRoutes, AllRoutes \ {<<C12, C24>>, <<C12later, C24>>}}

B(p, critical, evc, expires, failed, geo) ==
  [priority |-> p, critical |-> critical, evc |-> evc, expires |-> expires,
   excluded |-> {}, failed |-> failed, geo |-> geo]
FourBundles ==
  {B(2, FALSE, 3, 9, {}, {}), B(2, FALSE, 1, 7, {}, {3}), B(2, TRUE, 3, 8, {}, {}),
   B(0, FALSE, 2, 9, {2}, {})}
============================================================================
