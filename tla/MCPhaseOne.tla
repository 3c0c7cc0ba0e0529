----------------------------- MODULE MCPhaseOne -----------------------------
(* Instances of PhaseOne for TLC. *)
EXTENDS PhaseOne

C(a, b, s, e, o) == [from |-> a, to |-> b, start |-> s, end |-> e, owlt |-> o]

\* From node 1 to node 4 over nodes 2 and 3, which see each other.  Each plan
\* leaves one of the contacts out, or none.
Contacts ==
  {C(1, 2, 0, 3, 1), C(1, 2, 3, 6, 0), C(1, 3, 0, 6, 2), C(2, 3, 1, 6, 0), C(3, 2, 0, 6, 1),
   C(2, 4, 2, 6, 1), C(3, 4, 0, 4, 1), C(3, 4, 4, 8, 0), C(3, 1, 0, 6, 0)}

AlmostAll == {Contacts} \cup {Contacts \ {c} : c \in Contacts}

\* Here a bundle is longer on its way over the first contact than that is open:
\* the recomputed values of a known route over it say that it cannot be used.
LongWay ==
  {C(1, 2, 0, 3, 4), C(1, 2, 3, 9, 0), C(1, 3, 0, 9, 2), C(2, 3, 1, 9, 0), C(2, 4, 2, 9, 1),
   C(2, 4, 9, 10, 0), C(3, 4, 0, 9, 1), C(3, 4, 9, 10, 0)}

WithLongWay == AlmostAll \cup {LongWay}
==============================================================================
