------------------------------ MODULE MCCgrCall ------------------------------
(* Instances of CgrCall for TLC. *)
EXTENDS CgrCall

\* Paths that the neighbors offer: a long chain of routes beside a short one,
\* or beside one of two, which can be reopened too.
First == CHOOSE n \in Neighbor : TRUE
LongAndShort == [n \in Neighbor |-> IF n = First THEN 3 ELSE 1]
LongAndMiddle == [n \in Neighbor |-> IF n = First THEN 3 ELSE 2]
============================================================================
