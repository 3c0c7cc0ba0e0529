----------------------------- MODULE MCSessions -----------------------------
(* Instances of Sessions for TLC. *)
EXTENDS Sessions

\* A line of routers, the root first.
Line == [r \in Router |-> IF r = 1 THEN Nobody ELSE r - 1]
Root == {1}
Middle == {2}

\* Two versions of an item from the far end, and one from the middle that makes
\* the first of them obsolete.
MCBundle == {"b1", "b2", "c1"}
MCSource == {"far", "middle"}
MCOrigin == [b \in MCBundle |-> IF b = "c1" THEN 2 ELSE 3]
V(f, m) == [s \in MCSource |-> IF s = "far" THEN f ELSE m]
MCId == [b \in MCBundle |-> CASE b = "b1" -> V(1, 0) [] b = "b2" -> V(2, 0) [] b = "c1" -> V(0, 1)]
MCObsoletes == [b \in MCBundle |-> CASE b = "b1" -> V(0, 0) [] b = "b2" -> V(1, 0) [] b = "c1" -> V(1, 0)]

FarTwice == [r \in Router |-> IF r = 3 THEN 2 ELSE 0]
=============================================================================
