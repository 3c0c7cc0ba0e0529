--------------------------- MODULE MCContactPlan ---------------------------
(* Instances of ContactPlan for TLC. *)
EXTENDS ContactPlan, FiniteSets

MCNode == {1, 2, 3}

OnePair   == {<<1, 2>>}
\* the local node's registration and its contacts towards a neighbor
LocalPairs == {<<1, 1>>, <<1, 2>>}

\* The starts, ends and current times: room for contacts that touch or nest, for a
\* gap and for instants.  All parts of the plan together get the first three of them.
Instants == 0 .. 3
Coarse   == (0 .. 2) \cup {MaxTime}

\* The bound on the states explored: at most three entries at a time.  Contacts of
\* one pair alone, and ranges alone (also in what is cached), take any instant, rate
\* and light time; together with each other, and contacts with the neighbors, they
\* keep to the coarse instants, one rate, one light time and one range.
FinePartOrCoarsePlan ==
  /\ Cardinality(contacts \cup ranges) <= 3
  /\ \/ /\ ranges = {} /\ timeRangeToRemove = MaxTime /\ ~ neighbors_list_builded
        /\ \A c \in contacts : <<c.from, c.to>> \in OnePair
        /\ \A c, d \in contacts : c.xmitRate = 2 /\ d.xmitRate = 2 => c = d
     \/ /\ contacts = {} /\ timeContactToRemove = MaxTime /\ ~ neighbors_list_builded
        /\ \A r, s \in ranges : r.owlt = 2 /\ s.owlt = 2 => r = s
     \/ /\ \A e \in contacts \cup ranges : {e.fromTime, e.toTime} \subseteq Coarse
        /\ \A c \in contacts : c.xmitRate <= 1
        /\ \A r \in ranges : ranges = {r} /\ r.owlt = 1
        /\ neighbors_list_builded => ranges = {} /\ timeRangeToRemove = MaxTime
        /\ {now, timeContactToRemove, timeRangeToRemove, timeNeighborToRemove} \subseteq Coarse
============================================================================
