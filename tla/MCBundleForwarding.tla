------------------------- MODULE MCBundleForwarding -------------------------
(* Instances of BundleForwarding for TLC. *)
EXTENDS BundleForwarding

MCLink == {"l1", "l2"}
MCNode == {"n1", "n2"}
MCLinkOrder == <<"l1", "l2">>
MCRemote == [l \in MCLink |-> IF l = "l1" THEN "n1" ELSE "n2"]

Anywhere == MCNode \cup {NoNode}
OneSide == {"n1", NoNode}

AllRoutes == {MCLink}
AllOrFirst == {MCLink, {"l1"}}

\* How often the links go down.
FirstOnce == [l \in MCLink |-> IF l = "l1" THEN 1 ELSE 0]
FirstTwice == [l \in MCLink |-> IF l = "l1" THEN 2 ELSE 0]
============================================================================
