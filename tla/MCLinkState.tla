----------------------------- MODULE MCLinkState -----------------------------
(* Instances of LinkState for TLC. *)
EXTENDS LinkState

\* Three routers in a triangle that lacks the way back from the third to the
\* first, with a registration at the first.  The direct link is dear.
Triangle == {<<1, 2>>, <<2, 1>>, <<2, 3>>, <<3, 2>>, <<1, 3>>, <<1, 9>>}
DirectIsDear == [l \in Link |-> IF l = <<1, 3>> THEN 3 ELSE 1]

\* The first router loses and regains its contact to the second.
OneFlaps == [l \in Contacts |-> IF l = <<1, 2>> THEN 3 ELSE 0]

NoneOf == [r \in Router |-> 0]

\* Three routers that start with no contact and keep no link that is down.  The
\* first gets and loses a contact to the second, which may restart, and announces
\* itself once more for its timer, perhaps in the same second.
Cold == INSTANCE LinkState WITH
  Settled <- FALSE, KeepDownLinks <- FALSE, LsaLifetime <- 2, MaxTime <- 2,
  MaxPeriodic <- [r \in Router |-> IF r = 1 THEN 1 ELSE 0],
  MaxRestarts <- [r \in Router |-> IF r = 2 THEN 1 ELSE 0],
  MaxChanges <- [l \in Contacts |-> IF l = <<1, 2>> THEN 2 ELSE 0]

ASSUME ColdAssumption == Cold!LinkStateAssumption

ASSUME CostAssumption == CostsFit

VARIABLE scenario

MCInit == \/ scenario = "settled" /\ Init
          \/ scenario = "cold" /\ Cold!Init

MCNext == /\ UNCHANGED scenario
          /\ \/ scenario = "settled" /\ Next
             \/ scenario = "cold" /\ Cold!Next

MCSpec == MCInit /\ [][MCNext]_<<scenario, vars>>

\* The daemon of the first scenario goes on while it can.
MCFairSpec ==
  MCSpec /\ WF_<<scenario, vars>>(scenario = "settled" /\ Progress /\ UNCHANGED scenario)

\* ViewsConverge, of the routers that do not stop (schedule_lsa, handle_lsa).
MCViewsConverge == <>[](scenario = "settled" => Converged)
==============================================================================
