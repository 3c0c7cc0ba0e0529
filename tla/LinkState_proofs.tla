--------------------------- MODULE LinkState_proofs ---------------------------
(***************************************************************************)
(* Proofs about LinkState for every network, every configuration of the    *)
(* timers and any number of restarts.                                      *)
(*                                                                         *)
(* The announcement that a router holds of a source is never replaced by   *)
(* an older one.  What handle_lsa and update_current_lsa compare is a      *)
(* number and a time, and an LSA is taken if either is newer; so it        *)
(* matters that the two agree, for all the LSAs of a source that are held  *)
(* or on their way anywhere (NumbersAreInOrder).                           *)
(*                                                                         *)
(* The routes of a router are right for its present graph (RightRoutes).   *)
(* Where the code computes them this is what RoutingGraph_proofs shows of  *)
(* the search; where it changes the graph afterwards, or computes nothing, *)
(* it is because the change alters no distance that a route depends on     *)
(* (StillRight): a link that is down is as good as none, and the edge to a *)
(* registration of the router leads nowhere else.                          *)
(***************************************************************************)
EXTENDS LinkState, RoutingGraph_proofs

ArrivingLsas(n) == {m[1] : m \in arriving[n]}

\* The LSAs that are somewhere in the network.
Around == UNION {currentLsas[n] \cup ArrivingLsas(n) : n \in Router}

LsasInShape ==
  /\ now \in Nat
  /\ lastSeqno \in [Router -> [Router -> Nat]]
  /\ lastCreation \in [Router -> [Router -> Nat]]
  /\ restarts \in [Router -> Nat]
  /\ DOMAIN currentLsas = Router /\ DOMAIN arriving = Router
  /\ \A a \in Around : a.source \in Router /\ a.seqno \in Nat /\ a.ts \in Nat

\* A router holds of each source the LSA whose number and time it remembers.
HeldIsRemembered ==
  \A n \in Router : \A a \in currentLsas[n] :
    a.seqno = lastSeqno[n][a.source] /\ a.ts = lastCreation[n][a.source]

\* A source that did not restart remembers its last announcement.
SourceIsAhead ==
  \A s \in Router :
    /\ restarts[s] = 0 => lastCreation[s][s] <= now
    /\ \A a \in Around : a.source = s /\ restarts[s] = 0 =>
         a.seqno <= lastSeqno[s][s] /\ a.ts <= lastCreation[s][s]

\* Of two announcements the one with the larger number was not made earlier.
NumbersAreInOrder ==
  \A a, b \in Around :
    a.source = b.source /\ restarts[a.source] = 0 /\ a.seqno <= b.seqno => a.ts <= b.ts

LsaInv == LsasInShape /\ HeldIsRemembered /\ SourceIsAhead /\ NumbersAreInOrder

----------------------------------------------------------------------------
(* What the steps do to the LSAs. *)

lsaVars == <<now, lastSeqno, lastCreation, currentLsas, restarts, arriving>>

Announces(n) ==
  /\ \E a : /\ a.source = n /\ a.seqno = lastSeqno[n][n] + 1 /\ a.ts = now
            /\ UpdateCurrentLsa(n, a, n)
  /\ UNCHANGED <<now, restarts, arriving>>

Takes(n) ==
  \E m \in arriving[n] :
    /\ arriving' = [arriving EXCEPT ![n] = @ \ {m}]
    /\ \/ UNCHANGED <<lastSeqno, lastCreation, currentLsas>>
       \/ m[1].source # n /\ ~Stale(n, m[1]) /\ UpdateCurrentLsa(n, m[1], m[2])
    /\ UNCHANGED <<now, restarts>>

Drops(n) ==
  /\ \E a \in currentLsas[n] : currentLsas' = [currentLsas EXCEPT ![n] = @ \ {a}]
  /\ UNCHANGED <<now, lastSeqno, lastCreation, restarts, arriving>>

Floods(n) ==
  /\ \E p : \E a \in currentLsas[n] : arriving' = [arriving EXCEPT ![p] = @ \cup {<<a, n>>}]
  /\ UNCHANGED <<now, lastSeqno, lastCreation, currentLsas, restarts>>

LEMMA Announcements ==
  ASSUME NEW n \in Router, NEW g, UNCHANGED <<now, restarts, arriving>>,
         SendLsa(n, g) \/ ScheduleLsa(n, g)
  PROVE  UNCHANGED lsaVars \/ Announces(n)
<1>1. CASE SendLsa(n, g)
  <2> DEFINE a == [source |-> n, seqno |-> lastSeqno[n][n] + 1, ts |-> now,
                   links |-> [l \in Announced(g) \cap Out(n) |-> g[l]]]
  <2>1. UpdateCurrentLsa(n, a, n)
    BY <1>1 DEF SendLsa
  <2>2. a.source = n /\ a.seqno = lastSeqno[n][n] + 1 /\ a.ts = now
    OBVIOUS
  <2> QED BY <2>1, <2>2, Zenon DEF Announces
<1>2. CASE UNCHANGED <<lastSeqno, lastCreation, currentLsas>>
  BY <1>2 DEF lsaVars
<1> QED BY <1>1, <1>2 DEF ScheduleLsa

LEMMA StepKinds ==
  ASSUME [Next]_vars
  PROVE  \/ UNCHANGED lsaVars
         \/ now' = now + 1 /\ UNCHANGED <<lastSeqno, lastCreation, currentLsas, restarts, arriving>>
         \/ \E n \in Router : Announces(n) \/ Takes(n) \/ Drops(n) \/ Floods(n) \/ Restart(n)
<1> USE DEF networkVars, nodeVars, timerVars
<1>1. CASE Tick
  BY <1>1 DEF Tick
<1>2. ASSUME NEW n \in Router, Flood(n) PROVE Floods(n)
  BY <1>2, Zenon DEF Flood, Floods
<1>3. ASSUME NEW n \in Router, HandleLsa(n) PROVE Takes(n)
  BY <1>3, Zenon DEF HandleLsa, Takes
<1>4. ASSUME NEW n \in Router, LsaExpired(n) PROVE Drops(n)
  BY <1>4, Zenon DEF LsaExpired, Drops
<1>5. ASSUME NEW n \in Router,
             \/ ContactUp(n) \/ ContactDown(n) \/ RegistrationAdded(n)
             \/ DelayedLsaTimeout(n) \/ PeriodicLsaTimeout(n)
      PROVE  UNCHANGED lsaVars \/ Announces(n)
  <2>1. /\ UNCHANGED <<now, restarts, arriving>>
        /\ \E g : SendLsa(n, g) \/ ScheduleLsa(n, g)
    BY <1>5, Zenon DEF ContactUp, ContactDown, RegistrationAdded, DelayedLsaTimeout, PeriodicLsaTimeout
  <2> QED BY <2>1, Announcements
<1>6. CASE UNCHANGED vars
  BY <1>6 DEF vars, lsaVars
<1> QED BY <1>1, <1>2, <1>3, <1>4, <1>5, <1>6, Zenon DEF Next, Progress

----------------------------------------------------------------------------
(* What they leave as it should be. *)

LEMMA Known ==
  ASSUME NEW n \in Router
  PROVE  /\ \A a \in currentLsas[n] : a \in Around
         /\ \A m \in arriving[n] : m[1] \in Around
BY DEF Around, ArrivingLsas

\* Nothing comes from outside.
LEMMA NothingNewAround ==
  ASSUME LsasInShape, NEW n \in Router,
         \/ Takes(n) \/ Drops(n) \/ Floods(n) \/ Restart(n)
  PROVE  Around' \subseteq Around
<1> SUFFICES ASSUME NEW p \in Router,
                    NEW a, a \in currentLsas'[p] \/ \E m \in arriving'[p] : a = m[1]
             PROVE  a \in Around
  BY DEF Around, ArrivingLsas
<1> USE DEF LsasInShape
<1>1. CASE Takes(n)
  <2>1. PICK m \in arriving[n] :
          /\ arriving' = [arriving EXCEPT ![n] = @ \ {m}]
          /\ \/ UNCHANGED <<lastSeqno, lastCreation, currentLsas>>
             \/ m[1].source # n /\ UpdateCurrentLsa(n, m[1], m[2])
    BY <1>1 DEF Takes
  <2>2. currentLsas'[p] \subseteq currentLsas[p] \cup {m[1]} /\ arriving'[p] \subseteq arriving[p]
    BY <2>1 DEF UpdateCurrentLsa
  <2>3. m[1] \in Around
    BY Known
  <2> QED BY <2>2, <2>3, Known
<1>2. CASE Drops(n)
  <2>1. currentLsas'[p] \subseteq currentLsas[p] /\ arriving'[p] = arriving[p]
    BY <1>2 DEF Drops
  <2> QED BY <2>1, Known
<1>3. CASE Floods(n)
  <2>1. PICK b \in currentLsas[n] :
          currentLsas'[p] = currentLsas[p] /\ arriving'[p] \subseteq arriving[p] \cup {<<b, n>>}
    BY <1>3 DEF Floods
  <2> QED BY <2>1, Known
<1>4. CASE Restart(n)
  <2>1. currentLsas'[p] \subseteq currentLsas[p]
        /\ arriving'[p] \subseteq arriving[p] \cup (currentLsas[n] \X {n})
    BY <1>4 DEF Restart
  <2>2. \A m \in currentLsas[n] \X {n} : m[1] \in currentLsas[n]
    OBVIOUS
  <2> QED BY <2>1, <2>2, Known
<1> QED BY <1>1, <1>2, <1>3, <1>4

LEMMA AnnouncedAround ==
  ASSUME LsasInShape, NEW n \in Router, NEW a, UpdateCurrentLsa(n, a, n), UNCHANGED arriving
  PROVE  Around' \subseteq Around \cup {a}
<1> SUFFICES ASSUME NEW p \in Router,
                    NEW b, b \in currentLsas'[p] \/ \E m \in arriving'[p] : b = m[1]
             PROVE  b \in Around \cup {a}
  BY DEF Around, ArrivingLsas
<1>1. currentLsas'[p] \subseteq currentLsas[p] \cup {a} /\ arriving'[p] = arriving[p]
  BY DEF LsasInShape, UpdateCurrentLsa
<1> QED BY <1>1, Known

LEMMA UpdateRemembers ==
  ASSUME LsasInShape, HeldIsRemembered, NEW n \in Router, NEW a, NEW from,
         a.source \in Router, a.seqno \in Nat, a.ts \in Nat, UpdateCurrentLsa(n, a, from)
  PROVE  /\ HeldIsRemembered'
         /\ lastSeqno' \in [Router -> [Router -> Nat]]
         /\ lastCreation' \in [Router -> [Router -> Nat]]
         /\ DOMAIN currentLsas' = Router
         /\ \A p, s \in Router : <<p, s>> # <<n, a.source>> =>
              lastSeqno'[p][s] = lastSeqno[p][s] /\ lastCreation'[p][s] = lastCreation[p][s]
         /\ lastSeqno'[n][a.source] = a.seqno /\ lastCreation'[n][a.source] = a.ts
<1>1. /\ lastSeqno' \in [Router -> [Router -> Nat]]
      /\ lastCreation' \in [Router -> [Router -> Nat]]
      /\ DOMAIN currentLsas' = Router
  BY DEF LsasInShape, UpdateCurrentLsa
<1>2. /\ \A p, s \in Router : <<p, s>> # <<n, a.source>> =>
           lastSeqno'[p][s] = lastSeqno[p][s] /\ lastCreation'[p][s] = lastCreation[p][s]
      /\ lastSeqno'[n][a.source] = a.seqno /\ lastCreation'[n][a.source] = a.ts
  BY DEF LsasInShape, UpdateCurrentLsa
<1>3. ASSUME NEW p \in Router, NEW b \in currentLsas'[p]
      PROVE  b.seqno = lastSeqno'[p][b.source] /\ b.ts = lastCreation'[p][b.source]
  <2>1. \/ p = n /\ b = a
        \/ b \in currentLsas[p] /\ (p = n => b.source # a.source)
    BY <1>3 DEF LsasInShape, UpdateCurrentLsa
  <2>2. b \in currentLsas[p] => b.source \in Router
    BY Known DEF LsasInShape
  <2> QED BY <1>2, <2>1, <2>2 DEF HeldIsRemembered
<1> QED BY <1>1, <1>2, <1>3 DEF HeldIsRemembered

LEMMA AnnounceKeeps ==
  ASSUME LsaInv, NEW n \in Router, Announces(n)
  PROVE  LsaInv'
<1>1. PICK a : /\ a.source = n /\ a.seqno = lastSeqno[n][n] + 1 /\ a.ts = now
               /\ UpdateCurrentLsa(n, a, n)
  BY DEF Announces
<1>2. UNCHANGED <<now, restarts, arriving>>
  BY DEF Announces
<1>3. LsasInShape /\ HeldIsRemembered /\ SourceIsAhead /\ NumbersAreInOrder
  BY DEF LsaInv
<1>4. a.source \in Router /\ a.seqno \in Nat /\ a.ts \in Nat
  BY <1>1, <1>3 DEF LsasInShape
<1>5. /\ HeldIsRemembered'
      /\ lastSeqno' \in [Router -> [Router -> Nat]]
      /\ lastCreation' \in [Router -> [Router -> Nat]]
      /\ DOMAIN currentLsas' = Router
      /\ \A p, s \in Router : <<p, s>> # <<n, n>> =>
           lastSeqno'[p][s] = lastSeqno[p][s] /\ lastCreation'[p][s] = lastCreation[p][s]
      /\ lastSeqno'[n][n] = a.seqno /\ lastCreation'[n][n] = a.ts
  BY <1>1, <1>3, <1>4, UpdateRemembers
<1>6. Around' \subseteq Around \cup {a}
  BY <1>1, <1>2, <1>3, AnnouncedAround
<1>7. LsasInShape'
  BY <1>2, <1>3, <1>4, <1>5, <1>6 DEF LsasInShape
<1>8. \A b \in Around : b.source = n /\ restarts[n] = 0 => b.seqno < a.seqno /\ b.ts <= a.ts
  <2> SUFFICES ASSUME NEW b \in Around, b.source = n, restarts[n] = 0
               PROVE  b.seqno < a.seqno /\ b.ts <= a.ts
    OBVIOUS
  <2>1. b.seqno <= lastSeqno[n][n] /\ b.ts <= lastCreation[n][n] /\ lastCreation[n][n] <= now
    BY <1>3 DEF SourceIsAhead
  <2>2. /\ b.seqno \in Nat /\ b.ts \in Nat /\ lastSeqno[n][n] \in Nat
        /\ lastCreation[n][n] \in Nat /\ now \in Nat
    BY <1>3 DEF LsasInShape
  <2> QED BY <1>1, <2>1, <2>2
<1>9. SourceIsAhead'
  <2> SUFFICES ASSUME NEW s \in Router, restarts[s] = 0
               PROVE  /\ lastCreation'[s][s] <= now
                      /\ \A b \in Around' : b.source = s =>
                           b.seqno <= lastSeqno'[s][s] /\ b.ts <= lastCreation'[s][s]
    BY <1>2 DEF SourceIsAhead
  <2>1. CASE s = n
    <3>1. \A b \in Around' : b.source = n => b.seqno <= a.seqno /\ b.ts <= a.ts
      BY <1>4, <1>6, <1>7, <1>8, <2>1 DEF LsasInShape
    <3> QED BY <1>1, <1>3, <1>5, <2>1, <3>1 DEF LsasInShape
  <2>2. CASE s # n
    BY <1>1, <1>3, <1>5, <1>6, <2>2 DEF SourceIsAhead
  <2> QED BY <2>1, <2>2
<1>10. NumbersAreInOrder'
  <2> SUFFICES ASSUME NEW b \in Around', NEW c \in Around', b.source = c.source,
                      restarts[b.source] = 0, b.seqno <= c.seqno
               PROVE  b.ts <= c.ts
    BY <1>2 DEF NumbersAreInOrder
  <2>1. b.seqno \in Nat /\ c.seqno \in Nat /\ b.ts \in Nat /\ c.ts \in Nat
    BY <1>7 DEF LsasInShape
  <2>2. CASE b \in Around /\ c \in Around
    BY <1>3, <2>2 DEF NumbersAreInOrder
  <2>3. CASE c = a
    BY <1>1, <1>6, <1>8, <2>1, <2>3
  <2>4. CASE b = a /\ c \in Around
    BY <1>1, <1>4, <1>8, <2>1, <2>4
  <2> QED BY <1>6, <2>2, <2>3, <2>4
<1> QED BY <1>5, <1>7, <1>9, <1>10 DEF LsaInv

\* A router's own numbers are left alone by what it hears.
LEMMA OthersKeep ==
  ASSUME LsaInv, NEW n \in Router, Takes(n) \/ Drops(n) \/ Floods(n) \/ Restart(n)
  PROVE  LsaInv'
<1>1. LsasInShape /\ HeldIsRemembered /\ SourceIsAhead /\ NumbersAreInOrder
  BY DEF LsaInv
<1>2. Around' \subseteq Around
  BY <1>1, NothingNewAround
<1>3. /\ now' = now /\ restarts' \in [Router -> Nat]
      /\ \A s \in Router : restarts'[s] = 0 =>
           /\ restarts[s] = 0
           /\ lastSeqno'[s][s] = lastSeqno[s][s] /\ lastCreation'[s][s] = lastCreation[s][s]
      /\ lastSeqno' \in [Router -> [Router -> Nat]]
      /\ lastCreation' \in [Router -> [Router -> Nat]]
      /\ DOMAIN currentLsas' = Router /\ DOMAIN arriving' = Router
      /\ HeldIsRemembered'
  <2>1. CASE Takes(n)
    <3>1. PICK m \in arriving[n] :
            /\ arriving' = [arriving EXCEPT ![n] = @ \ {m}]
            /\ \/ UNCHANGED <<lastSeqno, lastCreation, currentLsas>>
               \/ m[1].source # n /\ UpdateCurrentLsa(n, m[1], m[2])
            /\ UNCHANGED <<now, restarts>>
      BY <2>1 DEF Takes
    <3>2. m[1].source \in Router /\ m[1].seqno \in Nat /\ m[1].ts \in Nat
      BY <1>1, Known DEF LsasInShape
    <3>3. CASE UNCHANGED <<lastSeqno, lastCreation, currentLsas>>
      BY <1>1, <3>1, <3>3 DEF LsasInShape, HeldIsRemembered
    <3>4. CASE m[1].source # n /\ UpdateCurrentLsa(n, m[1], m[2])
      <4>1. /\ HeldIsRemembered'
            /\ lastSeqno' \in [Router -> [Router -> Nat]]
            /\ lastCreation' \in [Router -> [Router -> Nat]]
            /\ DOMAIN currentLsas' = Router
            /\ \A p, s \in Router : <<p, s>> # <<n, m[1].source>> =>
                 lastSeqno'[p][s] = lastSeqno[p][s] /\ lastCreation'[p][s] = lastCreation[p][s]
        BY <1>1, <3>2, <3>4, UpdateRemembers
      <4> QED BY <1>1, <3>1, <3>4, <4>1 DEF LsasInShape
    <3> QED BY <3>1, <3>3, <3>4
  <2>2. CASE Drops(n)
    BY <1>1, <2>2 DEF Drops, LsasInShape, HeldIsRemembered
  <2>3. CASE Floods(n)
    BY <1>1, <2>3 DEF Floods, LsasInShape, HeldIsRemembered
  <2>4. CASE Restart(n)
    <3>1. /\ now' = now /\ restarts' = [restarts EXCEPT ![n] = @ + 1]
          /\ lastSeqno' = [lastSeqno EXCEPT ![n] = [s \in Router |-> 0]]
          /\ lastCreation' = [lastCreation EXCEPT ![n] = [s \in Router |-> 0]]
          /\ currentLsas' = [currentLsas EXCEPT ![n] = {}]
          /\ DOMAIN arriving' = DOMAIN arriving
      BY <2>4 DEF Restart
    <3> QED BY <1>1, <3>1 DEF LsasInShape, HeldIsRemembered
  <2> QED BY <2>1, <2>2, <2>3, <2>4
<1>4. LsasInShape'
  BY <1>1, <1>2, <1>3 DEF LsasInShape
<1>5. SourceIsAhead'
  BY <1>1, <1>2, <1>3 DEF SourceIsAhead
<1>6. NumbersAreInOrder'
  BY <1>1, <1>2, <1>3 DEF NumbersAreInOrder, LsasInShape
<1> QED BY <1>3, <1>4, <1>5, <1>6 DEF LsaInv

LEMMA LsaInvCorrect == Spec => []LsaInv
<1>1. Init => LsaInv
  <2> SUFFICES ASSUME Init PROVE LsaInv
    OBVIOUS
  <2>1. \A n \in Router : currentLsas[n] \in {{}, {FullLsa(s) : s \in Router}} /\ arriving[n] = {}
    BY DEF Init
  <2>2. \A a \in Around : Settled /\ \E s \in Router : a = FullLsa(s)
    BY DEF Init, Around, ArrivingLsas
  <2>3. \A s \in Router : FullLsa(s).source = s /\ FullLsa(s).seqno = 1 /\ FullLsa(s).ts = 0
    BY DEF FullLsa
  <2>4. LsasInShape
    BY <2>2, <2>3 DEF Init, LsasInShape
  <2>5. HeldIsRemembered
    BY <2>2, <2>3, Known DEF Init, HeldIsRemembered
  <2>6. SourceIsAhead /\ NumbersAreInOrder
    BY <2>2, <2>3 DEF Init, SourceIsAhead, NumbersAreInOrder
  <2> QED BY <2>4, <2>5, <2>6 DEF LsaInv
<1>2. LsaInv /\ [Next]_vars => LsaInv'
  <2> SUFFICES ASSUME LsaInv, [Next]_vars PROVE LsaInv'
    OBVIOUS
  <2>1. CASE UNCHANGED lsaVars
    BY <2>1 DEF lsaVars, LsaInv, LsasInShape, HeldIsRemembered, SourceIsAhead, NumbersAreInOrder,
                Around, ArrivingLsas
  <2>2. CASE now' = now + 1 /\ UNCHANGED <<lastSeqno, lastCreation, currentLsas, restarts, arriving>>
    <3>1. Around' = Around
      BY <2>2 DEF Around, ArrivingLsas
    <3>2. LsasInShape' /\ HeldIsRemembered' /\ NumbersAreInOrder'
      BY <2>2, <3>1 DEF LsaInv, LsasInShape, HeldIsRemembered, NumbersAreInOrder
    <3>3. SourceIsAhead'
      BY <2>2, <3>1 DEF LsaInv, LsasInShape, SourceIsAhead
    <3> QED BY <3>2, <3>3 DEF LsaInv
  <2> QED BY <2>1, <2>2, StepKinds, AnnounceKeeps, OthersKeep
<1> QED BY <1>1, <1>2, PTL DEF Spec

----------------------------------------------------------------------------

\* A router that takes an LSA for another one of the same source takes one that
\* the source did not make before it, or made in the same second.
LEMMA TakenIsNoOlder ==
  ASSUME LsaInv, [Next]_vars
  PROVE  TakesNoOlder
<1> SUFFICES ASSUME NEW p \in Router, NEW a \in currentLsas[p], NEW b \in currentLsas'[p],
                    a.source = b.source, restarts[a.source] = 0
             PROVE  a.seqno <= b.seqno \/ a.ts = b.ts
  BY DEF TakesNoOlder
<1>1. LsasInShape /\ HeldIsRemembered /\ SourceIsAhead /\ NumbersAreInOrder
  BY DEF LsaInv
<1>2. a \in Around /\ a.source \in Router /\ a.seqno \in Nat /\ a.ts \in Nat
  BY <1>1, Known DEF LsasInShape
<1>3. CASE b \in currentLsas[p]
  BY <1>1, <1>2, <1>3 DEF HeldIsRemembered
<1>4. CASE b \notin currentLsas[p]
  <2>1. PICK n \in Router : Announces(n) \/ Takes(n) \/ Drops(n) \/ Floods(n) \/ Restart(n)
    BY <1>4, StepKinds DEF lsaVars
  <2>2. ~Drops(n) /\ ~Floods(n) /\ ~Restart(n)
    BY <1>1, <1>4 DEF Drops, Floods, Restart, LsasInShape
  <2>3. CASE Announces(n)
    <3>1. b.source = n /\ b.seqno = lastSeqno[n][n] + 1
      BY <1>1, <1>4, <2>3 DEF Announces, UpdateCurrentLsa, LsasInShape
    <3> QED BY <1>1, <1>2, <3>1 DEF SourceIsAhead, LsasInShape
  <2>4. CASE Takes(n)
    <3>1. PICK m \in arriving[n] : b = m[1] /\ p = n /\ ~Stale(n, b)
      BY <1>1, <1>4, <2>4 DEF Takes, UpdateCurrentLsa, LsasInShape
    <3>2. b \in Around /\ b.seqno \in Nat /\ b.ts \in Nat
      BY <1>1, <3>1, Known DEF LsasInShape
    <3>3. a.seqno <= b.seqno \/ a.ts <= b.ts
      BY <1>1, <1>2, <3>1, <3>2 DEF Stale, HeldIsRemembered
    <3> QED BY <1>1, <1>2, <3>2, <3>3 DEF NumbersAreInOrder
  <2> QED BY <2>1, <2>2, <2>3, <2>4
<1> QED BY <1>3, <1>4

\* The LSA that a router holds of a source is never replaced by one the source
\* made before it, or only by one of the same second, however LSAs are flooded,
\* delayed, repeated and reordered, and whoever restarts but the source.
THEOREM MostRecentCorrect == Spec => MostRecentHeld
<1>1. LsaInv /\ [Next]_vars => [TakesNoOlder]_vars
  BY TakenIsNoOlder
<1> QED BY <1>1, LsaInvCorrect, PTL DEF Spec, MostRecentHeld

----------------------------------------------------------------------------
(* The graph that a router searches. *)

GraphState == [Link -> {"absent", "up", "down"}]

LEMMA NetworkIs ==
  /\ IsFiniteSet(Vertex) /\ IsFiniteSet(Link) /\ Router \subseteq Vertex
  /\ \A l \in Link : l[1] \in Router /\ l[2] \in Vertex /\ l = <<l[1], l[2]>> /\ Cost[l] \in Nat
  /\ \A l \in Link : Cost[l] < MaxDistance
<1>1. IsFiniteSet(Vertex) /\ Router \subseteq Vertex
  BY LinkStateAssumption DEF Vertex
<1>2. IsFiniteSet(Router)
  BY <1>1, FS_Subset
<1>3. Link \subseteq Router \X Vertex /\ IsFiniteSet(Router \X Vertex)
  BY <1>1, <1>2, FS_Product, LinkStateAssumption DEF Vertex
<1>4. IsFiniteSet(Link)
  BY <1>3, FS_Subset
<1>5. MaxDistance \in Nat /\ Cost \in [Link -> 0 .. (MaxDistance - 1)]
  BY MaxDistanceAssumption, LinkStateAssumption
<1> QED BY <1>1, <1>3, <1>4, <1>5

EdgeOf(g, l) == [id |-> l, source |-> l[1], dest |-> l[2], weight |-> Weight(g[l], l)]

LEMMA EdgesAre ==
  ASSUME NEW g \in GraphState
  PROVE  /\ IsGraph(Vertex, Edges(g))
         /\ \A e \in Edges(g) :
              /\ e.id \in Link /\ g[e.id] # "absent" /\ e = EdgeOf(g, e.id)
              /\ e.source = e.id[1] /\ e.dest = e.id[2] /\ e.weight = Weight(g[e.id], e.id)
         /\ \A l \in Link : g[l] # "absent" => EdgeOf(g, l) \in Edges(g)
<1> DEFINE L == {k \in Link : g[k] # "absent"}
<1>1. Edges(g) = {EdgeOf(g, l) : l \in L}
  BY DEF Edges, EdgeOf
<1>2. IsFiniteSet(Edges(g))
  <2>1. IsFiniteSet(L)
    BY NetworkIs, FS_Subset
  <2> HIDE DEF L
  <2> DEFINE edge == [l \in L |-> EdgeOf(g, l)]
  <2>2. edge \in Surjection(L, {EdgeOf(g, l) : l \in L})
    BY DEF Surjection
  <2> QED BY <1>1, <2>1, <2>2, FS_Surjection
<1>3. \A l \in Link : Weight(g[l], l) \in 0 .. MaxDistance
  BY NetworkIs, MaxDistanceAssumption DEF Weight
<1>4. \A e \in Edges(g) :
        /\ e.id \in Link /\ g[e.id] # "absent" /\ e = EdgeOf(g, e.id)
        /\ e.source = e.id[1] /\ e.dest = e.id[2] /\ e.weight = Weight(g[e.id], e.id)
  BY <1>1 DEF EdgeOf
<1>5. \A e \in Edges(g) : e.source \in Vertex /\ e.dest \in Vertex /\ e.weight \in 0 .. MaxDistance
  BY <1>3, <1>4, NetworkIs
<1>6. IsGraph(Vertex, Edges(g))
  BY <1>2, <1>5, NetworkIs DEF IsGraph
<1> QED BY <1>1, <1>4, <1>6

OwnRegistrations(n) == {v \in Vertex \ {n} : <<n, v>> \in Link \ Contacts}

LEMMA OwnAreEndpoints ==
  ASSUME NEW n \in Router
  PROVE  OwnRegistrations(n) \cap Router = {}
BY DEF OwnRegistrations, Contacts

\* Edges to registrations of the router, and the difference between a link that
\* is down and one that is absent, change no other distance.
LEMMA SameDistances ==
  ASSUME NEW g \in GraphState, NEW h \in GraphState, NEW n \in Router,
         \A l \in Link : l[2] \in OwnRegistrations(n) \/ Weight(g[l], l) = Weight(h[l], l)
  PROVE  \A u, v \in Vertex \ OwnRegistrations(n) :
           Distances(Vertex, Edges(g))[u][v] = Distances(Vertex, Edges(h))[u][v]
<1> DEFINE X == OwnRegistrations(n)
<1>1. ASSUME NEW p \in GraphState, NEW q \in GraphState,
             \A l \in Link : l[2] \in X \/ Weight(p[l], l) = Weight(q[l], l)
      PROVE  \A u, v \in Vertex \ X :
               Distances(Vertex, Edges(p))[u][v] <= Distances(Vertex, Edges(q))[u][v]
  <2>1. IsGraph(Vertex, Edges(p)) /\ IsGraph(Vertex, Edges(q))
    BY EdgesAre
  <2>2. ASSUME NEW e \in Edges(q)
        PROVE  e.weight = MaxDistance \/ e.dest \in X \/ e \in Edges(p)
    <3> SUFFICES ASSUME e.weight # MaxDistance, e.dest \notin X PROVE e \in Edges(p)
      OBVIOUS
    <3>1. /\ e.id \in Link /\ e = EdgeOf(q, e.id)
          /\ e.dest = e.id[2] /\ e.weight = Weight(q[e.id], e.id)
      BY EdgesAre
    <3>2. Weight(p[e.id], e.id) = Weight(q[e.id], e.id)
      BY <1>1, <3>1
    <3>3. p[e.id] = "up"
      BY <3>1, <3>2 DEF Weight
    <3>4. EdgeOf(p, e.id) = e /\ EdgeOf(p, e.id) \in Edges(p)
      <4>1. EdgeOf(p, e.id) = EdgeOf(q, e.id)
        BY <3>2 DEF EdgeOf
      <4>2. EdgeOf(p, e.id) \in Edges(p)
        BY <3>1, <3>3, EdgesAre
      <4> QED BY <3>1, <4>1, <4>2
    <3> QED BY <3>4
  <2>3. \A e \in Edges(q) : e.source \in X => e.weight = MaxDistance
    BY EdgesAre, OwnAreEndpoints, NetworkIs
  <2> HIDE DEF X
  <2> QED BY <2>1, <2>2, <2>3, MoreEdges
<1>2. \A u, v \in Vertex :
        /\ Distances(Vertex, Edges(g))[u][v] \in Nat
        /\ Distances(Vertex, Edges(h))[u][v] \in Nat
  BY EdgesAre, DistancesAre
<1>3. \A u, v \in Vertex \ X :
        /\ Distances(Vertex, Edges(g))[u][v] <= Distances(Vertex, Edges(h))[u][v]
        /\ Distances(Vertex, Edges(h))[u][v] <= Distances(Vertex, Edges(g))[u][v]
  BY <1>1
<1> QED BY <1>2, <1>3

----------------------------------------------------------------------------
(* Routes that fit a graph. *)

RightRoutes(n, r, g) ==
  LET D == Distances(Vertex, Edges(g)) IN
  /\ r \in [Vertex \ {n} -> SUBSET (Out(n) \cap Contacts)]
  /\ \A d \in (Vertex \ {n}) \ OwnRegistrations(n) :
       /\ r[d] = {} <=> D[n][d] = MaxDistance
       /\ \A l \in r[d] : Weight(g[l], l) + D[l[2]][d] = D[n][d]

LEMMA RoutesOfAreRight ==
  ASSUME CostsFit, NEW n \in Router, NEW g \in GraphState
  PROVE  RightRoutes(n, RoutesOf(n, g), g)
<1> DEFINE E == Edges(g)
           D == Distances(Vertex, E)
           Hop(d) == BestNextHop(Vertex, E, n, d)
<1>1. IsGraph(Vertex, E)
  BY EdgesAre
<1>2. \A e \in E : /\ e.id \in Link
                   /\ e.source = e.id[1] /\ e.dest = e.id[2] /\ e.weight = Weight(g[e.id], e.id)
  BY EdgesAre
<1>3. PICK c : Affordable(Vertex, E, c)
  <2>1. PICK c \in 0 .. MaxDistance :
          c * Cardinality(Vertex) < MaxDistance /\ \A l \in Link : Cost[l] <= c
    BY DEF CostsFit
  <2>2. \A e \in E : e.weight = MaxDistance \/ e.weight <= c
    BY <1>2, <2>1 DEF Weight
  <2>3. c \in Nat
    BY MaxDistanceAssumption
  <2> QED BY <2>1, <2>2, <2>3 DEF Affordable
<1>4. n \in Vertex
  BY NetworkIs
<1>5. ASSUME NEW d \in Vertex \ {n}
      PROVE  /\ Hop(d) = {} <=> D[n][d] = MaxDistance
             /\ \A e \in Hop(d) :
                  /\ e \in E /\ e.source = n
                  /\ e.weight + D[e.dest][d] = D[n][d] /\ e.weight # MaxDistance
  <2> HIDE DEF E
  <2> QED BY <1>1, <1>3, <1>4, BestNextHopIsShortest
<1>6. ASSUME NEW d \in Vertex \ {n}
      PROVE  RoutesOf(n, g)[d] = {e.id : e \in Hop(d)} \cap Contacts
  BY DEF RoutesOf
<1>7. \A u, v \in Vertex : D[u][v] \in Nat /\ D[u][v] <= MaxDistance
  BY <1>1, DistancesAre
<1> HIDE DEF Hop, D, E
<1>8. RoutesOf(n, g) \in [Vertex \ {n} -> SUBSET (Out(n) \cap Contacts)]
  <2>1. \A d \in Vertex \ {n} : RoutesOf(n, g)[d] \subseteq Out(n) \cap Contacts
    BY <1>2, <1>5, <1>6 DEF Out
  <2>2. RoutesOf(n, g) = [d \in Vertex \ {n} |-> RoutesOf(n, g)[d]]
    BY DEF RoutesOf
  <2> QED BY <2>1, <2>2
<1>9. ASSUME NEW d \in (Vertex \ {n}) \ OwnRegistrations(n), NEW e \in Hop(d)
      PROVE  e.id \in Contacts
  <2>1. e \in E /\ e.source = n /\ e.weight + D[e.dest][d] = D[n][d] /\ e.weight # MaxDistance
    BY <1>5
  <2>2. /\ e.id \in Link /\ e.id = <<n, e.dest>> /\ e.dest \in Vertex
        /\ e.weight \in Nat /\ e.weight <= MaxDistance
    BY <1>1, <1>2, <2>1, NetworkIs, MaxDistanceAssumption DEF IsGraph
  <2> SUFFICES ASSUME e.id \notin Contacts PROVE FALSE
    OBVIOUS
  <2>3. e.dest \notin Router
    BY <2>2 DEF Contacts
  <2>4. e.dest # d
    BY <2>2 DEF OwnRegistrations
  <2>5. D[e.dest][d] = MaxDistance
    <3>1. \A f \in E : f.source # e.dest
      BY <1>2, <2>3, NetworkIs
    <3> QED BY <1>1, <2>2, <2>4, <3>1, FromSink DEF D
  <2>6. D[n][d] = MaxDistance
    <3>1. D[n][d] \in Nat /\ D[n][d] <= MaxDistance
      BY <1>4, <1>7
    <3> QED BY <2>1, <2>2, <2>5, <3>1, MaxDistanceAssumption
  <2> QED BY <1>5, <2>6
<1>10. ASSUME NEW d \in (Vertex \ {n}) \ OwnRegistrations(n)
       PROVE  /\ RoutesOf(n, g)[d] = {} <=> D[n][d] = MaxDistance
              /\ \A l \in RoutesOf(n, g)[d] : Weight(g[l], l) + D[l[2]][d] = D[n][d]
  <2>1. RoutesOf(n, g)[d] = {e.id : e \in Hop(d)}
    BY <1>6, <1>9
  <2>2. \A e \in Hop(d) : Weight(g[e.id], e.id) + D[e.id[2]][d] = D[n][d]
    BY <1>2, <1>5
  <2> QED BY <1>5, <2>1, <2>2
<1> QED BY <1>8, <1>10 DEF RightRoutes, D, E

\* Routes stay right while no weight changes but those of links to registrations.
LEMMA StillRight ==
  ASSUME NEW n \in Router, NEW r, NEW g \in GraphState, NEW h \in GraphState,
         RightRoutes(n, r, g),
         \A l \in Link : l[2] \in OwnRegistrations(n) \/ Weight(g[l], l) = Weight(h[l], l)
  PROVE  RightRoutes(n, r, h)
<1> DEFINE D == Distances(Vertex, Edges(g))
           F == Distances(Vertex, Edges(h))
           X == OwnRegistrations(n)
<1>1. \A u, v \in Vertex \ X : D[u][v] = F[u][v]
  BY SameDistances
<1>2. /\ r \in [Vertex \ {n} -> SUBSET (Out(n) \cap Contacts)]
      /\ \A d \in (Vertex \ {n}) \ X :
           /\ r[d] = {} <=> D[n][d] = MaxDistance
           /\ \A l \in r[d] : Weight(g[l], l) + D[l[2]][d] = D[n][d]
  BY DEF RightRoutes
<1>3. n \in Vertex \ X /\ \A l \in Contacts : l[2] \in Vertex \ X
  BY OwnAreEndpoints, NetworkIs DEF Contacts
<1> HIDE DEF D, F
<1>4. ASSUME NEW d \in (Vertex \ {n}) \ X
      PROVE  /\ r[d] = {} <=> F[n][d] = MaxDistance
             /\ \A l \in r[d] : Weight(h[l], l) + F[l[2]][d] = F[n][d]
  <2>1. r[d] \subseteq Contacts /\ Contacts \subseteq Link
    BY <1>2 DEF Contacts
  <2>2. \A l \in r[d] : Weight(h[l], l) = Weight(g[l], l) /\ F[l[2]][d] = D[l[2]][d]
    BY <1>1, <1>3, <2>1
  <2>3. F[n][d] = D[n][d]
    BY <1>1, <1>3
  <2> QED BY <1>2, <2>2, <2>3
<1> QED BY <1>2, <1>4 DEF RightRoutes, F

LEMMA NoRoutesAreRight ==
  ASSUME NEW n \in Router
  PROVE  RightRoutes(n, [d \in Vertex \ {n} |-> {}], [l \in Link |-> "absent"])
<1> DEFINE g == [l \in Link |-> "absent"]
           D == Distances(Vertex, Edges(g))
<1>1. g \in GraphState /\ n \in Vertex
  BY NetworkIs DEF GraphState
<1>2. IsGraph(Vertex, Edges(g)) /\ Edges(g) = {}
  <2>1. \A l \in Link : g[l] = "absent"
    OBVIOUS
  <2> HIDE DEF g
  <2> QED BY <1>1, <2>1, EdgesAre
<1> HIDE DEF g
<1>3. \A v \in Vertex : v # n => D[n][v] = MaxDistance
  BY <1>1, <1>2, FromSink
<1> QED BY <1>3 DEF RightRoutes, g

----------------------------------------------------------------------------
(* Every step leaves the routes of every router right. *)

GraphsInShape == graph \in [Router -> GraphState]

RoutesFit ==
  /\ routes = [n \in Router |-> routes[n]]
  /\ \A n \in Router : RightRoutes(n, routes[n], graph[n])

\* An announcement describes links of its source.
LinksListed(a) ==
  /\ a.seqno # 0 /\ DOMAIN a.links \subseteq Out(a.source)
  /\ \A l \in DOMAIN a.links : a.links[l] \in {"up", "down"}

MessagesInShape ==
  /\ DOMAIN sent = Router
  /\ \A a \in Around : LinksListed(a)
  /\ \A n \in Router :
       /\ sent[n] \subseteq currentLsas[n] \X Router
       /\ \A m \in arriving[n] : m[2] \in Router
       /\ \A a, b \in currentLsas[n] : a.source = b.source => a = b

ClocksInShape ==
  /\ up \subseteq Contacts
  /\ lastTransmit \in [Router -> (0 .. now) \cup {Never}]
  /\ delayedLsa \in [Router -> Nat \cup {Never}]

\* Nothing but the graph and the routes of n changes, and they fit again.
LEMMA OneChanges ==
  ASSUME GraphsInShape, RoutesFit, NEW n \in Router, NEW g \in GraphState, NEW r,
         graph' = [graph EXCEPT ![n] = g], routes' = [routes EXCEPT ![n] = r],
         RightRoutes(n, r, g)
  PROVE  GraphsInShape' /\ RoutesFit'
<1>1. GraphsInShape'
  BY DEF GraphsInShape
<1>2. routes' = [m \in Router |-> routes'[m]]
  BY DEF RoutesFit
<1>3. ASSUME NEW m \in Router PROVE RightRoutes(m, routes'[m], graph'[m])
  <2>1. CASE m = n
    <3>1. routes'[m] = r /\ graph'[m] = g
      BY <2>1 DEF RoutesFit, GraphsInShape
    <3> QED BY <2>1, <3>1
  <2>2. CASE m # n
    <3>1. routes'[m] = routes[m] /\ graph'[m] = graph[m]
      BY <2>2 DEF RoutesFit, GraphsInShape
    <3> QED BY <3>1 DEF RoutesFit
  <2> QED BY <2>1, <2>2
<1> QED BY <1>1, <1>2, <1>3 DEF RoutesFit

LEMMA RoutesStayRight ==
  ASSUME CostsFit, GraphsInShape, RoutesFit, MessagesInShape, [Next]_vars
  PROVE  GraphsInShape' /\ RoutesFit'
<1>0. ASSUME UNCHANGED <<graph, routes>> PROVE GraphsInShape' /\ RoutesFit'
  BY <1>0 DEF GraphsInShape, RoutesFit
<1>1. ASSUME NEW n \in Router, ContactUp(n) PROVE GraphsInShape' /\ RoutesFit'
  <2>1. PICK l \in Link : /\ graph' = [graph EXCEPT ![n][l] = "up"]
                          /\ RecomputeRoutes(n, graph'[n])
    BY <1>1 DEF ContactUp, Out
  <2> DEFINE g == [graph[n] EXCEPT ![l] = "up"]
  <2>2. g \in GraphState /\ graph' = [graph EXCEPT ![n] = g] /\ graph'[n] = g
    BY <2>1 DEF GraphsInShape, GraphState
  <2> HIDE DEF g
  <2>3. routes' = [routes EXCEPT ![n] = RoutesOf(n, g)] /\ RightRoutes(n, RoutesOf(n, g), g)
    BY <2>1, <2>2, RoutesOfAreRight DEF RecomputeRoutes
  <2> QED BY <2>2, <2>3, OneChanges
<1>2. ASSUME NEW n \in Router, ContactDown(n) PROVE GraphsInShape' /\ RoutesFit'
  <2> DEFINE down(l) == [graph[n] EXCEPT ![l] = "down"]
             gone(l) == [graph[n] EXCEPT ![l] = IF KeepDownLinks THEN "down" ELSE "absent"]
  <2>1. PICK l \in Link :
          /\ RecomputeRoutes(n, down(l))
          /\ graph' = [graph EXCEPT ![n][l] = IF KeepDownLinks THEN "down" ELSE "absent"]
    BY <1>2 DEF ContactDown, Out
  <2>2. /\ down(l) \in GraphState /\ gone(l) \in GraphState
        /\ graph' = [graph EXCEPT ![n] = gone(l)]
    BY <2>1 DEF GraphsInShape, GraphState
  <2>3. \A k \in Link : Weight(down(l)[k], k) = Weight(gone(l)[k], k)
    BY DEF Weight, GraphsInShape, GraphState
  <2> HIDE DEF down, gone
  <2>4. RightRoutes(n, RoutesOf(n, down(l)), gone(l))
    BY <2>2, <2>3, RoutesOfAreRight, StillRight
  <2> QED BY <2>1, <2>2, <2>4, OneChanges DEF RecomputeRoutes
<1>3. ASSUME NEW n \in Router, RegistrationAdded(n) PROVE GraphsInShape' /\ RoutesFit'
  <2>1. PICK l \in Out(n) \ Contacts : graph' = [graph EXCEPT ![n][l] = "up"] /\ UNCHANGED routes
    BY <1>3 DEF RegistrationAdded
  <2> DEFINE g == [graph[n] EXCEPT ![l] = "up"]
  <2>2. g \in GraphState /\ graph' = [graph EXCEPT ![n] = g] /\ graph[n] \in GraphState
    BY <2>1 DEF GraphsInShape, GraphState, Out
  <2>3. l[2] \in OwnRegistrations(n)
    <3>1. l \in Link /\ l = <<n, l[2]>> /\ l[2] \in Vertex /\ l[2] \notin Router
      BY NetworkIs DEF Out, Contacts
    <3> QED BY <3>1 DEF OwnRegistrations
  <2>4. \A k \in Link : k = l \/ g[k] = graph[n][k]
    BY <2>2 DEF GraphState
  <2> HIDE DEF g
  <2>5. RightRoutes(n, routes[n], g)
    BY <2>2, <2>3, <2>4, StillRight DEF RoutesFit
  <2>6. routes' = [routes EXCEPT ![n] = routes[n]]
    BY <2>1 DEF RoutesFit
  <2> QED BY <2>2, <2>5, <2>6, OneChanges
<1>4. ASSUME NEW n \in Router, HandleLsa(n) PROVE GraphsInShape' /\ RoutesFit'
  <2>1. PICK m \in arriving[n] :
          \/ UNCHANGED <<graph, routes>>
          \/ /\ graph' = [graph EXCEPT ![n] =
                  [l \in Link |-> IF l \in DOMAIN m[1].links THEN m[1].links[l] ELSE @[l]]]
             /\ RecomputeRoutes(n, graph'[n])
    BY <1>4, Zenon DEF HandleLsa, nodeVars
  <2> DEFINE g == [l \in Link |-> IF l \in DOMAIN m[1].links THEN m[1].links[l] ELSE graph[n][l]]
  <2>2. m[1] \in Around
    BY Known
  <2>3. g \in GraphState
    BY <2>2 DEF MessagesInShape, LinksListed, GraphsInShape, GraphState
  <2>4. ASSUME graph' = [graph EXCEPT ![n] = g], RecomputeRoutes(n, graph'[n])
        PROVE  GraphsInShape' /\ RoutesFit'
    <3> HIDE DEF g
    <3>1. graph'[n] = g
      BY <2>4 DEF GraphsInShape
    <3> QED BY <2>3, <2>4, <3>1, RoutesOfAreRight, OneChanges DEF RecomputeRoutes
  <2>5. CASE UNCHANGED <<graph, routes>>
    BY <1>0, <2>5
  <2> QED BY <2>1, <2>4, <2>5
<1>5. ASSUME NEW n \in Router, Restart(n) PROVE GraphsInShape' /\ RoutesFit'
  <2>1. /\ graph' = [graph EXCEPT ![n] = [l \in Link |-> "absent"]]
        /\ routes' = [routes EXCEPT ![n] = [d \in Vertex \ {n} |-> {}]]
    BY <1>5 DEF Restart
  <2>2. [l \in Link |-> "absent"] \in GraphState
    BY DEF GraphState
  <2> QED BY <2>1, <2>2, NoRoutesAreRight, OneChanges
<1>6. ASSUME NEW n \in Router,
             \/ Flood(n) \/ DelayedLsaTimeout(n) \/ PeriodicLsaTimeout(n) \/ LsaExpired(n)
      PROVE  UNCHANGED <<graph, routes>>
  BY <1>6 DEF Flood, DelayedLsaTimeout, PeriodicLsaTimeout, LsaExpired
<1>7. CASE Tick \/ UNCHANGED vars
  BY <1>0, <1>7 DEF Tick, nodeVars, vars
<1> QED BY <1>0, <1>1, <1>2, <1>3, <1>4, <1>5, <1>6, <1>7, Zenon DEF Next, Progress

----------------------------------------------------------------------------
(* The announcements and the clocks. *)

LEMMA UpdateKeepsShape ==
  ASSUME LsasInShape, MessagesInShape, NEW n \in Router, NEW from \in Router, NEW a,
         UpdateCurrentLsa(n, a, from)
  PROVE  /\ DOMAIN sent' = Router
         /\ \A p \in Router :
              /\ currentLsas'[p] \subseteq currentLsas[p] \cup {a}
              /\ sent'[p] \subseteq currentLsas'[p] \X Router
              /\ \A b, c \in currentLsas'[p] : b.source = c.source => b = c
<1>1. DOMAIN sent' = Router
  BY DEF UpdateCurrentLsa, MessagesInShape
<1>2. ASSUME NEW p \in Router, p # n
      PROVE  currentLsas'[p] = currentLsas[p] /\ sent'[p] = sent[p]
  BY <1>2 DEF UpdateCurrentLsa, MessagesInShape, LsasInShape
<1>3. /\ currentLsas'[n] = {b \in currentLsas[n] : b.source # a.source} \cup {a}
      /\ sent'[n] = {m \in sent[n] : m[1].source # a.source} \cup {<<a, from>>}
  BY DEF UpdateCurrentLsa, MessagesInShape, LsasInShape
<1>4. sent'[n] \subseteq currentLsas'[n] \X Router
  <2> SUFFICES ASSUME NEW m \in sent'[n] PROVE m \in currentLsas'[n] \X Router
    OBVIOUS
  <2>1. CASE m = <<a, from>>
    BY <1>3, <2>1
  <2>2. CASE m \in sent[n] /\ m[1].source # a.source
    <3>1. m \in currentLsas[n] \X Router
      BY <2>2 DEF MessagesInShape
    <3> QED BY <1>3, <2>2, <3>1
  <2> QED BY <1>3, <2>1, <2>2
<1>5. \A b, c \in currentLsas'[n] : b.source = c.source => b = c
  BY <1>3 DEF MessagesInShape
<1> QED BY <1>1, <1>2, <1>3, <1>4, <1>5 DEF MessagesInShape

LEMMA SendKeepsShape ==
  ASSUME LsasInShape, MessagesInShape, NEW n \in Router, NEW g \in GraphState,
         SendLsa(n, g), UNCHANGED arriving
  PROVE  MessagesInShape'
<1> DEFINE a == [source |-> n, seqno |-> lastSeqno[n][n] + 1, ts |-> now,
                 links |-> [l \in Announced(g) \cap Out(n) |-> g[l]]]
<1>1. UpdateCurrentLsa(n, a, n)
  BY DEF SendLsa
<1>2. LinksListed(a)
  BY DEF LinksListed, LsasInShape, GraphState, Announced, Out
<1> HIDE DEF a
<1>3. Around' \subseteq Around \cup {a}
  BY <1>1, AnnouncedAround
<1>4. \A b \in Around' : LinksListed(b)
  BY <1>2, <1>3 DEF MessagesInShape
<1>5. /\ DOMAIN sent' = Router
      /\ \A p \in Router :
           /\ sent'[p] \subseteq currentLsas'[p] \X Router
           /\ \A b, c \in currentLsas'[p] : b.source = c.source => b = c
  BY <1>1, UpdateKeepsShape
<1>6. \A p \in Router : \A m \in arriving'[p] : m[2] \in Router
  BY DEF MessagesInShape
<1> QED BY <1>4, <1>5, <1>6 DEF MessagesInShape

LEMMA ScheduleKeepsShape ==
  ASSUME LsasInShape, MessagesInShape, NEW n \in Router, NEW g \in GraphState,
         ScheduleLsa(n, g), UNCHANGED arriving
  PROVE  MessagesInShape'
<1>1. CASE UNCHANGED <<currentLsas, sent>>
  BY <1>1 DEF MessagesInShape, Around, ArrivingLsas
<1> QED BY <1>1, SendKeepsShape DEF ScheduleLsa

LEMMA MessagesStayInShape ==
  ASSUME LsasInShape, GraphsInShape, GraphsInShape', ClocksInShape, MessagesInShape,
         [Next]_vars
  PROVE  MessagesInShape'
<1>0. ASSUME UNCHANGED <<currentLsas, sent, arriving>> PROVE MessagesInShape'
  BY <1>0 DEF MessagesInShape, Around, ArrivingLsas
<1>1. ASSUME NEW n \in Router,
             \/ ContactUp(n) \/ ContactDown(n) \/ RegistrationAdded(n)
             \/ DelayedLsaTimeout(n) \/ PeriodicLsaTimeout(n)
      PROVE  MessagesInShape'
  <2>1. graph[n] \in GraphState /\ graph'[n] \in GraphState
        /\ \A l \in Link : [graph[n] EXCEPT ![l] = "down"] \in GraphState
    BY DEF GraphsInShape, GraphState
  <2>2. UNCHANGED arriving /\ \E g \in GraphState : SendLsa(n, g) \/ ScheduleLsa(n, g)
    <3>1. CASE ContactUp(n) \/ RegistrationAdded(n)
      BY <2>1, <3>1, Zenon DEF ContactUp, RegistrationAdded
    <3>2. CASE ContactDown(n)
      <4>1. PICK l \in Out(n) \cap up : ScheduleLsa(n, [graph[n] EXCEPT ![l] = "down"])
        BY <3>2, Zenon DEF ContactDown
      <4> QED BY <2>1, <3>2, <4>1 DEF ContactDown, Out
    <3>3. CASE DelayedLsaTimeout(n) \/ PeriodicLsaTimeout(n)
      BY <2>1, <3>3, Zenon DEF DelayedLsaTimeout, PeriodicLsaTimeout
    <3> QED BY <1>1, <3>1, <3>2, <3>3
  <2> QED BY <2>2, SendKeepsShape, ScheduleKeepsShape
<1>2. ASSUME NEW n \in Router, HandleLsa(n) PROVE MessagesInShape'
  <2>1. Around' \subseteq Around
    <3>1. Takes(n)
      BY <1>2, Zenon DEF HandleLsa, Takes, nodeVars, timerVars
    <3> QED BY <3>1, NothingNewAround
  <2>2. PICK m \in arriving[n] :
          /\ arriving' = [arriving EXCEPT ![n] = @ \ {m}]
          /\ UNCHANGED <<currentLsas, sent>> \/ UpdateCurrentLsa(n, m[1], m[2])
    BY <1>2, Zenon DEF HandleLsa, nodeVars
  <2>3. m[2] \in Router
    BY DEF MessagesInShape
  <2>4. /\ DOMAIN sent' = Router
        /\ \A p \in Router :
             /\ sent'[p] \subseteq currentLsas'[p] \X Router
             /\ \A b, c \in currentLsas'[p] : b.source = c.source => b = c
    <3>1. CASE UNCHANGED <<currentLsas, sent>>
      BY <3>1 DEF MessagesInShape
    <3> QED BY <2>2, <2>3, <3>1, UpdateKeepsShape
  <2>5. \A p \in Router : arriving'[p] \subseteq arriving[p]
    BY <2>2 DEF LsasInShape
  <2> QED BY <2>1, <2>4, <2>5 DEF MessagesInShape
<1>3. ASSUME NEW n \in Router, LsaExpired(n) PROVE MessagesInShape'
  <2>1. PICK a \in currentLsas[n] :
          /\ currentLsas' = [currentLsas EXCEPT ![n] = @ \ {a}]
          /\ sent' = [sent EXCEPT ![n] = {m \in @ : m[1] # a}]
          /\ UNCHANGED arriving
    BY <1>3 DEF LsaExpired
  <2>2. Around' \subseteq Around
    <3>1. Drops(n)
      BY <1>3, Zenon DEF LsaExpired, Drops
    <3> QED BY <3>1, NothingNewAround
  <2>3. ASSUME NEW p \in Router
        PROVE  currentLsas'[p] \subseteq currentLsas[p] /\ sent'[p] \subseteq currentLsas'[p] \X Router
    <3>1. CASE p # n
      BY <2>1, <3>1 DEF LsasInShape, MessagesInShape
    <3>2. CASE p = n
      <4>1. /\ currentLsas'[n] = currentLsas[n] \ {a}
            /\ sent'[n] = {m \in sent[n] : m[1] # a}
        BY <2>1 DEF LsasInShape, MessagesInShape
      <4>2. \A m \in sent[n] : m \in currentLsas[n] \X Router
        BY DEF MessagesInShape
      <4> QED BY <3>2, <4>1, <4>2
    <3> QED BY <3>1, <3>2
  <2>4. DOMAIN sent' = Router
    BY <2>1 DEF MessagesInShape
  <2> QED BY <2>1, <2>2, <2>3, <2>4 DEF MessagesInShape
<1>4. ASSUME NEW n \in Router, Flood(n) PROVE MessagesInShape'
  <2>1. PICK l \in up, a \in currentLsas[n] :
          /\ sent' = [sent EXCEPT ![n] = @ \cup {<<a, l[2]>>}]
          /\ arriving' = [arriving EXCEPT ![l[2]] = @ \cup {<<a, n>>}]
          /\ UNCHANGED currentLsas
    BY <1>4 DEF Flood
  <2>2. l[2] \in Router
    BY DEF ClocksInShape, Contacts
  <2>3. Around' \subseteq Around
    <3>1. Floods(n)
      BY <1>4, Zenon DEF Flood, Floods, nodeVars, timerVars
    <3> QED BY <3>1, NothingNewAround
  <2>4. ASSUME NEW p \in Router
        PROVE  sent'[p] \subseteq currentLsas'[p] \X Router /\ \A m \in arriving'[p] : m[2] \in Router
    <3>1. sent'[p] \subseteq sent[p] \cup (currentLsas[p] \X Router)
      <4>1. sent'[p] = IF p = n THEN sent[p] \cup {<<a, l[2]>>} ELSE sent[p]
        BY <2>1 DEF MessagesInShape
      <4>2. <<a, l[2]>> \in currentLsas[n] \X Router
        BY <2>2
      <4> QED BY <4>1, <4>2
    <3>2. arriving'[p] \subseteq arriving[p] \cup {<<a, n>>}
      BY <2>1 DEF LsasInShape
    <3>3. sent[p] \subseteq currentLsas[p] \X Router /\ \A m \in arriving[p] : m[2] \in Router
      BY DEF MessagesInShape
    <3> QED BY <2>1, <3>1, <3>2, <3>3
  <2>5. DOMAIN sent' = Router
    BY <2>1 DEF MessagesInShape
  <2> QED BY <2>1, <2>3, <2>4, <2>5 DEF MessagesInShape
<1>5. ASSUME NEW n \in Router, Restart(n) PROVE MessagesInShape'
  <2>1. /\ arriving' = [arriving EXCEPT ![n] = @ \cup (currentLsas[n] \X {n})]
        /\ currentLsas' = [currentLsas EXCEPT ![n] = {}]
        /\ sent' = [sent EXCEPT ![n] = {}]
    BY <1>5 DEF Restart
  <2>2. Around' \subseteq Around
    BY <1>5, NothingNewAround
  <2>3. ASSUME NEW p \in Router
        PROVE  /\ currentLsas'[p] \subseteq currentLsas[p]
               /\ sent'[p] \subseteq currentLsas'[p] \X Router
               /\ \A m \in arriving'[p] : m[2] \in Router
    <3>1. /\ currentLsas'[p] = IF p = n THEN {} ELSE currentLsas[p]
          /\ sent'[p] = IF p = n THEN {} ELSE sent[p]
          /\ arriving'[p] \subseteq arriving[p] \cup (currentLsas[n] \X {n})
      BY <2>1 DEF LsasInShape, MessagesInShape
    <3>2. sent[p] \subseteq currentLsas[p] \X Router /\ \A m \in arriving[p] : m[2] \in Router
      BY DEF MessagesInShape
    <3>3. \A m \in currentLsas[n] \X {n} : m[2] \in Router
      OBVIOUS
    <3> QED BY <3>1, <3>2, <3>3
  <2>4. DOMAIN sent' = Router
    BY <2>1 DEF MessagesInShape
  <2> QED BY <2>2, <2>3, <2>4 DEF MessagesInShape
<1>6. CASE Tick \/ UNCHANGED vars
  BY <1>0, <1>6 DEF Tick, nodeVars, vars
<1> QED BY <1>1, <1>2, <1>3, <1>4, <1>5, <1>6, Zenon DEF Next, Progress

LEMMA ClocksStayInShape ==
  ASSUME now \in Nat, ClocksInShape, [Next]_vars
  PROVE  now' \in Nat /\ ClocksInShape'
<1> USE DEF networkVars, nodeVars, timerVars, Never
<1>1. ASSUME NEW n \in Router, NEW g, SendLsa(n, g), UNCHANGED now
      PROVE  lastTransmit' \in [Router -> (0 .. now') \cup {Never}]
  BY <1>1 DEF SendLsa, ClocksInShape
<1>2. ASSUME NEW n \in Router, NEW g, ScheduleLsa(n, g), UNCHANGED now
      PROVE  /\ lastTransmit' \in [Router -> (0 .. now') \cup {Never}]
             /\ delayedLsa' \in [Router -> Nat \cup {Never}]
  <2>1. CASE UNCHANGED <<lastTransmit, delayedLsa>>
    BY <1>2, <2>1 DEF ClocksInShape
  <2>2. CASE SendLsa(n, g) /\ UNCHANGED delayedLsa
    BY <1>1, <1>2, <2>2 DEF ClocksInShape
  <2>3. CASE /\ lastTransmit[n] # Never
             /\ delayedLsa' = [delayedLsa EXCEPT ![n] = lastTransmit[n] + MinLsaInterval]
             /\ UNCHANGED lastTransmit
    <3>1. lastTransmit[n] + MinLsaInterval \in Nat
      BY <2>3, LinkStateAssumption DEF ClocksInShape
    <3> QED BY <1>2, <2>3, <3>1 DEF ClocksInShape
  <2> QED BY <1>2, <2>1, <2>2, <2>3 DEF ScheduleLsa
<1>3. ASSUME NEW n \in Router, ContactUp(n) \/ ContactDown(n) \/ RegistrationAdded(n)
      PROVE  now' \in Nat /\ ClocksInShape'
  <2>1. /\ UNCHANGED now /\ up' \subseteq up \cup Contacts
        /\ \E g : ScheduleLsa(n, g)
    <3>1. UNCHANGED now /\ \E g : ScheduleLsa(n, g)
      BY <1>3, Zenon DEF ContactUp, ContactDown, RegistrationAdded
    <3>2. up' \subseteq up \cup Contacts
      BY <1>3 DEF ContactUp, ContactDown, RegistrationAdded
    <3> QED BY <3>1, <3>2
  <2> QED BY <1>2, <2>1 DEF ClocksInShape
<1>4. ASSUME NEW n \in Router, DelayedLsaTimeout(n) \/ PeriodicLsaTimeout(n)
      PROVE  now' \in Nat /\ ClocksInShape'
  <2>1. UNCHANGED <<now, up>> /\ SendLsa(n, graph[n])
    BY <1>4 DEF DelayedLsaTimeout, PeriodicLsaTimeout
  <2>2. delayedLsa' = [delayedLsa EXCEPT ![n] = Never] \/ UNCHANGED delayedLsa
    BY <1>4 DEF DelayedLsaTimeout, PeriodicLsaTimeout
  <2> QED BY <1>1, <2>1, <2>2 DEF ClocksInShape
<1>5. ASSUME NEW n \in Router, Restart(n)
      PROVE  now' \in Nat /\ ClocksInShape'
  BY <1>5 DEF Restart, ClocksInShape
<1>6. CASE Tick
  <2>1. now' = now + 1 /\ UNCHANGED <<up, lastTransmit, delayedLsa>>
    BY <1>6 DEF Tick
  <2>2. 0 .. now \subseteq 0 .. now'
    BY <2>1
  <2> QED BY <2>1, <2>2 DEF ClocksInShape
<1>7. CASE \/ UNCHANGED vars
           \/ \E n \in Router : Flood(n) \/ HandleLsa(n) \/ LsaExpired(n)
  <2>1. UNCHANGED <<now, up, lastTransmit, delayedLsa>>
    BY <1>7 DEF vars, Flood, HandleLsa, LsaExpired
  <2> QED BY <2>1 DEF ClocksInShape
<1> QED BY <1>3, <1>4, <1>5, <1>6, <1>7, Zenon DEF Next, Progress

RouterInv == now \in Nat /\ GraphsInShape /\ RoutesFit /\ MessagesInShape /\ ClocksInShape

LEMMA RouterInvCorrect ==
  ASSUME CostsFit
  PROVE  Spec => []RouterInv
<1>1. Init => RouterInv
  <2> SUFFICES ASSUME Init PROVE RouterInv
    OBVIOUS
  <2>1. GraphsInShape
    BY LinkStateAssumption DEF Init, GraphsInShape, GraphState
  <2>2. RoutesFit
    <3>1. routes = [n \in Router |-> RoutesOf(n, graph[n])]
      BY DEF Init
    <3>2. \A n \in Router : RightRoutes(n, RoutesOf(n, graph[n]), graph[n])
      BY <2>1, RoutesOfAreRight DEF GraphsInShape
    <3> HIDE DEF RightRoutes
    <3> QED BY <3>1, <3>2 DEF RoutesFit
  <2>3. MessagesInShape
    <3>1. /\ \A n \in Router : currentLsas[n] \in {{}, {FullLsa(s) : s \in Router}} /\ arriving[n] = {}
          /\ sent = [n \in Router |-> currentLsas[n] \X Router]
      BY DEF Init
    <3>2. \A a \in Around : \E s \in Router : a = FullLsa(s)
      BY <3>1 DEF Around, ArrivingLsas
    <3>3. \A s \in Router : LinksListed(FullLsa(s)) /\ FullLsa(s).source = s
      BY DEF FullLsa, LinksListed
    <3> QED BY <3>1, <3>2, <3>3 DEF MessagesInShape
  <2>4. ClocksInShape
    BY LinkStateAssumption DEF Init, ClocksInShape, Never
  <2> QED BY <2>1, <2>2, <2>3, <2>4 DEF Init, RouterInv
<1>2. LsaInv /\ RouterInv /\ [Next]_vars => RouterInv'
  <2> SUFFICES ASSUME LsaInv, RouterInv, [Next]_vars PROVE RouterInv'
    OBVIOUS
  <2>1. LsasInShape
    BY DEF LsaInv
  <2>2. now \in Nat /\ GraphsInShape /\ RoutesFit /\ MessagesInShape /\ ClocksInShape
    BY DEF RouterInv
  <2>3. GraphsInShape' /\ RoutesFit'
    BY <2>2, RoutesStayRight
  <2>4. MessagesInShape'
    BY <2>1, <2>2, <2>3, MessagesStayInShape
  <2>5. now' \in Nat /\ ClocksInShape'
    BY <2>2, ClocksStayInShape
  <2> QED BY <2>3, <2>4, <2>5 DEF RouterInv
<1> QED BY <1>1, <1>2, LsaInvCorrect, PTL DEF Spec

\* The state of every router has its type: an LSA lists links of its source, of
\* each source at most one is current, and a route is a link of the router that
\* leads to another one, never the edge to a registration of its own.
THEOREM TypeCorrect ==
  ASSUME CostsFit
  PROVE  Spec => []TypeOK
<1>1. LsaInv /\ RouterInv => TypeOK
  <2> SUFFICES ASSUME LsaInv, RouterInv PROVE TypeOK
    OBVIOUS
  <2>1. now \in Nat /\ GraphsInShape /\ RoutesFit /\ MessagesInShape /\ ClocksInShape
    BY DEF RouterInv
  <2>2. LsasInShape
    BY DEF LsaInv
  <2>3. /\ graph \in [Router -> [Link -> {"absent", "up", "down"}]]
        /\ {lastSeqno, lastCreation} \subseteq [Router -> [Router -> Nat]]
    BY <2>1, <2>2 DEF GraphsInShape, GraphState, LsasInShape
  <2>4. \A n \in Router :
          /\ sent[n] \subseteq currentLsas[n] \X Router
          /\ \A a \in currentLsas[n] \cup {m[1] : m \in arriving[n]} :
               a.source \in Router /\ a.seqno \in Nat \ {0} /\ DOMAIN a.links \subseteq Out(a.source)
    BY <2>1, <2>2, Known DEF MessagesInShape, LinksListed, LsasInShape
  <2>5. \A n \in Router : routes[n] \in [Vertex \ {n} -> SUBSET (Out(n) \cap Contacts)]
    BY <2>1 DEF RoutesFit, RightRoutes
  <2>6. \A n \in Router : \A a, b \in currentLsas[n] : a.source = b.source => a = b
    BY <2>1 DEF MessagesInShape
  <2> QED BY <2>1, <2>3, <2>4, <2>5, <2>6 DEF ClocksInShape, TypeOK
<1> QED BY <1>1, LsaInvCorrect, RouterInvCorrect, PTL

\* The routes of every router lead over the first links of shortest paths in its
\* present graph, and there is one exactly for the destinations that have a
\* path, after every contact, registration, announcement and restart
\* (recompute_routes with best_next_hop), for every network and all costs whose
\* sums fit a distance.
THEOREM RoutesCorrect ==
  ASSUME CostsFit
  PROVE  Spec => []RoutesShortest
<1>1. RouterInv => RoutesShortest
  <2> SUFFICES ASSUME RouterInv, NEW n \in Router
               PROVE  LeadShortest(n, Distances(Vertex, Edges(graph[n])))
    BY DEF RoutesShortest
  <2> DEFINE D == Distances(Vertex, Edges(graph[n]))
  <2>1. graph[n] \in GraphState /\ n \in Vertex
    BY NetworkIs DEF RouterInv, GraphsInShape
  <2>2. \A d \in Vertex : D[n][d] \in Nat /\ D[n][d] <= MaxDistance
    BY <2>1, EdgesAre, DistancesAre
  <2>3. \A d \in (Vertex \ {n}) \ OwnRegistrations(n) :
          /\ routes[n][d] = {} <=> D[n][d] = MaxDistance
          /\ \A l \in routes[n][d] : Weight(graph[n][l], l) + D[l[2]][d] = D[n][d]
    BY DEF RouterInv, RoutesFit, RightRoutes
  <2> HIDE DEF D
  <2>4. \A d \in Vertex : D[n][d] >= MaxDistance <=> D[n][d] = MaxDistance
    BY <2>2, MaxDistanceAssumption
  <2> QED BY <2>3, <2>4 DEF LeadShortest, OwnRegistrations, D
<1> QED BY <1>1, RouterInvCorrect, PTL
=============================================================================
