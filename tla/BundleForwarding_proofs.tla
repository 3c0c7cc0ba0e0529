----------------------- MODULE BundleForwarding_proofs -----------------------
(***************************************************************************)
(* Proofs about BundleForwarding for any number of bundles, links and      *)
(* routes, queues of any length and any events outstanding.                *)
(***************************************************************************)
EXTENDS BundleForwarding, DataLemmas

----------------------------------------------------------------------------
(* What the decisions of the router keep true of the state they work on.   *)

State ==
  [link : [Link -> {"unavailable", "available", "opening", "open"}],
   queue : [Link -> Seq(Bundle)], deferred : [Link -> Seq(Bundle)],
   log : [Bundle -> [Link -> LogState]]]

\* Queues are short, a queued bundle is logged so and not deferred on the link
\* as well, and a bundle is sent over one link only.
Sound(s) ==
  /\ \A l \in Link :
       Len(s.queue[l]) <= QueueHigh /\ NoDuplicates(s.queue[l]) /\ NoDuplicates(s.deferred[l])
  /\ \A b \in Bundle, l \in Link :
       In(b, s.queue[l]) => s.log[b][l] = "QUEUED" /\ ~In(b, s.deferred[l])
  /\ \A b \in Bundle : \A k, l \in Link : Sent(s, b, k) /\ Sent(s, b, l) => k = l

\* A bundle that was transmitted is not deferred.
Settled(s) ==
  \A b \in Bundle :
    (\E l \in Link : s.log[b][l] = "TRANSMITTED") => \A l \in Link : ~In(b, s.deferred[l])

Good(s) == s \in State /\ Sound(s) /\ Settled(s)

\* The router only ever logs bundles it queues, and these were not sent.
Logs(s, t) ==
  \A b \in Bundle, l \in Link :
    \/ t.log[b][l] = s.log[b][l] /\ (In(b, t.queue[l]) <=> In(b, s.queue[l]))
    \/ ~Sent(s, b, l) /\ t.log[b][l] = "QUEUED" /\ In(b, t.queue[l])

\* A deferred bundle that could still be sent is still deferred, behind no more
\* bundles than before, and only those before it were queued.
Orderly(s, t) ==
  \A l \in Link, d \in Bundle :
    In(d, s.deferred[l]) /\ ShouldForward(t, d, l) =>
      /\ In(d, t.deferred[l])
      /\ \A c \in Bundle :
           /\ Before(t.deferred[l], c, d) => Before(s.deferred[l], c, d)
           /\ In(c, t.queue[l]) => In(c, s.queue[l]) \/ Before(s.deferred[l], c, d)

Grows(s, t) == Logs(s, t) /\ Orderly(s, t)

LEMMA GrowsOn ==
  /\ \A s : Grows(s, s)
  /\ \A s, t, u : Grows(s, t) /\ Grows(t, u) => Grows(s, u)
  /\ \A s, t, u : Orderly(s, t) /\ Grows(t, u) => Orderly(s, u)
<1>1. \A s : Grows(s, s)
  BY DEF Grows, Logs, Orderly
<1>2. ASSUME NEW s, NEW t, NEW u, Grows(s, t), Grows(t, u) PROVE Logs(s, u)
  <2> SUFFICES ASSUME NEW b \in Bundle, NEW l \in Link
               PROVE  \/ u.log[b][l] = s.log[b][l] /\ (In(b, u.queue[l]) <=> In(b, s.queue[l]))
                      \/ ~Sent(s, b, l) /\ u.log[b][l] = "QUEUED" /\ In(b, u.queue[l])
    BY DEF Logs
  <2> QED BY <1>2 DEF Grows, Logs, Sent
<1>3. ASSUME NEW s, NEW t, NEW u, Orderly(s, t), Grows(t, u) PROVE Orderly(s, u)
  <2> SUFFICES ASSUME NEW l \in Link, NEW d \in Bundle,
                      In(d, s.deferred[l]), ShouldForward(u, d, l)
               PROVE  /\ In(d, u.deferred[l])
                      /\ \A c \in Bundle :
                           /\ Before(u.deferred[l], c, d) => Before(s.deferred[l], c, d)
                           /\ In(c, u.queue[l]) => In(c, s.queue[l]) \/ Before(s.deferred[l], c, d)
    BY DEF Orderly
  <2>1. ShouldForward(t, d, l)
    BY <1>3 DEF Grows, Logs, ShouldForward, Sent
  <2>2. /\ In(d, t.deferred[l])
        /\ \A c \in Bundle :
             /\ Before(t.deferred[l], c, d) => Before(s.deferred[l], c, d)
             /\ In(c, t.queue[l]) => In(c, s.queue[l]) \/ Before(s.deferred[l], c, d)
    BY <1>3, <2>1 DEF Orderly
  <2>3. /\ In(d, u.deferred[l])
        /\ \A c \in Bundle :
             /\ Before(u.deferred[l], c, d) => Before(t.deferred[l], c, d)
             /\ In(c, u.queue[l]) => In(c, t.queue[l]) \/ Before(t.deferred[l], c, d)
    BY <1>3, <2>2 DEF Grows, Orderly
  <2> QED BY <2>2, <2>3
<1> QED BY <1>1, <1>2, <1>3 DEF Grows

LEMMA OpenKeeps ==
  ASSUME NEW s, NEW l \in Link, Good(s)
  PROVE  /\ Good(Open(s, l)) /\ Grows(s, Open(s, l))
         /\ Open(s, l).deferred = s.deferred /\ Open(s, l).log = s.log
<1>1. Open(s, l) \in State /\ Open(s, l).queue = s.queue
      /\ Open(s, l).deferred = s.deferred /\ Open(s, l).log = s.log
  BY DEF Open, Good, State
<1> HIDE DEF Open
<1>2. Sound(Open(s, l)) /\ Settled(Open(s, l))
  BY <1>1 DEF Good, Sound, Settled, Sent
<1>3. Grows(s, Open(s, l))
  BY <1>1 DEF Grows, Logs, Orderly
<1> QED BY <1>1, <1>2, <1>3 DEF Good

LEMMA DeferKeeps ==
  ASSUME NEW s, NEW b \in Bundle, NEW l \in Link, Good(s),
         ShouldForward(s, b, l), ~In(b, s.deferred[l])
  PROVE  LET t == [s EXCEPT !.deferred[l] = Append(@, b)] IN Good(t) /\ Grows(s, t)
<1> DEFINE t == [s EXCEPT !.deferred[l] = Append(@, b)]
<1>1. s \in State /\ s.deferred[l] \in Seq(Bundle)
  BY DEF Good, State
<1>2. t \in State /\ t.queue = s.queue /\ t.log = s.log
      /\ t.deferred[l] = Append(s.deferred[l], b)
      /\ \A k \in Link : k # l => t.deferred[k] = s.deferred[k]
  <2> DEFINE d == [s.deferred EXCEPT ![l] = Append(s.deferred[l], b)]
  <2>1. Append(s.deferred[l], b) \in Seq(Bundle)
    BY <1>1
  <2>2. /\ d \in [Link -> Seq(Bundle)] /\ d[l] = Append(s.deferred[l], b)
        /\ \A k \in Link : k # l => d[k] = s.deferred[k]
    BY <1>1, <2>1 DEF State
  <2>3. t = [s EXCEPT !.deferred = d]
    BY <1>1 DEF State
  <2> HIDE DEF d, t
  <2>4. t \in State /\ t.queue = s.queue /\ t.log = s.log /\ t.deferred = d
    BY <1>1, <2>2, <2>3 DEF State
  <2> QED BY <2>2, <2>4
<1> HIDE DEF t
<1>3. /\ \A c : In(c, t.deferred[l]) <=> In(c, s.deferred[l]) \/ c = b
      /\ NoDuplicates(s.deferred[l]) => NoDuplicates(t.deferred[l])
  BY <1>1, <1>2, InAppend, NoDuplicatesAppend
<1>4. \A k \in Link : s.log[b][k] \notin {"QUEUED", "TRANSMITTED"}
  BY DEF ShouldForward, Sent
<1>5. \A c, k : Sent(t, c, k) <=> Sent(s, c, k)
  BY <1>2 DEF Sent
<1>6. Sound(t)
  <2>1. \A k \in Link :
          Len(t.queue[k]) <= QueueHigh /\ NoDuplicates(t.queue[k]) /\ NoDuplicates(t.deferred[k])
    BY <1>2, <1>3 DEF Good, Sound
  <2>2. ASSUME NEW c \in Bundle, NEW k \in Link, In(c, t.queue[k])
        PROVE  t.log[c][k] = "QUEUED" /\ ~In(c, t.deferred[k])
    <3>1. In(c, s.queue[k]) /\ s.log[c][k] = "QUEUED" /\ ~In(c, s.deferred[k])
      BY <1>2, <2>2 DEF Good, Sound
    <3>2. c # b
      BY <1>4, <3>1
    <3> QED BY <1>2, <1>3, <3>1, <3>2
  <2>3. \A c \in Bundle : \A j, k \in Link : Sent(t, c, j) /\ Sent(t, c, k) => j = k
    BY <1>5 DEF Good, Sound
  <2> QED BY <2>1, <2>2, <2>3 DEF Sound
<1>7. Settled(t)
  BY <1>2, <1>3, <1>4 DEF Good, Settled
<1>8. Grows(s, t)
  <2>1. Logs(s, t)
    BY <1>2 DEF Logs
  <2>2. ASSUME NEW k \in Link, NEW d \in Bundle, In(d, s.deferred[k])
        PROVE  /\ In(d, t.deferred[k])
               /\ \A c \in Bundle : Before(t.deferred[k], c, d) => Before(s.deferred[k], c, d)
    <3>1. CASE k # l
      BY <1>2, <2>2, <3>1
    <3>2. CASE k = l
      <4>1. In(d, t.deferred[l]) /\ d # b
        BY <1>3, <2>2, <3>2
      <4>2. \A c : Before(t.deferred[l], c, d) => Before(s.deferred[l], c, d)
        BY <1>1, <1>2, <4>1, BeforeAppend
      <4> QED BY <3>2, <4>1, <4>2
    <3> QED BY <3>1, <3>2
  <2>3. Orderly(s, t)
    BY <1>2, <2>2 DEF Orderly
  <2> QED BY <2>1, <2>3 DEF Grows
<1>9. Good(t) /\ Grows(s, t)
  BY <1>2, <1>6, <1>7, <1>8 DEF Good
<1> QED BY <1>9 DEF t

LEMMA MoveKeeps ==
  ASSUME NEW s, NEW l \in Link, NEW moved \in Seq(Bundle), Good(s),
         NoDuplicates(moved), Len(s.queue[l]) + Len(moved) <= QueueHigh,
         \A b : In(b, moved) => In(b, s.deferred[l]) /\ ShouldForward(s, b, l),
         \A c, d : In(c, moved) /\ In(d, s.deferred[l]) /\ ~In(d, moved)
                     /\ ShouldForward(s, d, l) => Before(s.deferred[l], c, d)
  PROVE  Good(Move(s, l, moved)) /\ Grows(s, Move(s, l, moved))
<1> DEFINE t == Move(s, l, moved)
           left == Only({b \in Bundle : ~In(b, moved)}, s.deferred[l])
<1>1. s \in State /\ s.deferred[l] \in Seq(Bundle) /\ s.queue[l] \in Seq(Bundle)
      /\ \A b \in Bundle : s.log[b] \in [Link -> LogState]
  BY DEF Good, State
<1>2. /\ left \in Seq(Bundle)
      /\ NoDuplicates(s.deferred[l]) => NoDuplicates(left)
      /\ \A b \in Bundle : In(b, left) <=> In(b, s.deferred[l]) /\ ~In(b, moved)
  <2> DEFINE U == {b \in Bundle : ~In(b, moved)}
  <2>1. \A b \in Bundle : b \in U <=> ~In(b, moved)
    OBVIOUS
  <2>2. left = Only(U, s.deferred[l])
    OBVIOUS
  <2> HIDE DEF U, left
  <2>3. /\ Only(U, s.deferred[l]) \in Seq(Bundle)
        /\ NoDuplicates(s.deferred[l]) => NoDuplicates(Only(U, s.deferred[l]))
        /\ \A b : In(b, Only(U, s.deferred[l])) <=> In(b, s.deferred[l]) /\ b \in U
    BY <1>1, InOnly
  <2> QED BY <2>1, <2>2, <2>3
<1>3. /\ s.queue[l] \o moved \in Seq(Bundle) /\ Len(s.queue[l] \o moved) <= QueueHigh
      /\ \A b : In(b, s.queue[l] \o moved) <=> In(b, s.queue[l]) \/ In(b, moved)
  BY <1>1, InConcat
<1>4. /\ t \in State
      /\ t.queue[l] = s.queue[l] \o moved /\ t.deferred[l] = left
      /\ \A k \in Link : k # l => t.queue[k] = s.queue[k] /\ t.deferred[k] = s.deferred[k]
      /\ \A b \in Bundle, k \in Link :
           t.log[b][k] = IF k = l /\ In(b, moved) THEN "QUEUED" ELSE s.log[b][k]
  <2> DEFINE d == [s.deferred EXCEPT ![l] = left]
             q == [s.queue EXCEPT ![l] = s.queue[l] \o moved]
             g == [b \in Bundle |->
                     IF In(b, moved) THEN [s.log[b] EXCEPT ![l] = "QUEUED"] ELSE s.log[b]]
  <2> HIDE DEF left
  <2>1. /\ d \in [Link -> Seq(Bundle)] /\ d[l] = left
        /\ \A k \in Link : k # l => d[k] = s.deferred[k]
    BY <1>1, <1>2 DEF State
  <2>2. /\ q \in [Link -> Seq(Bundle)] /\ q[l] = s.queue[l] \o moved
        /\ \A k \in Link : k # l => q[k] = s.queue[k]
    BY <1>1, <1>3 DEF State
  <2>3. g \in [Bundle -> [Link -> LogState]]
    BY <1>1 DEF LogState
  <2>4. \A b \in Bundle, k \in Link :
          g[b][k] = IF k = l /\ In(b, moved) THEN "QUEUED" ELSE s.log[b][k]
    BY <1>1
  <2>5. t = [s EXCEPT !.deferred = d, !.queue = q, !.log = g]
    BY <1>1 DEF State, Move, left
  <2> HIDE DEF d, q, g, t, left
  <2>6. t \in State /\ t.queue = q /\ t.deferred = d /\ t.log = g
    BY <1>1, <2>1, <2>2, <2>3, <2>5 DEF State
  <2> QED BY <2>1, <2>2, <2>4, <2>6
<1> HIDE DEF t, left
<1>5. \A b \in Bundle, k \in Link : In(b, moved) => ~Sent(s, b, k) /\ ~In(b, s.queue[k])
  BY DEF ShouldForward, Sent, Good, Sound
<1>6. \A b \in Bundle, k \in Link : In(b, t.queue[k]) <=> In(b, s.queue[k]) \/ (k = l /\ In(b, moved))
  BY <1>3, <1>4
<1>7. \A b \in Bundle, k \in Link : In(b, t.deferred[k]) => In(b, s.deferred[k]) /\ (k # l \/ ~In(b, moved))
  BY <1>2, <1>4
<1>8. Sound(t)
  <2>1. ASSUME NEW k \in Link
        PROVE  Len(t.queue[k]) <= QueueHigh /\ NoDuplicates(t.queue[k]) /\ NoDuplicates(t.deferred[k])
    <3>1. Len(s.queue[k]) <= QueueHigh /\ NoDuplicates(s.queue[k]) /\ NoDuplicates(s.deferred[k])
      BY DEF Good, Sound
    <3>2. CASE k # l
      BY <1>4, <3>1, <3>2
    <3>3. CASE k = l
      <4>1. \A y : ~(In(y, s.queue[l]) /\ In(y, moved))
        BY <1>1, <1>5, InRange
      <4>2. NoDuplicates(s.queue[l] \o moved)
        BY <1>1, <3>1, <3>3, <4>1, InConcat
      <4>3. Len(t.queue[l]) <= QueueHigh /\ NoDuplicates(t.queue[l])
        BY <1>3, <1>4, <4>2
      <4>4. NoDuplicates(t.deferred[l])
        BY <1>2, <1>4, <3>1, <3>3
      <4> QED BY <3>3, <4>3, <4>4
    <3> QED BY <3>2, <3>3
  <2>2. ASSUME NEW b \in Bundle, NEW k \in Link, In(b, t.queue[k])
        PROVE  t.log[b][k] = "QUEUED" /\ ~In(b, t.deferred[k])
    <3>1. CASE k = l /\ In(b, moved)
      BY <1>4, <1>7, <3>1
    <3>2. CASE ~(k = l /\ In(b, moved))
      <4>1. In(b, s.queue[k])
        BY <1>6, <2>2, <3>2
      <4>2. s.log[b][k] = "QUEUED" /\ ~In(b, s.deferred[k])
        BY <4>1 DEF Good, Sound
      <4> QED BY <1>4, <1>7, <3>2, <4>2
    <3> QED BY <3>1, <3>2
  <2>3. ASSUME NEW b \in Bundle, NEW j \in Link, NEW k \in Link, Sent(t, b, j), Sent(t, b, k)
        PROVE  j = k
    <3>1. \A m \in Link : Sent(t, b, m) <=> Sent(s, b, m) \/ (m = l /\ In(b, moved))
      BY <1>4 DEF Sent
    <3> QED BY <1>5, <2>3, <3>1 DEF Good, Sound
  <2> QED BY <2>1, <2>2, <2>3 DEF Sound
<1>9. Settled(t)
  <2> SUFFICES ASSUME NEW b \in Bundle, NEW j \in Link, t.log[b][j] = "TRANSMITTED", NEW k \in Link
               PROVE  ~In(b, t.deferred[k])
    BY DEF Settled
  <2>1. s.log[b][j] = "TRANSMITTED"
    BY <1>4
  <2> QED BY <1>7, <2>1 DEF Good, Settled
<1>10. Grows(s, t)
  <2>1. Logs(s, t)
    BY <1>4, <1>5, <1>6 DEF Logs
  <2>2. \A b \in Bundle, k \in Link : ShouldForward(t, b, k) => ShouldForward(s, b, k) /\ ~In(b, moved)
    BY <1>4 DEF ShouldForward, Sent
  <2>3. ASSUME NEW k \in Link, NEW d \in Bundle, In(d, s.deferred[k]), ShouldForward(t, d, k)
        PROVE  /\ In(d, t.deferred[k])
               /\ \A c \in Bundle :
                    /\ Before(t.deferred[k], c, d) => Before(s.deferred[k], c, d)
                    /\ In(c, t.queue[k]) => In(c, s.queue[k]) \/ Before(s.deferred[k], c, d)
    <3>1. CASE k # l
      BY <1>4, <2>3, <3>1
    <3>2. CASE k = l
      <4>1. In(d, t.deferred[l])
        BY <1>2, <1>4, <2>2, <2>3, <3>2
      <4>2. \A c : Before(left, c, d) => Before(s.deferred[l], c, d)
        BY <1>1, BeforeOnly DEF left
      <4>3. \A c \in Bundle : In(c, t.queue[l]) => In(c, s.queue[l]) \/ Before(s.deferred[l], c, d)
        BY <1>6, <2>2, <2>3, <3>2
      <4> QED BY <1>4, <3>2, <4>1, <4>2, <4>3
    <3> QED BY <3>1, <3>2
  <2>4. Orderly(s, t)
    BY <2>3 DEF Orderly
  <2> QED BY <2>1, <2>4 DEF Grows
<1>11. Good(t) /\ Grows(s, t)
  BY <1>4, <1>8, <1>9, <1>10 DEF Good
<1> QED BY <1>11 DEF t

LEMMA CheckNextHopKeeps ==
  ASSUME NEW s, NEW l \in Link, Good(s)
  PROVE  Good(CheckNextHop(s, l)) /\ Grows(s, CheckNextHop(s, l))
<1> DEFINE willing == Only({b \in Bundle : ShouldForward(s, b, l)}, s.deferred[l])
           n == Smallest(QueueHigh - Len(s.queue[l]), Len(willing))
           moved == SubSeq(willing, 1, n)
<1>1. CASE s.link[l] # "open" \/ Len(s.queue[l]) >= QueueLow
  BY <1>1, GrowsOn DEF CheckNextHop
<1>2. CASE ~(s.link[l] # "open" \/ Len(s.queue[l]) >= QueueLow)
  <2>1. s.deferred[l] \in Seq(Bundle) /\ s.queue[l] \in Seq(Bundle) /\ NoDuplicates(s.deferred[l])
    BY DEF Good, State, Sound
  <2>2. /\ willing \in Seq(Bundle) /\ NoDuplicates(willing)
        /\ \A b : In(b, willing) <=> In(b, s.deferred[l]) /\ b \in {c \in Bundle : ShouldForward(s, c, l)}
    BY <2>1, InOnly
  <2> HIDE DEF willing
  <2>3. n \in 0 .. Len(willing) /\ Len(s.queue[l]) + n <= QueueHigh
    <3>1. Len(willing) \in Nat /\ Len(s.queue[l]) \in Nat /\ Len(s.queue[l]) < QueueLow
      BY <1>2, <2>1, <2>2, BundleForwardingAssumption
    <3>2. QueueHigh - Len(s.queue[l]) \in Nat /\ QueueHigh \in Nat
      BY <3>1, BundleForwardingAssumption
    <3>3. \A i, j \in Nat : Smallest(i, j) \in 0 .. j /\ Smallest(i, j) <= i
      BY DEF Smallest
    <3>4. n \in 0 .. Len(willing) /\ n <= QueueHigh - Len(s.queue[l])
      BY <3>1, <3>2, <3>3
    <3> HIDE DEF n
    <3> QED BY <3>1, <3>2, <3>4
  <2> HIDE DEF n
  <2>4. /\ moved \in Seq(Bundle) /\ Len(moved) = n /\ NoDuplicates(moved)
        /\ \A b : In(b, moved) => In(b, willing)
    BY <2>2, <2>3, InPrefix
  <2>5. CheckNextHop(s, l) = Move(s, l, moved)
    BY <1>2 DEF CheckNextHop, UpToHigh, moved, n, willing
  <2>6. ASSUME NEW c, NEW d, In(c, moved), In(d, s.deferred[l]), ~In(d, moved), ShouldForward(s, d, l)
        PROVE  Before(s.deferred[l], c, d)
    <3>1. d \in Bundle
      BY <2>1, <2>6, InRange
    <3>2. In(d, willing)
      BY <2>2, <2>6, <3>1
    <3>3. Before(willing, c, d)
      BY <2>2, <2>3, <2>6, <3>2, BeforeRest
    <3> QED BY <2>1, <3>3, BeforeOnly DEF willing
  <2> HIDE DEF moved
  <2> QED BY <2>2, <2>3, <2>4, <2>5, <2>6, MoveKeeps
<1> QED BY <1>1, <1>2

LEMMA TryRouteKeeps ==
  ASSUME NEW s, NEW b \in Bundle, NEW l \in Link, NEW skip \in BOOLEAN, Good(s)
  PROVE  Good(TryRoute(s, b, l, skip)) /\ Grows(s, TryRoute(s, b, l, skip))
<1>1. CASE ~ShouldRoute(s, b, l) \/ In(b, s.deferred[l])
  BY <1>1, GrowsOn DEF TryRoute
<1>2. CASE ShouldRoute(s, b, l) /\ ~In(b, s.deferred[l])
  <2>1. /\ Good(Open(s, l)) /\ Grows(s, Open(s, l)) /\ ~In(b, Open(s, l).deferred[l])
        /\ ShouldForward(Open(s, l), b, l)
    BY <1>2, OpenKeeps DEF ShouldRoute, ShouldForward, Sent
  <2> DEFINE t == ForwardToNextHop(s, b, l)
  <2>2. Good(t) /\ Grows(Open(s, l), t)
    BY <2>1, DeferKeeps DEF ForwardToNextHop
  <2>3. Good(CheckNextHop(t, l)) /\ Grows(t, CheckNextHop(t, l))
    BY <2>2, CheckNextHopKeeps
  <2>4. TryRoute(s, b, l, skip) = IF skip THEN t ELSE CheckNextHop(t, l)
    BY <1>2 DEF TryRoute
  <2> HIDE DEF t
  <2> QED BY <2>1, <2>2, <2>3, <2>4, GrowsOn
<1> QED BY <1>1, <1>2

\* The states the router may reach from s by routing.
Reach(s) == {t \in State : Good(t) /\ Grows(s, t)}

LEMMA TryRouteReaches ==
  ASSUME NEW s, NEW t \in Reach(s), NEW b \in Bundle, NEW l \in Link, NEW skip \in BOOLEAN
  PROVE  TryRoute(t, b, l, skip) \in Reach(s)
<1>1. Good(t) /\ Grows(s, t)
  BY DEF Reach
<1>2. Good(TryRoute(t, b, l, skip)) /\ Grows(t, TryRoute(t, b, l, skip))
  BY <1>1, TryRouteKeeps
<1> QED BY <1>1, <1>2, GrowsOn DEF Reach, Good

LEMMA RouteBundleReaches ==
  ASSUME NEW s, NEW r \in Reach(s), NEW b \in Bundle, NEW table, NEW skip \in BOOLEAN
  PROVE  RouteBundle(r, b, table, skip) \in Reach(s)
<1> DEFINE matches == Only(table, LinkOrder)
<1>1. matches \in Seq(Link)
  BY BundleForwardingAssumption, InOnly
<1> HIDE DEF matches
<1> DEFINE n == Len(matches)
           X == Reach(s)
           Tried(f) == [i \in 0 .. n |->
                          IF i = 0 THEN r ELSE TryRoute(f[i - 1], b, matches[i], skip)]
           next == [i \in 1 .. n |-> [x \in X |-> TryRoute(x, b, matches[i], skip)]]
<1>2. n \in Nat /\ 0 \in 0 .. n /\ n \in 0 .. n /\ 1 .. n \subseteq 0 .. n
      /\ \A i \in 1 .. n : matches[i] \in Link /\ i # 0 /\ i - 1 \in 0 .. n
  BY <1>1
<1>3. \A i \in 0 .. n : i # 0 => i \in 1 .. n
  BY <1>2
<1> HIDE DEF n, X
<1>4. \A i \in 1 .. n, x \in X : TryRoute(x, b, matches[i], skip) \in X
  BY <1>2, TryRouteReaches DEF X
<1>5. next \in [1 .. n -> [X -> X]]
      /\ \A i \in 1 .. n, x \in X : next[i][x] = TryRoute(x, b, matches[i], skip)
  BY <1>4
<1>6. r \in X
  BY DEF X
<1> HIDE DEF next
<1>7. PICK f : Iterates(f, n, X, r, next)
  BY <1>2, <1>5, <1>6, Recursion
<1>8. f = Tried(f)
  <2>1. f \in [0 .. n -> X] /\ f[0] = r /\ \A i \in 1 .. n : f[i] = next[i][f[i - 1]]
    BY <1>7 DEF Iterates
  <2>2. \A i \in 1 .. n : f[i] = TryRoute(f[i - 1], b, matches[i], skip)
    BY <1>2, <1>5, <2>1
  <2> QED BY <1>2, <1>3, <2>1, <2>2
<1> DEFINE g == CHOOSE h : h = Tried(h)
<1>9. RouteBundle(r, b, table, skip) = g[n]
  BY Zenon DEF RouteBundle, matches, n
<1>10. g = Tried(g)
  BY <1>8, Zenon
<1> HIDE DEF g
<1>11. \A i \in 0 .. n : g[i] = IF i = 0 THEN r ELSE TryRoute(g[i - 1], b, matches[i], skip)
  BY <1>10, Zenon
<1> DEFINE G == {i \in 0 .. n : g[i] \in X}
<1>12. 0 \in G /\ \A i \in 1 .. n : i - 1 \in G => i \in G
  BY <1>2, <1>4, <1>6, <1>11
<1>13. n \in G
  <2> HIDE DEF G
  <2>1. \A i \in 0 .. n : i \in G
    BY <1>2, <1>12, UpTo
  <2> QED BY <1>2, <2>1
<1> QED BY <1>9, <1>13 DEF X

LEMMA RerouteAllReaches ==
  ASSUME NEW s, NEW r \in Reach(s), NEW table, pending \in Seq(Bundle)
  PROVE  RerouteAll(r, table) \in Reach(s)
<1> DEFINE n == Len(pending)
           X == Reach(s)
           Rerouted(f) == [i \in 0 .. n |->
                             IF i = 0 THEN r ELSE RouteBundle(f[i - 1], pending[i], table, i > 1)]
           next == [i \in 1 .. n |-> [x \in X |-> RouteBundle(x, pending[i], table, i > 1)]]
<1>2. n \in Nat /\ 0 \in 0 .. n /\ n \in 0 .. n /\ 1 .. n \subseteq 0 .. n
      /\ \A i \in 1 .. n : pending[i] \in Bundle /\ (i > 1) \in BOOLEAN /\ i # 0 /\ i - 1 \in 0 .. n
  OBVIOUS
<1>3. \A i \in 0 .. n : i # 0 => i \in 1 .. n
  BY <1>2
<1> HIDE DEF n, X
<1>4. \A i \in 1 .. n, x \in X : RouteBundle(x, pending[i], table, i > 1) \in X
  BY <1>2, RouteBundleReaches DEF X
<1>5. next \in [1 .. n -> [X -> X]]
      /\ \A i \in 1 .. n, x \in X : next[i][x] = RouteBundle(x, pending[i], table, i > 1)
  BY <1>4
<1>6. r \in X
  BY DEF X
<1> HIDE DEF next
<1>7. PICK f : Iterates(f, n, X, r, next)
  BY <1>2, <1>5, <1>6, Recursion
<1>8. f = Rerouted(f)
  <2>1. f \in [0 .. n -> X] /\ f[0] = r /\ \A i \in 1 .. n : f[i] = next[i][f[i - 1]]
    BY <1>7 DEF Iterates
  <2>2. \A i \in 1 .. n : f[i] = RouteBundle(f[i - 1], pending[i], table, i > 1)
    BY <1>2, <1>5, <2>1
  <2> QED BY <1>2, <1>3, <2>1, <2>2
<1> DEFINE g == CHOOSE h : h = Rerouted(h)
<1>9. RerouteAll(r, table) = g[n]
  BY Zenon DEF RerouteAll, n
<1>10. g = Rerouted(g)
  BY <1>8, Zenon
<1> HIDE DEF g
<1>11. \A i \in 0 .. n : g[i] = IF i = 0 THEN r ELSE RouteBundle(g[i - 1], pending[i], table, i > 1)
  BY <1>10, Zenon
<1> DEFINE G == {i \in 0 .. n : g[i] \in X}
<1>12. 0 \in G /\ \A i \in 1 .. n : i - 1 \in G => i \in G
  BY <1>2, <1>4, <1>6, <1>11
<1>13. n \in G
  <2> HIDE DEF G
  <2>1. \A i \in 0 .. n : i \in G
    BY <1>2, <1>12, UpTo
  <2> QED BY <1>2, <2>1
<1> QED BY <1>9, <1>13 DEF X

\* The other steps only take bundles away and note what became of them.
Less(s, t) ==
  /\ \A l \in Link :
       /\ Len(t.queue[l]) <= QueueHigh
       /\ NoDuplicates(t.queue[l]) /\ NoDuplicates(t.deferred[l])
  /\ \A b \in Bundle, l \in Link :
       /\ In(b, t.queue[l]) => In(b, s.queue[l])
       /\ In(b, t.deferred[l]) => In(b, s.deferred[l])
       /\ \/ t.log[b][l] = s.log[b][l]
          \/ ~In(b, t.queue[l]) /\ ~Sent(t, b, l)
          \/ /\ ~In(b, t.queue[l]) /\ s.log[b][l] = "QUEUED"
             /\ \A k \in Link : ~In(b, t.deferred[k])

LEMMA LessKeeps ==
  ASSUME NEW s, NEW t \in State, Good(s), Less(s, t)
  PROVE  Good(t)
<1>1. ASSUME NEW b \in Bundle, NEW l \in Link, Sent(t, b, l) PROVE Sent(s, b, l)
  BY <1>1 DEF Less, Sent
<1>2. Sound(t)
  <2>1. ASSUME NEW b \in Bundle, NEW l \in Link, In(b, t.queue[l])
        PROVE  t.log[b][l] = "QUEUED" /\ ~In(b, t.deferred[l])
    BY <2>1 DEF Less, Good, Sound
  <2>2. \A b \in Bundle : \A k, l \in Link : Sent(t, b, k) /\ Sent(t, b, l) => k = l
    BY <1>1 DEF Good, Sound
  <2> QED BY <2>1, <2>2 DEF Less, Sound
<1>3. Settled(t)
  <2> SUFFICES ASSUME NEW b \in Bundle, NEW l \in Link, t.log[b][l] = "TRANSMITTED", NEW k \in Link,
                      In(b, t.deferred[k])
               PROVE  FALSE
    BY DEF Settled
  <2>1. Sent(t, b, l) /\ In(b, s.deferred[k])
    BY DEF Less, Sent
  <2>2. s.log[b][l] = "TRANSMITTED"
    BY <2>1 DEF Less
  <2> QED BY <2>1, <2>2 DEF Good, Settled
<1> QED BY <1>2, <1>3 DEF Good

Noted(log, b, l, state) == [log EXCEPT ![b][l] = state]

LEMMA LoggedKeeps ==
  ASSUME NEW s, NEW b \in Bundle, NEW l \in Link, NEW state \in {"TRANSMIT_FAILED", "CUSTODY_TIMEOUT"},
         Good(s), ~In(b, s.queue[l])
  PROVE  /\ Good(Logged(s, b, l, state)) /\ Orderly(s, Logged(s, b, l, state))
         /\ Logged(s, b, l, state).queue = s.queue
         /\ Logged(s, b, l, state).log = Noted(s.log, b, l, state)
<1> DEFINE t == Logged(s, b, l, state)
           g == [s.log EXCEPT ![b][l] = state]
<1>1. s \in State /\ s.log \in [Bundle -> [Link -> LogState]] /\ s.log[b] \in [Link -> LogState]
  BY DEF Good, State
<1>2. g \in [Bundle -> [Link -> LogState]] /\ state \in LogState
  BY <1>1 DEF LogState
<1>3. \A c \in Bundle, k \in Link : g[c][k] = IF c = b /\ k = l THEN state ELSE s.log[c][k]
  BY <1>1
<1>4. t = [s EXCEPT !.log = g]
  BY <1>1 DEF State, Logged
<1> HIDE DEF g, t
<1>5. t \in State /\ t.queue = s.queue /\ t.deferred = s.deferred /\ t.log = g
  BY <1>1, <1>2, <1>4 DEF State
<1>6. Less(s, t)
  BY <1>3, <1>5 DEF Less, Good, Sound, Sent
<1>7. Good(t) /\ Orderly(s, t) /\ t.queue = s.queue /\ t.log = g
  BY <1>5, <1>6, LessKeeps DEF Orderly
<1> QED BY <1>7 DEF t, g, Noted

LEMMA InWithout ==
  ASSUME NEW b \in Bundle, NEW s \in Seq(Bundle)
  PROVE  /\ Without(b, s) \in Seq(Bundle) /\ Len(Without(b, s)) <= Len(s)
         /\ \A c \in Bundle : In(c, Without(b, s)) <=> In(c, s) /\ c # b
         /\ NoDuplicates(s) => NoDuplicates(Without(b, s))
<1>1. /\ Only(Bundle \ {b}, s) \in Seq(Bundle) /\ Len(Only(Bundle \ {b}, s)) <= Len(s)
      /\ \A c : In(c, Only(Bundle \ {b}, s)) <=> In(c, s) /\ c \in Bundle \ {b}
      /\ NoDuplicates(s) => NoDuplicates(Only(Bundle \ {b}, s))
  BY InOnly
<1> QED BY <1>1 DEF Without

Forgotten(s, b, l) == RemoveFromDeferred(Logged(s, b, l, "TRANSMITTED"), b, Link)

LEMMA ForgottenKeeps ==
  ASSUME NEW s, NEW b \in Bundle, NEW l \in Link, Good(s),
         s.log[b][l] = "QUEUED", ~In(b, s.queue[l])
  PROVE  /\ Good(Forgotten(s, b, l)) /\ Orderly(s, Forgotten(s, b, l))
         /\ Forgotten(s, b, l).queue = s.queue
         /\ Forgotten(s, b, l).log = Noted(s.log, b, l, "TRANSMITTED")
<1> DEFINE r == Logged(s, b, l, "TRANSMITTED")
           t == RemoveFromDeferred(r, b, Link)
           g == [s.log EXCEPT ![b][l] = "TRANSMITTED"]
           d == [k \in Link |-> Without(b, s.deferred[k])]
<1>1. s \in State /\ s.log \in [Bundle -> [Link -> LogState]] /\ s.log[b] \in [Link -> LogState]
      /\ s.deferred \in [Link -> Seq(Bundle)]
  BY DEF Good, State
<1>2. g \in [Bundle -> [Link -> LogState]]
  BY <1>1 DEF LogState
<1>3. \A c \in Bundle, k \in Link :
        g[c][k] = IF c = b /\ k = l THEN "TRANSMITTED" ELSE s.log[c][k]
  BY <1>1
<1>4. r = [s EXCEPT !.log = g]
  BY <1>1 DEF State, Logged
<1>5. /\ d \in [Link -> Seq(Bundle)]
      /\ \A c \in Bundle, k \in Link : In(c, d[k]) <=> In(c, s.deferred[k]) /\ c # b
      /\ \A k \in Link : NoDuplicates(s.deferred[k]) => NoDuplicates(d[k])
      /\ \A k \in Link : \A x, y : Before(d[k], x, y) => Before(s.deferred[k], x, y)
  BY <1>1, InWithout, BeforeOnly DEF Without
<1> HIDE DEF g, r
<1>6. r \in State /\ r.queue = s.queue /\ r.deferred = s.deferred /\ r.log = g
  BY <1>1, <1>2, <1>4 DEF State
<1>7. t = [r EXCEPT !.deferred = d]
  BY <1>6 DEF State, RemoveFromDeferred
<1> HIDE DEF d, t
<1>8. t \in State /\ t.queue = s.queue /\ t.deferred = d /\ t.log = g
  BY <1>5, <1>6, <1>7 DEF State
<1>9. Less(s, t)
  BY <1>3, <1>5, <1>8 DEF Less, Good, Sound
<1>10. Orderly(s, t)
  <2>1. \A k \in Link : ~ShouldForward(t, b, k)
    BY <1>3, <1>8 DEF ShouldForward, Sent
  <2> QED BY <1>5, <1>8, <2>1 DEF Orderly
<1>11. Good(t) /\ Orderly(s, t) /\ t.queue = s.queue /\ t.log = g
  BY <1>8, <1>9, <1>10, LessKeeps
<1> QED BY <1>11 DEF t, r, g, Forgotten, Noted

LEMMA ExpiredKeeps ==
  ASSUME NEW s, NEW b \in Bundle, Good(s)
  PROVE  LET t == [RemoveFromDeferred(s, b, Link) EXCEPT
                     !.queue = [l \in Link |-> Without(b, s.queue[l])],
                     !.log[b] = [l \in Link |-> IF In(b, s.queue[l]) THEN "CANCELLED" ELSE @[l]]]
         IN  /\ Good(t)
             /\ \A c \in Bundle, l \in Link :
                  /\ In(c, t.queue[l]) <=> In(c, s.queue[l]) /\ c # b
                  /\ t.log[c][l] = IF c = b /\ In(b, s.queue[l]) THEN "CANCELLED" ELSE s.log[c][l]
<1> DEFINE r == RemoveFromDeferred(s, b, Link)
           d == [k \in Link |-> Without(b, s.deferred[k])]
           q == [k \in Link |-> Without(b, s.queue[k])]
           h == [l \in Link |-> IF In(b, s.queue[l]) THEN "CANCELLED" ELSE s.log[b][l]]
           g == [s.log EXCEPT ![b] = h]
           t == [r EXCEPT !.queue = q,
                   !.log[b] = [l \in Link |-> IF In(b, s.queue[l]) THEN "CANCELLED" ELSE @[l]]]
<1>1. /\ s \in State /\ s.log \in [Bundle -> [Link -> LogState]] /\ s.log[b] \in [Link -> LogState]
      /\ s.deferred \in [Link -> Seq(Bundle)] /\ s.queue \in [Link -> Seq(Bundle)]
  BY DEF Good, State
<1>2. /\ d \in [Link -> Seq(Bundle)]
      /\ \A c \in Bundle, k \in Link : In(c, d[k]) <=> In(c, s.deferred[k]) /\ c # b
      /\ \A k \in Link : NoDuplicates(s.deferred[k]) => NoDuplicates(d[k])
  BY <1>1, InWithout
<1>3. /\ q \in [Link -> Seq(Bundle)]
      /\ \A c \in Bundle, k \in Link : In(c, q[k]) <=> In(c, s.queue[k]) /\ c # b
      /\ \A k \in Link : NoDuplicates(s.queue[k]) => NoDuplicates(q[k])
  BY <1>1, InWithout
<1>4. \A k \in Link : Len(q[k]) <= QueueHigh
  <2> SUFFICES ASSUME NEW k \in Link PROVE Len(q[k]) <= QueueHigh
    OBVIOUS
  <2>1. q[k] \in Seq(Bundle) /\ s.queue[k] \in Seq(Bundle) /\ Len(s.queue[k]) <= QueueHigh
    BY <1>1, <1>3 DEF Good, Sound
  <2>2. Len(q[k]) <= Len(s.queue[k])
    BY <2>1, InWithout
  <2>3. Len(q[k]) \in Nat /\ Len(s.queue[k]) \in Nat /\ QueueHigh \in Nat
    BY <2>1, BundleForwardingAssumption
  <2> HIDE DEF q
  <2> QED BY <2>1, <2>2, <2>3
<1>5. h \in [Link -> LogState] /\ g \in [Bundle -> [Link -> LogState]]
  BY <1>1 DEF LogState
<1>6. \A c \in Bundle, l \in Link :
        g[c][l] = IF c = b /\ In(b, s.queue[l]) THEN "CANCELLED" ELSE s.log[c][l]
  BY <1>1
<1>7. r = [s EXCEPT !.deferred = d]
  BY <1>1 DEF State, RemoveFromDeferred
<1> HIDE DEF r, d
<1>8. r \in State /\ r.queue = s.queue /\ r.deferred = d /\ r.log = s.log
  BY <1>1, <1>2, <1>7 DEF State
<1>9. t = [r EXCEPT !.queue = q, !.log = g]
  BY <1>8 DEF State
<1> HIDE DEF q, g, h, t
<1>10. t \in State /\ t.queue = q /\ t.deferred = d /\ t.log = g
  BY <1>3, <1>5, <1>8, <1>9 DEF State
<1>11. Less(s, t)
  <2>1. \A c \in Bundle, l \in Link : In(c, s.queue[l]) => s.log[c][l] = "QUEUED"
    BY DEF Good, Sound
  <2>2. \A l \in Link :
       /\ Len(t.queue[l]) <= QueueHigh
       /\ NoDuplicates(t.queue[l]) /\ NoDuplicates(t.deferred[l])
    BY <1>2, <1>3, <1>4, <1>10 DEF Good, Sound
  <2>3. ASSUME NEW c \in Bundle, NEW l \in Link
        PROVE  /\ In(c, t.queue[l]) => In(c, s.queue[l])
               /\ In(c, t.deferred[l]) => In(c, s.deferred[l])
               /\ t.log[c][l] = s.log[c][l] \/ (~In(c, t.queue[l]) /\ ~Sent(t, c, l))
    BY <1>2, <1>3, <1>6, <1>10 DEF Sent
  <2> QED BY <2>2, <2>3 DEF Less
<1>12. /\ Good(t)
       /\ \A c \in Bundle, l \in Link :
            /\ In(c, t.queue[l]) <=> In(c, s.queue[l]) /\ c # b
            /\ t.log[c][l] = IF c = b /\ In(b, s.queue[l]) THEN "CANCELLED" ELSE s.log[c][l]
  BY <1>3, <1>6, <1>10, <1>11, LessKeeps
<1> QED BY <1>12 DEF t, r, q

LEMMA TakenKeeps ==
  ASSUME NEW s, NEW l \in Link, Good(s), s.queue[l] # <<>>
  PROVE  LET t == [s EXCEPT !.queue[l] = Tail(@)]
         IN  /\ Good(t)
             /\ t.log = s.log /\ Head(s.queue[l]) \in Bundle
             /\ \A c \in Bundle, k \in Link :
                  In(c, t.queue[k]) <=> In(c, s.queue[k]) /\ ~(k = l /\ c = Head(s.queue[l]))
<1> DEFINE q == [s.queue EXCEPT ![l] = Tail(s.queue[l])]
           t == [s EXCEPT !.queue[l] = Tail(@)]
<1>1. s \in State /\ s.queue \in [Link -> Seq(Bundle)] /\ s.queue[l] \in Seq(Bundle)
  BY DEF Good, State
<1>2. /\ Tail(s.queue[l]) \in Seq(Bundle) /\ Head(s.queue[l]) \in Bundle
      /\ Len(Tail(s.queue[l])) <= Len(s.queue[l])
      /\ Len(Tail(s.queue[l])) \in Nat /\ Len(s.queue[l]) \in Nat
  BY <1>1
<1>3. /\ \A y : In(y, s.queue[l]) <=> In(y, Tail(s.queue[l])) \/ y = Head(s.queue[l])
      /\ NoDuplicates(s.queue[l]) =>
           NoDuplicates(Tail(s.queue[l])) /\ ~In(Head(s.queue[l]), Tail(s.queue[l]))
  BY <1>1, InTail
<1>4. NoDuplicates(s.queue[l]) /\ Len(s.queue[l]) <= QueueHigh /\ QueueHigh \in Nat
  BY BundleForwardingAssumption DEF Good, Sound
<1>5. /\ q \in [Link -> Seq(Bundle)] /\ q[l] = Tail(s.queue[l])
      /\ \A k \in Link : k # l => q[k] = s.queue[k]
  BY <1>1, <1>2
<1>6. t = [s EXCEPT !.queue = q]
  BY <1>1 DEF State
<1> HIDE DEF q, t
<1>7. t \in State /\ t.queue = q /\ t.deferred = s.deferred /\ t.log = s.log
  BY <1>1, <1>5, <1>6 DEF State
<1>8. \A c \in Bundle, k \in Link :
        In(c, t.queue[k]) <=> In(c, s.queue[k]) /\ ~(k = l /\ c = Head(s.queue[l]))
  BY <1>3, <1>4, <1>5, <1>7
<1>9. \A k \in Link : Len(t.queue[k]) <= QueueHigh /\ NoDuplicates(t.queue[k])
  <2>1. Len(Tail(s.queue[l])) <= QueueHigh /\ NoDuplicates(Tail(s.queue[l]))
    BY <1>2, <1>3, <1>4
  <2>2. \A k \in Link : k # l => Len(t.queue[k]) <= QueueHigh /\ NoDuplicates(t.queue[k])
    BY <1>5, <1>7 DEF Good, Sound
  <2> QED BY <1>5, <1>7, <2>1, <2>2
<1>10. Less(s, t)
  BY <1>7, <1>8, <1>9 DEF Less, Good, Sound
<1>11. /\ Good(t) /\ t.log = s.log
       /\ \A c \in Bundle, k \in Link :
            In(c, t.queue[k]) <=> In(c, s.queue[k]) /\ ~(k = l /\ c = Head(s.queue[l]))
  BY <1>7, <1>8, <1>10, LessKeeps
<1> QED BY <1>2, <1>11 DEF t

LEMMA DrainedKeeps ==
  ASSUME NEW s, NEW l \in Link, Good(s)
  PROVE  LET t == [s EXCEPT
                     !.queue[l] = <<>>,
                     !.log = [b \in Bundle |->
                                IF In(b, s.queue[l])
                                THEN [s.log[b] EXCEPT ![l] = "CANCELLED"] ELSE s.log[b]]]
         IN  /\ Good(t)
             /\ \A c \in Bundle, k \in Link :
                  /\ In(c, t.queue[k]) <=> In(c, s.queue[k]) /\ k # l
                  /\ t.log[c][k] = IF k = l /\ In(c, s.queue[l]) THEN "CANCELLED" ELSE s.log[c][k]
<1> DEFINE q == [s.queue EXCEPT ![l] = <<>>]
           g == [b \in Bundle |-> IF In(b, s.queue[l])
                                  THEN [s.log[b] EXCEPT ![l] = "CANCELLED"] ELSE s.log[b]]
           t == [s EXCEPT !.queue[l] = <<>>, !.log = g]
<1>1. /\ s \in State /\ s.queue \in [Link -> Seq(Bundle)]
      /\ \A b \in Bundle : s.log[b] \in [Link -> LogState]
  BY DEF Good, State
<1>2. /\ <<>> \in Seq(Bundle) /\ NoDuplicates(<<>>) /\ Len(<<>>) <= QueueHigh
      /\ \A b : ~In(b, <<>>)
  BY BundleForwardingAssumption DEF In, NoDuplicates
<1>3. /\ q \in [Link -> Seq(Bundle)] /\ q[l] = <<>>
      /\ \A k \in Link : k # l => q[k] = s.queue[k]
  BY <1>1, <1>2
<1>4. g \in [Bundle -> [Link -> LogState]]
  BY <1>1 DEF LogState
<1>5. \A c \in Bundle, k \in Link :
        g[c][k] = IF k = l /\ In(c, s.queue[l]) THEN "CANCELLED" ELSE s.log[c][k]
  BY <1>1
<1>6. t = [s EXCEPT !.queue = q, !.log = g]
  BY <1>1 DEF State
<1> HIDE DEF q, g, t
<1>7. t \in State /\ t.queue = q /\ t.deferred = s.deferred /\ t.log = g
  BY <1>1, <1>3, <1>4, <1>6 DEF State
<1>8. \A c \in Bundle, k \in Link : In(c, t.queue[k]) <=> In(c, s.queue[k]) /\ k # l
  BY <1>2, <1>3, <1>7
<1>9. \A k \in Link : Len(t.queue[k]) <= QueueHigh /\ NoDuplicates(t.queue[k])
  BY <1>2, <1>3, <1>7 DEF Good, Sound
<1>10. Less(s, t)
  BY <1>5, <1>7, <1>8, <1>9 DEF Less, Good, Sound, Sent
<1>11. Good(t)
  BY <1>7, <1>10, LessKeeps
<1> QED BY <1>5, <1>7, <1>8, <1>11 DEF t, g

----------------------------------------------------------------------------
(* The event queue. *)

Event ==
  [type : {"received", "cancelled"}, bundle : Bundle]
    \cup [type : {"transmitted"}, bundle : Bundle, link : Link, success : BOOLEAN]
    \cup [type : {"custody"}, bundle : Bundle, link : Link]
    \cup [type : {"up", "down", "available"}, link : Link]

LEMMA EventFields ==
  /\ \A e \in Event :
       /\ e.type \in {"received", "cancelled", "transmitted", "custody", "up", "down", "available"}
       /\ e.type \in {"received", "cancelled", "transmitted", "custody"} => e.bundle \in Bundle
       /\ e.type \in {"transmitted", "custody", "up", "down", "available"} => e.link \in Link
       /\ e.type = "transmitted" => e.success \in BOOLEAN
  /\ \A b \in Bundle, t \in {"received", "cancelled"} : [type |-> t, bundle |-> b] \in Event
  /\ \A b \in Bundle, l \in Link, ok \in BOOLEAN :
       [type |-> "transmitted", bundle |-> b, link |-> l, success |-> ok] \in Event
  /\ \A b \in Bundle, l \in Link : [type |-> "custody", bundle |-> b, link |-> l] \in Event
  /\ \A l \in Link, t \in {"up", "down", "available"} : [type |-> t, link |-> l] \in Event
BY DEF Event

Of(t, b) == {e \in Event : e.type = t /\ e.bundle = b}

OfLink(t, b, l) == {e \in Of(t, b) : e.link = l}

Posted(ev, E) == \E i \in 1 .. Len(ev) : ev[i] \in E

Single(ev, E) == \A i, j \in 1 .. Len(ev) : ev[i] \in E /\ ev[j] \in E => i = j

LEMMA PostedAppend ==
  ASSUME NEW ev \in Seq(Event), NEW e \in Event
  PROVE  /\ Append(ev, e) \in Seq(Event)
         /\ \A E : Posted(Append(ev, e), E) <=> Posted(ev, E) \/ e \in E
         /\ \A E : Single(ev, E) /\ (e \in E => ~Posted(ev, E)) => Single(Append(ev, e), E)
<1>1. /\ Append(ev, e) \in Seq(Event) /\ Len(Append(ev, e)) = Len(ev) + 1 /\ Len(ev) \in Nat
      /\ \A i \in 1 .. Len(ev) : Append(ev, e)[i] = ev[i]
      /\ Append(ev, e)[Len(ev) + 1] = e
  OBVIOUS
<1> DEFINE new == Append(ev, e)
<1> HIDE DEF new
<1>2. \A i \in 1 .. Len(new) : i \in 1 .. Len(ev) \/ i = Len(ev) + 1
  BY <1>1 DEF new
<1>3. \A i \in 1 .. Len(ev) : i \in 1 .. Len(new)
  BY <1>1 DEF new
<1>4. Len(ev) + 1 \in 1 .. Len(new)
  BY <1>1 DEF new
<1>5. ASSUME NEW E PROVE Posted(new, E) <=> Posted(ev, E) \/ e \in E
  BY <1>1, <1>2, <1>3, <1>4 DEF Posted, new
<1>6. ASSUME NEW E, Single(ev, E), e \in E => ~Posted(ev, E) PROVE Single(new, E)
  <2> SUFFICES ASSUME NEW i \in 1 .. Len(new), NEW j \in 1 .. Len(new), new[i] \in E, new[j] \in E
               PROVE  i = j
    BY DEF Single
  <2>1. CASE i \in 1 .. Len(ev) /\ j \in 1 .. Len(ev)
    BY <1>1, <1>6, <2>1 DEF Single, new
  <2>2. CASE i = Len(ev) + 1 /\ j = Len(ev) + 1
    BY <2>2
  <2>3. CASE i \in 1 .. Len(ev) /\ j = Len(ev) + 1
    BY <1>1, <1>6, <2>3 DEF Posted, new
  <2>4. CASE i = Len(ev) + 1 /\ j \in 1 .. Len(ev)
    BY <1>1, <1>6, <2>4 DEF Posted, new
  <2> QED BY <1>2, <2>1, <2>2, <2>3, <2>4
<1> QED BY <1>1, <1>5, <1>6 DEF new

LEMMA PostedTail ==
  ASSUME NEW ev \in Seq(Event), ev # <<>>
  PROVE  /\ Tail(ev) \in Seq(Event) /\ Head(ev) \in Event
         /\ \A E : Posted(ev, E) <=> Posted(Tail(ev), E) \/ Head(ev) \in E
         /\ \A E : Single(ev, E) =>
              Single(Tail(ev), E) /\ (Head(ev) \in E => ~Posted(Tail(ev), E))
<1> DEFINE old == Tail(ev)
<1>1. /\ old \in Seq(Event) /\ Head(ev) \in Event /\ Head(ev) = ev[1]
      /\ Len(old) = Len(ev) - 1 /\ Len(ev) \in Nat \ {0} /\ 1 \in 1 .. Len(ev)
      /\ \A i \in 1 .. Len(old) : old[i] = ev[i + 1]
  OBVIOUS
<1> HIDE DEF old
<1>2. \A i \in 1 .. Len(old) : i + 1 \in 1 .. Len(ev) /\ i + 1 # 1
  BY <1>1
<1>3. \A i \in 1 .. Len(ev) : i # 1 => i - 1 \in 1 .. Len(old) /\ old[i - 1] = ev[i]
  BY <1>1
<1>4. ASSUME NEW E PROVE Posted(ev, E) <=> Posted(old, E) \/ Head(ev) \in E
  BY <1>1, <1>2, <1>3 DEF Posted
<1>5. ASSUME NEW E, Single(ev, E) PROVE Single(old, E)
  <2> SUFFICES ASSUME NEW i \in 1 .. Len(old), NEW j \in 1 .. Len(old), old[i] \in E, old[j] \in E
               PROVE  i = j
    BY DEF Single
  <2>1. i + 1 = j + 1
    BY <1>1, <1>2, <1>5 DEF Single
  <2> QED BY <1>1, <2>1
<1>6. ASSUME NEW E, Single(ev, E), Head(ev) \in E PROVE ~Posted(old, E)
  BY <1>1, <1>2, <1>6 DEF Single, Posted
<1> QED BY <1>1, <1>4, <1>5, <1>6 DEF old

LEMMA PostedConcat ==
  ASSUME NEW ev \in Seq(Event), NEW more \in Seq(Event), NEW E, ~Posted(more, E)
  PROVE  /\ ev \o more \in Seq(Event)
         /\ Posted(ev \o more, E) <=> Posted(ev, E)
         /\ Single(ev, E) => Single(ev \o more, E)
<1> DEFINE new == ev \o more
<1>1. /\ new \in Seq(Event) /\ Len(new) = Len(ev) + Len(more) /\ Len(ev) \in Nat /\ Len(more) \in Nat
      /\ \A i \in 1 .. Len(ev) : new[i] = ev[i]
      /\ \A i \in 1 .. Len(new) : i > Len(ev) => i - Len(ev) \in 1 .. Len(more) /\ new[i] = more[i - Len(ev)]
  OBVIOUS
<1> HIDE DEF new
<1>2. \A i \in 1 .. Len(new) : new[i] \in E => i \in 1 .. Len(ev)
  BY <1>1 DEF Posted
<1>3. \A i \in 1 .. Len(ev) : i \in 1 .. Len(new)
  BY <1>1
<1>4. Posted(new, E) <=> Posted(ev, E)
  BY <1>1, <1>2, <1>3 DEF Posted
<1>5. Single(ev, E) => Single(new, E)
  BY <1>1, <1>2, <1>3 DEF Single
<1> QED BY <1>1, <1>4, <1>5 DEF new

----------------------------------------------------------------------------
(* The inductive invariant.                                                *)

Flying(ev, b, l) == Posted(ev, OfLink("transmitted", b, l))

Due(ev, b, l) == Posted(ev, OfLink("custody", b, l))

\* The log says QUEUED of what is in the queue or flying, and nothing is both;
\* custody is timed out of what was transmitted.
LogKept(s, ev) ==
  \A b \in Bundle, l \in Link :
    /\ s.log[b][l] = "QUEUED" <=> In(b, s.queue[l]) \/ Flying(ev, b, l)
    /\ Flying(ev, b, l) => ~In(b, s.queue[l])
    /\ Due(ev, b, l) => s.log[b][l] = "TRANSMITTED"

\* Each bundle is received, flies and is timed out once at a time.
Once(ev) ==
  \A b \in Bundle : \A t \in {"received", "transmitted", "custody"} : Single(ev, Of(t, b))

\* What is pending has arrived and its arrival is handled.
PendingKept(ev, pend, arr) ==
  /\ pend \in Seq(Bundle) /\ NoDuplicates(pend) /\ arr \subseteq Bundle
  /\ \A b \in Bundle :
       /\ In(b, pend) => b \in arr
       /\ Posted(ev, Of("received", b)) => b \in arr /\ ~In(b, pend)

RestKept ==
  /\ expired \subseteq arrived
  /\ reception \in [Bundle -> Node \cup {NoNode}]
  /\ routes \subseteq Link
  /\ scheduled \subseteq timers /\ timers \subseteq Link

Core(s, ev) == Good(s) /\ ev \in Seq(Event) /\ LogKept(s, ev) /\ Once(ev)

ForwardInv == Core(Now, events) /\ PendingKept(events, pending, arrived) /\ RestKept

LEMMA NowIs ==
  /\ \A s : s \in State /\ Become(s) => Now' = s
  /\ Now.link = linkState /\ Now.queue = queue /\ Now.deferred = deferred /\ Now.log = fwdlog
  /\ linkState' = linkState /\ queue' = queue /\ deferred' = deferred /\ fwdlog' = fwdlog
       => Now' = Now
BY DEF Become, Now, State

LEMMA GrownKept ==
  ASSUME NEW s, NEW ev, NEW t \in Reach(s), Core(s, ev)
  PROVE  Core(t, ev)
<1>1. Good(t) /\ Grows(s, t)
  BY DEF Reach
<1>2. LogKept(t, ev)
  BY <1>1 DEF Core, LogKept, Grows, Logs, Sent
<1> QED BY <1>1, <1>2 DEF Core

LEMMA ReachSelf ==
  ASSUME NEW s, NEW ev, Core(s, ev)
  PROVE  s \in Reach(s)
BY GrowsOn DEF Core, Good, Reach

LEMMA CheckReaches ==
  ASSUME NEW s, NEW t \in Reach(s), NEW l \in Link
  PROVE  CheckNextHop(t, l) \in Reach(s)
<1>1. Good(t) /\ Grows(s, t)
  BY DEF Reach
<1>2. Good(CheckNextHop(t, l)) /\ Grows(t, CheckNextHop(t, l))
  BY <1>1, CheckNextHopKeeps
<1> QED BY <1>1, <1>2, GrowsOn DEF Reach, Good

(* Taking an event that says nothing of a transmission or of custody. *)

LEMMA TakeKeeps ==
  ASSUME NEW s, NEW ev \in Seq(Event), Core(s, ev), ev # <<>>
  PROVE  /\ Tail(ev) \in Seq(Event) /\ Once(Tail(ev)) /\ Head(ev) \in Event
         /\ Head(ev).type \notin {"transmitted", "custody"} => Core(s, Tail(ev))
<1>1. Tail(ev) \in Seq(Event) /\ Head(ev) \in Event /\ Once(Tail(ev))
  BY PostedTail DEF Core, Once
<1>2. ASSUME Head(ev).type \notin {"transmitted", "custody"} PROVE LogKept(s, Tail(ev))
  <2>1. \A b, l : (Flying(Tail(ev), b, l) <=> Flying(ev, b, l)) /\ (Due(Tail(ev), b, l) <=> Due(ev, b, l))
    BY <1>2, PostedTail DEF Flying, Due, Of, OfLink
  <2> QED BY <2>1 DEF Core, LogKept
<1> QED BY <1>1, <1>2 DEF Core

(* Noting in the log what an event tells of a bundle and a link. *)

LEMMA NoteKeeps ==
  ASSUME NEW s, NEW t, NEW ev \in Seq(Event), Core(s, ev), ev # <<>>,
         NEW b \in Bundle, NEW l \in Link, NEW state \in LogState \ {"QUEUED"},
         Head(ev) \in OfLink("transmitted", b, l) \cup OfLink("custody", b, l),
         Good(t), t.queue = s.queue, t.log = Noted(s.log, b, l, state)
  PROVE  Core(t, Tail(ev))
<1>1. Once(Tail(ev)) /\ Tail(ev) \in Seq(Event)
  BY TakeKeeps
<1>2. s.log \in [Bundle -> [Link -> LogState]]
  BY DEF Core, Good, State
<1>3. \A c \in Bundle, k \in Link : t.log[c][k] = IF c = b /\ k = l THEN state ELSE s.log[c][k]
  BY <1>2 DEF Noted
<1>4. \A c, k : /\ Flying(ev, c, k) <=> Flying(Tail(ev), c, k) \/ Head(ev) \in OfLink("transmitted", c, k)
                /\ Due(ev, c, k) <=> Due(Tail(ev), c, k) \/ Head(ev) \in OfLink("custody", c, k)
  BY PostedTail DEF Flying, Due
<1>5. /\ Head(ev) \in OfLink("transmitted", b, l) => ~Flying(Tail(ev), b, l)
      /\ Head(ev) \in OfLink("custody", b, l) => ~Due(Tail(ev), b, l)
  <2>1. \A type : OfLink(type, b, l) \subseteq Of(type, b)
    BY DEF OfLink
  <2>2. \A type \in {"transmitted", "custody"} :
          Head(ev) \in Of(type, b) => ~Posted(Tail(ev), Of(type, b))
    BY PostedTail DEF Core, Once
  <2>3. \A type : Posted(Tail(ev), OfLink(type, b, l)) => Posted(Tail(ev), Of(type, b))
    BY <2>1 DEF Posted
  <2> QED BY <2>1, <2>2, <2>3 DEF Flying, Due
<1>6. ~In(b, s.queue[l]) /\ ~Flying(Tail(ev), b, l) /\ ~Due(Tail(ev), b, l)
  <2>1. CASE Head(ev) \in OfLink("transmitted", b, l)
    <3>1. Flying(ev, b, l)
      BY <1>4, <2>1
    <3>2. s.log[b][l] = "QUEUED" /\ ~In(b, s.queue[l])
      BY <3>1 DEF Core, LogKept
    <3>3. ~Due(ev, b, l)
      BY <3>2 DEF Core, LogKept
    <3> QED BY <1>4, <1>5, <2>1, <3>2, <3>3
  <2>2. CASE Head(ev) \in OfLink("custody", b, l)
    <3>1. Due(ev, b, l)
      BY <1>4, <2>2
    <3>2. s.log[b][l] = "TRANSMITTED"
      BY <3>1 DEF Core, LogKept
    <3>3. ~In(b, s.queue[l]) /\ ~Flying(ev, b, l)
      BY <3>2 DEF Core, LogKept
    <3> QED BY <1>4, <1>5, <2>2, <3>3
  <2> QED BY <2>1, <2>2
<1>7. \A c \in Bundle, k \in Link : c # b \/ k # l =>
        /\ Flying(Tail(ev), c, k) <=> Flying(ev, c, k)
        /\ Due(Tail(ev), c, k) <=> Due(ev, c, k)
  BY <1>4 DEF Of, OfLink
<1>8. LogKept(t, Tail(ev))
  <2> SUFFICES ASSUME NEW c \in Bundle, NEW k \in Link
               PROVE  /\ t.log[c][k] = "QUEUED" <=> In(c, t.queue[k]) \/ Flying(Tail(ev), c, k)
                      /\ Flying(Tail(ev), c, k) => ~In(c, t.queue[k])
                      /\ Due(Tail(ev), c, k) => t.log[c][k] = "TRANSMITTED"
    BY DEF LogKept
  <2>1. CASE c = b /\ k = l
    BY <1>3, <1>6, <2>1
  <2>2. CASE c # b \/ k # l
    BY <1>3, <1>7, <2>2 DEF Core, LogKept
  <2> QED BY <2>1, <2>2
<1> QED BY <1>1, <1>8 DEF Core

----------------------------------------------------------------------------
(* The handlers. *)

LEMMA HandleKeepsCore ==
  ASSUME ForwardInv, HandleEvent
  PROVE  Core(Now, events)' /\ Orderly(Now, Now')
<1> DEFINE e == Head(events)
           rest == Tail(events)
           routed == RouteBundle(Now, e.bundle, routes, FALSE)
<1>1. /\ Core(Now, events) /\ events \in Seq(Event) /\ events # <<>> /\ events' = rest
      /\ Good(Now)
  BY DEF ForwardInv, Core, HandleEvent, TakeEvent
<1>2. rest \in Seq(Event) /\ e \in Event
  BY <1>1, TakeKeeps
<1>3. /\ e.type \in {"received", "cancelled", "transmitted", "custody"} => e.bundle \in Bundle
      /\ e.type \in {"transmitted", "custody", "up", "down", "available"} => e.link \in Link
      /\ e.type = "transmitted" => e.success \in BOOLEAN
  BY <1>2, EventFields
<1>4. e.type \notin {"transmitted", "custody"} => Core(Now, rest)
  BY <1>1, TakeKeeps
<1>5. Handler(e)
  BY DEF HandleEvent
<1> HIDE DEF e, rest
<1>6. ASSUME NEW s, NEW t \in Reach(s), Core(s, rest), Orderly(Now, s), Become(t)
      PROVE  Core(Now', events') /\ Orderly(Now, Now')
  <2>1. Core(t, rest) /\ t \in State /\ Orderly(Now, t)
    BY <1>6, GrownKept, GrowsOn DEF Reach
  <2>2. Now' = t
    BY <1>6, <2>1, NowIs
  <2> QED BY <1>1, <2>1, <2>2
<1>0. Orderly(Now, Now)
  BY GrowsOn DEF Grows
<1>7. CASE e.type = "received" /\ BundleReceived(e)
  <2>1. Now \in Reach(Now) /\ Core(Now, rest) /\ e.bundle \in Bundle
    BY <1>3, <1>4, <1>7, ReachSelf
  <2>2. routed \in Reach(Now)
    BY <2>1, RouteBundleReaches
  <2> QED BY <1>0, <1>6, <1>7, <2>1, <2>2 DEF BundleReceived
<1>8. CASE e.type = "transmitted" /\ BundleTransmitted(e)
  <2> DEFINE note == IF e.success THEN "TRANSMITTED" ELSE "TRANSMIT_FAILED"
             logged == Logged(Now, e.bundle, e.link, note)
             forgotten == Forgotten(Now, e.bundle, e.link)
             again == RouteBundle(logged, e.bundle, routes, FALSE)
  <2>1. e.bundle \in Bundle /\ e.link \in Link /\ note \in LogState \ {"QUEUED"}
    BY <1>3, <1>8 DEF LogState
  <2>2. e \in OfLink("transmitted", e.bundle, e.link)
    BY <1>2, <1>8 DEF Of, OfLink
  <2>3. Flying(events, e.bundle, e.link)
    BY <1>1, <2>2, PostedTail DEF e, Flying
  <2>4. Now.log[e.bundle][e.link] = "QUEUED" /\ ~In(e.bundle, Now.queue[e.link])
    BY <1>1, <2>1, <2>3 DEF Core, LogKept
  <2>5. CASE e.success
    <3>0. note = "TRANSMITTED"
      BY <2>5
    <3> HIDE DEF note
    <3>1. /\ Good(forgotten) /\ Orderly(Now, forgotten) /\ forgotten.queue = Now.queue
          /\ forgotten.log = Noted(Now.log, e.bundle, e.link, note)
      BY <1>1, <2>1, <2>4, <3>0, ForgottenKeeps
    <3> HIDE DEF forgotten
    <3>2. Core(forgotten, rest)
      BY <1>1, <2>1, <2>2, <3>1, NoteKeeps DEF e, rest
    <3>3. CheckNextHop(forgotten, e.link) \in Reach(forgotten)
      BY <2>1, <3>2, ReachSelf, CheckReaches
    <3>4. Become(CheckNextHop(forgotten, e.link))
      BY <1>8, <2>5 DEF BundleTransmitted, forgotten, Forgotten
    <3> QED BY <1>6, <3>1, <3>2, <3>3, <3>4
  <2>6. CASE ~e.success
    <3>0. note \in {"TRANSMIT_FAILED", "CUSTODY_TIMEOUT"}
      BY <2>6
    <3> HIDE DEF note
    <3>1. /\ Good(logged) /\ Orderly(Now, logged) /\ logged.queue = Now.queue
          /\ logged.log = Noted(Now.log, e.bundle, e.link, note)
      BY <1>1, <2>1, <2>4, <3>0, LoggedKeeps
    <3> HIDE DEF logged
    <3>2. Core(logged, rest)
      BY <1>1, <2>1, <2>2, <3>1, NoteKeeps DEF e, rest
    <3>3. again \in Reach(logged)
      BY <2>1, <3>2, ReachSelf, RouteBundleReaches
    <3>4. CheckNextHop(again, e.link) \in Reach(logged)
      BY <2>1, <3>3, CheckReaches
    <3>5. Become(CheckNextHop(again, e.link))
      BY <1>8, <2>6 DEF BundleTransmitted, logged, note
    <3> QED BY <1>6, <3>1, <3>2, <3>4, <3>5
  <2> QED BY <2>5, <2>6
<1>9. CASE e.type = "cancelled" /\ BundleCancelled(e)
  <2>1. Now \in Reach(Now) /\ Core(Now, rest) /\ e.bundle \in Bundle
    BY <1>3, <1>4, <1>9, ReachSelf
  <2>2. routed \in Reach(Now)
    BY <2>1, RouteBundleReaches
  <2>3. Become(Now) \/ Become(routed)
    BY <1>9 DEF BundleCancelled
  <2> QED BY <1>0, <1>6, <2>1, <2>2, <2>3
<1>10. CASE e.type = "up" /\ ContactUp(e)
  <2>1. Now \in Reach(Now) /\ Core(Now, rest) /\ e.link \in Link
    BY <1>3, <1>4, <1>10, ReachSelf
  <2>2. CheckNextHop(Now, e.link) \in Reach(Now)
    BY <2>1, CheckReaches
  <2> QED BY <1>0, <1>6, <1>10, <2>1, <2>2 DEF ContactUp
<1>11. CASE e.type = "down" /\ ContactDown(e)
  <2>1. Core(Now, rest)
    BY <1>4, <1>11
  <2>2. Now' = Now
    BY <1>11, NowIs DEF ContactDown
  <2> QED BY <1>0, <1>1, <2>1, <2>2
<1>12. CASE e.type = "available" /\ LinkAvailable(e)
  <2>1. Core(Now, rest) /\ e.link \in Link
    BY <1>3, <1>4, <1>12
  <2>2. Open(Now, e.link) \in Reach(Now)
    BY <1>1, <2>1, OpenKeeps DEF Reach, Good
  <2>3. CheckNextHop(Open(Now, e.link), e.link) \in Reach(Now)
    BY <2>1, <2>2, CheckReaches
  <2> QED BY <1>0, <1>6, <1>12, <2>1, <2>3 DEF LinkAvailable
<1>13. CASE e.type = "custody" /\ CustodyTimeout(e)
  <2> DEFINE logged == Logged(Now, e.bundle, e.link, "CUSTODY_TIMEOUT")
             again == RouteBundle(logged, e.bundle, routes, FALSE)
  <2>1. e.bundle \in Bundle /\ e.link \in Link /\ "CUSTODY_TIMEOUT" \in LogState \ {"QUEUED"}
    BY <1>3, <1>13 DEF LogState
  <2>2. e \in OfLink("custody", e.bundle, e.link)
    BY <1>2, <1>13 DEF Of, OfLink
  <2>3. Due(events, e.bundle, e.link)
    BY <1>1, <2>2, PostedTail DEF e, Due
  <2>4. ~In(e.bundle, Now.queue[e.link])
    <3>1. Now.log[e.bundle][e.link] = "TRANSMITTED"
      BY <1>1, <2>1, <2>3 DEF Core, LogKept
    <3> QED BY <1>1, <2>1, <3>1 DEF Core, LogKept
  <2>5. /\ Good(logged) /\ Orderly(Now, logged) /\ logged.queue = Now.queue
        /\ logged.log = Noted(Now.log, e.bundle, e.link, "CUSTODY_TIMEOUT")
    BY <1>1, <2>1, <2>4, LoggedKeeps
  <2>6. Become(logged) \/ Become(again)
    BY <1>13 DEF CustodyTimeout
  <2> HIDE DEF logged
  <2>7. Core(logged, rest)
    BY <1>1, <2>1, <2>2, <2>5, NoteKeeps DEF e, rest
  <2>8. logged \in Reach(logged) /\ again \in Reach(logged)
    BY <2>1, <2>7, ReachSelf, RouteBundleReaches
  <2> QED BY <1>6, <2>5, <2>6, <2>7, <2>8
<1>14. Core(Now', events') /\ Orderly(Now, Now')
  BY <1>5, <1>7, <1>8, <1>9, <1>10, <1>11, <1>12, <1>13 DEF Handler
<1> QED BY <1>14

LEMMA HandleKeepsPending ==
  ASSUME ForwardInv, HandleEvent
  PROVE  PendingKept(events, pending, arrived)'
<1> DEFINE e == Head(events)
           rest == Tail(events)
<1>1. /\ events \in Seq(Event) /\ events # <<>> /\ events' = rest /\ arrived' = arrived
      /\ PendingKept(events, pending, arrived) /\ pending \in Seq(Bundle) /\ NoDuplicates(pending)
  BY DEF ForwardInv, Core, HandleEvent, TakeEvent, PendingKept
<1>2. e \in Event /\ \A b : Posted(events, Of("received", b)) <=>
                               Posted(rest, Of("received", b)) \/ e \in Of("received", b)
  BY <1>1, PostedTail
<1>3. e.type \in {"received", "transmitted"} => e.bundle \in Bundle
  BY <1>2, EventFields
<1>4. \A b \in Bundle : e \in Of("received", b) => ~Posted(rest, Of("received", b))
  BY <1>1, PostedTail DEF ForwardInv, Core, Once
<1> HIDE DEF e, rest
<1>5. CASE e.type = "received" /\ BundleReceived(e)
  <2>1. e.bundle \in Bundle /\ e \in Of("received", e.bundle) /\ pending' = Append(pending, e.bundle)
    BY <1>2, <1>3, <1>5 DEF BundleReceived, Of
  <2>2. e.bundle \in arrived /\ ~In(e.bundle, pending)
    BY <1>1, <1>2, <2>1 DEF PendingKept
  <2>3. /\ pending' \in Seq(Bundle) /\ NoDuplicates(pending')
        /\ \A b \in Bundle : In(b, pending') <=> In(b, pending) \/ b = e.bundle
    BY <1>1, <2>1, <2>2, InAppend, NoDuplicatesAppend
  <2> QED BY <1>1, <1>2, <1>4, <2>1, <2>2, <2>3 DEF PendingKept
<1>6. CASE e.type # "received" /\ (pending' = pending \/ (e.bundle \in Bundle /\ pending' = Without(e.bundle, pending)))
  <2>1. /\ pending' \in Seq(Bundle) /\ NoDuplicates(pending')
        /\ \A b \in Bundle : In(b, pending') => In(b, pending)
    BY <1>1, <1>6, InWithout
  <2> QED BY <1>1, <1>2, <2>1 DEF PendingKept
<1>7. Handler(e)
  BY DEF HandleEvent, e
<1> QED BY <1>3, <1>5, <1>6, <1>7
        DEF Handler, BundleTransmitted, BundleCancelled, ContactUp, ContactDown, LinkAvailable,
            CustodyTimeout

LEMMA HandleKeepsRest ==
  ASSUME ForwardInv, HandleEvent
  PROVE  RestKept'
<1> DEFINE e == Head(events)
<1>1. e \in Event /\ RestKept /\ UNCHANGED <<routes, arrived>> /\ Handler(e)
  BY PostedTail DEF ForwardInv, Core, HandleEvent, TakeEvent
<1>2. e.type \in {"up", "down"} => e.link \in Link
  BY <1>1, EventFields
<1> HIDE DEF e
<1>3. /\ expired' = expired /\ reception' = reception
      /\ scheduled' \subseteq timers' /\ timers' \subseteq Link
  BY <1>1, <1>2 DEF RestKept, Handler, BundleReceived, BundleTransmitted, BundleCancelled,
     ContactUp, ContactDown, LinkAvailable, CustodyTimeout
<1> QED BY <1>1, <1>3 DEF RestKept

----------------------------------------------------------------------------
(* The daemon, the links, the timers and the operator.                     *)

\* Posting an event that is no transmission nor a custody timeout.
LEMMA PostKeeps ==
  ASSUME NEW s, NEW ev \in Seq(Event), Core(s, ev), NEW e \in Event,
         e.type \notin {"transmitted", "custody"},
         \A b \in Bundle : e \in Of("received", b) => ~Posted(ev, Of("received", b))
  PROVE  Core(s, Append(ev, e))
<1>1. Append(ev, e) \in Seq(Event)
  BY PostedAppend
<1>2. \A b, l : (Flying(Append(ev, e), b, l) <=> Flying(ev, b, l)) /\ (Due(Append(ev, e), b, l) <=> Due(ev, b, l))
  BY PostedAppend DEF Flying, Due, Of, OfLink
<1>3. Once(Append(ev, e))
  <2> SUFFICES ASSUME NEW b \in Bundle, NEW t \in {"received", "transmitted", "custody"}
               PROVE  Single(Append(ev, e), Of(t, b))
    BY DEF Once
  <2>1. Single(ev, Of(t, b)) /\ (e \in Of(t, b) => ~Posted(ev, Of(t, b)))
    BY DEF Core, Once, Of
  <2> QED BY <2>1, PostedAppend
<1>4. LogKept(s, Append(ev, e))
  BY <1>2 DEF Core, LogKept
<1> QED BY <1>1, <1>3, <1>4 DEF Core

LEMMA ArriveKeeps ==
  ASSUME ForwardInv, NEW b \in Bundle, Arrive(b)
  PROVE  ForwardInv'
<1> DEFINE e == [type |-> "received", bundle |-> b]
<1>1. /\ Core(Now, events) /\ PendingKept(events, pending, arrived) /\ RestKept
      /\ events \in Seq(Event)
  BY DEF ForwardInv, Core
<1>2. e \in Event /\ events' = Append(events, e) /\ Now' = Now
  BY EventFields, NowIs DEF Arrive, Post
<1>3. e.type = "received" /\ \A c : e \in Of("received", c) <=> c = b
  BY <1>2 DEF Of
<1> HIDE DEF e
<1>4. ~Posted(events, Of("received", b)) /\ ~In(b, pending)
  BY <1>1 DEF Arrive, PendingKept
<1>5. Core(Now, events)'
  <2>1. Core(Now, Append(events, e))
    BY <1>1, <1>2, <1>3, <1>4, PostKeeps
  <2> QED BY <1>2, <2>1
<1>6. PendingKept(events, pending, arrived)'
  <2>1. \A c : Posted(events', Of("received", c)) <=> Posted(events, Of("received", c)) \/ c = b
    BY <1>1, <1>2, <1>3, PostedAppend
  <2> QED BY <1>1, <1>4, <2>1 DEF Arrive, PendingKept
<1>7. RestKept'
  BY <1>1, BundleForwardingAssumption DEF Arrive, RestKept
<1> QED BY <1>5, <1>6, <1>7 DEF ForwardInv

LEMMA ExpireKeeps ==
  ASSUME ForwardInv, NEW b \in Bundle, Expire(b)
  PROVE  ForwardInv'
<1> DEFINE e == [type |-> "cancelled", bundle |-> b]
           t == [RemoveFromDeferred(Now, b, Link) EXCEPT
                   !.queue = [l \in Link |-> Without(b, Now.queue[l])],
                   !.log[b] = [l \in Link |-> IF In(b, Now.queue[l]) THEN "CANCELLED" ELSE @[l]]]
<1>1. /\ Core(Now, events) /\ PendingKept(events, pending, arrived) /\ RestKept
      /\ events \in Seq(Event) /\ Good(Now) /\ pending \in Seq(Bundle)
  BY DEF ForwardInv, Core, PendingKept
<1>2. e \in Event /\ e.type = "cancelled"
  BY EventFields
<1>3. /\ Good(t)
      /\ \A c \in Bundle, l \in Link :
           /\ In(c, t.queue[l]) <=> In(c, Now.queue[l]) /\ c # b
           /\ t.log[c][l] = IF c = b /\ In(b, Now.queue[l]) THEN "CANCELLED" ELSE Now.log[c][l]
  BY <1>1, ExpiredKeeps
<1>4. Become(t)
  BY NowIs DEF Expire
<1>5. events' = events \/ events' = Append(events, e)
  BY DEF Expire, Post
<1> HIDE DEF e, t
<1>6. Core(t, events)
  <2>1. \A c \in Bundle, l \in Link : Flying(events, c, l) \/ Due(events, c, l) => ~In(c, Now.queue[l])
    BY <1>1 DEF Core, LogKept
  <2>2. LogKept(t, events)
    BY <1>1, <1>3, <2>1 DEF Core, LogKept
  <2> QED BY <1>1, <1>3, <2>2 DEF Core
<1>7. Core(Now, events)'
  <2>1. Core(t, Append(events, e))
    BY <1>1, <1>2, <1>6, PostKeeps DEF Of
  <2>2. Now' = t
    BY <1>3, <1>4, NowIs DEF Good
  <2> QED BY <1>5, <1>6, <2>1, <2>2
<1>8. PendingKept(events, pending, arrived)'
  <2>1. \A c : Posted(events', Of("received", c)) <=> Posted(events, Of("received", c))
    <3>1. \A c : e \notin Of("received", c)
      BY <1>2 DEF Of
    <3>2. \A c : Posted(Append(events, e), Of("received", c)) <=> Posted(events, Of("received", c))
      BY <1>1, <1>2, <3>1, PostedAppend
    <3> QED BY <1>5, <3>2
  <2>2. /\ pending' \in Seq(Bundle) /\ NoDuplicates(pending')
        /\ \A c \in Bundle : In(c, pending') => In(c, pending)
    BY <1>1, InWithout DEF Expire, PendingKept
  <2> QED BY <1>1, <2>1, <2>2 DEF Expire, PendingKept
<1>9. RestKept'
  BY <1>1 DEF Expire, RestKept, PendingKept
<1> QED BY <1>7, <1>8, <1>9 DEF ForwardInv

LEMMA TransmitKeeps ==
  ASSUME ForwardInv, NEW l \in Link, Transmit(l)
  PROVE  ForwardInv'
<1> DEFINE b == Head(queue[l])
           t == [Now EXCEPT !.queue[l] = Tail(@)]
<1>1. /\ Core(Now, events) /\ PendingKept(events, pending, arrived) /\ RestKept
      /\ events \in Seq(Event) /\ Good(Now) /\ Now.queue = queue /\ queue[l] # <<>>
  BY NowIs DEF ForwardInv, Core, Transmit
<1>2. /\ Good(t) /\ t.log = Now.log /\ b \in Bundle
      /\ \A c \in Bundle, k \in Link : In(c, t.queue[k]) <=> In(c, Now.queue[k]) /\ ~(k = l /\ c = b)
  BY <1>1, TakenKeeps
<1>3. Now' = t
  BY DEF Transmit, Now
<1>4. PICK ok \in BOOLEAN :
        events' = Append(events, [type |-> "transmitted", bundle |-> b, link |-> l, success |-> ok])
  BY DEF Transmit, Post
<1> DEFINE e == [type |-> "transmitted", bundle |-> b, link |-> l, success |-> ok]
<1>5. In(b, Now.queue[l])
  <2>1. queue[l] \in Seq(Bundle)
    BY <1>1 DEF Good, State
  <2> QED BY <1>1, <2>1, InTail
<1> HIDE DEF b, t
<1>6. e \in Event /\ events' = Append(events, e)
      /\ e.type = "transmitted" /\ e.bundle = b /\ e.link = l
  BY <1>2, <1>4, EventFields
<1> HIDE DEF e
<1>7. ~Posted(events, Of("transmitted", b))
  <2> SUFFICES ASSUME Posted(events, Of("transmitted", b)) PROVE FALSE
    OBVIOUS
  <2>1. PICK i \in 1 .. Len(events) : events[i] \in Of("transmitted", b)
    BY DEF Posted
  <2>2. events[i].link \in Link /\ events[i] \in OfLink("transmitted", b, events[i].link)
    BY <2>1, EventFields DEF Of, OfLink
  <2>3. PICK k \in Link : Flying(events, b, k)
    BY <2>2 DEF Flying, Posted
  <2>4. Now.log[b][k] = "QUEUED" /\ Now.log[b][l] = "QUEUED" /\ ~In(b, Now.queue[k])
    BY <1>1, <1>2, <1>5, <2>3 DEF Core, LogKept
  <2>5. k = l
    BY <1>1, <1>2, <2>4 DEF Good, Sound, Sent
  <2> QED BY <1>5, <2>4, <2>5
<1>8. Once(Append(events, e))
  <2> SUFFICES ASSUME NEW c \in Bundle, NEW type \in {"received", "transmitted", "custody"}
               PROVE  Single(Append(events, e), Of(type, c))
    BY DEF Once
  <2>1. Single(events, Of(type, c)) /\ (e \in Of(type, c) => ~Posted(events, Of(type, c)))
    BY <1>1, <1>6, <1>7 DEF Core, Once, Of
  <2> QED BY <1>1, <1>6, <2>1, PostedAppend
<1>9. /\ Append(events, e) \in Seq(Event)
      /\ \A c, k : Flying(Append(events, e), c, k) <=> Flying(events, c, k) \/ (c = b /\ k = l)
      /\ \A c, k : Due(Append(events, e), c, k) <=> Due(events, c, k)
      /\ \A c : Posted(Append(events, e), Of("received", c)) <=> Posted(events, Of("received", c))
  <2>1. \A c, k : (e \in OfLink("transmitted", c, k) <=> c = b /\ k = l)
                  /\ e \notin OfLink("custody", c, k) /\ e \notin Of("received", c)
    BY <1>6 DEF Of, OfLink
  <2> QED BY <1>1, <1>6, <2>1, PostedAppend DEF Flying, Due
<1>10. LogKept(t, Append(events, e))
  <2> SUFFICES ASSUME NEW c \in Bundle, NEW k \in Link
               PROVE  /\ t.log[c][k] = "QUEUED" <=> In(c, t.queue[k]) \/ Flying(Append(events, e), c, k)
                      /\ Flying(Append(events, e), c, k) => ~In(c, t.queue[k])
                      /\ Due(Append(events, e), c, k) => t.log[c][k] = "TRANSMITTED"
    BY DEF LogKept
  <2>1. /\ Now.log[c][k] = "QUEUED" <=> In(c, Now.queue[k]) \/ Flying(events, c, k)
        /\ Flying(events, c, k) => ~In(c, Now.queue[k])
        /\ Due(events, c, k) => Now.log[c][k] = "TRANSMITTED"
    BY <1>1 DEF Core, LogKept
  <2> QED BY <1>2, <1>5, <1>9, <2>1
<1>11. Core(Now, events)'
  BY <1>2, <1>3, <1>6, <1>8, <1>9, <1>10 DEF Core
<1>12. PendingKept(events, pending, arrived)' /\ RestKept'
  BY <1>1, <1>6, <1>9 DEF Transmit, PendingKept, RestKept
<1> QED BY <1>11, <1>12 DEF ForwardInv

LEMMA TimeOutKeeps ==
  ASSUME ForwardInv, NEW b \in Bundle, NEW l \in Link, TimeOutCustody(b, l)
  PROVE  ForwardInv'
<1> DEFINE e == [type |-> "custody", bundle |-> b, link |-> l]
<1>1. /\ Core(Now, events) /\ PendingKept(events, pending, arrived) /\ RestKept
      /\ events \in Seq(Event) /\ Now.log[b][l] = "TRANSMITTED"
  BY NowIs DEF ForwardInv, Core, TimeOutCustody
<1>2. e \in Event /\ events' = Append(events, e) /\ Now' = Now
      /\ e.type = "custody" /\ e.bundle = b /\ e.link = l
  BY EventFields, NowIs DEF TimeOutCustody, Post
<1> HIDE DEF e
<1>3. ~Posted(events, Of("custody", b))
  BY DEF TimeOutCustody, Posted, Of
<1>4. Once(Append(events, e))
  <2> SUFFICES ASSUME NEW c \in Bundle, NEW type \in {"received", "transmitted", "custody"}
               PROVE  Single(Append(events, e), Of(type, c))
    BY DEF Once
  <2>1. Single(events, Of(type, c)) /\ (e \in Of(type, c) => ~Posted(events, Of(type, c)))
    BY <1>1, <1>2, <1>3 DEF Core, Once, Of
  <2> QED BY <1>1, <1>2, <2>1, PostedAppend
<1>5. /\ Append(events, e) \in Seq(Event)
      /\ \A c, k : Flying(Append(events, e), c, k) <=> Flying(events, c, k)
      /\ \A c, k : Due(Append(events, e), c, k) <=> Due(events, c, k) \/ (c = b /\ k = l)
      /\ \A c : Posted(Append(events, e), Of("received", c)) <=> Posted(events, Of("received", c))
  <2>1. \A c, k : (e \in OfLink("custody", c, k) <=> c = b /\ k = l)
                  /\ e \notin OfLink("transmitted", c, k) /\ e \notin Of("received", c)
    BY <1>2 DEF Of, OfLink
  <2> QED BY <1>1, <1>2, <2>1, PostedAppend DEF Flying, Due
<1>6. LogKept(Now, Append(events, e))
  BY <1>1, <1>5 DEF Core, LogKept
<1>7. Core(Now, events)'
  BY <1>1, <1>2, <1>4, <1>5, <1>6 DEF Core
<1>8. PendingKept(events, pending, arrived)' /\ RestKept'
  BY <1>1, <1>2, <1>5 DEF TimeOutCustody, PendingKept, RestKept
<1> QED BY <1>7, <1>8 DEF ForwardInv

LEMMA SetLinkKeeps ==
  ASSUME ForwardInv, NEW l \in Link, NEW state \in {"available", "open", "unavailable"},
         NEW type \in {"up", "down", "available"}, SetLink(l, state, type)
  PROVE  ForwardInv'
<1> DEFINE e == [type |-> type, link |-> l]
           t == [Now EXCEPT !.link[l] = state]
<1>1. /\ Core(Now, events) /\ PendingKept(events, pending, arrived) /\ RestKept
      /\ events \in Seq(Event) /\ Good(Now)
  BY DEF ForwardInv, Core
<1>2. e \in Event /\ events' = Append(events, e) /\ e.type = type
  BY EventFields DEF SetLink, Post
<1>3. Now' = t
  BY DEF SetLink, Now
<1>4. t \in State /\ t.queue = Now.queue /\ t.deferred = Now.deferred /\ t.log = Now.log
  BY <1>1 DEF Good, State
<1> HIDE DEF e, t
<1>5. Core(t, events)
  <2>1. Good(t)
    BY <1>1, <1>4 DEF Good, Sound, Settled, Sent
  <2> QED BY <1>1, <1>4, <2>1 DEF Core, LogKept
<1>6. \A c : e \notin Of("received", c)
  BY <1>2 DEF Of
<1>7. Core(Now, events)'
  BY <1>1, <1>2, <1>3, <1>5, <1>6, PostKeeps
<1>8. \A c : Posted(events', Of("received", c)) <=> Posted(events, Of("received", c))
  BY <1>1, <1>2, <1>6, PostedAppend
<1>9. PendingKept(events, pending, arrived)' /\ RestKept'
  BY <1>1, <1>8 DEF SetLink, PendingKept, RestKept
<1> QED BY <1>7, <1>9 DEF ForwardInv

LEMMA RerouteTimeoutKeeps ==
  ASSUME ForwardInv, NEW l \in Link, RerouteTimeout(l)
  PROVE  ForwardInv'
<1> DEFINE more == [i \in 1 .. Len(queue[l]) |-> [type |-> "cancelled", bundle |-> queue[l][i]]]
           t == [Now EXCEPT
                   !.queue[l] = <<>>,
                   !.log = [b \in Bundle |-> IF In(b, Now.queue[l])
                              THEN [Now.log[b] EXCEPT ![l] = "CANCELLED"] ELSE Now.log[b]]]
<1>1. /\ Core(Now, events) /\ PendingKept(events, pending, arrived) /\ RestKept
      /\ events \in Seq(Event) /\ Good(Now) /\ Now.queue = queue
  BY NowIs DEF ForwardInv, Core
<1>2. RestKept' /\ pending' = pending /\ arrived' = arrived
  BY <1>1 DEF RerouteTimeout, RestKept
<1>3. CASE linkState[l] # "unavailable"
  <2>1. Now' = Now /\ events' = events
    BY <1>3, NowIs DEF RerouteTimeout
  <2> QED BY <1>1, <1>2, <2>1 DEF ForwardInv
<1>4. CASE linkState[l] = "unavailable"
  <2>1. /\ Good(t)
        /\ \A c \in Bundle, k \in Link :
             /\ In(c, t.queue[k]) <=> In(c, Now.queue[k]) /\ k # l
             /\ t.log[c][k] = IF k = l /\ In(c, Now.queue[l]) THEN "CANCELLED" ELSE Now.log[c][k]
    BY <1>1, DrainedKeeps
  <2>2. Now' = t /\ events' = events \o more
    <3> DEFINE q == [queue EXCEPT ![l] = <<>>]
               g == [b \in Bundle |-> IF In(b, queue[l])
                                      THEN [fwdlog[b] EXCEPT ![l] = "CANCELLED"] ELSE fwdlog[b]]
    <3>1. queue' = q /\ fwdlog' = g /\ linkState' = linkState /\ deferred' = deferred
          /\ events' = events \o more
      BY <1>4 DEF RerouteTimeout
    <3>2. t = [Now EXCEPT !.queue = q, !.log = g]
      BY DEF Now
    <3> HIDE DEF q, g, t, more
    <3>3. t = [link |-> linkState, queue |-> q, deferred |-> deferred, log |-> g]
      BY <3>2 DEF Now
    <3>4. Now' = [link |-> linkState, queue |-> q, deferred |-> deferred, log |-> g]
      BY <3>1 DEF Now
    <3> QED BY <3>1, <3>3, <3>4
  <2>3. more \in Seq(Event) /\ \A i \in 1 .. Len(more) : more[i].type = "cancelled"
    <3>1. queue[l] \in Seq(Bundle)
      BY <1>1 DEF Good, State
    <3>2. Len(queue[l]) \in Nat /\ \A i \in 1 .. Len(queue[l]) :
            [type |-> "cancelled", bundle |-> queue[l][i]] \in Event
      <4>1. Len(queue[l]) \in Nat /\ \A i \in 1 .. Len(queue[l]) : queue[l][i] \in Bundle
        BY <3>1
      <4> QED BY <4>1, EventFields
    <3> DEFINE n == Len(queue[l])
    <3>3. more = [i \in 1 .. n |-> [type |-> "cancelled", bundle |-> queue[l][i]]]
      OBVIOUS
    <3> HIDE DEF n, more, t
    <3>4. n \in Nat /\ \A i \in 1 .. n : more[i] \in Event /\ more[i].type = "cancelled"
      BY <3>2, <3>3 DEF n
    <3>5. more \in Seq(Event) /\ Len(more) = n
      BY <3>3, <3>4
    <3> QED BY <3>4, <3>5
  <2> HIDE DEF t, more
  <2>4. \A b \in Bundle, type \in {"received", "transmitted", "custody"} : ~Posted(more, Of(type, b))
    BY <2>3 DEF Posted, Of
  <2>5. \A b \in Bundle, k \in Link, type \in {"transmitted", "custody"} : ~Posted(more, OfLink(type, b, k))
    BY <2>4 DEF Posted, OfLink
  <2>6. /\ events' \in Seq(Event)
        /\ \A b \in Bundle, k \in Link :
             (Flying(events', b, k) <=> Flying(events, b, k)) /\ (Due(events', b, k) <=> Due(events, b, k))
        /\ \A b \in Bundle : Posted(events', Of("received", b)) <=> Posted(events, Of("received", b))
    <3>1. events' \in Seq(Event)
      BY <1>1, <2>2, <2>3
    <3> QED BY <1>1, <2>2, <2>3, <2>4, <2>5, <3>1, PostedConcat DEF Flying, Due
  <2>7. Once(events')
    BY <1>1, <2>2, <2>3, <2>4, PostedConcat DEF Core, Once
  <2>8. LogKept(t, events')
    <3> SUFFICES ASSUME NEW c \in Bundle, NEW k \in Link
                 PROVE  /\ t.log[c][k] = "QUEUED" <=> In(c, t.queue[k]) \/ Flying(events', c, k)
                        /\ Flying(events', c, k) => ~In(c, t.queue[k])
                        /\ Due(events', c, k) => t.log[c][k] = "TRANSMITTED"
      BY DEF LogKept
    <3>1. /\ Now.log[c][k] = "QUEUED" <=> In(c, Now.queue[k]) \/ Flying(events, c, k)
          /\ Flying(events, c, k) => ~In(c, Now.queue[k])
          /\ Due(events, c, k) => Now.log[c][k] = "TRANSMITTED"
      BY <1>1 DEF Core, LogKept
    <3> QED BY <2>1, <2>6, <3>1
  <2>9. Core(Now, events)'
    BY <2>1, <2>2, <2>6, <2>7, <2>8 DEF Core
  <2>10. PendingKept(events, pending, arrived)'
    BY <1>1, <1>2, <2>6 DEF PendingKept
  <2> QED BY <1>2, <2>9, <2>10 DEF ForwardInv
<1> QED BY <1>3, <1>4

LEMMA RouteStepsKeep ==
  ASSUME ForwardInv, NEW l \in Link, AddRoute(l) \/ DeleteRoute(l) \/ CheckDeferred(l)
  PROVE  ForwardInv'
<1>1. /\ Core(Now, events) /\ PendingKept(events, pending, arrived) /\ RestKept
      /\ events \in Seq(Event) /\ Now \in Reach(Now) /\ pending \in Seq(Bundle)
  BY ReachSelf DEF ForwardInv, Core, PendingKept
<1>2. events' = events /\ pending' = pending /\ arrived' = arrived /\ RestKept'
  BY <1>1 DEF AddRoute, DeleteRoute, CheckDeferred, RestKept
<1>3. ASSUME NEW t \in Reach(Now), Become(t) PROVE Core(Now, events)'
  <2>1. Core(t, events) /\ Now' = t
    BY <1>1, <1>3, GrownKept, NowIs DEF Reach
  <2> QED BY <1>2, <2>1
<1>4. CASE AddRoute(l)
  <2>1. RerouteAll(Now, routes') \in Reach(Now)
    BY <1>1, RerouteAllReaches
  <2> QED BY <1>1, <1>2, <1>3, <1>4, <2>1 DEF AddRoute, ForwardInv
<1>5. CASE DeleteRoute(l)
  <2>1. Now' = Now
    BY <1>5, NowIs DEF DeleteRoute
  <2> QED BY <1>1, <1>2, <2>1 DEF ForwardInv
<1>6. CASE CheckDeferred(l)
  <2>1. CheckNextHop(Now, l) \in Reach(Now)
    BY <1>1, CheckReaches
  <2> QED BY <1>1, <1>2, <1>3, <1>6, <2>1 DEF CheckDeferred, ForwardInv
<1> QED BY <1>4, <1>5, <1>6

LEMMA InitHolds == Init => ForwardInv
<1> SUFFICES ASSUME Init PROVE ForwardInv
  OBVIOUS
<1>1. <<>> \in Seq(Bundle) /\ <<>> \in Seq(Event) /\ NoDuplicates(<<>>) /\ Len(<<>>) = 0
      /\ \A b : ~In(b, <<>>)
  BY DEF NoDuplicates, In
<1>2. Now \in State
  BY <1>1 DEF Init, Now, State, LogState
<1>3. /\ \A l \in Link : Now.queue[l] = <<>> /\ Now.deferred[l] = <<>>
      /\ \A b \in Bundle, l \in Link : Now.log[b][l] = "NONE"
  BY DEF Init, Now
<1>4. Good(Now)
  <2>1. Sound(Now)
    BY <1>1, <1>3, BundleForwardingAssumption DEF Sound, Sent
  <2>2. Settled(Now)
    BY <1>3 DEF Settled
  <2> QED BY <1>2, <2>1, <2>2 DEF Good
<1>5. \A E : ~Posted(<<>>, E) /\ Single(<<>>, E)
  BY DEF Posted, Single
<1>6. Core(Now, events)
  BY <1>1, <1>3, <1>4, <1>5 DEF Init, Core, LogKept, Once, Flying, Due
<1>7. PendingKept(events, pending, arrived)
  BY <1>1, <1>5 DEF Init, PendingKept
<1>8. RestKept
  BY BundleForwardingAssumption DEF Init, RestKept
<1> QED BY <1>6, <1>7, <1>8 DEF ForwardInv

LEMMA StepHolds == ForwardInv /\ [Next]_vars => ForwardInv'
<1> SUFFICES ASSUME ForwardInv, [Next]_vars PROVE ForwardInv'
  OBVIOUS
<1>1. CASE HandleEvent
  BY <1>1, HandleKeepsCore, HandleKeepsPending, HandleKeepsRest DEF ForwardInv
<1>2. ASSUME NEW b \in Bundle, Arrive(b) \/ Expire(b) \/ \E l \in Link : TimeOutCustody(b, l)
      PROVE  ForwardInv'
  BY <1>2, ArriveKeeps, ExpireKeeps, TimeOutKeeps
<1>3. ASSUME NEW l \in Link, LinkStep(l) PROVE ForwardInv'
  <2>1. LinkOpens(l) \/ LinkDiscovered(l) \/ LinkGoesDown(l) =>
          \/ SetLink(l, "open", "up") \/ SetLink(l, "available", "available")
          \/ SetLink(l, "unavailable", "down")
    BY DEF LinkOpens, LinkDiscovered, LinkGoesDown
  <2>2. LinkOpens(l) \/ LinkDiscovered(l) \/ LinkGoesDown(l) => ForwardInv'
    BY <2>1, SetLinkKeeps
  <2> QED BY <1>3, <2>2, TransmitKeeps, RerouteTimeoutKeeps, RouteStepsKeep DEF LinkStep
<1>4. CASE UNCHANGED vars
  <2>1. Now' = Now
    BY <1>4, NowIs DEF vars
  <2> QED BY <1>4, <2>1 DEF vars, ForwardInv, RestKept
<1> QED BY <1>1, <1>2, <1>3, <1>4 DEF Next

LEMMA ForwardInvCorrect == Spec => []ForwardInv
BY InitHolds, StepHolds, PTL DEF Spec

----------------------------------------------------------------------------
(* The properties of the run.                                              *)

(* Queues respect the high mark, no list holds a bundle twice, also when   *)
(* many events and links queue and defer it, and timers only run for links *)
(* that have an entry.                                                     *)
THEOREM TypeCorrect == Spec => []TypeOK
<1>1. ForwardInv => TypeOK
  <2> SUFFICES ASSUME ForwardInv PROVE TypeOK
    OBVIOUS
  <2>1. Good(Now) /\ PendingKept(events, pending, arrived) /\ RestKept
    BY DEF ForwardInv, Core
  <2>2. /\ linkState \in [Link -> {"unavailable", "available", "opening", "open"}]
        /\ queue \in [Link -> Seq(Bundle)] /\ deferred \in [Link -> Seq(Bundle)]
        /\ fwdlog \in [Bundle -> [Link -> LogState]]
    BY <2>1 DEF Good, State, Now
  <2>3. ASSUME NEW l \in Link
        PROVE  Len(queue[l]) <= QueueHigh /\ NoDuplicates(queue[l] \o deferred[l])
    <3>1. /\ Len(queue[l]) <= QueueHigh /\ NoDuplicates(queue[l]) /\ NoDuplicates(deferred[l])
          /\ \A b \in Bundle : ~(In(b, queue[l]) /\ In(b, deferred[l]))
      BY <2>1, NowIs DEF Good, Sound
    <3>2. queue[l] \in Seq(Bundle) /\ deferred[l] \in Seq(Bundle)
      BY <2>2
    <3>3. \A b : ~(In(b, queue[l]) /\ In(b, deferred[l]))
      BY <3>1, <3>2, InRange
    <3> QED BY <3>1, <3>2, <3>3, InConcat
  <2> QED BY <2>1, <2>2, <2>3 DEF TypeOK, PendingKept, RestKept
<1> QED BY <1>1, ForwardInvCorrect, PTL

(* A bundle is never queued on, in flight on or sent over two links: each  *)
(* link takes it from its own deferred list, and should_fwd looks at the   *)
(* log of all of them.                                                     *)
THEOREM OneCopyCorrect == Spec => []OneCopy
<1>1. ForwardInv => OneCopy
  BY DEF ForwardInv, Core, Good, Sound, OneCopy
<1> QED BY <1>1, ForwardInvCorrect, PTL

(* An entry QUEUED in the forwarding log is backed by the link's queue or  *)
(* by a transmitted event: whoever empties a queue tells the log.          *)
THEOREM QueuedCorrect == Spec => []QueuedIsOnItsWay
<1>1. ForwardInv => QueuedIsOnItsWay
  <2> SUFFICES ASSUME ForwardInv, NEW b \in Bundle, NEW l \in Link,
                      fwdlog[b][l] = "QUEUED", ~In(b, queue[l])
               PROVE  \E i \in 1 .. Len(events) :
                        events[i].type = "transmitted" /\ events[i].bundle = b /\ events[i].link = l
    BY DEF QueuedIsOnItsWay
  <2>1. Flying(events, b, l)
    BY NowIs DEF ForwardInv, Core, LogKept
  <2> QED BY <2>1 DEF Flying, Posted, Of, OfLink
<1> QED BY <1>1, ForwardInvCorrect, PTL

(* A bundle that was transmitted is on no link's deferred list, so no link *)
(* that opens later sends it once more.                                    *)
THEOREM TransmittedCorrect == Spec => []TransmittedNotDeferred
<1>1. ForwardInv => TransmittedNotDeferred
  BY NowIs DEF ForwardInv, Core, Good, Settled, TransmittedNotDeferred
<1> QED BY <1>1, ForwardInvCorrect, PTL

(* Bundles do not overtake on a link: while a bundle that could be sent    *)
(* stays on its deferred list only those deferred before it are queued, in *)
(* every step, also one that routes all that is pending again.             *)
THEOREM OrderCorrect == Spec => NoOvertaking
<1> DEFINE Fair(l, i) ==
             In(deferred[l][i], deferred'[l]) /\ ShouldForward(Now', deferred[l][i], l) =>
               \A c \in Bundle : In(c, queue'[l]) =>
                 In(c, queue[l]) \/ In(c, SubSeq(deferred[l], 1, i - 1))
<1>1. ASSUME ForwardInv, Orderly(Now, Now'), NEW l \in Link, NEW i \in 1 .. Len(deferred[l])
      PROVE  Fair(l, i)
  <2> SUFFICES ASSUME In(deferred[l][i], deferred'[l]), ShouldForward(Now', deferred[l][i], l),
                      NEW c \in Bundle, In(c, queue'[l]), ~In(c, queue[l])
               PROVE  In(c, SubSeq(deferred[l], 1, i - 1))
    OBVIOUS
  <2>1. deferred[l] \in Seq(Bundle) /\ NoDuplicates(deferred[l])
    BY <1>1, NowIs DEF ForwardInv, Core, Good, State, Sound
  <2>2. deferred[l][i] \in Bundle /\ In(deferred[l][i], deferred[l])
    BY <2>1 DEF In
  <2>3. Now'.queue = queue' /\ Now'.deferred = deferred' /\ Now.queue = queue /\ Now.deferred = deferred
    BY DEF Now
  <2>4. Before(deferred[l], c, deferred[l][i])
    BY <1>1, <2>2, <2>3 DEF Orderly
  <2>5. PICK j, k \in 1 .. Len(deferred[l]) :
          j < k /\ deferred[l][j] = c /\ deferred[l][k] = deferred[l][i]
    BY <2>4 DEF Before
  <2>6. k = i /\ j \in 1 .. (i - 1)
    BY <2>1, <2>5 DEF NoDuplicates
  <2>7. Len(SubSeq(deferred[l], 1, i - 1)) = i - 1 /\ SubSeq(deferred[l], 1, i - 1)[j] = c
    BY <2>1, <2>5, <2>6
  <2> QED BY <2>6, <2>7 DEF In
<1>2. ASSUME NEW l \in Link, NEW i \in 1 .. Len(deferred[l]),
             \A c \in Bundle : In(c, queue'[l]) => In(c, queue[l])
      PROVE  Fair(l, i)
  BY <1>2
<1>3. ASSUME ForwardInv, NEW l \in Link, AddRoute(l) \/ DeleteRoute(l) \/ CheckDeferred(l)
      PROVE  Orderly(Now, Now')
  <2>1. Now \in Reach(Now) /\ pending \in Seq(Bundle) /\ Orderly(Now, Now)
    BY <1>3, ReachSelf, GrowsOn DEF ForwardInv, PendingKept, Grows
  <2>2. RerouteAll(Now, routes') \in Reach(Now) /\ CheckNextHop(Now, l) \in Reach(Now)
    BY <2>1, RerouteAllReaches, CheckReaches
  <2>3. \A t \in Reach(Now) : Become(t) => Orderly(Now, Now')
    BY NowIs DEF Reach, Grows
  <2>4. DeleteRoute(l) => Now' = Now
    BY NowIs DEF DeleteRoute
  <2> QED BY <1>3, <2>1, <2>2, <2>3, <2>4 DEF AddRoute, CheckDeferred
<1>4. ASSUME ForwardInv, NEW b \in Bundle, Expire(b), NEW l \in Link, NEW c \in Bundle, In(c, queue'[l])
      PROVE  In(c, queue[l])
  <2>1. queue[l] \in Seq(Bundle)
    BY <1>4, NowIs DEF ForwardInv, Core, Good, State
  <2>2. queue'[l] = Without(b, queue[l])
    BY <1>4 DEF Expire, Become
  <2> QED BY <1>4, <2>1, <2>2, InWithout
<1>5. ASSUME ForwardInv, NEW k \in Link, Transmit(k) \/ RerouteTimeout(k),
             NEW l \in Link, NEW c \in Bundle, In(c, queue'[l])
      PROVE  In(c, queue[l])
  <2>1. queue \in [Link -> Seq(Bundle)]
    BY <1>5, NowIs DEF ForwardInv, Core, Good, State
  <2>2. queue'[l] = queue[l] \/ queue'[l] = <<>> \/ (queue[l] # <<>> /\ queue'[l] = Tail(queue[l]))
    BY <1>5, <2>1 DEF Transmit, RerouteTimeout
  <2>3. ~In(c, <<>>)
    BY DEF In
  <2> QED BY <1>5, <2>1, <2>2, <2>3, InTail
<1>6. ASSUME ForwardInv, [Next]_vars, NEW l \in Link, NEW i \in 1 .. Len(deferred[l])
      PROVE  Fair(l, i)
  <2>1. CASE queue' = queue
    BY <1>2, <2>1
  <2>2. CASE HandleEvent
    BY <1>1, <1>6, <2>2, HandleKeepsCore
  <2>3. CASE \E b \in Bundle : Expire(b)
    BY <1>2, <1>4, <1>6, <2>3
  <2>4. CASE \E k \in Link : Transmit(k) \/ RerouteTimeout(k)
    BY <1>2, <1>5, <1>6, <2>4
  <2>5. CASE \E k \in Link : AddRoute(k) \/ DeleteRoute(k) \/ CheckDeferred(k)
    BY <1>1, <1>3, <1>6, <2>5
  <2> HIDE DEF Fair
  <2>6. \/ HandleEvent \/ queue' = queue \/ \E b \in Bundle : Expire(b)
        \/ \E k \in Link : Transmit(k) \/ RerouteTimeout(k)
        \/ \E k \in Link : AddRoute(k) \/ DeleteRoute(k) \/ CheckDeferred(k)
    BY <1>6 DEF Next, LinkStep, vars, Arrive, TimeOutCustody, LinkOpens, LinkDiscovered,
       LinkGoesDown, SetLink
  <2> QED BY <2>1, <2>2, <2>3, <2>4, <2>5, <2>6
<1>7. ForwardInv /\ [Next]_vars =>
        [\A l \in Link : \A i \in 1 .. Len(deferred[l]) : Fair(l, i)]_vars
  BY <1>6
<1> QED BY <1>7, ForwardInvCorrect, PTL DEF Spec, NoOvertaking
=============================================================================
