--------------------------- MODULE Sessions_proofs ---------------------------
(***************************************************************************)
(* Proofs about Sessions for any trees of routers, any bundles with any    *)
(* ids, and any number of registrations and timers.                        *)
(*                                                                         *)
(* The difficulty is the ids in subscriptions: a router does not send what *)
(* the id of a new subscriber covers.  That this loses nothing follows     *)
(* from the trees: whatever the routers below a subscriber have of a       *)
(* source beyond it came through the subscriber, as a subscriber (Sides).  *)
(***************************************************************************)
EXTENDS Sessions, DataLemmas

Vector == [Source -> Nat]
Waiting == [id : Vector, from : Router \cup {Nobody}]
Message == [bundle : Bundle \cup {NoBundle}, id : Vector]

SessionState ==
  [upstream : Router \cup {Local, Nobody}, subscribers : SUBSET (Router \cup {Local}),
   bundles : Seq(Bundle), id : Vector,
   log : [Bundle -> SUBSET Router], cache : [Bundle -> SUBSET (Router \cup {Nobody})],
   waiting : Seq(Waiting),
   open : BOOLEAN, custody : BOOLEAN, routed : BOOLEAN,
   timer : BOOLEAN, stray : Nat, out : [Router -> Seq(Message)]]

----------------------------------------------------------------------------
(* Trees. *)

\* The routers whose routes lead through q.
Below(q) ==
  {x \in Router : \A S \in SUBSET Router :
     q \in S /\ (\A y \in Router : Hop[y] \in S => y \in S) => x \in S}

LEMMA Constants ==
  /\ Local \notin Router /\ Nobody \notin Router /\ Local # Nobody /\ NoBundle \notin Bundle
  /\ \A r \in Router : Hop[r] \in Router \cup {Nobody}
  /\ \A b \in Bundle : Origin[b] \in Router /\ Id[b] \in Vector /\ Obsoletes[b] \in Vector
  /\ NoId \in Vector /\ \A s \in Source : NoId[s] = 0
BY SessionsAssumption DEF Local, Nobody, NoId, Vector

LEMMA BelowIsTree ==
  ASSUME NEW q \in Router
  PROVE  /\ q \in Below(q) /\ Hop[q] \notin Below(q) /\ Hop[q] # q
         /\ \A y \in Router : Hop[y] \in Below(q) => y \in Below(q)
         /\ \A y \in Below(q) : y = q \/ Hop[y] \in Below(q)
<1>1. q \in Below(q)
  BY DEF Below
<1>2. \A y \in Router : Hop[y] \in Below(q) => y \in Below(q)
  BY DEF Below
<1>3. ASSUME NEW y \in Below(q), y # q, Hop[y] \notin Below(q) PROVE FALSE
  <2> DEFINE S == Below(q) \ {y}
  <2>1. S \in SUBSET Router /\ q \in S
    BY <1>1, <1>3 DEF Below
  <2>2. \A z \in Router : Hop[z] \in S => z \in S
    BY <1>2, <1>3
  <2> HIDE DEF S
  <2>3. y \in S
    BY <2>1, <2>2 DEF Below
  <2> QED BY <2>3 DEF S
<1>4. Hop[q] \notin Below(q)
  <2>1. SUFFICES ASSUME Hop[q] \in Below(q) PROVE FALSE
    OBVIOUS
  <2>2. Below(q) \in SUBSET Router /\ Below(q) # {}
    BY <1>1 DEF Below
  <2>3. PICK r \in Below(q) : Hop[r] \notin Below(q)
    BY <2>2, TreeAssumption
  <2> QED BY <1>3, <2>1, <2>3
<1> QED BY <1>1, <1>2, <1>3, <1>4

LEMMA BelowNests ==
  ASSUME NEW p \in Router, Hop[p] \in Router
  PROVE  Below(p) \subseteq Below(Hop[p])
<1> DEFINE S == Below(Hop[p])
<1>1. S \in SUBSET Router /\ p \in S /\ \A y \in Router : Hop[y] \in S => y \in S
  BY BelowIsTree DEF Below
<1> HIDE DEF S
<1>2. \A x \in Below(p) : x \in S
  BY <1>1 DEF Below
<1> QED BY <1>2 DEF S

Adjacent(r, p) == Hop[r] = p \/ Hop[p] = r

LEMMA NoLoop ==
  ASSUME NEW r \in Router
  PROVE  ~Adjacent(r, r) /\ \A p \in Router : Hop[p] = r => Hop[r] # p
<1>1. Hop[r] # r
  BY BelowIsTree
<1>2. ASSUME NEW p \in Router, Hop[p] = r, Hop[r] = p PROVE FALSE
  BY <1>2, BelowIsTree
<1> QED BY <1>1, <1>2 DEF Adjacent

----------------------------------------------------------------------------
(* Queues of messages. *)

\* Bundle b, or a subscription for NoBundle, is in the queue q.
Carries(q, b) == \E m \in Message : In(m, q) /\ m.bundle = b

LEMMA CarriesInQueue ==
  ASSUME NEW q \in Seq(Message), NEW b
  PROVE  Carries(q, b) <=> \E i \in DOMAIN q : q[i].bundle = b
<1>1. DOMAIN q = 1 .. Len(q) /\ \A i \in 1 .. Len(q) : q[i] \in Message
  OBVIOUS
<1> QED BY <1>1 DEF Carries, In

LEMMA CarriesConcat ==
  ASSUME NEW q \in Seq(Message), NEW t \in Seq(Message)
  PROVE  \A b : Carries(q \o t, b) <=> Carries(q, b) \/ Carries(t, b)
<1>1. \A m : In(m, q \o t) <=> In(m, q) \/ In(m, t)
  BY InConcat
<1> QED BY <1>1 DEF Carries

LEMMA CarriesTail ==
  ASSUME NEW q \in Seq(Message), q # <<>>
  PROVE  /\ Head(q) \in Message /\ Tail(q) \in Seq(Message)
         /\ \A m : In(m, Tail(q)) => In(m, q)
         /\ In(Head(q), q)
         /\ \A b : Carries(q, b) => Carries(Tail(q), b) \/ Head(q).bundle = b
<1>1. Head(q) \in Message /\ Tail(q) \in Seq(Message)
  OBVIOUS
<1>2. \A m : In(m, q) <=> In(m, Tail(q)) \/ m = Head(q)
  BY InTail
<1> QED BY <1>1, <1>2 DEF Carries

LEMMA DataMessages ==
  ASSUME NEW s \in Seq(Bundle)
  PROVE  /\ Messages(s) \in Seq(Message)
         /\ \A m : In(m, Messages(s)) <=> \E b \in Bundle : In(b, s) /\ m = Data(b)
<1>1. DOMAIN s = 1 .. Len(s) /\ Len(s) \in Nat /\ \A i \in 1 .. Len(s) : s[i] \in Bundle
  OBVIOUS
<1>2. \A b \in Bundle : Data(b) \in Message
  BY Constants DEF Data, Message
<1>3. /\ Messages(s) \in Seq(Message) /\ Len(Messages(s)) = Len(s)
      /\ \A i \in 1 .. Len(s) : Messages(s)[i] = Data(s[i])
  <2>1. Messages(s) = [i \in 1 .. Len(s) |-> Data(s[i])]
    BY <1>1 DEF Messages
  <2>2. \A i \in 1 .. Len(s) : Data(s[i]) \in Message
    BY <1>1, <1>2
  <2> QED BY <1>1, <2>1, <2>2
<1>4. \A m : In(m, Messages(s)) <=> \E b \in Bundle : In(b, s) /\ m = Data(b)
  BY <1>1, <1>3 DEF In
<1> QED BY <1>3, <1>4

----------------------------------------------------------------------------
(* Routing of the bundles of a session. *)

\* Bundle b is at p or on its way, if r leaves s behind.
Reaches(r, s, p, b) == b \in seen[p] \/ Carries(channel[r][p], b) \/ Carries(s.out[p], b)

\* Where r has sent a bundle, or what sent it to r, has it or will.
Noted(r, s) ==
  \A b \in Bundle, p \in Router : p \in s.log[b] \cup s.cache[b] => Reaches(r, s, p, b)

Served(r, s) == \A b \in Kept(s), p \in s.subscribers \cap Router : Reaches(r, s, p, b)

\* The messages of s are still to be sent in t.
Sends(s, t) == \A p \in Router, m \in Message : In(m, s.out[p]) => In(m, t.out[p])

LEMMA SendsReaches ==
  ASSUME NEW r, NEW s, NEW t, NEW p \in Router, NEW b, Sends(s, t), Reaches(r, s, p, b)
  PROVE  Reaches(r, t, p, b)
BY DEF Sends, Reaches, Carries

SameControl(s, t) ==
  /\ t.upstream = s.upstream /\ t.waiting = s.waiting /\ t.open = s.open
  /\ t.custody = s.custody /\ t.routed = s.routed /\ t.timer = s.timer /\ t.stray = s.stray

SameData(s, t) == t.bundles = s.bundles /\ t.id = s.id /\ t.cache = s.cache

LEMMA RoutedFields ==
  ASSUME NEW s \in SessionState, NEW B \in SUBSET Bundle
  PROVE  /\ Routed(s, B) \in SessionState
         /\ SameControl(s, Routed(s, B)) /\ SameData(s, Routed(s, B))
         /\ Routed(s, B).subscribers = s.subscribers
         /\ \A b \in Bundle : Routed(s, B).log[b] =
              IF b \in B THEN s.log[b] \cup Targets(s, b) ELSE s.log[b]
         /\ \A p \in Router : \A m : In(m, Routed(s, B).out[p]) <=>
              \/ In(m, s.out[p])
              \/ \E b \in B : p \in Targets(s, b) /\ In(b, s.bundles) /\ m = Data(b)
<1> DEFINE sent(p) == Only({b \in B : p \in Targets(s, b)}, s.bundles)
           log == [b \in Bundle |-> IF b \in B THEN s.log[b] \cup Targets(s, b) ELSE s.log[b]]
           out == [p \in Router |-> s.out[p] \o Messages(sent(p))]
           t == Routed(s, B)
<1>1. /\ s.bundles \in Seq(Bundle) /\ s.subscribers \in SUBSET (Router \cup {Local})
      /\ \A b \in Bundle : s.log[b] \in SUBSET Router
      /\ \A p \in Router : s.out[p] \in Seq(Message)
  BY DEF SessionState
<1>2. \A b \in Bundle : Targets(s, b) \in SUBSET Router
  BY <1>1 DEF Targets
<1>3. log \in [Bundle -> SUBSET Router]
  BY <1>1, <1>2
<1>4. ASSUME NEW p \in Router
      PROVE  /\ Messages(sent(p)) \in Seq(Message) /\ out[p] \in Seq(Message)
             /\ \A m : In(m, out[p]) <=>
                  \/ In(m, s.out[p])
                  \/ \E b \in B : p \in Targets(s, b) /\ In(b, s.bundles) /\ m = Data(b)
  <2> DEFINE U == {b \in B : p \in Targets(s, b)}
  <2>0. out[p] = s.out[p] \o Messages(Only(U, s.bundles))
    OBVIOUS
  <2>1. \A b : b \in U <=> b \in B /\ p \in Targets(s, b)
    OBVIOUS
  <2>0a. sent(p) = Only(U, s.bundles)
    OBVIOUS
  <2> HIDE DEF U, out
  <2>2. /\ Only(U, s.bundles) \in Seq(Bundle)
        /\ \A b : In(b, Only(U, s.bundles)) <=> In(b, s.bundles) /\ b \in U
    BY <1>1, InOnly
  <2>3. /\ Messages(Only(U, s.bundles)) \in Seq(Message)
        /\ \A m : In(m, Messages(Only(U, s.bundles))) <=>
             \E b \in Bundle : In(b, Only(U, s.bundles)) /\ m = Data(b)
    BY <2>2, DataMessages
  <2>4. \A m : In(m, out[p]) <=> In(m, s.out[p]) \/ In(m, Messages(Only(U, s.bundles)))
    BY <1>1, <2>0, <2>3, InConcat
  <2>5. out[p] \in Seq(Message)
    BY <1>1, <2>0, <2>3
  <2> QED BY <2>0a, <2>1, <2>2, <2>3, <2>4, <2>5
<1>5. out \in [Router -> Seq(Message)]
  BY <1>4
<1>6. t = [s EXCEPT !.log = log, !.out = out]
  BY DEF Routed
<1> HIDE DEF t, out, log
<1>7. t \in SessionState /\ SameControl(s, t) /\ SameData(s, t)
      /\ t.subscribers = s.subscribers /\ t.log = log /\ t.out = out
  BY <1>3, <1>5, <1>6 DEF SessionState, SameControl, SameData
<1>8. \A b \in Bundle : t.log[b] = IF b \in B THEN s.log[b] \cup Targets(s, b) ELSE s.log[b]
  BY <1>7 DEF log
<1> QED BY <1>4, <1>7, <1>8 DEF t

\* What the ids in v count was received at r or below.
Known(r, v, have) ==
  \A src \in Source : v[src] > 0 =>
    \E c \in Bundle : Id[c][src] > 0 /\ (c \in have \/ \E x \in Below(r) : c \in seen[x])

\* A handler of r sends bundles to subscribers only and subscriptions to the
\* next router only.
Outgoing(r, s, have) ==
  \A p \in Router, m \in Message : In(m, s.out[p]) =>
    IF m.bundle = NoBundle THEN p = Hop[r] /\ Known(r, m.id, have)
    ELSE m.bundle \in have /\ p \in s.subscribers

\* The bundles kept are known, up to date and counted in the session's id.
Tidy(s, have) ==
  /\ NoDuplicates(s.bundles)
  /\ \A b \in Bundle : In(b, s.bundles) => b \in have /\ Covers(s.id, Id[b])
  /\ \A b, c \in Bundle :
       In(b, s.bundles) /\ In(c, s.bundles) /\ b # c => ~Covers(Obsoletes[b], Id[c]) /\ Id[b] # Id[c]

\* What the parts of the handlers keep true of the record they work on; have are
\* the bundles that r received.
Flow(r, s, have) ==
  /\ s \in SessionState
  /\ \A p \in s.subscribers \cap Router : Adjacent(r, p)
  /\ Tidy(s, have)
  /\ Known(r, s.id, have)
  /\ \A i \in 1 .. Len(s.waiting) : Known(r, s.waiting[i].id, have)
  /\ Noted(r, s) /\ Served(r, s)
  /\ Outgoing(r, s, have)

LEMMA RoutedKeeps ==
  ASSUME NEW r \in Router, NEW s \in SessionState, NEW have, NEW B \in SUBSET Bundle,
         Noted(r, s), Outgoing(r, s, have),
         \A b \in B : In(b, s.bundles) /\ b \in have,
         \A b \in Kept(s) \ B, p \in s.subscribers \cap Router : Reaches(r, s, p, b)
  PROVE  /\ Noted(r, Routed(s, B)) /\ Served(r, Routed(s, B))
         /\ Outgoing(r, Routed(s, B), have) /\ Sends(s, Routed(s, B))
<1> DEFINE t == Routed(s, B)
<1>1. /\ t \in SessionState /\ SameControl(s, t) /\ SameData(s, t)
      /\ t.subscribers = s.subscribers
      /\ \A b \in Bundle : t.log[b] = IF b \in B THEN s.log[b] \cup Targets(s, b) ELSE s.log[b]
      /\ \A p \in Router : \A m : In(m, t.out[p]) <=>
           In(m, s.out[p]) \/ \E b \in B : p \in Targets(s, b) /\ In(b, s.bundles) /\ m = Data(b)
  BY RoutedFields
<1> HIDE DEF t
<1>2. Sends(s, t)
  BY <1>1 DEF Sends
<1>3. ASSUME NEW b \in B, NEW p \in Router, p \in Targets(s, b) PROVE Reaches(r, t, p, b)
  <2>1. Data(b) \in Message /\ Data(b).bundle = b
    BY Constants DEF Data, Message
  <2>2. In(Data(b), t.out[p])
    BY <1>1, <1>3
  <2> QED BY <2>1, <2>2 DEF Reaches, Carries
<1>4. \A b : \A p \in Router : Reaches(r, s, p, b) => Reaches(r, t, p, b)
  BY <1>2, SendsReaches
<1>5. Noted(r, t)
  <2> SUFFICES ASSUME NEW b \in Bundle, NEW p \in Router, p \in t.log[b] \cup t.cache[b]
               PROVE  Reaches(r, t, p, b)
    BY DEF Noted
  <2>1. CASE p \in s.log[b] \cup s.cache[b]
    BY <1>4, <2>1 DEF Noted
  <2>2. CASE p \notin s.log[b] \cup s.cache[b]
    <3>1. b \in B /\ p \in Targets(s, b)
      BY <1>1, <2>2 DEF SameData
    <3> QED BY <1>3, <3>1
  <2> QED BY <2>1, <2>2
<1>6. Served(r, t)
  <2> SUFFICES ASSUME NEW b \in Kept(t), NEW p \in t.subscribers \cap Router
               PROVE  Reaches(r, t, p, b)
    BY DEF Served
  <2>1. b \in Kept(s) /\ p \in s.subscribers \cap Router /\ b \in Bundle
    BY <1>1 DEF Kept, SameData
  <2>2. CASE b \notin B
    BY <1>4, <2>1, <2>2
  <2>3. CASE b \in B /\ p \in Targets(s, b)
    BY <1>3, <2>3
  <2>4. CASE b \in B /\ p \notin Targets(s, b)
    <3>1. p \in s.log[b] \cup s.cache[b]
      BY <2>1, <2>4, Constants DEF Targets
    <3>2. Reaches(r, s, p, b)
      BY <2>1, <3>1 DEF Noted
    <3> QED BY <1>4, <3>2
  <2> QED BY <2>2, <2>3, <2>4
<1>7. Outgoing(r, t, have)
  <2> SUFFICES ASSUME NEW p \in Router, NEW m \in Message, In(m, t.out[p])
               PROVE  IF m.bundle = NoBundle THEN p = Hop[r] /\ Known(r, m.id, have)
                      ELSE m.bundle \in have /\ p \in s.subscribers
    BY <1>1 DEF Outgoing
  <2>1. CASE In(m, s.out[p])
    BY <2>1 DEF Outgoing
  <2>2. CASE ~In(m, s.out[p])
    <3>1. PICK b \in B : p \in Targets(s, b) /\ m = Data(b)
      BY <1>1, <2>2
    <3>2. m.bundle = b /\ b # NoBundle /\ p \in s.subscribers
      BY <3>1, Constants DEF Data, Targets
    <3> QED BY <3>2
  <2> QED BY <2>1, <2>2
<1> QED BY <1>2, <1>5, <1>6, <1>7 DEF t

\* What an id suppresses is at the peer, or the peer is a subscriber already.
Harmless(s, peer, id) ==
  \A b \in Kept(s) : Covers(id, Id[b]) => peer \in s.subscribers \/ b \in seen[peer]

LEMMA AddedKeeps ==
  ASSUME NEW r \in Router, NEW s, NEW have, NEW peer \in Router, NEW id, Flow(r, s, have),
         Adjacent(r, peer), Harmless(s, peer, id)
  PROVE  /\ Flow(r, SubscriberAdded(s, peer, id), have)
         /\ SameControl(s, SubscriberAdded(s, peer, id))
         /\ SameData(s, SubscriberAdded(s, peer, id))
         /\ SubscriberAdded(s, peer, id).subscribers = s.subscribers \cup {peer}
         /\ Sends(s, SubscriberAdded(s, peer, id))
<1> DEFINE known == {b \in Kept(s) : Covers(id, Id[b])}
           log == [b \in Bundle |-> IF b \in known THEN s.log[b] \cup {peer} ELSE s.log[b]]
           u == [s EXCEPT !.subscribers = s.subscribers \cup {peer}, !.log = log]
           B == Kept(s) \ known
           t == SubscriberAdded(s, peer, id)
<1>1. s \in SessionState
  BY DEF Flow
<1>2. /\ t = Routed(u, B) /\ B \in SUBSET Bundle /\ known \in SUBSET Bundle
  BY DEF SubscriberAdded, Kept
<1>3. \A b \in Kept(s) : In(b, s.bundles) /\ b \in have /\ b \in Bundle
  BY DEF Kept, Flow, Tidy
<1>4. ASSUME NEW b \in known PROVE Reaches(r, s, peer, b)
  <2>1. b \in Kept(s) /\ (peer \in s.subscribers \/ b \in seen[peer])
    BY DEF Harmless
  <2> HIDE DEF known
  <2> QED BY <2>1 DEF Flow, Served, Reaches
<1>5. /\ u \in SessionState /\ SameControl(s, u) /\ SameData(s, u) /\ u.out = s.out
      /\ u.subscribers = s.subscribers \cup {peer} /\ u.log = log
  <2>1. log \in [Bundle -> SUBSET Router]
    BY <1>1 DEF SessionState
  <2> HIDE DEF log
  <2> QED BY <1>1, <2>1 DEF SessionState, SameControl, SameData
<1>6. \A b \in Bundle : u.log[b] = IF b \in known THEN s.log[b] \cup {peer} ELSE s.log[b]
  BY <1>5
<1>7. \A b \in B : b \in Kept(s)
  OBVIOUS
<1>8. \A b \in Kept(s) \ B : b \in known
  OBVIOUS
<1> HIDE DEF t, u, B, log, known
<1>9. Sends(s, u) /\ \A b : \A p \in Router : Reaches(r, s, p, b) <=> Reaches(r, u, p, b)
  BY <1>5 DEF Sends, Reaches
<1>10. Noted(r, u)
  <2> SUFFICES ASSUME NEW b \in Bundle, NEW p \in Router, p \in u.log[b] \cup u.cache[b]
               PROVE  Reaches(r, s, p, b)
    BY <1>9 DEF Noted
  <2>1. p \in s.log[b] \cup s.cache[b] \/ (b \in known /\ p = peer)
    BY <1>5, <1>6 DEF SameData
  <2> QED BY <1>4, <2>1 DEF Flow, Noted
<1>11. Outgoing(r, u, have)
  BY <1>5 DEF Flow, Outgoing
<1>12. ASSUME NEW b \in Kept(u) \ B, NEW p \in u.subscribers \cap Router PROVE Reaches(r, u, p, b)
  <2>1. b \in Kept(s) /\ b \in known
    BY <1>5, <1>8 DEF Kept, SameData
  <2>2. CASE p = peer
    BY <1>4, <1>9, <2>1, <2>2
  <2>3. CASE p # peer
    <3>1. p \in s.subscribers \cap Router
      BY <1>5, <2>3
    <3> QED BY <1>9, <2>1, <3>1 DEF Flow, Served
  <2> QED BY <2>2, <2>3
<1>13. \A b \in B : In(b, u.bundles) /\ b \in have
  BY <1>3, <1>5, <1>7 DEF SameData
<1>14. Noted(r, t) /\ Served(r, t) /\ Outgoing(r, t, have) /\ Sends(u, t)
  BY <1>2, <1>5, <1>10, <1>11, <1>12, <1>13, RoutedKeeps
<1>15. /\ t \in SessionState /\ SameControl(u, t) /\ SameData(u, t)
       /\ t.subscribers = u.subscribers
  BY <1>2, <1>5, RoutedFields
<1>16. SameControl(s, t) /\ SameData(s, t) /\ t.subscribers = s.subscribers \cup {peer}
  BY <1>5, <1>15 DEF SameControl, SameData
<1>17. Sends(s, t)
  BY <1>5, <1>14 DEF Sends
<1>18. Flow(r, t, have)
  <2>1. \A p \in t.subscribers \cap Router : Adjacent(r, p)
    BY <1>16 DEF Flow
  <2>2. Tidy(t, have) /\ Known(r, t.id, have)
    BY <1>16 DEF Flow, Tidy, SameData
  <2>3. \A i \in 1 .. Len(t.waiting) : Known(r, t.waiting[i].id, have)
    BY <1>16 DEF Flow, SameControl
  <2> QED BY <1>14, <1>15, <2>1, <2>2, <2>3 DEF Flow
<1> QED BY <1>16, <1>17, <1>18 DEF t

----------------------------------------------------------------------------
(* The upstream and subscriptions. *)

SameRest(s, t) ==
  /\ t.open = s.open /\ t.custody = s.custody /\ t.routed = s.routed
  /\ t.timer = s.timer /\ t.stray = s.stray

\* Subscribers are added, but no local one.
Wider(s, t) == s.subscribers \subseteq t.subscribers /\ (Local \in t.subscribers => Local \in s.subscribers)

Control(r, s) ==
  /\ s.upstream \in Router => s.upstream = Hop[r] /\ s.routed /\ s.upstream \in s.subscribers
  /\ s.upstream = Local => s.custody
  /\ s.routed => Hop[r] \in Router
  /\ s.waiting # <<>> => ~s.routed
  /\ Local \in s.subscribers => s.open

LEMMA FlowSame ==
  ASSUME NEW r \in Router, NEW s, NEW t \in SessionState, NEW have, Flow(r, s, have),
         t.subscribers = s.subscribers, SameData(s, t), t.log = s.log, t.out = s.out,
         \A i \in 1 .. Len(t.waiting) : Known(r, t.waiting[i].id, have)
  PROVE  Flow(r, t, have)
<1>1. \A b, p : Reaches(r, s, p, b) <=> Reaches(r, t, p, b)
  BY DEF Reaches
<1>2. Noted(r, t) /\ Served(r, t)
  BY <1>1 DEF Flow, Noted, Served, SameData, Kept
<1>3. Outgoing(r, t, have) /\ Tidy(t, have) /\ Known(r, t.id, have)
  BY DEF Flow, Outgoing, Tidy, SameData
<1> QED BY <1>2, <1>3 DEF Flow

LEMMA SendsOn ==
  /\ \A s : Sends(s, s) /\ SameRest(s, s) /\ SameData(s, s) /\ Wider(s, s)
  /\ \A s, t, u : Sends(s, t) /\ Sends(t, u) => Sends(s, u)
  /\ \A s, t, u : SameRest(s, t) /\ SameRest(t, u) => SameRest(s, u)
  /\ \A s, t, u : SameData(s, t) /\ SameData(t, u) => SameData(s, u)
  /\ \A s, t, u : Wider(s, t) /\ Wider(t, u) => Wider(s, u)
  /\ \A s, t : SameControl(s, t) => SameRest(s, t)
BY DEF Sends, SameRest, SameData, Wider, SameControl

LEMMA FoundKeeps ==
  ASSUME NEW r \in Router, NEW s, NEW have, Flow(r, s, have), Control(r, s)
  PROVE  /\ Flow(r, UpstreamFound(s, r), have) /\ Control(r, UpstreamFound(s, r))
         /\ SameRest(s, UpstreamFound(s, r)) /\ SameData(s, UpstreamFound(s, r))
         /\ UpstreamFound(s, r).waiting = s.waiting
         /\ Sends(s, UpstreamFound(s, r)) /\ Wider(s, UpstreamFound(s, r))
         /\ UpstreamFound(s, r).upstream =
              IF s.custody THEN Local ELSE IF s.routed THEN Hop[r] ELSE s.upstream
<1> DEFINE t == UpstreamFound(s, r)
<1>1. s \in SessionState /\ \A i \in 1 .. Len(s.waiting) : Known(r, s.waiting[i].id, have)
  BY DEF Flow
<1>2. ASSUME s.custody
      PROVE  /\ Flow(r, t, have) /\ Control(r, t) /\ SameRest(s, t) /\ SameData(s, t)
             /\ t.waiting = s.waiting /\ Sends(s, t) /\ Wider(s, t) /\ t.upstream = Local
  <2>1. t = [s EXCEPT !.upstream = Local]
    BY <1>2 DEF UpstreamFound
  <2> HIDE DEF t
  <2>2. /\ t \in SessionState /\ SameRest(s, t) /\ SameData(s, t) /\ t.upstream = Local
        /\ t.subscribers = s.subscribers /\ t.log = s.log /\ t.out = s.out /\ t.waiting = s.waiting
    BY <1>1, <2>1 DEF SessionState, SameRest, SameData
  <2>3. Flow(r, t, have)
    BY <1>1, <2>2, FlowSame
  <2>4. Control(r, t)
    BY <1>2, <2>2, Constants DEF Control, SameRest
  <2> QED BY <2>2, <2>3, <2>4 DEF Sends, Wider
<1>3. ASSUME ~s.custody, s.routed, s.upstream # Hop[r]
      PROVE  /\ Flow(r, t, have) /\ Control(r, t) /\ SameRest(s, t) /\ SameData(s, t)
             /\ t.waiting = s.waiting /\ Sends(s, t) /\ Wider(s, t) /\ t.upstream = Hop[r]
  <2> DEFINE u == [s EXCEPT !.upstream = Hop[r]]
  <2>1. t = SubscriberAdded(u, Hop[r], NoId)
    BY <1>3 DEF UpstreamFound
  <2>2. Hop[r] \in Router /\ s.waiting = <<>>
    BY <1>3 DEF Control
  <2>3. /\ u \in SessionState /\ SameRest(s, u) /\ SameData(s, u) /\ u.upstream = Hop[r]
        /\ u.subscribers = s.subscribers /\ u.log = s.log /\ u.out = s.out /\ u.waiting = s.waiting
    BY <1>1, <2>2 DEF SessionState, SameRest, SameData
  <2> HIDE DEF t, u
  <2>4. Flow(r, u, have)
    BY <1>1, <2>3, FlowSame
  <2>5. \A b \in Bundle : ~Covers(NoId, Id[b])
    <3> SUFFICES ASSUME NEW b \in Bundle, Covers(NoId, Id[b]) PROVE FALSE
      OBVIOUS
    <3>1. PICK src \in Source : Id[b][src] > 0
      BY SourceAssumption
    <3>2. Id[b][src] <= 0 /\ Id[b][src] \in Nat
      BY Constants DEF Covers, Vector
    <3> QED BY <3>1, <3>2
  <2>6. Adjacent(r, Hop[r])
    BY DEF Adjacent
  <2>7. Harmless(u, Hop[r], NoId)
    BY <2>5 DEF Kept, Harmless
  <2>8. /\ Flow(r, t, have) /\ SameControl(u, t) /\ SameData(u, t)
        /\ t.subscribers = u.subscribers \cup {Hop[r]} /\ Sends(u, t)
    BY <2>1, <2>2, <2>4, <2>6, <2>7, AddedKeeps
  <2>9. /\ SameRest(s, t) /\ SameData(s, t) /\ t.upstream = Hop[r] /\ t.waiting = s.waiting
        /\ t.subscribers = s.subscribers \cup {Hop[r]}
    BY <2>3, <2>8 DEF SameControl, SameRest, SameData
  <2>10. Sends(s, t) /\ Wider(s, t)
    BY <2>2, <2>3, <2>8, <2>9, Constants DEF Sends, Wider
  <2>11. Control(r, t)
    BY <1>3, <2>2, <2>9, Constants DEF Control, SameRest
  <2> QED BY <2>8, <2>9, <2>10, <2>11
<1>4. ASSUME ~s.custody, ~s.routed \/ s.upstream = Hop[r]
      PROVE  /\ Flow(r, t, have) /\ Control(r, t) /\ SameRest(s, t) /\ SameData(s, t)
             /\ t.waiting = s.waiting /\ Sends(s, t) /\ Wider(s, t) /\ t.upstream = s.upstream
  <2>1. t = s
    BY <1>4 DEF UpstreamFound
  <2> QED BY <2>1, SendsOn
<1> HIDE DEF t
<1> QED BY <1>2, <1>3, <1>4 DEF t

LEMMA SentSubscription ==
  ASSUME NEW r \in Router, NEW s, NEW have, NEW v \in Vector, Flow(r, s, have),
         Hop[r] \in Router, Known(r, v, have)
  PROVE  /\ Flow(r, Sent(s, {Hop[r]}, Subscription(v)), have)
         /\ SameControl(s, Sent(s, {Hop[r]}, Subscription(v)))
         /\ SameData(s, Sent(s, {Hop[r]}, Subscription(v)))
         /\ Sent(s, {Hop[r]}, Subscription(v)).subscribers = s.subscribers
         /\ Sends(s, Sent(s, {Hop[r]}, Subscription(v)))
         /\ Carries(Sent(s, {Hop[r]}, Subscription(v)).out[Hop[r]], NoBundle)
<1> DEFINE m == Subscription(v)
           t == Sent(s, {Hop[r]}, m)
           out == [p \in Router |-> IF p \in {Hop[r]} THEN Append(s.out[p], m) ELSE s.out[p]]
<1>1. s \in SessionState /\ m \in Message /\ m.bundle = NoBundle /\ m.id = v
  BY DEF Flow, Subscription, Message
<1>2. t = [s EXCEPT !.out = out]
  BY DEF Sent
<1> HIDE DEF m
<1>3. \A p \in Router : s.out[p] \in Seq(Message)
  BY <1>1 DEF SessionState
<1>4. out \in [Router -> Seq(Message)]
  BY <1>1, <1>3
<1>5. \A p \in Router : out[p] = IF p = Hop[r] THEN Append(s.out[p], m) ELSE s.out[p]
  OBVIOUS
<1>6. \A p \in Router : \A x : In(x, out[p]) <=> In(x, s.out[p]) \/ (p = Hop[r] /\ x = m)
  <2> SUFFICES ASSUME NEW p \in Router
               PROVE  \A x : In(x, out[p]) <=> In(x, s.out[p]) \/ (p = Hop[r] /\ x = m)
    OBVIOUS
  <2> HIDE DEF out
  <2>1. CASE p = Hop[r]
    BY <1>1, <1>3, <1>5, <2>1, InAppend
  <2>2. CASE p # Hop[r]
    BY <1>5, <2>2
  <2> QED BY <2>1, <2>2
<1> HIDE DEF t, out
<1>7. /\ t \in SessionState /\ SameControl(s, t) /\ SameData(s, t)
      /\ t.subscribers = s.subscribers /\ t.log = s.log /\ t.out = out
  BY <1>1, <1>2, <1>4 DEF SessionState, SameControl, SameData
<1>8. Sends(s, t)
  BY <1>6, <1>7 DEF Sends
<1>9. Carries(t.out[Hop[r]], NoBundle)
  BY <1>1, <1>6, <1>7 DEF Carries
<1>10. \A b : \A p \in Router : Reaches(r, s, p, b) => Reaches(r, t, p, b)
  BY <1>8, SendsReaches
<1>11. Noted(r, t) /\ Served(r, t)
  BY <1>7, <1>10 DEF Flow, Noted, Served, SameData, Kept
<1>12. Outgoing(r, t, have)
  <2> SUFFICES ASSUME NEW p \in Router, NEW x \in Message, In(x, t.out[p])
               PROVE  IF x.bundle = NoBundle THEN p = Hop[r] /\ Known(r, x.id, have)
                      ELSE x.bundle \in have /\ p \in s.subscribers
    BY <1>7 DEF Outgoing
  <2> QED BY <1>1, <1>6, <1>7 DEF Flow, Outgoing
<1>13. /\ Tidy(t, have) /\ Known(r, t.id, have)
       /\ \A i \in 1 .. Len(t.waiting) : Known(r, t.waiting[i].id, have)
  BY <1>7 DEF Flow, Tidy, SameData, SameControl
<1>14. Flow(r, t, have)
  BY <1>7, <1>11, <1>12, <1>13 DEF Flow
<1> QED BY <1>7, <1>8, <1>9, <1>14 DEF t, m

\* Where the upstream stays unknown, a subscription waits for a route.
Waits(s) == s.upstream = Nobody => ~s.routed /\ s.waiting # <<>>

\* A router that has found its upstream has asked it.
Asks(r, s, t) ==
  /\ s.upstream # Nobody => t.upstream = s.upstream /\ t.waiting = s.waiting
  /\ s.upstream = Nobody => Waits(t) /\ (t.upstream \in Router => Carries(t.out[Hop[r]], NoBundle))

LEMMA AskedKeeps ==
  ASSUME NEW r \in Router, NEW s, NEW have, NEW sub \in Waiting, Flow(r, s, have), Control(r, s),
         s.routed => sub.from # Hop[r], Known(r, sub.id, have)
  PROVE  /\ Flow(r, RouteSubscription(s, r, sub), have)
         /\ Control(r, RouteSubscription(s, r, sub))
         /\ SameRest(s, RouteSubscription(s, r, sub)) /\ SameData(s, RouteSubscription(s, r, sub))
         /\ RouteSubscription(s, r, sub).upstream = s.upstream
         /\ RouteSubscription(s, r, sub).subscribers = s.subscribers
         /\ Sends(s, RouteSubscription(s, r, sub))
         /\ IF s.routed THEN Carries(RouteSubscription(s, r, sub).out[Hop[r]], NoBundle)
            ELSE RouteSubscription(s, r, sub).waiting # <<>>
<1> DEFINE t == RouteSubscription(s, r, sub)
<1>1. s \in SessionState /\ sub.id \in Vector
  BY DEF Flow, Waiting
<1>2. ASSUME s.routed
      PROVE  /\ Flow(r, t, have) /\ Control(r, t) /\ SameRest(s, t) /\ SameData(s, t)
             /\ t.upstream = s.upstream /\ t.subscribers = s.subscribers
             /\ Sends(s, t) /\ Carries(t.out[Hop[r]], NoBundle)
  <2>1. t = Sent(s, {Hop[r]}, Subscription(sub.id)) /\ Hop[r] \in Router
    BY <1>2 DEF RouteSubscription, Control
  <2> HIDE DEF t
  <2>2. /\ Flow(r, t, have) /\ SameControl(s, t) /\ SameData(s, t)
        /\ t.subscribers = s.subscribers /\ Sends(s, t) /\ Carries(t.out[Hop[r]], NoBundle)
    BY <1>1, <2>1, SentSubscription
  <2>3. Control(r, t)
    BY <2>2 DEF Control, SameControl
  <2> QED BY <2>2, <2>3 DEF SameControl, SameRest
<1>3. ASSUME ~s.routed
      PROVE  /\ Flow(r, t, have) /\ Control(r, t) /\ SameRest(s, t) /\ SameData(s, t)
             /\ t.upstream = s.upstream /\ t.subscribers = s.subscribers
             /\ Sends(s, t) /\ t.waiting # <<>>
  <2> DEFINE w == Append(s.waiting, sub)
  <2>1. t = [s EXCEPT !.waiting = w]
    BY <1>3 DEF RouteSubscription
  <2>2. /\ w \in Seq(Waiting) /\ w # <<>> /\ Len(w) = Len(s.waiting) + 1 /\ Len(s.waiting) \in Nat
        /\ \A i \in 1 .. Len(s.waiting) : w[i] = s.waiting[i]
        /\ w[Len(s.waiting) + 1] = sub
    <3>1. s.waiting \in Seq(Waiting)
      BY <1>1 DEF SessionState
    <3> QED BY <3>1
  <2>3. \A i \in 1 .. Len(w) : Known(r, w[i].id, have)
    BY <2>2 DEF Flow
  <2> HIDE DEF t, w
  <2>4. /\ t \in SessionState /\ SameRest(s, t) /\ SameData(s, t) /\ t.upstream = s.upstream
        /\ t.subscribers = s.subscribers /\ t.log = s.log /\ t.out = s.out /\ t.waiting = w
    BY <1>1, <2>1, <2>2 DEF SessionState, SameRest, SameData
  <2>5. Flow(r, t, have)
    BY <2>3, <2>4, FlowSame
  <2>6. Control(r, t) /\ Sends(s, t)
    BY <1>3, <2>4 DEF Control, SameRest, Sends
  <2> QED BY <2>2, <2>4, <2>5, <2>6
<1> HIDE DEF t
<1> QED BY <1>2, <1>3 DEF t

LEMMA HandledKeeps ==
  ASSUME NEW r \in Router, NEW s, NEW have, NEW sub \in Waiting, Flow(r, s, have), Control(r, s),
         Known(r, sub.id, have), sub.from \in Router => Hop[sub.from] = r,
         sub.from \in Router => Harmless(s, sub.from, sub.id)
  PROVE  /\ Flow(r, SubscriptionHandled(s, r, sub), have)
         /\ Control(r, SubscriptionHandled(s, r, sub))
         /\ SameRest(s, SubscriptionHandled(s, r, sub))
         /\ SameData(s, SubscriptionHandled(s, r, sub))
         /\ Sends(s, SubscriptionHandled(s, r, sub)) /\ Wider(s, SubscriptionHandled(s, r, sub))
         /\ sub.from \in Router => sub.from \in SubscriptionHandled(s, r, sub).subscribers
         /\ Asks(r, s, SubscriptionHandled(s, r, sub))
<1> DEFINE found == IF s.upstream = Nobody THEN UpstreamFound(s, r) ELSE s
           added == IF sub.from = Nobody THEN found ELSE SubscriberAdded(found, sub.from, sub.id)
           t == SubscriptionHandled(s, r, sub)
<1>1. t = IF s.upstream = Nobody /\ found.upstream # Local THEN RouteSubscription(added, r, sub)
          ELSE added
  BY DEF SubscriptionHandled
<1>2. /\ Flow(r, found, have) /\ Control(r, found) /\ SameRest(s, found) /\ SameData(s, found)
      /\ found.waiting = s.waiting /\ Sends(s, found) /\ Wider(s, found)
      /\ s.upstream # Nobody => found.upstream = s.upstream
      /\ s.upstream = Nobody =>
           found.upstream = IF s.custody THEN Local ELSE IF s.routed THEN Hop[r] ELSE Nobody
  <2>1. CASE s.upstream = Nobody
    <3>1. found = UpstreamFound(s, r)
      BY <2>1
    <3> HIDE DEF found
    <3> QED BY <2>1, <3>1, FoundKeeps
  <2>2. CASE s.upstream # Nobody
    BY <2>2, SendsOn
  <2> QED BY <2>1, <2>2
<1>3. s.routed => sub.from # Hop[r]
  <2>1. s.routed => Hop[r] \in Router
    BY DEF Control
  <2>2. sub.from \in Router => sub.from # Hop[r]
    BY NoLoop
  <2>3. Hop[r] \in Router => Hop[r] # Nobody
    BY Constants
  <2> QED BY <2>1, <2>2
<1>4. sub.id \in Vector /\ sub.from \in Router \cup {Nobody}
  BY DEF Waiting
<1> HIDE DEF found
<1>5. /\ Flow(r, added, have) /\ SameControl(found, added) /\ SameData(found, added)
      /\ Sends(found, added) /\ Wider(found, added)
      /\ sub.from \in Router => sub.from \in added.subscribers
  <2>1. CASE sub.from = Nobody
    <3>1. added = found
      BY <2>1
    <3> QED BY <1>2, <2>1, <3>1, SendsOn, Constants DEF SameControl
  <2>2. CASE sub.from # Nobody
    <3>1. added = SubscriberAdded(found, sub.from, sub.id) /\ sub.from \in Router
      BY <1>4, <2>2
    <3>2. Adjacent(r, sub.from)
      BY <3>1 DEF Adjacent
    <3>3. Harmless(found, sub.from, sub.id)
      BY <1>2, <3>1 DEF Harmless, Kept, SameData, Wider
    <3> HIDE DEF added
    <3>4. /\ Flow(r, added, have) /\ SameControl(found, added) /\ SameData(found, added)
          /\ Sends(found, added) /\ added.subscribers = found.subscribers \cup {sub.from}
      BY <1>2, <3>1, <3>2, <3>3, AddedKeeps
    <3> QED BY <3>1, <3>4, Constants DEF Wider
  <2> QED BY <2>1, <2>2
<1> HIDE DEF added, t
<1>6. Control(r, added)
  BY <1>2, <1>5, Constants DEF Control, SameControl, Wider
<1>7. SameRest(s, added) /\ SameData(s, added) /\ Sends(s, added) /\ Wider(s, added)
  <2>1. SameRest(found, added)
    BY <1>5, SendsOn
  <2> QED BY <1>2, <1>5, <2>1, SendsOn
<1>8. ASSUME s.upstream = Nobody, found.upstream # Local
      PROVE  /\ Flow(r, t, have) /\ Control(r, t) /\ SameRest(s, t) /\ SameData(s, t) /\ Sends(s, t)
             /\ Wider(s, t) /\ (sub.from \in Router => sub.from \in t.subscribers) /\ Asks(r, s, t)
  <2>1. t = RouteSubscription(added, r, sub) /\ added.routed = s.routed
    BY <1>1, <1>2, <1>5, <1>8 DEF SameControl, SameRest
  <2>2. added.routed => sub.from # Hop[r]
    BY <1>3, <2>1
  <2>3. Known(r, sub.id, have)
    OBVIOUS
  <2>4. /\ Flow(r, t, have) /\ Control(r, t) /\ SameRest(added, t) /\ SameData(added, t)
        /\ t.upstream = added.upstream /\ t.subscribers = added.subscribers /\ Sends(added, t)
        /\ IF added.routed THEN Carries(t.out[Hop[r]], NoBundle) ELSE t.waiting # <<>>
    BY <1>5, <1>6, <2>1, <2>2, AskedKeeps
  <2>5. SameRest(s, t) /\ SameData(s, t) /\ Sends(s, t) /\ Wider(s, t)
    <3>1. Wider(added, t)
      BY <2>4 DEF Wider
    <3> QED BY <1>7, <2>4, <3>1, SendsOn
  <2>6. Asks(r, s, t)
    <3>1. t.upstream = found.upstream /\ t.routed = s.routed
      BY <1>5, <2>1, <2>4 DEF SameControl, SameRest
    <3>2. t.upstream = Nobody => ~s.routed
      BY <1>2, <1>6, <1>8, <2>1, <3>1, Constants DEF Control
    <3>3. t.upstream \in Router => s.routed
      BY <1>2, <1>8, <3>1, Constants
    <3> QED BY <1>8, <2>1, <2>4, <3>1, <3>2, <3>3 DEF Asks, Waits
  <2> QED BY <1>5, <2>4, <2>5, <2>6
<1>9. ASSUME ~(s.upstream = Nobody /\ found.upstream # Local)
      PROVE  /\ Flow(r, t, have) /\ Control(r, t) /\ SameRest(s, t) /\ SameData(s, t) /\ Sends(s, t)
             /\ Wider(s, t) /\ (sub.from \in Router => sub.from \in t.subscribers) /\ Asks(r, s, t)
  <2>1. t = added
    BY <1>1, <1>9
  <2>2. Asks(r, s, t)
    BY <1>2, <1>5, <1>9, <2>1, Constants DEF Asks, Waits, SameControl
  <2> QED BY <1>5, <1>6, <1>7, <2>1, <2>2
<1>10. /\ Flow(r, t, have) /\ Control(r, t) /\ SameRest(s, t) /\ SameData(s, t) /\ Sends(s, t)
       /\ Wider(s, t) /\ (sub.from \in Router => sub.from \in t.subscribers) /\ Asks(r, s, t)
  BY <1>8, <1>9
<1> QED BY <1>10 DEF t

LEMMA SubscribedKeeps ==
  ASSUME NEW r \in Router, NEW s, NEW have, Flow(r, s, have), Control(r, s)
  PROVE  /\ Flow(r, Subscribed(s, r), have) /\ Control(r, Subscribed(s, r))
         /\ SameData(s, Subscribed(s, r))
         /\ Sends(s, Subscribed(s, r)) /\ Wider(s, Subscribed(s, r))
         /\ Asks(r, s, Subscribed(s, r))
         /\ Subscribed(s, r).stray = s.stray
         /\ Subscribed(s, r).timer = IF s.upstream = Local THEN s.timer ELSE TRUE
<1> DEFINE t == Subscribed(s, r)
           sub == [id |-> s.id, from |-> Nobody]
<1>1. s \in SessionState /\ sub \in Waiting /\ sub.from \notin Router /\ Known(r, sub.id, have)
  BY Constants DEF Flow, SessionState, Waiting
<1>2. CASE s.upstream = Local
  <2>1. t = s
    BY <1>2 DEF Subscribed
  <2>2. Asks(r, s, s)
    BY <1>2, Constants DEF Asks
  <2> QED BY <1>2, <2>1, <2>2, SendsOn
<1>3. CASE s.upstream # Local
  <2> DEFINE u == SubscriptionHandled(s, r, sub)
  <2>1. t = [u EXCEPT !.timer = TRUE]
    BY <1>3 DEF Subscribed
  <2> HIDE DEF sub
  <2>2. /\ Flow(r, u, have) /\ Control(r, u) /\ SameRest(s, u) /\ SameData(s, u)
        /\ Sends(s, u) /\ Wider(s, u) /\ Asks(r, s, u)
    BY <1>1, HandledKeeps
  <2> HIDE DEF t, u
  <2>3. u \in SessionState /\ \A i \in 1 .. Len(u.waiting) : Known(r, u.waiting[i].id, have)
    BY <2>2 DEF Flow
  <2>4. /\ t \in SessionState /\ t.upstream = u.upstream /\ t.waiting = u.waiting
        /\ t.open = u.open /\ t.custody = u.custody /\ t.routed = u.routed
        /\ t.timer = TRUE /\ t.stray = u.stray /\ t.subscribers = u.subscribers
        /\ SameData(u, t) /\ t.log = u.log /\ t.out = u.out
    BY <2>1, <2>3 DEF SessionState, SameData
  <2>5. Flow(r, t, have)
    BY <2>2, <2>3, <2>4, FlowSame
  <2>6. Control(r, t)
    BY <2>2, <2>4 DEF Control
  <2>7. SameData(s, t)
    BY <2>2, <2>4, SendsOn
  <2>8. Sends(s, t) /\ Wider(s, t) /\ Asks(r, s, t)
    BY <2>2, <2>4 DEF Sends, Wider, Asks, Waits
  <2>9. t.stray = s.stray
    BY <2>2, <2>4 DEF SameRest
  <2> QED BY <1>3, <2>4, <2>5, <2>6, <2>7, <2>8, <2>9 DEF t
<1> QED BY <1>2, <1>3

----------------------------------------------------------------------------
(* Bundles of the session. *)

\* What Tidy says of a list of bundles.
Apart(l) ==
  /\ NoDuplicates(l)
  /\ \A b, c \in Bundle :
       In(b, l) /\ In(c, l) /\ b # c => ~Covers(Obsoletes[b], Id[c]) /\ Id[b] # Id[c]

LEMMA SiftedKeeps ==
  ASSUME NEW l \in Seq(Bundle), Apart(l), NEW b \in Bundle
  PROVE  /\ Sifted(l, b).kept \in Seq(Bundle) /\ Apart(Sifted(l, b).kept)
         /\ \A c : In(c, Sifted(l, b).kept) => In(c, l)
         /\ Sifted(l, b).ok => \A c \in Bundle : In(c, Sifted(l, b).kept) =>
              /\ ~Covers(Obsoletes[b], Id[c]) /\ ~Covers(Obsoletes[c], Id[b]) /\ Id[c] # Id[b]
<1> DEFINE obsolete(i) == Covers(Obsoletes[b], Id[l[i]])
           stops == {i \in DOMAIN l : ~obsolete(i) /\ Replaces(l[i], b)}
           gone == {l[i] : i \in {i \in DOMAIN l : obsolete(i) /\ \A j \in stops : i < j}}
           kept == Only(Bundle \ gone, l)
<1>1. Sifted(l, b) = [ok |-> stops = {}, kept |-> kept]
  BY DEF Sifted
<1>2. /\ kept \in Seq(Bundle)
      /\ \A c : In(c, kept) <=> In(c, l) /\ c \in Bundle \ gone
      /\ NoDuplicates(l) => NoDuplicates(kept)
  <2> HIDE DEF gone
  <2> QED BY InOnly
<1>3. ASSUME stops = {}, NEW c \in Bundle, In(c, kept)
      PROVE  ~Covers(Obsoletes[b], Id[c]) /\ ~Covers(Obsoletes[c], Id[b]) /\ Id[c] # Id[b]
  <2>1. PICK i \in 1 .. Len(l) : l[i] = c
    BY <1>2, <1>3 DEF In
  <2>2. i \in DOMAIN l
    BY <2>1
  <2>3. c \notin gone
    BY <1>2, <1>3
  <2>4. ~obsolete(i)
    BY <1>3, <2>1, <2>2, <2>3
  <2>5. i \notin stops
    BY <1>3
  <2>6. ~Replaces(l[i], b)
    BY <2>2, <2>4, <2>5
  <2> QED BY <2>1, <2>4, <2>6 DEF Replaces
<1>4. Apart(kept)
  <2> HIDE DEF kept, gone, stops
  <2> QED BY <1>2 DEF Apart
<1>5. Sifted(l, b).kept = kept /\ (Sifted(l, b).ok <=> stops = {})
  <2> DEFINE ok == stops = {}
  <2>1. Sifted(l, b) = [ok |-> ok, kept |-> kept]
    BY <1>1
  <2> HIDE DEF kept, ok
  <2>2. Sifted(l, b).kept = kept /\ Sifted(l, b).ok = ok
    BY <2>1
  <2> QED BY <2>2 DEF ok
<1> HIDE DEF kept, stops
<1>6. \A c \in Bundle : Sifted(l, b).ok /\ In(c, kept) =>
        ~Covers(Obsoletes[b], Id[c]) /\ ~Covers(Obsoletes[c], Id[b]) /\ Id[c] # Id[b]
  BY <1>3, <1>5
<1> QED BY <1>2, <1>4, <1>5, <1>6

LEMMA KnownGrows ==
  ASSUME NEW r, NEW v, NEW have, NEW more, have \subseteq more, Known(r, v, have)
  PROVE  Known(r, v, more)
BY DEF Known

LEMMA UpdatedId ==
  ASSUME NEW r, NEW v \in Vector, NEW b \in Bundle, NEW have, b \in have, Known(r, v, have)
  PROVE  /\ Updated(v, Id[b]) \in Vector
         /\ Covers(Updated(v, Id[b]), Id[b])
         /\ \A w \in Vector : Covers(v, w) => Covers(Updated(v, Id[b]), w)
         /\ Known(r, Updated(v, Id[b]), have)
<1> DEFINE u == Updated(v, Id[b])
<1>1. \A src \in Source : v[src] \in Nat /\ Id[b][src] \in Nat
  BY Constants DEF Vector
<1>2. \A src \in Source : u[src] = IF v[src] < Id[b][src] THEN Id[b][src] ELSE v[src]
  BY DEF Updated
<1>3. u \in Vector
  BY <1>1 DEF Updated, Vector
<1>4. \A w \in Vector : \A src \in Source : w[src] \in Nat
  BY DEF Vector
<1> HIDE DEF u
<1>5. Covers(u, Id[b]) /\ \A w \in Vector : Covers(v, w) => Covers(u, w)
  <2>1. \A src \in Source : Id[b][src] <= u[src] /\ v[src] <= u[src] /\ u[src] \in Nat
    BY <1>1, <1>2
  <2>2. Covers(u, Id[b])
    BY <2>1 DEF Covers
  <2>3. ASSUME NEW w \in Vector, Covers(v, w) PROVE Covers(u, w)
    <3> SUFFICES ASSUME NEW src \in Source PROVE w[src] <= u[src]
      BY DEF Covers
    <3>1. w[src] <= v[src] /\ w[src] \in Nat
      BY <1>4, <2>3 DEF Covers
    <3> QED BY <1>1, <2>1, <3>1
  <2> QED BY <2>2, <2>3
<1>6. Known(r, u, have)
  <2> SUFFICES ASSUME NEW src \in Source, u[src] > 0
               PROVE  \E c \in Bundle : Id[c][src] > 0 /\ (c \in have \/ \E x \in Below(r) : c \in seen[x])
    BY DEF Known
  <2>1. CASE u[src] = v[src]
    BY <2>1 DEF Known
  <2>2. CASE u[src] # v[src]
    <3>1. Id[b][src] > 0
      BY <1>2, <2>2
    <3> QED BY <3>1
  <2> QED BY <2>1, <2>2
<1> QED BY <1>3, <1>5, <1>6 DEF u

SameSubscribers(s, t) == t.subscribers = s.subscribers

LEMMA ReceivedKeeps ==
  ASSUME NEW r \in Router, NEW s, NEW have, NEW b \in Bundle, NEW from \in Router \cup {Nobody},
         Flow(r, s, have), from \in Router => b \in seen[from]
  PROVE  /\ Flow(r, Received(s, b, from), have \cup {b}) /\ Sends(s, Received(s, b, from))
         /\ SameControl([s EXCEPT !.open = TRUE], Received(s, b, from))
         /\ SameSubscribers(s, Received(s, b, from))
<1> DEFINE t == Received(s, b, from)
           more == have \cup {b}
           sifted == Sifted(s.bundles, b)
           cache == [s.cache EXCEPT ![b] = {from}]
           o == [s EXCEPT !.open = TRUE]
           u == [s EXCEPT !.open = TRUE, !.cache = cache, !.bundles = sifted.kept]
<1>1. s \in SessionState /\ s.bundles \in Seq(Bundle) /\ s.id \in Vector /\ Apart(s.bundles)
  BY DEF Flow, SessionState, Tidy, Apart
<1>2. /\ sifted.kept \in Seq(Bundle) /\ Apart(sifted.kept)
      /\ \A c : In(c, sifted.kept) => In(c, s.bundles)
      /\ sifted.ok => \A c \in Bundle : In(c, sifted.kept) =>
           /\ ~Covers(Obsoletes[b], Id[c]) /\ ~Covers(Obsoletes[c], Id[b]) /\ Id[c] # Id[b]
  BY <1>1, SiftedKeeps
<1>3. /\ cache \in [Bundle -> SUBSET (Router \cup {Nobody})]
      /\ \A c \in Bundle : cache[c] = IF c = b THEN {from} ELSE s.cache[c]
  <2>1. s.cache \in [Bundle -> SUBSET (Router \cup {Nobody})]
    BY <1>1 DEF SessionState
  <2> QED BY <2>1
<1>4. t = IF ~sifted.ok THEN u
          ELSE Routed([u EXCEPT !.bundles = Append(u.bundles, b), !.id = Updated(u.id, Id[b]),
                                !.log[b] = {}], {b})
  BY DEF Received
<1> HIDE DEF sifted, cache
<1>5. /\ u \in SessionState /\ o \in SessionState /\ SameControl(o, u) /\ o.open = TRUE
      /\ u.subscribers = s.subscribers /\ u.bundles = sifted.kept /\ u.id = s.id /\ u.log = s.log
      /\ u.cache = cache /\ u.out = s.out /\ u.waiting = s.waiting
  BY <1>1, <1>2, <1>3 DEF SessionState, SameControl
<1> HIDE DEF t, u, o
<1>6. \A c, p : Reaches(r, s, p, c) <=> Reaches(r, u, p, c)
  BY <1>5 DEF Reaches
<1>7. Noted(r, u)
  <2> SUFFICES ASSUME NEW c \in Bundle, NEW p \in Router, p \in u.log[c] \cup u.cache[c]
               PROVE  Reaches(r, s, p, c)
    BY <1>6 DEF Noted
  <2>1. p \in s.log[c] \cup s.cache[c] \/ (c = b /\ p = from)
    BY <1>3, <1>5
  <2>2. CASE p \in s.log[c] \cup s.cache[c]
    BY <2>2 DEF Flow, Noted
  <2>3. CASE c = b /\ p = from
    BY <2>3 DEF Reaches
  <2> QED BY <2>1, <2>2, <2>3
<1>8. /\ Outgoing(r, u, more) /\ Known(r, u.id, more)
      /\ \A i \in 1 .. Len(u.waiting) : Known(r, u.waiting[i].id, more)
  <2>1. \A v : Known(r, v, have) => Known(r, v, more)
    BY KnownGrows
  <2> HIDE DEF more
  <2>2. have \subseteq more
    BY DEF more
  <2>3. ASSUME NEW p \in Router, NEW m \in Message, In(m, u.out[p])
        PROVE  IF m.bundle = NoBundle THEN p = Hop[r] /\ Known(r, m.id, more)
               ELSE m.bundle \in more /\ p \in u.subscribers
    BY <1>5, <2>1, <2>2, <2>3 DEF Flow, Outgoing
  <2>4. Outgoing(r, u, more)
    BY <2>3 DEF Outgoing
  <2> QED BY <1>5, <2>1, <2>4 DEF Flow
<1>9. \A c \in Kept(u), p \in u.subscribers \cap Router : Reaches(r, u, p, c)
  BY <1>2, <1>5, <1>6 DEF Kept, Flow, Served
<1>10. \A c \in Bundle : In(c, sifted.kept) => c \in have /\ Covers(s.id, Id[c])
  BY <1>2 DEF Flow, Tidy
<1>11. \A p \in s.subscribers \cap Router : Adjacent(r, p)
  BY DEF Flow
<1>12. ASSUME ~sifted.ok
       PROVE  /\ Flow(r, t, more) /\ Sends(s, t) /\ t.open = TRUE /\ SameControl(o, t)
              /\ t.subscribers = s.subscribers
  <2>1. t = u
    BY <1>4, <1>12
  <2>2. Tidy(u, more)
    BY <1>2, <1>5, <1>10 DEF Tidy, Apart
  <2>3. Flow(r, u, more)
    BY <1>5, <1>7, <1>8, <1>9, <1>11, <2>2 DEF Flow, Served
  <2> QED BY <1>5, <2>1, <2>3 DEF Sends, SameControl
<1>13. ASSUME sifted.ok
       PROVE  /\ Flow(r, t, more) /\ Sends(s, t) /\ t.open = TRUE /\ SameControl(o, t)
              /\ t.subscribers = s.subscribers
  <2> DEFINE l == Append(sifted.kept, b)
             v == Updated(s.id, Id[b])
             log == [s.log EXCEPT ![b] = {}]
             w == [u EXCEPT !.bundles = l, !.id = v, !.log = log]
  <2>1. l \in Seq(Bundle) /\ \A c : In(c, l) <=> In(c, sifted.kept) \/ c = b
    BY <1>2, InAppend
  <2>2. Apart(l)
    <3>1. ~In(b, sifted.kept)
      BY <1>2, <1>13
    <3>2. NoDuplicates(l)
      BY <1>2, <3>1, NoDuplicatesAppend DEF Apart
    <3> HIDE DEF l
    <3>3. ASSUME NEW c \in Bundle, NEW d \in Bundle, In(c, l), In(d, l), c # d
          PROVE  ~Covers(Obsoletes[c], Id[d]) /\ Id[c] # Id[d]
      BY <1>2, <1>13, <2>1, <3>3 DEF Apart
    <3> QED BY <3>2, <3>3 DEF Apart
  <2>3. /\ v \in Vector /\ Covers(v, Id[b]) /\ Known(r, v, more)
        /\ \A x \in Vector : Covers(s.id, x) => Covers(v, x)
    <3>1. Known(r, s.id, more) /\ b \in more
      BY <1>5, <1>8
    <3> HIDE DEF more
    <3> QED BY <1>1, <3>1, UpdatedId
  <2>4. log \in [Bundle -> SUBSET Router] /\ \A c \in Bundle : log[c] = IF c = b THEN {} ELSE s.log[c]
    <3>1. s.log \in [Bundle -> SUBSET Router]
      BY <1>1 DEF SessionState
    <3> QED BY <3>1
  <2>5. t = Routed(w, {b})
    BY <1>4, <1>5, <1>13
  <2> HIDE DEF l, v, log
  <2>6. /\ w \in SessionState /\ SameControl(u, w) /\ w.subscribers = s.subscribers
        /\ w.bundles = l /\ w.id = v /\ w.log = log /\ w.cache = cache /\ w.out = s.out
        /\ w.waiting = s.waiting
    BY <1>5, <2>1, <2>3, <2>4 DEF SessionState, SameControl
  <2> HIDE DEF w, more
  <2>7. \A c, p : Reaches(r, w, p, c) <=> Reaches(r, u, p, c)
    BY <1>5, <2>6 DEF Reaches
  <2>8. Noted(r, w)
    BY <1>5, <1>7, <2>4, <2>6, <2>7 DEF Noted
  <2>9. Outgoing(r, w, more)
    BY <1>5, <1>8, <2>6 DEF Outgoing
  <2>10. \A c \in Kept(w) \ {b}, p \in w.subscribers \cap Router : Reaches(r, w, p, c)
    BY <1>5, <1>9, <2>1, <2>6, <2>7 DEF Kept
  <2>11. \A c \in {b} : In(c, w.bundles) /\ c \in more
    BY <2>1, <2>6 DEF more
  <2>12. Noted(r, t) /\ Served(r, t) /\ Outgoing(r, t, more) /\ Sends(w, t)
    BY <2>5, <2>6, <2>8, <2>9, <2>10, <2>11, RoutedKeeps
  <2>13. t \in SessionState /\ SameControl(w, t) /\ SameData(w, t) /\ t.subscribers = w.subscribers
    BY <2>5, <2>6, RoutedFields
  <2>14. Tidy(t, more)
    <3>1. t.bundles = l /\ t.id = v
      BY <2>6, <2>13 DEF SameData
    <3>2. \A c \in Bundle : In(c, l) => c \in more /\ Covers(v, Id[c])
      BY <1>10, <2>1, <2>3, Constants DEF more
    <3> QED BY <2>2, <3>1, <3>2 DEF Tidy, Apart
  <2>15. /\ Known(r, t.id, more)
         /\ \A i \in 1 .. Len(t.waiting) : Known(r, t.waiting[i].id, more)
    BY <1>5, <1>8, <2>3, <2>6, <2>13 DEF SameData, SameControl
  <2>16. Flow(r, t, more)
    BY <1>11, <2>6, <2>12, <2>13, <2>14, <2>15 DEF Flow
  <2>17. Sends(s, t) /\ t.open = TRUE /\ SameControl(o, t) /\ t.subscribers = s.subscribers
    BY <1>5, <2>6, <2>12, <2>13 DEF Sends, SameControl
  <2> QED BY <2>16, <2>17
<1> HIDE DEF more
<1>14. /\ Flow(r, t, more) /\ Sends(s, t) /\ SameControl(o, t) /\ SameSubscribers(s, t)
  BY <1>12, <1>13 DEF SameSubscribers
<1> QED BY <1>14 DEF t, more, o

LEMMA SubscriptionMessages ==
  ASSUME NEW r, NEW have, NEW w \in Seq(Waiting), \A i \in 1 .. Len(w) : Known(r, w[i].id, have)
  PROVE  /\ [i \in DOMAIN w |-> Subscription(w[i].id)] \in Seq(Message)
         /\ \A m : In(m, [i \in DOMAIN w |-> Subscription(w[i].id)]) =>
              m.bundle = NoBundle /\ Known(r, m.id, have)
         /\ w # <<>> => Carries([i \in DOMAIN w |-> Subscription(w[i].id)], NoBundle)
<1> DEFINE q == [i \in DOMAIN w |-> Subscription(w[i].id)]
<1>1. DOMAIN w = 1 .. Len(w) /\ Len(w) \in Nat /\ \A i \in 1 .. Len(w) : w[i].id \in Vector
  <2>1. DOMAIN w = 1 .. Len(w) /\ Len(w) \in Nat /\ \A i \in 1 .. Len(w) : w[i] \in Waiting
    OBVIOUS
  <2> QED BY <2>1 DEF Waiting
<1>2. \A v \in Vector : Subscription(v) \in Message /\ Subscription(v).bundle = NoBundle
                        /\ Subscription(v).id = v
  BY DEF Subscription, Message
<1>3. q \in Seq(Message) /\ Len(q) = Len(w) /\ \A i \in 1 .. Len(w) : q[i] = Subscription(w[i].id)
  <2>1. q = [i \in 1 .. Len(w) |-> Subscription(w[i].id)]
    BY <1>1
  <2>2. \A i \in 1 .. Len(w) : Subscription(w[i].id) \in Message
    BY <1>1, <1>2
  <2> QED BY <1>1, <2>1, <2>2
<1> HIDE DEF q
<1>4. \A m : In(m, q) => m.bundle = NoBundle /\ Known(r, m.id, have)
  BY <1>1, <1>2, <1>3 DEF In
<1>5. w # <<>> => Carries(q, NoBundle)
  <2> SUFFICES ASSUME w # <<>> PROVE Carries(q, NoBundle)
    OBVIOUS
  <2>1. 1 \in 1 .. Len(w)
    <3>1. Len(w) # 0
      OBVIOUS
    <3> QED BY <1>1, <3>1
  <2>2. q[1] \in Message /\ q[1].bundle = NoBundle
    BY <1>1, <1>2, <1>3, <2>1
  <2>3. In(q[1], q)
    BY <1>3, <2>1 DEF In
  <2> QED BY <2>2, <2>3 DEF Carries
<1> QED BY <1>3, <1>4, <1>5 DEF q

LEMMA RoutesChangedKeeps ==
  ASSUME NEW r \in Router, NEW s, NEW have, Flow(r, s, have), Control(r, s),
         ~s.routed, Hop[r] \in Router
  PROVE  LET t == RoutesChanged([s EXCEPT !.routed = TRUE], r)
         IN /\ Flow(r, t, have) /\ Control(r, t) /\ Sends(s, t) /\ Wider(s, t)
            /\ t.open = s.open /\ t.timer = s.timer /\ t.stray = s.stray
            /\ t.upstream = IF ~s.open THEN s.upstream ELSE IF s.custody THEN Local ELSE Hop[r]
            /\ s.waiting # <<>> => Carries(t.out[Hop[r]], NoBundle)
<1> DEFINE o == [s EXCEPT !.routed = TRUE]
           cache == [b \in Bundle |-> {}]
           cleared == [o EXCEPT !.cache = cache, !.waiting = <<>>]
           resent == [i \in DOMAIN s.waiting |-> Subscription(s.waiting[i].id)]
           u == Routed(cleared, Kept(s))
           out == [u.out EXCEPT ![Hop[r]] = u.out[Hop[r]] \o resent]
           v == [u EXCEPT !.out = out]
           t == RoutesChanged(o, r)
<1>1. /\ s \in SessionState /\ s.waiting \in Seq(Waiting) /\ s.upstream \notin Router
      /\ \A i \in 1 .. Len(s.waiting) : Known(r, s.waiting[i].id, have)
      /\ o.waiting = s.waiting /\ o.bundles = s.bundles /\ o.open = s.open
  BY DEF Flow, SessionState, Control
<1>2. /\ resent \in Seq(Message)
      /\ \A m : In(m, resent) => m.bundle = NoBundle /\ Known(r, m.id, have)
      /\ s.waiting # <<>> => Carries(resent, NoBundle)
  BY <1>1, SubscriptionMessages
<1>3. Kept(o) = Kept(s) /\ Kept(s) \in SUBSET Bundle
  BY <1>1 DEF Kept
<1>4. t = IF s.open THEN UpstreamFound(v, r) ELSE v
  <2> HIDE DEF o, cache, resent
  <2>1. resent = [i \in DOMAIN o.waiting |-> Subscription(o.waiting[i].id)]
    BY <1>1 DEF resent
  <2> QED BY <1>1, <1>3, <2>1 DEF RoutesChanged, cache
<1>5. cache \in [Bundle -> SUBSET (Router \cup {Nobody})] /\ \A b \in Bundle : cache[b] = {}
  OBVIOUS
<1> HIDE DEF resent, cache
<1>6. /\ cleared \in SessionState /\ cleared.upstream = s.upstream /\ cleared.custody = s.custody
      /\ cleared.open = s.open /\ cleared.timer = s.timer /\ cleared.stray = s.stray
      /\ cleared.routed = TRUE /\ cleared.waiting = <<>> /\ cleared.subscribers = s.subscribers
      /\ cleared.bundles = s.bundles /\ cleared.id = s.id /\ cleared.log = s.log
      /\ cleared.cache = cache /\ cleared.out = s.out
  <2>1. /\ o \in SessionState /\ o.upstream = s.upstream /\ o.custody = s.custody
        /\ o.open = s.open /\ o.timer = s.timer /\ o.stray = s.stray
        /\ o.routed = TRUE /\ o.subscribers = s.subscribers
        /\ o.bundles = s.bundles /\ o.id = s.id /\ o.log = s.log /\ o.out = s.out
    BY <1>1 DEF SessionState
  <2>2. <<>> \in Seq(Waiting)
    OBVIOUS
  <2> HIDE DEF o
  <2>3. /\ cleared \in SessionState /\ cleared.upstream = o.upstream /\ cleared.custody = o.custody
        /\ cleared.open = o.open /\ cleared.timer = o.timer /\ cleared.stray = o.stray
        /\ cleared.routed = o.routed /\ cleared.waiting = <<>> /\ cleared.subscribers = o.subscribers
        /\ cleared.bundles = o.bundles /\ cleared.id = o.id /\ cleared.log = o.log
        /\ cleared.cache = cache /\ cleared.out = o.out
    BY <1>5, <2>1, <2>2 DEF SessionState
  <2> QED BY <2>1, <2>3
<1> HIDE DEF cleared, o
<1>7. \A b, p : Reaches(r, s, p, b) <=> Reaches(r, cleared, p, b)
  BY <1>6 DEF Reaches
<1>8. Noted(r, cleared)
  BY <1>5, <1>6, <1>7 DEF Flow, Noted
<1>9. Outgoing(r, cleared, have)
  BY <1>6 DEF Flow, Outgoing
<1>10. \A b \in Kept(s) : In(b, cleared.bundles) /\ b \in have
  BY <1>6 DEF Kept, Flow, Tidy
<1>11. \A b \in Kept(cleared) \ Kept(s), p \in cleared.subscribers \cap Router : Reaches(r, cleared, p, b)
  BY <1>6 DEF Kept
<1>12. Noted(r, u) /\ Served(r, u) /\ Outgoing(r, u, have) /\ Sends(cleared, u)
  BY <1>3, <1>6, <1>8, <1>9, <1>10, <1>11, RoutedKeeps
<1>13. /\ u \in SessionState /\ SameControl(cleared, u) /\ SameData(cleared, u)
       /\ u.subscribers = cleared.subscribers
  BY <1>3, <1>6, RoutedFields
<1> HIDE DEF u
<1>14. /\ out \in [Router -> Seq(Message)]
       /\ \A p \in Router : \A m : In(m, out[p]) <=> In(m, u.out[p]) \/ (p = Hop[r] /\ In(m, resent))
  <2>1. \A p \in Router : u.out[p] \in Seq(Message)
    BY <1>13 DEF SessionState
  <2>2. u.out \in [Router -> Seq(Message)]
    BY <1>13 DEF SessionState
  <2>3. \A p \in Router : out[p] = IF p = Hop[r] THEN u.out[p] \o resent ELSE u.out[p]
    BY <2>2
  <2>4. out \in [Router -> Seq(Message)]
    BY <1>2, <2>1, <2>2
  <2> HIDE DEF out
  <2>5. \A m : In(m, u.out[Hop[r]] \o resent) <=> In(m, u.out[Hop[r]]) \/ In(m, resent)
    BY <1>2, <2>1, InConcat
  <2> QED BY <2>3, <2>4, <2>5
<1> HIDE DEF out
<1>15. /\ v \in SessionState /\ SameControl(cleared, v) /\ SameData(cleared, v)
       /\ v.subscribers = s.subscribers /\ v.log = u.log /\ v.out = out
  BY <1>6, <1>13, <1>14 DEF SessionState, SameControl, SameData
<1> HIDE DEF v, t
<1>16. Sends(u, v) /\ Sends(s, v)
  BY <1>6, <1>12, <1>14, <1>15 DEF Sends
<1>17. \A b : \A p \in Router : Reaches(r, u, p, b) => Reaches(r, v, p, b)
  BY <1>16, SendsReaches
<1>18. Noted(r, v) /\ Served(r, v)
  BY <1>6, <1>12, <1>13, <1>15, <1>17 DEF Noted, Served, Kept, SameData
<1>19. Outgoing(r, v, have)
  <2> SUFFICES ASSUME NEW p \in Router, NEW m \in Message, In(m, v.out[p])
               PROVE  IF m.bundle = NoBundle THEN p = Hop[r] /\ Known(r, m.id, have)
                      ELSE m.bundle \in have /\ p \in v.subscribers
    BY DEF Outgoing
  <2>1. CASE In(m, u.out[p])
    BY <1>6, <1>12, <1>13, <1>15, <2>1 DEF Outgoing
  <2>2. CASE ~In(m, u.out[p])
    BY <1>2, <1>14, <1>15, <2>2
  <2> QED BY <2>1, <2>2
<1>20. Flow(r, v, have)
  <2>1. v.bundles = s.bundles /\ v.id = s.id /\ v.waiting = <<>>
    BY <1>6, <1>15 DEF SameData, SameControl
  <2>2. Tidy(v, have) /\ Known(r, v.id, have) /\ \A p \in v.subscribers \cap Router : Adjacent(r, p)
    BY <1>15, <2>1 DEF Flow, Tidy
  <2>3. \A i \in 1 .. Len(v.waiting) : FALSE
    BY <2>1
  <2> QED BY <1>15, <1>18, <1>19, <2>2, <2>3 DEF Flow
<1>21. Control(r, v)
  BY <1>1, <1>6, <1>15 DEF Control, SameControl
<1>22. s.waiting # <<>> => Carries(v.out[Hop[r]], NoBundle)
  BY <1>2, <1>14, <1>15 DEF Carries
<1>23. Wider(s, v)
  BY <1>15 DEF Wider
<1>24. ASSUME ~s.open
       PROVE  /\ Flow(r, t, have) /\ Control(r, t) /\ Sends(s, t) /\ Wider(s, t)
              /\ t.open = s.open /\ t.timer = s.timer /\ t.stray = s.stray
              /\ t.upstream = s.upstream
              /\ s.waiting # <<>> => Carries(t.out[Hop[r]], NoBundle)
  <2>1. t = v
    BY <1>4, <1>24
  <2> QED BY <1>6, <1>15, <1>16, <1>20, <1>21, <1>22, <1>23, <2>1 DEF SameControl
<1>25. ASSUME s.open
       PROVE  /\ Flow(r, t, have) /\ Control(r, t) /\ Sends(s, t) /\ Wider(s, t)
              /\ t.open = s.open /\ t.timer = s.timer /\ t.stray = s.stray
              /\ t.upstream = IF s.custody THEN Local ELSE Hop[r]
              /\ s.waiting # <<>> => Carries(t.out[Hop[r]], NoBundle)
  <2>1. t = UpstreamFound(v, r)
    BY <1>4, <1>25
  <2>2. /\ Flow(r, t, have) /\ Control(r, t) /\ SameRest(v, t) /\ Sends(v, t) /\ Wider(v, t)
        /\ t.upstream = IF v.custody THEN Local ELSE IF v.routed THEN Hop[r] ELSE v.upstream
    BY <1>20, <1>21, <2>1, FoundKeeps
  <2>3. Sends(s, t) /\ Wider(s, t)
    BY <1>16, <1>23, <2>2, SendsOn
  <2>4. s.waiting # <<>> => Carries(t.out[Hop[r]], NoBundle)
    BY <1>22, <2>2 DEF Sends, Carries
  <2> QED BY <1>6, <1>15, <2>2, <2>3, <2>4 DEF SameControl, SameRest
<1> HIDE DEF resent
<1>26. /\ Flow(r, t, have) /\ Control(r, t) /\ Sends(s, t) /\ Wider(s, t)
       /\ t.open = s.open /\ t.timer = s.timer /\ t.stray = s.stray
       /\ t.upstream = IF ~s.open THEN s.upstream ELSE IF s.custody THEN Local ELSE Hop[r]
       /\ s.waiting # <<>> => Carries(t.out[Hop[r]], NoBundle)
  BY <1>24, <1>25
<1> QED BY <1>26 DEF t, o

----------------------------------------------------------------------------
(* The inductive invariant. *)

Shape ==
  /\ session \in [Router -> SessionState]
  /\ channel \in [Router -> [Router -> Seq(Message)]]
  /\ registered \in [Router -> Nat]
  /\ seen \in [Router -> SUBSET Bundle]

\* Every session is in shape, and a local subscription without an upstream waits.
Sound(r) ==
  /\ session[r].out = NewSession.out
  /\ Flow(r, session[r], seen[r])
  /\ Control(r, session[r])
  /\ Local \in session[r].subscribers => Waits(session[r])

Timers(r) ==
  /\ Local \in session[r].subscribers /\ session[r].upstream # Local =>
       session[r].timer \/ session[r].stray > 0
  /\ session[r].stray + (IF session[r].timer THEN 1 ELSE 0) <= registered[r]

\* An upstream knows of its subscriber, or will.
Told(r) ==
  session[r].upstream \in Router /\ r \notin untold =>
    r \in session[Hop[r]].subscribers \/ Carries(channel[r][Hop[r]], NoBundle)

\* What is on the link from p to r was sent as Outgoing says.
Link(p, r) ==
  \A m \in Message : In(m, channel[p][r]) =>
    IF m.bundle = NoBundle THEN Hop[p] = r /\ Known(p, m.id, seen[p])
    ELSE m.bundle \in seen[p] /\ r \in session[p].subscribers

\* What enters the tree below q from outside comes through q as a subscriber;
\* what leaves it, through q.
Inward(q) ==
  Hop[q] \in Router =>
    \A x \in Below(q) : \A b \in seen[x] : Origin[b] \notin Below(q) => q \in session[Hop[q]].subscribers

Outward(q) ==
  \A x \in Router \ Below(q) : \A b \in seen[x] : Origin[b] \in Below(q) => b \in seen[q]

SessionInv ==
  /\ Shape
  /\ \A r \in Router : Sound(r) /\ Timers(r) /\ Told(r) /\ Inward(r) /\ Outward(r)
  /\ \A p, r \in Router : Link(p, r)

LEMMA NewSessionShape ==
  /\ NewSession \in SessionState
  /\ \A r \in Router : Flow(r, NewSession, {}) /\ Control(r, NewSession)
<1>1. NewSession \in SessionState
  BY Constants DEF NewSession, SessionState
<1>2. \A p \in Router : \A m : ~In(m, NewSession.out[p])
  BY DEF NewSession, In
<1>3. Tidy(NewSession, {})
  BY DEF NewSession, Tidy, In, NoDuplicates
<1>4. \A r \in Router : Known(r, NewSession.id, {})
  BY Constants DEF NewSession, Known
<1>5. ASSUME NEW r \in Router PROVE Noted(r, NewSession) /\ Served(r, NewSession) /\ Outgoing(r, NewSession, {})
  BY <1>2 DEF NewSession, Noted, Served, Kept, In, Outgoing
<1>6. \A r \in Router : Control(r, NewSession)
  BY Constants DEF NewSession, Control
<1>7. \A r \in Router : Flow(r, NewSession, {})
  <2>1. NewSession.subscribers = {} /\ NewSession.waiting = <<>>
    BY DEF NewSession
  <2> QED BY <1>1, <1>3, <1>4, <1>5, <2>1 DEF Flow
<1> QED BY <1>1, <1>6, <1>7

LEMMA InvInit == Init => SessionInv
<1> SUFFICES ASSUME Init PROVE SessionInv
  OBVIOUS
<1>1. /\ \A r \in Router : session[r] = NewSession /\ seen[r] = {} /\ registered[r] = 0
      /\ \A p, r \in Router : channel[p][r] = <<>>
  BY DEF Init
<1>2. Shape
  <2>1. NewSession \in SessionState
    BY NewSessionShape
  <2>2. channel \in [Router -> [Router -> Seq(Message)]]
    BY DEF Init
  <2> QED BY <2>1, <2>2 DEF Init, Shape
<1>3. \A p, r \in Router : Link(p, r)
  BY <1>1 DEF Link, In
<1>4. ASSUME NEW r \in Router PROVE Sound(r) /\ Timers(r) /\ Told(r) /\ Inward(r) /\ Outward(r)
  <2>1. /\ NewSession.subscribers = {} /\ NewSession.timer = FALSE /\ NewSession.stray = 0
        /\ NewSession.upstream = Nobody
    BY DEF NewSession
  <2>2. Sound(r)
    BY <1>1, <2>1, NewSessionShape DEF Sound
  <2>3. Timers(r) /\ Told(r)
    BY <1>1, <2>1, Constants DEF Timers, Told
  <2>4. Inward(r) /\ Outward(r)
    BY <1>1 DEF Inward, Outward, Below
  <2> QED BY <2>2, <2>3, <2>4
<1> QED BY <1>2, <1>3, <1>4 DEF SessionInv

\* The head of the queue from p is gone, and r knows what it said.
Taken(r, t, p) ==
  LET m == Head(channel[p][r])
  IN /\ channel[p][r] # <<>>
     /\ IF m.bundle = NoBundle THEN p \in t.subscribers ELSE m.bundle \in seen'[r]

\* The queues as the handler of r finds them.
Found(r, t, queues) ==
  \/ queues = channel
  \/ \E p \in Router : queues = [channel EXCEPT ![p][r] = Tail(channel[p][r])] /\ Taken(r, t, p)

LEMMA LinkEnds ==
  ASSUME SessionInv, NEW p \in Router, NEW r \in Router, channel[p][r] # <<>>
  PROVE  /\ p # r
         /\ channel[p][r] \in Seq(Message) /\ Head(channel[p][r]) \in Message
         /\ In(Head(channel[p][r]), channel[p][r])
<1>1. channel[p][r] \in Seq(Message)
  BY DEF SessionInv, Shape
<1>2. Head(channel[p][r]) \in Message /\ In(Head(channel[p][r]), channel[p][r])
  BY <1>1, CarriesTail
<1>3. CASE Head(channel[p][r]).bundle = NoBundle
  <2>1. Hop[p] = r
    BY <1>2, <1>3 DEF SessionInv, Link
  <2> QED BY <1>1, <1>2, <2>1, BelowIsTree
<1>4. CASE Head(channel[p][r]).bundle # NoBundle
  <2>1. r \in session[p].subscribers
    BY <1>2, <1>4 DEF SessionInv, Link
  <2>2. Adjacent(p, r)
    BY <2>1 DEF SessionInv, Sound, Flow
  <2>3. p # r
    BY <2>2, NoLoop
  <2> QED BY <1>1, <1>2, <2>3
<1> QED BY <1>3, <1>4

\* The queues after a step, by what they hold.
Queued(r, t) ==
  /\ channel' \in [Router -> [Router -> Seq(Message)]]
  /\ \A x, p \in Router : x # r =>
       /\ \A m \in Message : In(m, channel'[x][p]) => In(m, channel[x][p])
       /\ \A b : Carries(channel[x][p], b) =>
            Carries(channel'[x][p], b) \/ (p = r /\ IF b = NoBundle THEN x \in t.subscribers ELSE b \in seen'[r])
  /\ \A p \in Router :
       /\ \A m \in Message : In(m, channel'[r][p]) => In(m, channel[r][p]) \/ In(m, t.out[p])
       /\ \A b : Carries(channel[r][p], b) \/ Carries(t.out[p], b) => Carries(channel'[r][p], b)

LEMMA StepQueues ==
  ASSUME SessionInv, NEW r \in Router, NEW t \in SessionState, NEW queues,
         Become(r, t, queues), Found(r, t, queues)
  PROVE  Queued(r, t)
<1>0. /\ channel \in [Router -> [Router -> Seq(Message)]]
      /\ \A p \in Router : t.out[p] \in Seq(Message)
  BY DEF SessionInv, Shape, SessionState
<1>1. channel' = [queues EXCEPT ![r] = [p \in Router |-> queues[r][p] \o t.out[p]]]
  BY DEF Become
<1>2. ASSUME queues = channel PROVE Queued(r, t)
  <2>1. \A x, p \in Router : channel'[x][p] = IF x = r THEN channel[r][p] \o t.out[p] ELSE channel[x][p]
    BY <1>0, <1>1, <1>2
  <2>2. channel' \in [Router -> [Router -> Seq(Message)]]
    BY <1>0, <1>1, <1>2
  <2>3. ASSUME NEW p \in Router
        PROVE  /\ \A m : In(m, channel'[r][p]) <=> In(m, channel[r][p]) \/ In(m, t.out[p])
               /\ \A b : Carries(channel'[r][p], b) <=> Carries(channel[r][p], b) \/ Carries(t.out[p], b)
    <3>1. channel[r][p] \in Seq(Message) /\ t.out[p] \in Seq(Message)
          /\ channel'[r][p] = channel[r][p] \o t.out[p]
      BY <1>0, <2>1
    <3> QED BY <3>1, InConcat, CarriesConcat
  <2> QED BY <2>1, <2>2, <2>3 DEF Queued
<1>3. ASSUME NEW p \in Router, queues = [channel EXCEPT ![p][r] = Tail(channel[p][r])], Taken(r, t, p)
      PROVE  Queued(r, t)
  <2>1. /\ channel[p][r] # <<>> /\ p # r /\ channel[p][r] \in Seq(Message)
        /\ Head(channel[p][r]) \in Message
    BY <1>3, LinkEnds DEF Taken
  <2>2. /\ Tail(channel[p][r]) \in Seq(Message)
        /\ \A m : In(m, Tail(channel[p][r])) => In(m, channel[p][r])
        /\ \A b : Carries(channel[p][r], b) => Carries(Tail(channel[p][r]), b) \/ Head(channel[p][r]).bundle = b
    BY <2>1, CarriesTail
  <2>3. /\ queues \in [Router -> [Router -> Seq(Message)]]
        /\ \A x, y \in Router : queues[x][y] = IF x = p /\ y = r THEN Tail(channel[p][r]) ELSE channel[x][y]
    BY <1>0, <1>3, <2>2
  <2>4. /\ \A x, y \in Router : channel'[x][y] = IF x = r THEN queues[r][y] \o t.out[y] ELSE queues[x][y]
        /\ channel' \in [Router -> [Router -> Seq(Message)]]
    BY <1>0, <1>1, <2>3
  <2>5. ASSUME NEW y \in Router
        PROVE  /\ \A m : In(m, channel'[r][y]) <=> In(m, channel[r][y]) \/ In(m, t.out[y])
               /\ \A b : Carries(channel'[r][y], b) <=> Carries(channel[r][y], b) \/ Carries(t.out[y], b)
    <3>1. channel[r][y] \in Seq(Message) /\ t.out[y] \in Seq(Message)
          /\ channel'[r][y] = channel[r][y] \o t.out[y]
      BY <1>0, <2>1, <2>3, <2>4
    <3> QED BY <3>1, InConcat, CarriesConcat
  <2>6. ASSUME NEW x \in Router, NEW y \in Router, x # r
        PROVE  /\ \A m \in Message : In(m, channel'[x][y]) => In(m, channel[x][y])
               /\ \A b : Carries(channel[x][y], b) =>
                    \/ Carries(channel'[x][y], b)
                    \/ y = r /\ IF b = NoBundle THEN x \in t.subscribers ELSE b \in seen'[r]
    <3>1. CASE x = p /\ y = r
      <4>1. channel'[x][y] = Tail(channel[p][r])
        BY <2>3, <2>4, <2>6, <3>1
      <4>2. \A b : Head(channel[p][r]).bundle = b =>
              IF b = NoBundle THEN p \in t.subscribers ELSE b \in seen'[r]
        BY <1>3 DEF Taken
      <4> QED BY <2>2, <3>1, <4>1, <4>2
    <3>2. CASE ~(x = p /\ y = r)
      <4>1. channel'[x][y] = channel[x][y]
        BY <2>3, <2>4, <2>6, <3>2
      <4> QED BY <4>1
    <3> QED BY <3>1, <3>2
  <2> QED BY <2>4, <2>5, <2>6 DEF Queued
<1> QED BY <1>2, <1>3 DEF Found

TimersOf(s, n) ==
  /\ Local \in s.subscribers /\ s.upstream # Local => s.timer \/ s.stray > 0
  /\ s.stray + (IF s.timer THEN 1 ELSE 0) <= n

\* A step of r leaves the record t behind, which is in shape; what r hears is its
\* own or comes from a neighbor that it subscribes to.
Handled(r, t, queues) ==
  /\ t \in SessionState /\ Become(r, t, queues) /\ Found(r, t, queues)
  /\ seen' \in [Router -> SUBSET Bundle] /\ registered' \in [Router -> Nat]
  /\ \A x \in Router : x # r => seen'[x] = seen[x] /\ registered'[x] = registered[x]
  /\ seen[r] \subseteq seen'[r] /\ untold \subseteq untold'
  /\ \A b \in seen'[r] : b \in seen[r] \/ Origin[b] = r
                         \/ \E p \in Router : b \in seen[p] /\ r \in session[p].subscribers
  /\ Flow(r, t, seen'[r]) /\ Control(r, t) /\ (Local \in t.subscribers => Waits(t))
  /\ session[r].subscribers \subseteq t.subscribers
  /\ TimersOf(t, registered'[r])
  /\ t.upstream \in Router /\ r \notin untold' =>
       \/ r \in session[Hop[r]].subscribers
       \/ Carries(channel[r][Hop[r]], NoBundle) \/ Carries(t.out[Hop[r]], NoBundle)

LEMMA StepSessions ==
  ASSUME SessionInv, NEW r \in Router, NEW t, NEW queues, Handled(r, t, queues)
  PROVE  /\ session' \in [Router -> SessionState]
         /\ \A x \in Router : x # r => session'[x] = session[x]
         /\ session'[r] \in SessionState /\ session'[r].out = NewSession.out
         /\ session'[r].subscribers = t.subscribers
         /\ SameControl(t, session'[r]) /\ SameData(t, session'[r]) /\ session'[r].log = t.log
         /\ \A x \in Router : session[x].subscribers \subseteq session'[x].subscribers
         /\ \A x \in Router : seen[x] \subseteq seen'[x]
<1> DEFINE none == NewSession.out
           u == [t EXCEPT !.out = none]
<1>1. session \in [Router -> SessionState] /\ session' = [session EXCEPT ![r] = u]
      /\ t \in SessionState
  BY DEF SessionInv, Shape, Handled, Become
<1>2. none \in [Router -> Seq(Message)]
  BY NewSessionShape DEF SessionState
<1> HIDE DEF none
<1>3. /\ u \in SessionState /\ u.out = none /\ u.subscribers = t.subscribers
      /\ SameControl(t, u) /\ SameData(t, u) /\ u.log = t.log
  BY <1>1, <1>2 DEF SessionState, SameControl, SameData
<1> HIDE DEF u
<1>4. session' \in [Router -> SessionState] /\ session'[r] = u
      /\ \A x \in Router : x # r => session'[x] = session[x]
  BY <1>1, <1>3
<1>5. \A x \in Router : session[x].subscribers \subseteq session'[x].subscribers
  <2>1. session[r].subscribers \subseteq u.subscribers
    BY <1>3 DEF Handled
  <2> QED BY <1>4, <2>1
<1>6. \A x \in Router : seen[x] \subseteq seen'[x]
  BY DEF Handled
<1> QED BY <1>3, <1>4, <1>5, <1>6 DEF none

LEMMA StepLinks ==
  ASSUME SessionInv, NEW r \in Router, NEW t, NEW queues, Handled(r, t, queues),
         NEW p \in Router, NEW x \in Router
  PROVE  Link(p, x)'
<1>1. Queued(r, t)
  BY StepQueues DEF Handled
<1>2. /\ session'[r].subscribers = t.subscribers
      /\ \A y \in Router : session[y].subscribers \subseteq session'[y].subscribers
      /\ \A y \in Router : seen[y] \subseteq seen'[y]
  BY StepSessions
<1> SUFFICES ASSUME NEW m \in Message, In(m, channel'[p][x])
             PROVE  IF m.bundle = NoBundle
                    THEN /\ Hop[p] = x
                         /\ \A src \in Source : m.id[src] > 0 =>
                              \E c \in Bundle : Id[c][src] > 0 /\ (c \in seen'[p] \/ \E y \in Below(p) : c \in seen'[y])
                    ELSE m.bundle \in seen'[p] /\ x \in session'[p].subscribers
  BY DEF Link, Known
<1>3. \A y \in Below(p) : y \in Router
  BY DEF Below
<1>4. CASE In(m, channel[p][x])
  <2>1. IF m.bundle = NoBundle THEN Hop[p] = x /\ Known(p, m.id, seen[p])
        ELSE m.bundle \in seen[p] /\ x \in session[p].subscribers
    BY <1>4 DEF SessionInv, Link
  <2> QED BY <1>2, <1>3, <2>1 DEF Known
<1>5. CASE ~In(m, channel[p][x])
  <2>1. p = r /\ In(m, t.out[x])
    BY <1>1, <1>5 DEF Queued
  <2>2. IF m.bundle = NoBundle THEN x = Hop[r] /\ Known(r, m.id, seen'[r])
        ELSE m.bundle \in seen'[r] /\ x \in t.subscribers
    BY <2>1 DEF Handled, Flow, Outgoing
  <2> QED BY <1>2, <1>3, <2>1, <2>2 DEF Known
<1> QED BY <1>4, <1>5

LEMMA StepReaches ==
  ASSUME SessionInv, NEW r \in Router, NEW t, NEW queues, Handled(r, t, queues),
         NEW p \in Router, NEW b \in Bundle
  PROVE  /\ \A x \in Router : x # r /\ (b \in seen[p] \/ Carries(channel[x][p], b)) =>
              b \in seen'[p] \/ Carries(channel'[x][p], b)
         /\ Reaches(r, t, p, b) => b \in seen'[p] \/ Carries(channel'[r][p], b)
<1>1. Queued(r, t)
  BY StepQueues DEF Handled
<1>2. b # NoBundle /\ seen[p] \subseteq seen'[p]
  BY StepSessions, Constants
<1> QED BY <1>1, <1>2 DEF Queued, Reaches

LEMMA StepSound ==
  ASSUME SessionInv, NEW r \in Router, NEW t, NEW queues, Handled(r, t, queues), NEW x \in Router
  PROVE  Sound(x)'
<1> DEFINE s == IF x = r THEN t ELSE session[x]
           have == seen'[x]
<1>1. /\ session'[x] \in SessionState /\ session'[x].out = NewSession.out
      /\ session'[x].subscribers = s.subscribers
      /\ SameControl(s, session'[x]) /\ SameData(s, session'[x]) /\ session'[x].log = s.log
  <2>1. session[x].out = NewSession.out
    BY DEF SessionInv, Sound
  <2>2. session[x] \in SessionState
    BY DEF SessionInv, Shape
  <2>3. CASE x = r
    BY <2>3, StepSessions
  <2>4. CASE x # r
    BY <2>1, <2>2, <2>4, StepSessions DEF SameControl, SameData
  <2> QED BY <2>3, <2>4
<1>2. Flow(x, s, have) /\ Control(x, s) /\ (Local \in s.subscribers => Waits(s))
  <2>1. CASE x = r
    BY <2>1 DEF Handled
  <2>2. CASE x # r
    <3>1. seen'[x] = seen[x]
      BY <2>2 DEF Handled
    <3> QED BY <2>2, <3>1 DEF SessionInv, Sound
  <2> QED BY <2>1, <2>2
<1>3. \A y \in Router : seen[y] \subseteq seen'[y]
  BY StepSessions
<1>4. \A p \in Router, b \in Bundle : Reaches(x, s, p, b) => b \in seen'[p] \/ Carries(channel'[x][p], b)
  <2>1. ASSUME x = r, NEW p \in Router, NEW b \in Bundle, Reaches(x, s, p, b)
        PROVE  b \in seen'[p] \/ Carries(channel'[x][p], b)
    BY <2>1, StepReaches
  <2>2. ASSUME x # r, NEW p \in Router, NEW b \in Bundle, Reaches(x, s, p, b)
        PROVE  b \in seen'[p] \/ Carries(channel'[x][p], b)
    <3>1. s.out[p] = <<>>
      BY <2>2 DEF SessionInv, Sound, NewSession
    <3>2. ~Carries(s.out[p], b)
      BY <3>1 DEF Carries, In
    <3> QED BY <2>2, <3>2, StepReaches DEF Reaches
  <2> QED BY <2>1, <2>2
<1> HIDE DEF s
<1>5. ASSUME NEW v, Known(x, v, have)
      PROVE  \A src \in Source : v[src] > 0 =>
               \E c \in Bundle : Id[c][src] > 0 /\ (c \in seen'[x] \/ \E y \in Below(x) : c \in seen'[y])
  BY <1>3, <1>5 DEF Known, Below
<1> HIDE DEF have
<1>6. \A p \in session'[x].subscribers \cap Router : Adjacent(x, p)
  BY <1>1, <1>2 DEF Flow
<1>7. Tidy(session[x], seen[x])'
  BY <1>1, <1>2 DEF Flow, Tidy, SameData, have
<1>8. Known(x, session[x].id, seen[x])'
  <2>1. session'[x].id = s.id /\ Known(x, s.id, have)
    BY <1>1, <1>2 DEF SameData, Flow
  <2> QED BY <1>5, <2>1 DEF Known
<1>9. (\A i \in 1 .. Len(session[x].waiting) : Known(x, session[x].waiting[i].id, seen[x]))'
  <2>1. session'[x].waiting = s.waiting /\ \A i \in 1 .. Len(s.waiting) : Known(x, s.waiting[i].id, have)
    BY <1>1, <1>2 DEF SameControl, Flow
  <2> QED BY <1>5, <2>1 DEF Known
<1>10. Noted(x, session[x])'
  BY <1>1, <1>2, <1>4 DEF Noted, Reaches, Flow, SameData
<1>11. Served(x, session[x])'
  BY <1>1, <1>2, <1>4 DEF Served, Kept, Reaches, Flow, SameData
<1>12. Outgoing(x, session[x], seen[x])'
  <2>1. \A p \in Router : session'[x].out[p] = <<>>
    BY <1>1 DEF NewSession
  <2>2. \A p \in Router : \A m : ~In(m, session'[x].out[p])
    BY <2>1 DEF In
  <2> QED BY <2>2 DEF Outgoing
<1>13. Flow(x, session[x], seen[x])'
  BY <1>1, <1>6, <1>7, <1>8, <1>9, <1>10, <1>11, <1>12 DEF Flow
<1>14. Control(x, session[x])'
  BY <1>1, <1>2 DEF Control, SameControl
<1>15. (Local \in session[x].subscribers => Waits(session[x]))'
  BY <1>1, <1>2 DEF Waits, SameControl
<1> QED BY <1>1, <1>13, <1>14, <1>15 DEF Sound

LEMMA StepSides ==
  ASSUME SessionInv, NEW r \in Router, NEW t, NEW queues, Handled(r, t, queues), NEW q \in Router
  PROVE  Inward(q)' /\ Outward(q)'
<1>1. /\ \A x \in Router : session[x].subscribers \subseteq session'[x].subscribers
      /\ \A x \in Router : seen[x] \subseteq seen'[x]
  BY StepSessions
<1>2. /\ q \in Below(q) /\ Hop[q] \notin Below(q) /\ \A y \in Below(q) : y \in Router
      /\ \A y \in Router : Hop[y] \in Below(q) => y \in Below(q)
      /\ \A y \in Below(q) : y = q \/ Hop[y] \in Below(q)
  BY BelowIsTree DEF Below
<1>3. ASSUME NEW x \in Router, NEW b \in seen'[x], b \notin seen[x]
      PROVE  \/ x = r /\ Origin[b] = r
             \/ \E p \in Router : /\ x = r /\ b \in seen[p] /\ r \in session[p].subscribers
                                  /\ Adjacent(p, r)
  <2>1. x = r
    BY <1>3 DEF Handled
  <2>2. CASE Origin[b] = r
    BY <2>1, <2>2
  <2>3. CASE Origin[b] # r
    <3>1. PICK p \in Router : b \in seen[p] /\ r \in session[p].subscribers
      BY <1>3, <2>1, <2>3 DEF Handled
    <3>2. Adjacent(p, r)
      BY <3>1 DEF SessionInv, Sound, Flow
    <3> QED BY <2>1, <3>1, <3>2
  <2> QED BY <2>2, <2>3
<1>4. \A p \in Router : Adjacent(p, r) <=> Hop[p] = r \/ Hop[r] = p
  BY DEF Adjacent
<1>5. Inward(q)'
  <2> SUFFICES ASSUME Hop[q] \in Router, NEW x \in Below(q), NEW b \in seen'[x], Origin[b] \notin Below(q)
               PROVE  q \in session[Hop[q]].subscribers
    BY <1>1 DEF Inward
  <2>1. CASE b \in seen[x]
    BY <2>1 DEF SessionInv, Inward
  <2>2. CASE b \notin seen[x]
    <3>1. PICK p \in Router : x = r /\ b \in seen[p] /\ r \in session[p].subscribers /\ Adjacent(p, r)
      BY <1>2, <1>3, <2>2
    <3>2. CASE p \in Below(q)
      BY <3>1, <3>2 DEF SessionInv, Inward
    <3>3. CASE p \notin Below(q)
      <4>1. Hop[r] = p
        BY <1>2, <1>4, <3>1, <3>3
      <4>2. r = q
        BY <1>2, <3>1, <3>3, <4>1
      <4> QED BY <3>1, <4>1, <4>2
    <3> QED BY <3>2, <3>3
  <2> QED BY <2>1, <2>2
<1>6. Outward(q)'
  <2> SUFFICES ASSUME NEW x \in Router \ Below(q), NEW b \in seen'[x], Origin[b] \in Below(q)
               PROVE  b \in seen[q]
    BY <1>1 DEF Outward
  <2>1. CASE b \in seen[x]
    BY <2>1 DEF SessionInv, Outward
  <2>2. CASE b \notin seen[x]
    <3>1. PICK p \in Router : x = r /\ b \in seen[p] /\ r \in session[p].subscribers /\ Adjacent(p, r)
      BY <1>3, <2>2
    <3>2. CASE p \notin Below(q)
      BY <3>1, <3>2 DEF SessionInv, Outward
    <3>3. CASE p \in Below(q)
      <4>1. Hop[p] = r
        BY <1>2, <1>4, <3>1, <3>3
      <4>2. p = q
        BY <1>2, <3>1, <3>3, <4>1
      <4> QED BY <3>1, <4>2
    <3> QED BY <3>2, <3>3
  <2> QED BY <2>1, <2>2
<1> QED BY <1>5, <1>6

LEMMA StepInv ==
  ASSUME SessionInv, NEW r \in Router, NEW t, NEW queues, Handled(r, t, queues)
  PROVE  SessionInv'
<1>1. /\ session' \in [Router -> SessionState]
      /\ \A x \in Router : x # r => session'[x] = session[x]
      /\ session'[r].subscribers = t.subscribers /\ SameControl(t, session'[r])
      /\ \A x \in Router : session[x].subscribers \subseteq session'[x].subscribers
  BY StepSessions
<1>2. Queued(r, t)
  BY StepQueues DEF Handled
<1>3. Shape'
  BY <1>1, <1>2 DEF Queued, Handled, Shape
<1>4. ASSUME NEW x \in Router PROVE Timers(x)'
  <2>1. CASE x = r
    <3>1. TimersOf(t, registered'[r])
      BY DEF Handled
    <3> QED BY <1>1, <2>1, <3>1 DEF TimersOf, Timers, SameControl
  <2>2. CASE x # r
    <3>1. registered'[x] = registered[x] /\ session'[x] = session[x]
      BY <1>1, <2>2 DEF Handled
    <3> QED BY <3>1 DEF SessionInv, Timers
  <2> QED BY <2>1, <2>2
<1>5. ASSUME NEW x \in Router PROVE Told(x)'
  <2> SUFFICES ASSUME session'[x].upstream \in Router, x \notin untold'
               PROVE  x \in session'[Hop[x]].subscribers \/ Carries(channel'[x][Hop[x]], NoBundle)
    BY DEF Told
  <2>1. CASE x = r
    <3>1. t.upstream \in Router /\ r \notin untold'
      BY <1>1, <2>1 DEF SameControl
    <3>2. Hop[r] \in Router
      BY <3>1 DEF Handled, Control
    <3>3. \/ r \in session[Hop[r]].subscribers
          \/ Carries(channel[r][Hop[r]], NoBundle) \/ Carries(t.out[Hop[r]], NoBundle)
      BY <3>1 DEF Handled
    <3> QED BY <1>1, <1>2, <2>1, <3>2, <3>3 DEF Queued
  <2>2. CASE x # r
    <3>1. session[x].upstream \in Router /\ x \notin untold
      BY <1>1, <2>2 DEF Handled
    <3>2. Hop[x] \in Router
      BY <3>1 DEF SessionInv, Sound, Control
    <3>3. x \in session[Hop[x]].subscribers \/ Carries(channel[x][Hop[x]], NoBundle)
      BY <3>1 DEF SessionInv, Told
    <3>4. Carries(channel[x][Hop[x]], NoBundle) =>
            Carries(channel'[x][Hop[x]], NoBundle) \/ (Hop[x] = r /\ x \in t.subscribers)
      BY <1>2, <2>2, <3>2 DEF Queued
    <3> QED BY <1>1, <3>2, <3>3, <3>4
  <2> QED BY <2>1, <2>2
<1>6. \A x \in Router : Sound(x)' /\ Timers(x)' /\ Told(x)' /\ Inward(x)' /\ Outward(x)'
  BY <1>4, <1>5, StepSound, StepSides
<1>7. \A p, x \in Router : Link(p, x)'
  BY StepLinks
<1> QED BY <1>3, <1>6, <1>7 DEF SessionInv

----------------------------------------------------------------------------
(* The actions. *)

\* Where r stands with its upstream, when its handler has left t.
Asked(r, t) ==
  \/ r \in session[Hop[r]].subscribers
  \/ Carries(channel[r][Hop[r]], NoBundle) \/ Carries(t.out[Hop[r]], NoBundle)

LEMMA InShape ==
  ASSUME SessionInv, NEW r \in Router
  PROVE  /\ session[r] \in SessionState /\ registered[r] \in Nat /\ seen[r] \in SUBSET Bundle
         /\ Flow(r, session[r], seen[r]) /\ Control(r, session[r])
         /\ Local \in session[r].subscribers => Waits(session[r])
         /\ TimersOf(session[r], registered[r])
         /\ session[r].upstream \in Router /\ r \notin untold => Asked(r, session[r])
BY DEF SessionInv, Shape, Sound, Timers, TimersOf, Told, Asked

\* A step of r in which it hears nothing.
LEMMA QuietStep ==
  ASSUME SessionInv, NEW r \in Router, NEW t, NEW queues, Become(r, t, queues), Found(r, t, queues),
         seen' = seen, registered' = registered, untold \subseteq untold',
         Flow(r, t, seen[r]), Control(r, t), Local \in t.subscribers => Waits(t),
         session[r].subscribers \subseteq t.subscribers, TimersOf(t, registered[r]),
         t.upstream \in Router /\ r \notin untold' => Asked(r, t)
  PROVE  SessionInv'
<1>1. t \in SessionState
  BY DEF Flow
<1>2. seen' \in [Router -> SUBSET Bundle] /\ registered' \in [Router -> Nat]
  BY DEF SessionInv, Shape
<1>3. Handled(r, t, queues)
  BY <1>1, <1>2 DEF Handled, Asked
<1> QED BY <1>3, StepInv

LEMMA Opened ==
  ASSUME NEW r \in Router, NEW s, NEW have, Flow(r, s, have), Control(r, s)
  PROVE  /\ Flow(r, [s EXCEPT !.open = TRUE], have) /\ Control(r, [s EXCEPT !.open = TRUE])
         /\ [s EXCEPT !.open = TRUE].subscribers = s.subscribers
         /\ [s EXCEPT !.open = TRUE].open = TRUE
         /\ [s EXCEPT !.open = TRUE].upstream = s.upstream
         /\ [s EXCEPT !.open = TRUE].waiting = s.waiting
         /\ [s EXCEPT !.open = TRUE].custody = s.custody
         /\ [s EXCEPT !.open = TRUE].routed = s.routed
         /\ [s EXCEPT !.open = TRUE].timer = s.timer
         /\ [s EXCEPT !.open = TRUE].stray = s.stray
         /\ [s EXCEPT !.open = TRUE].out = s.out
         /\ [s EXCEPT !.open = TRUE].cache = s.cache
         /\ SameData(s, [s EXCEPT !.open = TRUE])
<1> DEFINE t == [s EXCEPT !.open = TRUE]
<1>1. s \in SessionState /\ \A i \in 1 .. Len(s.waiting) : Known(r, s.waiting[i].id, have)
  BY DEF Flow
<1>2. /\ t \in SessionState /\ t.subscribers = s.subscribers /\ t.open = TRUE
      /\ t.upstream = s.upstream /\ t.waiting = s.waiting /\ t.custody = s.custody
      /\ t.routed = s.routed /\ t.timer = s.timer /\ t.stray = s.stray /\ t.out = s.out
      /\ t.log = s.log /\ t.cache = s.cache /\ SameData(s, t)
  BY <1>1 DEF SessionState, SameData
<1> HIDE DEF t
<1>3. Flow(r, t, have)
  BY <1>1, <1>2, FlowSame
<1>4. Control(r, t)
  BY <1>2 DEF Control
<1> QED BY <1>2, <1>3, <1>4 DEF t

LEMMA CustodyKeeps ==
  ASSUME SessionInv, NEW r \in Router, RegisterCustody(r)
  PROVE  SessionInv'
<1> DEFINE s == session[r]
           t == [s EXCEPT !.custody = TRUE]
<1>1. /\ Become(r, t, channel) /\ seen' = seen /\ registered' = registered /\ untold' = untold
  BY DEF RegisterCustody
<1>2. /\ s \in SessionState /\ Flow(r, s, seen[r]) /\ Control(r, s)
      /\ (Local \in s.subscribers => Waits(s)) /\ TimersOf(s, registered[r])
      /\ s.upstream \in Router /\ r \notin untold => Asked(r, s)
  BY InShape
<1> HIDE DEF s
<1>3. /\ t \in SessionState /\ t.subscribers = s.subscribers /\ t.open = s.open
      /\ t.upstream = s.upstream /\ t.waiting = s.waiting /\ t.custody = TRUE
      /\ t.routed = s.routed /\ t.timer = s.timer /\ t.stray = s.stray /\ t.out = s.out
      /\ t.log = s.log /\ SameData(s, t)
  BY <1>2 DEF SessionState, SameData
<1> HIDE DEF t
<1>4. Flow(r, t, seen[r])
  <2>1. \A i \in 1 .. Len(t.waiting) : Known(r, t.waiting[i].id, seen[r])
    BY <1>2, <1>3 DEF Flow
  <2> QED BY <1>2, <1>3, <2>1, FlowSame
<1>5. Control(r, t) /\ (Local \in t.subscribers => Waits(t)) /\ TimersOf(t, registered[r])
  BY <1>2, <1>3 DEF Control, Waits, TimersOf
<1>6. t.upstream \in Router /\ r \notin untold' => Asked(r, t)
  BY <1>1, <1>2, <1>3 DEF Asked
<1>7. Found(r, t, channel) /\ session[r].subscribers \subseteq t.subscribers
  BY <1>3 DEF Found, s
<1> QED BY <1>1, <1>4, <1>5, <1>6, <1>7, QuietStep

LEMMA SubscribeKeeps ==
  ASSUME SessionInv, NEW r \in Router, RegisterSubscribe(r)
  PROVE  SessionInv'
<1> DEFINE s == session[r]
           o == [s EXCEPT !.open = TRUE, !.subscribers = s.subscribers \cup {Local}]
           t == Subscribed(o, r)
<1>1. /\ Become(r, t, channel) /\ seen' = seen /\ untold' = untold
      /\ registered' = [registered EXCEPT ![r] = registered[r] + 1]
  BY DEF RegisterSubscribe
<1>2. /\ s \in SessionState /\ Flow(r, s, seen[r]) /\ Control(r, s)
      /\ (Local \in s.subscribers => Waits(s)) /\ TimersOf(s, registered[r])
      /\ registered[r] \in Nat
      /\ s.upstream \in Router /\ r \notin untold => Asked(r, s)
  BY InShape
<1> HIDE DEF s
<1>3. /\ o \in SessionState /\ o.subscribers = s.subscribers \cup {Local} /\ o.open = TRUE
      /\ o.upstream = s.upstream /\ o.waiting = s.waiting /\ o.custody = s.custody
      /\ o.routed = s.routed /\ o.timer = s.timer /\ o.stray = s.stray /\ o.out = s.out
      /\ o.log = s.log /\ SameData(s, o)
  BY <1>2 DEF SessionState, SameData
<1> HIDE DEF t, o
<1>4. Flow(r, o, seen[r])
  <2>1. \A p \in Router : p \in o.subscribers <=> p \in s.subscribers
    BY <1>3, Constants
  <2>2. \A b, p : Reaches(r, s, p, b) <=> Reaches(r, o, p, b)
    BY <1>3 DEF Reaches
  <2>3. Noted(r, o) /\ Served(r, o)
    BY <1>2, <1>3, <2>1, <2>2 DEF Flow, Noted, Served, SameData, Kept
  <2>4. Outgoing(r, o, seen[r]) /\ Tidy(o, seen[r]) /\ Known(r, o.id, seen[r])
    BY <1>2, <1>3 DEF Flow, Outgoing, Tidy, SameData
  <2> QED BY <1>2, <1>3, <2>1, <2>3, <2>4 DEF Flow
<1>5. Control(r, o)
  BY <1>2, <1>3 DEF Control
<1>6. /\ Flow(r, t, seen[r]) /\ Control(r, t) /\ Sends(o, t) /\ Wider(o, t) /\ Asks(r, o, t)
      /\ t.stray = o.stray /\ t.timer = IF o.upstream = Local THEN o.timer ELSE TRUE
  BY <1>4, <1>5, SubscribedKeeps DEF t
<1>7. Waits(t)
  BY <1>6 DEF Asks, Waits
<1>8. t.upstream \in Router /\ r \notin untold' => Asked(r, t)
  <2> SUFFICES ASSUME t.upstream \in Router, r \notin untold PROVE Asked(r, t)
    BY <1>1
  <2>1. Hop[r] \in Router
    BY <1>6 DEF Control
  <2>2. CASE o.upstream = Nobody
    BY <1>6, <2>2 DEF Asks, Asked
  <2>3. CASE o.upstream # Nobody
    <3>1. Asked(r, s)
      BY <1>2, <1>3, <1>6, <2>3 DEF Asks
    <3>2. Carries(s.out[Hop[r]], NoBundle) => Carries(t.out[Hop[r]], NoBundle)
      BY <1>3, <1>6, <2>1 DEF Sends, Carries
    <3> QED BY <3>1, <3>2 DEF Asked
  <2> QED BY <2>2, <2>3
<1>9. TimersOf(t, registered[r] + 1)
  <2>1. s.stray \in Nat /\ s.timer \in BOOLEAN
    BY <1>2 DEF SessionState
  <2>2. t.upstream # Local => o.upstream # Local
    BY <1>6, Constants DEF Asks
  <2> QED BY <1>2, <1>3, <1>6, <2>1, <2>2 DEF TimersOf
<1>10. /\ registered \in [Router -> Nat] /\ registered' \in [Router -> Nat]
       /\ registered'[r] = registered[r] + 1
       /\ \A x \in Router : x # r => registered'[x] = registered[x]
  <2>1. registered \in [Router -> Nat]
    BY DEF SessionInv, Shape
  <2> QED BY <1>1, <2>1
<1>11. Found(r, t, channel) /\ session[r].subscribers \subseteq t.subscribers
  BY <1>3, <1>6 DEF Found, s, Wider
<1>12. t \in SessionState /\ seen' \in [Router -> SUBSET Bundle]
  BY <1>1, <1>6 DEF Flow, SessionInv, Shape
<1>13. Handled(r, t, channel)
  BY <1>1, <1>6, <1>7, <1>8, <1>9, <1>10, <1>11, <1>12 DEF Handled, Asked
<1> QED BY <1>13, StepInv

LEMMA PublisherKeeps ==
  ASSUME SessionInv, NEW r \in Router, RegisterPublish(r)
  PROVE  SessionInv'
<1> DEFINE s == session[r]
           o == [s EXCEPT !.open = TRUE]
           t == UpstreamFound(o, r)
<1>1. /\ o.upstream = Nobody /\ Become(r, t, channel)
      /\ untold' = IF o.routed /\ ~o.custody THEN untold \cup {r} ELSE untold
      /\ seen' = seen /\ registered' = registered
  BY DEF RegisterPublish
<1>2. /\ s \in SessionState /\ Flow(r, s, seen[r]) /\ Control(r, s)
      /\ (Local \in s.subscribers => Waits(s)) /\ TimersOf(s, registered[r])
      /\ s.upstream \in Router /\ r \notin untold => Asked(r, s)
  BY InShape
<1> HIDE DEF s
<1>3. /\ Flow(r, o, seen[r]) /\ Control(r, o) /\ o.subscribers = s.subscribers
      /\ o.upstream = s.upstream /\ o.waiting = s.waiting /\ o.custody = s.custody
      /\ o.routed = s.routed /\ o.timer = s.timer /\ o.stray = s.stray
  BY <1>2, Opened
<1> HIDE DEF t, o
<1>4. /\ Flow(r, t, seen[r]) /\ Control(r, t) /\ SameRest(o, t) /\ t.waiting = o.waiting
      /\ Wider(o, t)
      /\ t.upstream = IF o.custody THEN Local ELSE IF o.routed THEN Hop[r] ELSE o.upstream
  BY <1>3, FoundKeeps DEF t
<1>5. Local \in t.subscribers => Waits(t)
  BY <1>1, <1>2, <1>3, <1>4, Constants DEF Waits, Wider, SameRest
<1>6. TimersOf(t, registered[r])
  BY <1>1, <1>2, <1>3, <1>4, Constants DEF TimersOf, Wider, SameRest
<1>7. t.upstream \in Router /\ r \notin untold' => Asked(r, t)
  BY <1>1, <1>3, <1>4, Constants
<1>8. Found(r, t, channel) /\ session[r].subscribers \subseteq t.subscribers /\ untold \subseteq untold'
  BY <1>1, <1>3, <1>4 DEF Found, s, Wider
<1> QED BY <1>1, <1>4, <1>5, <1>6, <1>7, <1>8, QuietStep

LEMMA RouteKeeps ==
  ASSUME SessionInv, NEW r \in Router, AddRoute(r)
  PROVE  SessionInv'
<1> DEFINE s == session[r]
           t == RoutesChanged([s EXCEPT !.routed = TRUE], r)
<1>1. /\ Hop[r] # Nobody /\ ~s.routed /\ Become(r, t, channel)
      /\ untold' = IF s.open /\ s.waiting = <<>> /\ ~s.custody THEN untold \cup {r} ELSE untold
      /\ seen' = seen /\ registered' = registered
  BY DEF AddRoute
<1>2. /\ s \in SessionState /\ Flow(r, s, seen[r]) /\ Control(r, s)
      /\ (Local \in s.subscribers => Waits(s)) /\ TimersOf(s, registered[r])
  BY InShape
<1>3. Hop[r] \in Router
  BY <1>1, Constants
<1> HIDE DEF s
<1>4. /\ Flow(r, t, seen[r]) /\ Control(r, t) /\ Wider(s, t)
      /\ t.open = s.open /\ t.timer = s.timer /\ t.stray = s.stray
      /\ t.upstream = IF ~s.open THEN s.upstream ELSE IF s.custody THEN Local ELSE Hop[r]
      /\ s.waiting # <<>> => Carries(t.out[Hop[r]], NoBundle)
  BY <1>1, <1>2, <1>3, RoutesChangedKeeps
<1> HIDE DEF t
<1>5. Local \in t.subscribers => s.open /\ Waits(t)
  BY <1>2, <1>3, <1>4, Constants DEF Waits, Wider, Control
<1>6. s.upstream = Local => s.custody
  BY <1>2 DEF Control
<1>7. TimersOf(t, registered[r])
  BY <1>2, <1>4, <1>5, <1>6 DEF TimersOf, Wider
<1>8. t.upstream \in Router /\ r \notin untold' => Asked(r, t)
  <2> SUFFICES ASSUME t.upstream \in Router, r \notin untold' PROVE Asked(r, t)
    OBVIOUS
  <2>1. s.upstream \notin Router
    BY <1>1, <1>2 DEF Control
  <2>2. s.open /\ ~s.custody
    BY <1>4, <2>1, Constants
  <2>3. s.waiting # <<>>
    BY <1>1, <2>2
  <2> QED BY <1>4, <2>3 DEF Asked
<1>9. Found(r, t, channel) /\ session[r].subscribers \subseteq t.subscribers /\ untold \subseteq untold'
  BY <1>1, <1>4 DEF Found, s, Wider
<1> QED BY <1>1, <1>4, <1>5, <1>7, <1>8, <1>9, QuietStep

LEMMA ExpireKeeps ==
  ASSUME SessionInv, NEW r \in Router, NEW b \in Bundle, Expire(r, b)
  PROVE  SessionInv'
<1> DEFINE s == session[r]
           l == Only(Bundle \ {b}, s.bundles)
           t == [s EXCEPT !.bundles = l]
<1>1. Become(r, t, channel) /\ seen' = seen /\ registered' = registered /\ untold' = untold
  BY DEF Expire
<1>2. /\ s \in SessionState /\ Flow(r, s, seen[r]) /\ Control(r, s)
      /\ (Local \in s.subscribers => Waits(s)) /\ TimersOf(s, registered[r])
      /\ s.upstream \in Router /\ r \notin untold => Asked(r, s)
  BY InShape
<1> HIDE DEF s
<1>3. /\ l \in Seq(Bundle) /\ \A c : In(c, l) => In(c, s.bundles)
      /\ NoDuplicates(s.bundles) => NoDuplicates(l)
  <2>1. s.bundles \in Seq(Bundle)
    BY <1>2 DEF SessionState
  <2> QED BY <2>1, InOnly
<1> HIDE DEF l
<1>4. /\ t \in SessionState /\ SameControl(s, t) /\ t.subscribers = s.subscribers /\ t.out = s.out
      /\ t.log = s.log /\ t.cache = s.cache /\ t.id = s.id /\ t.bundles = l
  BY <1>2, <1>3 DEF SessionState, SameControl
<1> HIDE DEF t
<1>5. Flow(r, t, seen[r])
  <2>1. \A c, p : Reaches(r, s, p, c) <=> Reaches(r, t, p, c)
    BY <1>4 DEF Reaches
  <2>2. Noted(r, t) /\ Served(r, t)
    BY <1>2, <1>3, <1>4, <2>1 DEF Flow, Noted, Served, Kept
  <2>3. Tidy(t, seen[r])
    BY <1>2, <1>3, <1>4 DEF Flow, Tidy
  <2>4. Outgoing(r, t, seen[r]) /\ Known(r, t.id, seen[r])
    BY <1>2, <1>4 DEF Flow, Outgoing
  <2>5. \A i \in 1 .. Len(t.waiting) : Known(r, t.waiting[i].id, seen[r])
    BY <1>2, <1>4 DEF Flow, SameControl
  <2> QED BY <1>2, <1>4, <2>2, <2>3, <2>4, <2>5 DEF Flow
<1>6. Control(r, t) /\ (Local \in t.subscribers => Waits(t)) /\ TimersOf(t, registered[r])
  BY <1>2, <1>4 DEF Control, Waits, TimersOf, SameControl
<1>7. t.upstream \in Router /\ r \notin untold' => Asked(r, t)
  BY <1>1, <1>2, <1>4 DEF Asked, SameControl
<1>8. Found(r, t, channel) /\ session[r].subscribers \subseteq t.subscribers
  BY <1>4 DEF Found, s
<1> QED BY <1>1, <1>5, <1>6, <1>7, <1>8, QuietStep

LEMMA TimeoutKeeps ==
  ASSUME SessionInv, NEW r \in Router, Timeout(r)
  PROVE  SessionInv'
<1> DEFINE s == session[r]
           u == Subscribed(s, r)
           running == IF s.upstream # Local THEN 1 ELSE 0
<1>1. /\ s \in SessionState /\ Flow(r, s, seen[r]) /\ Control(r, s)
      /\ (Local \in s.subscribers => Waits(s)) /\ TimersOf(s, registered[r])
      /\ registered[r] \in Nat
      /\ s.upstream \in Router /\ r \notin untold => Asked(r, s)
  BY InShape
<1>2. PICK n \in Nat :
        /\ Become(r, [u EXCEPT !.timer = FALSE, !.stray = n], channel)
        /\ seen' = seen /\ registered' = registered /\ untold' = untold
        /\ \/ s.timer /\ n = s.stray + running
           \/ s.stray > 0 /\ n = s.stray - 1 + (IF s.timer THEN 1 ELSE running)
  <2>1. s.stray \in Nat /\ u.stray = s.stray
    <3>1. u.stray = s.stray
      <4> HIDE DEF s
      <4> QED BY <1>1, SubscribedKeeps
    <3> QED BY <1>1, <3>1 DEF SessionState
  <2> DEFINE n1 == s.stray + running
             n2 == s.stray - 1 + (IF s.timer THEN 1 ELSE running)
  <2>2. n1 \in Nat /\ (s.stray > 0 => n2 \in Nat)
    BY <2>1
  <2>3. \/ s.timer /\ Become(r, [u EXCEPT !.timer = FALSE, !.stray = n1], channel)
        \/ s.stray > 0 /\ Become(r, [u EXCEPT !.timer = FALSE, !.stray = n2], channel)
    BY <2>1 DEF Timeout
  <2>4. seen' = seen /\ registered' = registered /\ untold' = untold
    BY DEF Timeout
  <2> HIDE DEF s, u, running
  <2> QED BY <2>2, <2>3, <2>4
<1> DEFINE t == [u EXCEPT !.timer = FALSE, !.stray = n]
<1> HIDE DEF s
<1>3. /\ Flow(r, u, seen[r]) /\ Control(r, u) /\ Sends(s, u) /\ Wider(s, u) /\ Asks(r, s, u)
  BY <1>1, SubscribedKeeps
<1> HIDE DEF u
<1>4. u \in SessionState /\ \A i \in 1 .. Len(u.waiting) : Known(r, u.waiting[i].id, seen[r])
  BY <1>3 DEF Flow
<1>5. /\ t \in SessionState /\ t.subscribers = u.subscribers /\ t.open = u.open
      /\ t.upstream = u.upstream /\ t.waiting = u.waiting /\ t.custody = u.custody
      /\ t.routed = u.routed /\ t.timer = FALSE /\ t.stray = n /\ t.out = u.out
      /\ t.log = u.log /\ SameData(u, t)
  BY <1>4 DEF SessionState, SameData
<1>6. Become(r, t, channel)
  BY <1>2
<1> HIDE DEF t
<1>7. Flow(r, t, seen[r])
  BY <1>3, <1>4, <1>5, FlowSame
<1>8. Control(r, t)
  BY <1>3, <1>5 DEF Control
<1>9. Local \in t.subscribers => Local \in s.subscribers /\ Waits(t)
  BY <1>1, <1>3, <1>5 DEF Wider, Asks, Waits
<1>10. TimersOf(t, registered[r])
  <2>1. s.stray \in Nat /\ s.timer \in BOOLEAN
    BY <1>1 DEF SessionState
  <2>2. t.upstream # Local => s.upstream # Local
    BY <1>3, <1>5, Constants DEF Asks
  <2>3. n <= s.stray + (IF s.timer THEN 1 ELSE 0)
    BY <1>2, <2>1
  <2>4. s.upstream # Local => n > 0
    BY <1>2, <2>1
  <2> QED BY <1>1, <1>5, <1>9, <2>1, <2>2, <2>3, <2>4 DEF TimersOf
<1>11. t.upstream \in Router /\ r \notin untold' => Asked(r, t)
  <2> SUFFICES ASSUME t.upstream \in Router, r \notin untold PROVE Asked(r, t)
    BY <1>2
  <2>1. Hop[r] \in Router
    BY <1>8 DEF Control
  <2>2. CASE s.upstream = Nobody
    BY <1>3, <1>5, <2>2 DEF Asks, Asked
  <2>3. CASE s.upstream # Nobody
    <3>1. Asked(r, s)
      BY <1>1, <1>3, <1>5, <2>3 DEF Asks
    <3>2. Carries(s.out[Hop[r]], NoBundle) => Carries(t.out[Hop[r]], NoBundle)
      BY <1>3, <1>5, <2>1 DEF Sends, Carries
    <3> QED BY <3>1, <3>2 DEF Asked
  <2> QED BY <2>2, <2>3
<1>12. Found(r, t, channel) /\ session[r].subscribers \subseteq t.subscribers /\ untold \subseteq untold'
  BY <1>2, <1>3, <1>5 DEF Found, s, Wider
<1> QED BY <1>2, <1>6, <1>7, <1>8, <1>9, <1>10, <1>11, <1>12, QuietStep

\* What a bundle's reception does to the rest of the step.
LEMMA HeardKeeps ==
  ASSUME SessionInv, NEW r \in Router, NEW b \in Bundle, NEW from \in Router \cup {Nobody},
         from \in Router => b \in seen[from] /\ r \in session[from].subscribers,
         from \notin Router => Origin[b] = r,
         NEW queues, Become(r, Received(session[r], b, from), queues),
         Found(r, Received(session[r], b, from), queues),
         seen' = [seen EXCEPT ![r] = seen[r] \cup {b}], registered' = registered, untold' = untold
  PROVE  SessionInv'
<1> DEFINE s == session[r]
           o == [s EXCEPT !.open = TRUE]
           t == Received(s, b, from)
<1>1. /\ s \in SessionState /\ Flow(r, s, seen[r]) /\ Control(r, s)
      /\ (Local \in s.subscribers => Waits(s)) /\ TimersOf(s, registered[r])
      /\ s.upstream \in Router /\ r \notin untold => Asked(r, s)
  BY InShape
<1>2. Become(r, t, queues) /\ Found(r, t, queues)
  OBVIOUS
<1> HIDE DEF s
<1>3. /\ Flow(r, t, seen[r] \cup {b}) /\ Sends(s, t) /\ SameControl(o, t)
      /\ t.subscribers = s.subscribers
  <2>1. from \in Router => b \in seen[from]
    OBVIOUS
  <2>2. /\ Flow(r, t, seen[r] \cup {b}) /\ Sends(s, t) /\ SameControl(o, t)
        /\ SameSubscribers(s, t)
    BY <1>1, <2>1, ReceivedKeeps
  <2> QED BY <2>2 DEF SameSubscribers
<1> HIDE DEF t
<1>4. /\ o.open = TRUE /\ o.upstream = s.upstream /\ o.waiting = s.waiting
      /\ o.custody = s.custody /\ o.routed = s.routed /\ o.timer = s.timer /\ o.stray = s.stray
  BY <1>1, Opened
<1> HIDE DEF o
<1>5. Control(r, t) /\ (Local \in t.subscribers => Waits(t)) /\ TimersOf(t, registered[r])
  BY <1>1, <1>3, <1>4 DEF Control, Waits, TimersOf, SameControl
<1>6. t.upstream \in Router /\ r \notin untold' => Asked(r, t)
  <2> SUFFICES ASSUME t.upstream \in Router, r \notin untold PROVE Asked(r, t)
    OBVIOUS
  <2>1. Hop[r] \in Router
    BY <1>5 DEF Control
  <2>2. Asked(r, s)
    BY <1>1, <1>3, <1>4 DEF SameControl
  <2>3. Carries(s.out[Hop[r]], NoBundle) => Carries(t.out[Hop[r]], NoBundle)
    BY <1>3, <2>1 DEF Sends, Carries
  <2> QED BY <2>2, <2>3 DEF Asked
<1>7. /\ seen \in [Router -> SUBSET Bundle] /\ seen' \in [Router -> SUBSET Bundle]
      /\ seen'[r] = seen[r] \cup {b} /\ \A x \in Router : x # r => seen'[x] = seen[x]
      /\ registered \in [Router -> Nat]
  BY DEF SessionInv, Shape
<1>8. \A c \in seen'[r] : c \in seen[r] \/ Origin[c] = r
                          \/ \E p \in Router : c \in seen[p] /\ r \in session[p].subscribers
  BY <1>7
<1>9. t \in SessionState /\ session[r].subscribers \subseteq t.subscribers
  BY <1>3 DEF Flow, s
<1>10. Handled(r, t, queues)
  BY <1>2, <1>3, <1>5, <1>6, <1>7, <1>8, <1>9 DEF Handled, Asked
<1> QED BY <1>10, StepInv

LEMMA PublishKeeps ==
  ASSUME SessionInv, NEW b \in Bundle, Publish(b)
  PROVE  SessionInv'
<1> DEFINE r == Origin[b]
           t == Received(session[r], b, Nobody)
<1>1. r \in Router
  BY Constants
<1>2. /\ Become(r, t, channel) /\ seen' = [seen EXCEPT ![r] = seen[r] \cup {b}]
      /\ registered' = registered /\ untold' = untold
  BY DEF Publish
<1>3. Found(r, t, channel)
  BY DEF Found
<1>4. Nobody \notin Router /\ Nobody \in Router \cup {Nobody}
  BY Constants
<1> QED BY <1>1, <1>2, <1>3, <1>4, HeardKeeps

\* The ids in a subscription lose nothing: the head of the argument is that a
\* source counts at one router, which is below the subscriber or not.
LEMMA SubscriptionHarmless ==
  ASSUME SessionInv, NEW r \in Router, NEW p \in Router, NEW v \in Vector, Hop[p] = r,
         Known(p, v, seen[p])
  PROVE  Harmless(session[r], p, v) /\ Known(r, v, seen[r])
<1>1. /\ p \in Below(p) /\ r \notin Below(p) /\ Below(p) \subseteq Below(r)
      /\ \A x \in Below(p) : x \in Router
  BY BelowIsTree, BelowNests DEF Below
<1>2. Known(r, v, seen[r])
  <2> SUFFICES ASSUME NEW src \in Source, v[src] > 0
               PROVE  \E c \in Bundle : Id[c][src] > 0 /\ \E x \in Below(r) : c \in seen[x]
    BY DEF Known
  <2>1. PICK c \in Bundle : Id[c][src] > 0 /\ (c \in seen[p] \/ \E x \in Below(p) : c \in seen[x])
    BY DEF Known
  <2> QED BY <1>1, <2>1
<1>3. ASSUME NEW b \in Kept(session[r]), Covers(v, Id[b])
      PROVE  p \in session[r].subscribers \/ b \in seen[p]
  <2>1. b \in Bundle /\ b \in seen[r]
    BY DEF Kept, SessionInv, Sound, Flow, Tidy
  <2>2. PICK src \in Source : Id[b][src] > 0 /\ \A c \in Bundle : Id[c][src] > 0 => Origin[c] = Origin[b]
    BY <2>1, SourceAssumption
  <2>3. v[src] > 0
    <3>1. Id[b][src] <= v[src] /\ Id[b][src] \in Nat /\ v[src] \in Nat
      BY <1>3, <2>1, Constants DEF Covers, Vector
    <3> QED BY <2>2, <3>1
  <2>4. PICK c \in Bundle : Id[c][src] > 0 /\ (c \in seen[p] \/ \E x \in Below(p) : c \in seen[x])
    BY <2>3 DEF Known
  <2>5. PICK x \in Below(p) : c \in seen[x]
    BY <1>1, <2>4
  <2>6. Origin[c] = Origin[b]
    BY <2>2, <2>4
  <2>7. CASE Origin[b] \in Below(p)
    BY <1>1, <2>1, <2>7 DEF SessionInv, Outward
  <2>8. CASE Origin[b] \notin Below(p)
    BY <2>5, <2>6, <2>8 DEF SessionInv, Inward
  <2> QED BY <2>7, <2>8
<1> QED BY <1>2, <1>3 DEF Harmless

LEMMA ReceiveKeeps ==
  ASSUME SessionInv, NEW r \in Router, NEW p \in Router, Receive(r, p)
  PROVE  SessionInv'
<1> DEFINE s == session[r]
           m == Head(channel[p][r])
           queues == [channel EXCEPT ![p][r] = Tail(channel[p][r])]
<1>1. channel[p][r] # <<>> /\ registered' = registered /\ untold' = untold
  BY DEF Receive
<1>2. /\ m \in Message
      /\ IF m.bundle = NoBundle THEN Hop[p] = r /\ Known(p, m.id, seen[p])
         ELSE m.bundle \in seen[p] /\ r \in session[p].subscribers
  BY <1>1, LinkEnds DEF SessionInv, Link
<1>3. /\ s \in SessionState /\ Flow(r, s, seen[r]) /\ Control(r, s)
      /\ (Local \in s.subscribers => Waits(s)) /\ TimersOf(s, registered[r])
      /\ s.upstream \in Router /\ r \notin untold => Asked(r, s)
  BY InShape
<1>4. CASE m.bundle = NoBundle
  <2> DEFINE o == [s EXCEPT !.open = TRUE]
             sub == [id |-> m.id, from |-> p]
             t == SubscriptionHandled(o, r, sub)
  <2>1. Become(r, t, queues) /\ seen' = seen
    BY <1>4 DEF Receive
  <2>2. sub \in Waiting /\ sub.id = m.id /\ sub.from = p /\ m.id \in Vector
    BY <1>2 DEF Message, Waiting
  <2>3. Harmless(s, p, m.id) /\ Known(r, m.id, seen[r])
    BY <1>2, <1>4, <2>2, SubscriptionHarmless
  <2> HIDE DEF s, m, sub
  <2>4. /\ Flow(r, o, seen[r]) /\ Control(r, o) /\ o.subscribers = s.subscribers
        /\ o.upstream = s.upstream /\ o.waiting = s.waiting /\ o.custody = s.custody
        /\ o.routed = s.routed /\ o.timer = s.timer /\ o.stray = s.stray /\ o.out = s.out
        /\ SameData(s, o)
    BY <1>3, Opened
  <2> HIDE DEF o
  <2>5. Harmless(o, p, sub.id)
    BY <2>2, <2>3, <2>4 DEF Harmless, Kept, SameData
  <2>6. /\ Flow(r, t, seen[r]) /\ Control(r, t) /\ SameRest(o, t) /\ Sends(o, t) /\ Wider(o, t)
        /\ p \in t.subscribers /\ Asks(r, o, t)
    BY <1>2, <1>4, <2>2, <2>3, <2>4, <2>5, HandledKeeps
  <2> HIDE DEF t
  <2>7. Local \in t.subscribers => Local \in s.subscribers /\ Waits(t)
    BY <1>3, <2>4, <2>6 DEF Wider, Asks, Waits
  <2>8. TimersOf(t, registered[r])
    <3>1. t.upstream # Local => s.upstream # Local
      BY <2>4, <2>6, Constants DEF Asks
    <3> QED BY <1>3, <2>4, <2>6, <2>7, <3>1 DEF TimersOf, SameRest
  <2>9. t.upstream \in Router /\ r \notin untold' => Asked(r, t)
    <3> SUFFICES ASSUME t.upstream \in Router, r \notin untold PROVE Asked(r, t)
      BY <1>1
    <3>1. Hop[r] \in Router
      BY <2>6 DEF Control
    <3>2. CASE o.upstream = Nobody
      BY <2>6, <3>2 DEF Asks, Asked
    <3>3. CASE o.upstream # Nobody
      <4>1. Asked(r, s)
        BY <1>3, <2>4, <2>6, <3>3 DEF Asks
      <4>2. Carries(s.out[Hop[r]], NoBundle) => Carries(t.out[Hop[r]], NoBundle)
        BY <2>4, <2>6, <3>1 DEF Sends, Carries
      <4> QED BY <4>1, <4>2 DEF Asked
    <3> QED BY <3>2, <3>3
  <2>10. Found(r, t, queues) /\ session[r].subscribers \subseteq t.subscribers
    <3>1. Taken(r, t, p)
      BY <1>1, <1>4, <2>6 DEF Taken, m
    <3> QED BY <2>4, <2>6, <3>1 DEF Found, Wider, s
  <2> HIDE DEF queues
  <2> QED BY <1>1, <2>1, <2>6, <2>7, <2>8, <2>9, <2>10, QuietStep
<1>5. CASE m.bundle # NoBundle
  <2> DEFINE b == m.bundle
             t == IF s.cache[b] # {} THEN s ELSE Received(s, b, p)
  <2>1. Become(r, t, queues) /\ seen' = [seen EXCEPT ![r] = seen[r] \cup {b}]
    BY <1>5 DEF Receive
  <2>2. b \in Bundle /\ b \in seen[p] /\ r \in session[p].subscribers
    BY <1>2, <1>5 DEF Message
  <2>3. b \in seen'[r]
    <3>1. seen \in [Router -> SUBSET Bundle]
      BY DEF SessionInv, Shape
    <3> QED BY <2>1, <3>1
  <2>4. Found(r, t, queues)
    <3>1. Taken(r, t, p)
      BY <1>1, <1>5, <2>3 DEF Taken
    <3> HIDE DEF t, m, s
    <3> QED BY <3>1 DEF Found
  <2>5. CASE s.cache[b] = {}
    <3>1. t = Received(session[r], b, p)
      BY <2>5
    <3> HIDE DEF t, queues, m
    <3> QED BY <1>1, <2>1, <2>2, <2>4, <3>1, HeardKeeps
  <2>6. CASE s.cache[b] # {}
    <3>1. t = s
      BY <2>6
    <3> HIDE DEF queues, m, s, t
    <3>2. Flow(r, s, seen'[r])
      <4>1. /\ seen'[r] = seen[r] \cup {b}
        <5>1. seen \in [Router -> SUBSET Bundle]
          BY DEF SessionInv, Shape
        <5> QED BY <2>1, <5>1
      <4>2. \A v : Known(r, v, seen[r]) => Known(r, v, seen[r] \cup {b})
        BY KnownGrows
      <4>3. Tidy(s, seen[r] \cup {b})
        BY <1>3 DEF Flow, Tidy
      <4>4. Outgoing(r, s, seen[r] \cup {b})
        BY <1>3, <4>2 DEF Flow, Outgoing
      <4> QED BY <1>3, <4>1, <4>2, <4>3, <4>4 DEF Flow
    <3>3. /\ seen \in [Router -> SUBSET Bundle] /\ seen' \in [Router -> SUBSET Bundle]
          /\ seen'[r] = seen[r] \cup {b} /\ \A x \in Router : x # r => seen'[x] = seen[x]
          /\ registered \in [Router -> Nat]
      BY <2>1, <2>2 DEF SessionInv, Shape
    <3>4. \A c \in seen'[r] : c \in seen[r] \/ Origin[c] = r
                              \/ \E x \in Router : c \in seen[x] /\ r \in session[x].subscribers
      BY <2>2, <3>3
    <3>5. session[r].subscribers \subseteq s.subscribers
      BY DEF s
    <3>6. Handled(r, s, queues)
      BY <1>1, <1>3, <2>1, <2>4, <3>1, <3>2, <3>3, <3>4, <3>5 DEF Handled, Asked
    <3> QED BY <3>6, StepInv
  <2> QED BY <2>5, <2>6
<1> QED BY <1>4, <1>5

LEMMA InvNext == SessionInv /\ [Next]_vars => SessionInv'
<1> SUFFICES ASSUME SessionInv, [Next]_vars PROVE SessionInv'
  OBVIOUS
<1>1. ASSUME NEW r \in Router, RegisterCustody(r) PROVE SessionInv'
  BY <1>1, CustodyKeeps
<1>2. ASSUME NEW r \in Router, RegisterSubscribe(r) PROVE SessionInv'
  BY <1>2, SubscribeKeeps
<1>3. ASSUME NEW r \in Router, RegisterPublish(r) PROVE SessionInv'
  BY <1>3, PublisherKeeps
<1>4. ASSUME NEW r \in Router, AddRoute(r) PROVE SessionInv'
  BY <1>4, RouteKeeps
<1>5. ASSUME NEW r \in Router, Timeout(r) PROVE SessionInv'
  BY <1>5, TimeoutKeeps
<1>6. ASSUME NEW r \in Router, NEW p \in Router, Receive(r, p) PROVE SessionInv'
  BY <1>6, ReceiveKeeps
<1>7. ASSUME NEW b \in Bundle, Publish(b) PROVE SessionInv'
  BY <1>7, PublishKeeps
<1>8. ASSUME NEW b \in Bundle, NEW r \in Router, Expire(r, b) PROVE SessionInv'
  BY <1>8, ExpireKeeps
<1>9. CASE UNCHANGED vars
  BY <1>9 DEF vars, SessionInv, Shape, Sound, Flow, Noted, Served, Reaches, Outgoing, Known, Kept,
              Tidy, Control, Waits, Timers, Told, Link, Inward, Outward
<1> QED BY <1>1, <1>2, <1>3, <1>4, <1>5, <1>6, <1>7, <1>8, <1>9 DEF Next

\* The session of every router is in shape, its subscriptions are under way or
\* known, and its bundles travel the trees as the routes lead (all handlers).
THEOREM SessionsCorrect == Spec => []SessionInv
BY InvInit, InvNext, PTL DEF Spec

----------------------------------------------------------------------------
(* What the invariant says. *)

\* No bundle of a session makes another one obsolete or has its id, for any order
\* in which they arrive at any router (the loop of add_bundle_to_session).
THEOREM ObsoleteCorrect == Spec => []NoObsolete
<1>1. SessionInv => NoObsolete
  <2> SUFFICES ASSUME SessionInv, NEW r \in Router
               PROVE  LET s == session[r]
                          l == s.bundles
                      IN /\ s.upstream \in Router \cup {Local, Nobody}
                         /\ s.subscribers \subseteq Router \cup {Local}
                         /\ s.upstream \in Router => s.upstream \in s.subscribers
                         /\ l \in Seq(seen[r])
                         /\ \A b \in Kept(s) : Covers(s.id, Id[b])
                         /\ s.waiting # <<>> => ~s.routed
                         /\ s.out = NewSession.out
                         /\ \A i, j \in DOMAIN l :
                              i # j => ~Covers(Obsoletes[l[i]], Id[l[j]]) /\ Id[l[i]] # Id[l[j]]
    BY DEF NoObsolete, TypeOK
  <2> DEFINE s == session[r]
  <2>1. s \in SessionState /\ Tidy(s, seen[r]) /\ Control(r, s) /\ s.out = NewSession.out
    BY DEF SessionInv, Sound, Flow
  <2> HIDE DEF s
  <2>2. /\ s.upstream \in Router \cup {Local, Nobody} /\ s.subscribers \subseteq Router \cup {Local}
        /\ s.bundles \in Seq(Bundle)
    BY <2>1 DEF SessionState
  <2>3. \A i \in DOMAIN s.bundles : s.bundles[i] \in Bundle /\ In(s.bundles[i], s.bundles)
    BY <2>2 DEF In
  <2>4. s.bundles \in Seq(seen[r])
    <3>1. \A i \in 1 .. Len(s.bundles) : s.bundles[i] \in seen[r]
      BY <2>1, <2>2, <2>3 DEF Tidy
    <3> QED BY <2>2, <3>1
  <2>5. \A b \in Kept(s) : Covers(s.id, Id[b])
    BY <2>1 DEF Kept, Tidy
  <2>6. \A i, j \in DOMAIN s.bundles : i # j => s.bundles[i] # s.bundles[j]
    BY <2>1, <2>2 DEF Tidy, NoDuplicates
  <2>7. \A i, j \in DOMAIN s.bundles : i # j =>
          /\ ~Covers(Obsoletes[s.bundles[i]], Id[s.bundles[j]])
          /\ Id[s.bundles[i]] # Id[s.bundles[j]]
    BY <2>1, <2>3, <2>6 DEF Tidy
  <2>8. (s.upstream \in Router => s.upstream \in s.subscribers) /\ (s.waiting # <<>> => ~s.routed)
    BY <2>1 DEF Control
  <2> QED BY <2>1, <2>2, <2>4, <2>5, <2>7, <2>8 DEF s
<1> QED BY <1>1, SessionsCorrect, PTL

\* Every subscriber has received, or will, every bundle its neighbor keeps, in
\* trees of any size: neither the ids in subscriptions nor the reception cache
\* withholds one (add_subscriber, should_fwd).
THEOREM ServedCorrect == Spec => []SubscribersServed
<1>1. SessionInv => SubscribersServed
  <2> SUFFICES ASSUME SessionInv, NEW r \in Router, NEW p \in Router, p \in session[r].subscribers,
                      NEW b \in Kept(session[r])
               PROVE  b \in seen[p] \/ Underway(r, p, b)
    BY DEF SubscribersServed
  <2>1. Reaches(r, session[r], p, b) /\ session[r].out[p] = <<>>
    BY DEF SessionInv, Sound, Flow, Served, NewSession
  <2>2. ~Carries(session[r].out[p], b)
    BY <2>1 DEF Carries, In
  <2>3. channel[r][p] \in Seq(Message)
    BY DEF SessionInv, Shape
  <2> QED BY <2>1, <2>2, <2>3, CarriesInQueue DEF Reaches, Underway
<1> QED BY <1>1, SessionsCorrect, PTL

\* A local subscription is kept up by a timer of its own, and where no publisher or
\* waiting bundle found the upstream first, the next router knows of it or will.
THEOREM SubscriptionCorrect == Spec => []SubscriptionKept
<1>1. SessionInv => SubscriptionKept
  <2> SUFFICES ASSUME SessionInv, NEW r \in Router, Local \in session[r].subscribers,
                      session[r].upstream # Local
               PROVE  /\ session[r].timer \/ session[r].stray > 0
                      /\ session[r].stray + (IF session[r].timer THEN 1 ELSE 0) <= registered[r]
                      /\ session[r].routed /\ r \notin untold =>
                           r \in session[Hop[r]].subscribers \/ AskedFor(r, Hop[r])
    BY DEF SubscriptionKept
  <2>1. Timers(r) /\ Told(r) /\ Waits(session[r]) /\ Control(r, session[r])
    BY DEF SessionInv, Sound
  <2>2. ASSUME session[r].routed, r \notin untold
        PROVE  r \in session[Hop[r]].subscribers \/ AskedFor(r, Hop[r])
    <3>1. session[r].upstream \in Router /\ Hop[r] \in Router
      <4>1. session[r].upstream \in Router \cup {Local, Nobody}
        BY DEF SessionInv, Shape, SessionState
      <4> QED BY <2>1, <2>2, <4>1 DEF Waits, Control
    <3>2. r \in session[Hop[r]].subscribers \/ Carries(channel[r][Hop[r]], NoBundle)
      BY <2>1, <2>2, <3>1 DEF Told
    <3>3. channel[r][Hop[r]] \in Seq(Message)
      BY <3>1 DEF SessionInv, Shape
    <3> QED BY <3>2, <3>3, CarriesInQueue DEF AskedFor
  <2> QED BY <2>1, <2>2 DEF Timers
<1> QED BY <1>1, SessionsCorrect, PTL
=============================================================================
