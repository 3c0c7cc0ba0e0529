------------------------ MODULE VolumeBooking_proofs ------------------------
(***************************************************************************)
(* Proofs about VolumeBooking for every plan, any routes, bundles and      *)
(* rates: what is booked and promised.  The one fact about phase three     *)
(* that they rest on is that it takes at most one route over a neighbor    *)
(* (ChosenRoutes); of phase two, that a viable route has the volume the    *)
(* bundle needs at each of its contacts (ViableHasVolume), and that what   *)
(* is ahead of a bundle is less than what its neighbor is sent by the end  *)
(* of the earliest transmission opportunity, or of the contacts that       *)
(* enclose the one it is promised over (PromiseKept).                      *)
(***************************************************************************)
EXTENDS VolumeBooking, DataLemmas, FiniteSetTheorems

----------------------------------------------------------------------------
(* Sums. *)

\* The sums of the first values of f.
Sums(f, n, h) ==
  /\ h \in [0 .. n -> Int]
  /\ h[0] = 0 /\ \A i \in 1 .. n : h[i] = h[i - 1] + f[i]
  /\ \A m \in 0 .. n : Total(f, m) = h[m]

LEMMA TotalSteps ==
  ASSUME NEW n \in Nat, NEW f, \A i \in 1 .. n : f[i] \in Int
  PROVE  \E h : Sums(f, n, h)
<1> DEFINE next == [i \in 1 .. n |-> [x \in Int |-> x + f[i]]]
<1>1. next \in [1 .. n -> [Int -> Int]] /\ \A i \in 1 .. n, x \in Int : next[i][x] = x + f[i]
  OBVIOUS
<1> HIDE DEF next
<1>2. PICK h \in [0 .. n -> Int] : h[0] = 0 /\ \A i \in 1 .. n : h[i] = next[i][h[i - 1]]
  <2>1. \E h : Iterates(h, n, Int, 0, next)
    <3>1. 0 \in Int
      OBVIOUS
    <3> QED BY <1>1, <3>1, Recursion
  <2> QED BY <2>1 DEF Iterates
<1>3. \A i \in 1 .. n : h[i] = h[i - 1] + f[i]
  <2>1. \A i \in 1 .. n : h[i - 1] \in Int
    BY <1>2
  <2> QED BY <1>1, <1>2, <2>1
<1>4. ASSUME NEW m \in 0 .. n PROVE Total(f, m) = h[m]
  <2> DEFINE Sum(s) == [k \in 0 .. m |-> IF k = 0 THEN 0 ELSE s[k - 1] + f[k]]
             g == CHOOSE s : s = Sum(s)
             w == [k \in 0 .. m |-> h[k]]
  <2>1. m \in Nat /\ m \in 0 .. m /\ 0 \in 0 .. m
        /\ \A k \in 0 .. m : k \in 0 .. n /\ (k # 0 => k \in 1 .. n /\ k - 1 \in 0 .. m /\ k \in 1 .. m)
    OBVIOUS
  <2>2. \A k \in 0 .. m : w[k] = IF k = 0 THEN 0 ELSE w[k - 1] + f[k]
    BY <1>2, <1>3, <2>1
  <2>3. w = Sum(w)
    BY <2>2
  <2>4. Total(f, m) = g[m]
    BY Zenon DEF Total
  <2>5. g = Sum(g)
    BY <2>3, Zenon
  <2> HIDE DEF g, w
  <2>6. \A k \in 0 .. m : g[k] = IF k = 0 THEN 0 ELSE g[k - 1] + f[k]
    BY <2>5, Zenon
  <2> DEFINE G == {k \in 0 .. m : g[k] = h[k]}
  <2>7. 0 \in G
    BY <1>2, <2>1, <2>6
  <2>8. ASSUME NEW i \in 1 .. m, i - 1 \in G PROVE i \in G
    <3>1. i \in 0 .. m /\ i # 0 /\ i \in 1 .. n /\ g[i - 1] = h[i - 1]
      BY <2>8
    <3> QED BY <1>3, <2>6, <3>1
  <2> HIDE DEF G
  <2>9. m \in G
    BY <2>1, <2>7, <2>8, UpTo
  <2> QED BY <2>4, <2>9 DEF G
<1> QED BY <1>2, <1>3, <1>4 DEF Sums

LEMMA TotalUnfolds ==
  ASSUME NEW n \in Nat, NEW f, \A i \in 1 .. n : f[i] \in Int
  PROVE  /\ Total(f, 0) = 0
         /\ \A m \in 0 .. n : Total(f, m) \in Int
         /\ \A m \in 1 .. n : Total(f, m) = Total(f, m - 1) + f[m]
<1>1. PICK h : Sums(f, n, h)
  BY TotalSteps
<1>2. 0 \in 0 .. n /\ \A m \in 1 .. n : m \in 0 .. n /\ m - 1 \in 0 .. n
  OBVIOUS
<1> QED BY <1>1, <1>2 DEF Sums

LEMMA TotalType ==
  ASSUME NEW n \in Nat, NEW f, \A i \in 1 .. n : f[i] \in Int
  PROVE  Total(f, n) \in Int
<1>1. n \in 0 .. n
  OBVIOUS
<1> QED BY <1>1, TotalUnfolds

LEMMA TotalAdds ==
  ASSUME NEW n \in Nat, NEW f, NEW g, NEW h,
         \A i \in 1 .. n : f[i] \in Int /\ g[i] \in Int /\ h[i] \in Int
  PROVE  /\ (\A i \in 1 .. n : f[i] + g[i] <= h[i]) => Total(f, n) + Total(g, n) <= Total(h, n)
         /\ (\A i \in 1 .. n : f[i] + g[i] = h[i]) => Total(f, n) + Total(g, n) = Total(h, n)
<1> DEFINE T(m) == /\ (\A i \in 1 .. m : f[i] + g[i] <= h[i]) => Total(f, m) + Total(g, m) <= Total(h, m)
                   /\ (\A i \in 1 .. m : f[i] + g[i] = h[i]) => Total(f, m) + Total(g, m) = Total(h, m)
           G == {m \in 0 .. n : T(m)}
<1>1. 0 \in G
  <2>1. Total(f, 0) = 0 /\ Total(g, 0) = 0 /\ Total(h, 0) = 0
    BY TotalUnfolds
  <2> QED BY <2>1
<1>2. ASSUME NEW m \in 1 .. n, m - 1 \in G PROVE m \in G
  <2>1. T(m - 1)
    BY <1>2
  <2>2. /\ Total(f, m) = Total(f, m - 1) + f[m] /\ Total(f, m - 1) \in Int
        /\ Total(g, m) = Total(g, m - 1) + g[m] /\ Total(g, m - 1) \in Int
        /\ Total(h, m) = Total(h, m - 1) + h[m] /\ Total(h, m - 1) \in Int
    <3>1. m - 1 \in 0 .. n
      OBVIOUS
    <3> QED BY <3>1, TotalUnfolds
  <2>3. \A i \in 1 .. m - 1 : i \in 1 .. m
    OBVIOUS
  <2>4. f[m] \in Int /\ g[m] \in Int /\ h[m] \in Int /\ m \in 1 .. m
    OBVIOUS
  <2> QED BY <2>1, <2>2, <2>3, <2>4
<1> HIDE DEF G
<1>3. \A m \in 0 .. n : m \in G
  BY <1>1, <1>2, UpTo
<1>4. n \in 0 .. n
  OBVIOUS
<1> QED BY <1>3, <1>4 DEF G

LEMMA TotalCompares ==
  ASSUME NEW n \in Nat, NEW f, NEW g, \A i \in 1 .. n : f[i] \in Int /\ g[i] \in Int
  PROVE  /\ (\A i \in 1 .. n : f[i] <= g[i]) => Total(f, n) <= Total(g, n)
         /\ (\A i \in 1 .. n : f[i] = g[i]) => Total(f, n) = Total(g, n)
<1> DEFINE T(m) == /\ (\A i \in 1 .. m : f[i] <= g[i]) => Total(f, m) <= Total(g, m)
                   /\ (\A i \in 1 .. m : f[i] = g[i]) => Total(f, m) = Total(g, m)
           G == {m \in 0 .. n : T(m)}
<1>1. 0 \in G
  <2>1. Total(f, 0) = 0 /\ Total(g, 0) = 0
    BY TotalUnfolds
  <2> QED BY <2>1
<1>2. ASSUME NEW m \in 1 .. n, m - 1 \in G PROVE m \in G
  <2>1. T(m - 1)
    BY <1>2
  <2>2. /\ Total(f, m) = Total(f, m - 1) + f[m] /\ Total(f, m - 1) \in Int
        /\ Total(g, m) = Total(g, m - 1) + g[m] /\ Total(g, m - 1) \in Int
    <3>1. m - 1 \in 0 .. n
      OBVIOUS
    <3> QED BY <3>1, TotalUnfolds
  <2>3. \A i \in 1 .. m - 1 : i \in 1 .. m
    OBVIOUS
  <2>4. f[m] \in Int /\ g[m] \in Int /\ m \in 1 .. m
    OBVIOUS
  <2> QED BY <2>1, <2>2, <2>3, <2>4
<1> HIDE DEF G
<1>3. \A m \in 0 .. n : m \in G
  BY <1>1, <1>2, UpTo
<1>4. n \in 0 .. n
  OBVIOUS
<1> QED BY <1>3, <1>4 DEF G

\* What is zero after the first m adds nothing.
LEMMA TotalEnds ==
  ASSUME NEW n \in Nat, NEW f, \A i \in 1 .. n : f[i] \in Int,
         NEW m \in 0 .. n, \A i \in m + 1 .. n : f[i] = 0
  PROVE  Total(f, n) = Total(f, m)
<1> DEFINE G == {k \in 0 .. n : k >= m => Total(f, k) = Total(f, m)}
<1>1. 0 \in G
  OBVIOUS
<1>2. ASSUME NEW k \in 1 .. n, k - 1 \in G PROVE k \in G
  <2>1. Total(f, k) = Total(f, k - 1) + f[k] /\ Total(f, m) \in Int
    BY TotalUnfolds
  <2>2. CASE k > m
    <3>1. k \in m + 1 .. n /\ k - 1 >= m
      BY <2>2
    <3> QED BY <1>2, <2>1, <3>1
  <2>3. CASE k <= m
    <3>1. k \in 0 .. n /\ (k >= m => k = m)
      BY <2>3
    <3> QED BY <3>1
  <2> QED BY <2>2, <2>3
<1> HIDE DEF G
<1>3. \A k \in 0 .. n : k \in G
  BY <1>1, <1>2, UpTo
<1>4. n \in 0 .. n /\ n >= m
  OBVIOUS
<1> QED BY <1>3, <1>4 DEF G

\* A sum without one of its terms.
LEMMA TotalWithout ==
  ASSUME NEW n \in Nat, NEW f, \A i \in 1 .. n : f[i] \in Int, NEW k \in 1 .. n,
         NEW g, \A i \in 1 .. n - 1 : g[i] = IF i < k THEN f[i] ELSE f[i + 1]
  PROVE  Total(f, n) = Total(g, n - 1) + f[k]
<1>0. \A i \in 1 .. n - 1 : g[i] \in Int
  <2>1. \A i \in 1 .. n - 1 : i \in 1 .. n /\ i + 1 \in 1 .. n
    OBVIOUS
  <2> QED BY <2>1
<1>00. n - 1 \in Nat
  OBVIOUS
<1> DEFINE G == {m \in 0 .. n : /\ m < k => Total(f, m) = Total(g, m)
                                /\ m >= k => Total(f, m) = Total(g, m - 1) + f[k]}
<1>1. 0 \in G
  <2>1. Total(f, 0) = 0 /\ Total(g, 0) = 0
    BY <1>0, <1>00, TotalUnfolds
  <2> QED BY <2>1
<1>2. ASSUME NEW m \in 1 .. n, m - 1 \in G PROVE m \in G
  <2>1. Total(f, m) = Total(f, m - 1) + f[m] /\ Total(f, m - 1) \in Int /\ f[m] \in Int /\ f[k] \in Int
    <3>1. m - 1 \in 0 .. n
      OBVIOUS
    <3> QED BY <3>1, TotalUnfolds
  <2>2. CASE m < k
    <3>1. m \in 1 .. n - 1 /\ m - 1 < k
      BY <2>2
    <3>2. Total(g, m) = Total(g, m - 1) + g[m] /\ g[m] = f[m]
      BY <1>0, <1>00, <2>2, <3>1, TotalUnfolds
    <3>3. Total(f, m - 1) = Total(g, m - 1)
      BY <1>2, <3>1
    <3> QED BY <2>1, <2>2, <3>2, <3>3
  <2>3. CASE m = k
    <3>1. m - 1 < k
      BY <2>3
    <3>2. Total(f, m - 1) = Total(g, m - 1)
      BY <1>2, <3>1
    <3> QED BY <2>1, <2>3, <3>2
  <2>4. CASE m > k
    <3>1. m - 1 \in 1 .. n - 1 /\ m - 1 >= k /\ ~(m - 1 < k) /\ (m - 1) + 1 = m
      BY <2>4
    <3>2. Total(g, m - 1) = Total(g, (m - 1) - 1) + g[m - 1] /\ g[m - 1] = f[m]
      BY <1>0, <1>00, <3>1, TotalUnfolds
    <3>3. Total(f, m - 1) = Total(g, (m - 1) - 1) + f[k]
      BY <1>2, <3>1
    <3>4. Total(g, (m - 1) - 1) \in Int
      <4>1. (m - 1) - 1 \in 0 .. n - 1
        BY <3>1
      <4> QED BY <1>0, <1>00, <4>1, TotalUnfolds
    <3> QED BY <2>1, <2>4, <3>2, <3>3, <3>4
  <2> QED BY <2>2, <2>3, <2>4
<1> HIDE DEF G
<1>3. n \in 0 .. n /\ n >= k
  OBVIOUS
<1>4. n \in G
  BY <1>1, <1>2, <1>3, UpTo
<1> QED BY <1>3, <1>4 DEF G

\* o and p list elements of D, each once, o some of those of p, and f is zero at
\* the others.
Lists(f, D, n, o, k, p) ==
  /\ o \in [1 .. n -> D] /\ \A i, j \in 1 .. n : o[i] = o[j] => i = j
  /\ p \in [1 .. k -> D] /\ \A i, j \in 1 .. k : p[i] = p[j] => i = j
  /\ \A i \in 1 .. n : \E j \in 1 .. k : p[j] = o[i]
  /\ \A j \in 1 .. k : (\A i \in 1 .. n : o[i] # p[j]) => f[p[j]] = 0

Listed(f, n, o) == Total([i \in 1 .. n |-> f[o[i]]], n)

LEMMA ListedSame ==
  ASSUME NEW D, NEW f \in [D -> Int], NEW n \in Nat, NEW k \in Nat, NEW o, NEW p, Lists(f, D, n, o, k, p)
  PROVE  Listed(f, n, o) = Listed(f, k, p)
<1> DEFINE Same(m) == \A l \in Nat : \A s, t : Lists(f, D, m, s, l, t) => Listed(f, m, s) = Listed(f, l, t)
           G == {m \in 0 .. n : Same(m)}
<1>1. Same(0)
  <2> SUFFICES ASSUME NEW l \in Nat, NEW s, NEW t, Lists(f, D, 0, s, l, t)
               PROVE  Listed(f, 0, s) = Listed(f, l, t)
    OBVIOUS
  <2> DEFINE a == [i \in 1 .. 0 |-> f[s[i]]]
             b == [i \in 1 .. l |-> f[t[i]]]
  <2>1. \A i \in 1 .. l : b[i] = 0
    BY DEF Lists
  <2>2. \A i \in 1 .. l : b[i] \in Int
    BY <2>1
  <2>3. Listed(f, 0, s) = Total(a, 0) /\ Listed(f, l, t) = Total(b, l)
    BY DEF Listed
  <2> HIDE DEF a, b
  <2>4. Total(a, 0) = 0
    BY TotalUnfolds
  <2>5. 0 \in 0 .. l /\ \A i \in 0 + 1 .. l : b[i] = 0
    BY <2>1
  <2>6. Total(b, l) = Total(b, 0)
    BY <2>2, <2>5, TotalEnds
  <2>7. Total(b, 0) = 0
    BY <2>2, TotalUnfolds
  <2> QED BY <2>3, <2>4, <2>6, <2>7
<1>2. ASSUME NEW m \in 1 .. n, Same(m - 1) PROVE Same(m)
  <2> SUFFICES ASSUME NEW l \in Nat, NEW s, NEW t, Lists(f, D, m, s, l, t)
               PROVE  Listed(f, m, s) = Listed(f, l, t)
    OBVIOUS
  <2>1. m \in 1 .. m /\ m \in Nat /\ m - 1 \in Nat
    OBVIOUS
  <2>2. PICK j \in 1 .. l : t[j] = s[m]
    BY <2>1 DEF Lists
  <2> DEFINE a == [i \in 1 .. m |-> f[s[i]]]
             b == [i \in 1 .. l |-> f[t[i]]]
             u == [i \in 1 .. m - 1 |-> s[i]]
             v == [i \in 1 .. l - 1 |-> IF i < j THEN t[i] ELSE t[i + 1]]
             c == [i \in 1 .. m - 1 |-> f[u[i]]]
             d == [i \in 1 .. l - 1 |-> f[v[i]]]
  <2>3. /\ \A i \in 1 .. m - 1 : i \in 1 .. m /\ i # m
        /\ \A i \in 1 .. l - 1 : i \in 1 .. l /\ i + 1 \in 1 .. l
        /\ l - 1 \in Nat
    OBVIOUS
  <2>4. /\ \A i \in 1 .. m : s[i] \in D /\ a[i] = f[s[i]] /\ a[i] \in Int
        /\ \A i \in 1 .. l : t[i] \in D /\ b[i] = f[t[i]] /\ b[i] \in Int
    BY DEF Lists
  <2>5. /\ \A i \in 1 .. m - 1 : u[i] = s[i] /\ c[i] = a[i]
        /\ \A i \in 1 .. l - 1 : v[i] = (IF i < j THEN t[i] ELSE t[i + 1])
                                 /\ d[i] = (IF i < j THEN b[i] ELSE b[i + 1])
    BY <2>3, <2>4
  <2>6. /\ Listed(f, m, s) = Total(a, m) /\ Listed(f, l, t) = Total(b, l)
        /\ Listed(f, m - 1, u) = Total(c, m - 1) /\ Listed(f, l - 1, v) = Total(d, l - 1)
    BY DEF Listed
  <2>7. Lists(f, D, m - 1, u, l - 1, v)
    <3>1. u \in [1 .. m - 1 -> D] /\ \A i, h \in 1 .. m - 1 : u[i] = u[h] => i = h
      BY <2>3, <2>4 DEF Lists
    <3>2. v \in [1 .. l - 1 -> D]
      BY <2>3, <2>4
    <3> HIDE DEF u, v
    <3> DEFINE Old(i) == IF i < j THEN i ELSE i + 1
    <3>3. \A i \in 1 .. l - 1 : Old(i) \in 1 .. l /\ Old(i) # j /\ v[i] = t[Old(i)]
      <4>1. \A i \in 1 .. l - 1 : Old(i) \in 1 .. l /\ Old(i) # j
        OBVIOUS
      <4>2. \A i \in 1 .. l - 1 : v[i] = t[Old(i)]
        <5>1. \A i \in 1 .. l - 1 : v[i] = (IF i < j THEN t[i] ELSE t[i + 1])
          BY <2>5
        <5> QED BY <5>1
      <4> QED BY <4>1, <4>2
    <3>4. \A i, h \in 1 .. l - 1 : Old(i) = Old(h) => i = h
      OBVIOUS
    <3>5. \A i \in 1 .. l : i # j => \E h \in 1 .. l - 1 : Old(h) = i
      <4> SUFFICES ASSUME NEW i \in 1 .. l, i # j PROVE \E h \in 1 .. l - 1 : Old(h) = i
        OBVIOUS
      <4>1. CASE i < j
        <5>1. i \in 1 .. l - 1 /\ Old(i) = i
          BY <4>1
        <5> QED BY <5>1
      <4>2. CASE i > j
        <5>1. i - 1 \in 1 .. l - 1 /\ Old(i - 1) = i
          BY <4>2
        <5> QED BY <5>1
      <4> QED BY <4>1, <4>2
    <3> HIDE DEF Old
    <3>6. \A i, h \in 1 .. l - 1 : v[i] = v[h] => i = h
      BY <3>3, <3>4 DEF Lists
    <3>7. ASSUME NEW i \in 1 .. m - 1 PROVE \E h \in 1 .. l - 1 : v[h] = u[i]
      <4>1. PICK x \in 1 .. l : t[x] = s[i]
        BY <2>3 DEF Lists
      <4>2. s[i] # s[m]
        BY <2>1, <2>3 DEF Lists
      <4>3. x # j
        BY <2>2, <4>1, <4>2
      <4>4. PICK h \in 1 .. l - 1 : Old(h) = x
        BY <3>5, <4>3
      <4> QED BY <2>5, <3>3, <4>1, <4>4
    <3>8. ASSUME NEW i \in 1 .. l - 1, \A h \in 1 .. m - 1 : u[h] # v[i] PROVE f[v[i]] = 0
      <4>1. v[i] = t[Old(i)] /\ Old(i) \in 1 .. l /\ Old(i) # j
        BY <3>3
      <4>2. t[Old(i)] # s[m]
        BY <2>2, <4>1 DEF Lists
      <4>3. \A h \in 1 .. m : s[h] # t[Old(i)]
        <5>1. \A h \in 1 .. m : h = m \/ h \in 1 .. m - 1
          OBVIOUS
        <5> QED BY <2>5, <3>8, <4>1, <4>2, <5>1
      <4> QED BY <4>1, <4>3 DEF Lists
    <3> QED BY <3>1, <3>2, <3>6, <3>7, <3>8 DEF Lists
  <2> HIDE DEF a, b, u, v, c, d
  <2>8. Total(c, m - 1) = Total(d, l - 1)
    BY <1>2, <2>3, <2>6, <2>7
  <2>9. Total(b, l) = Total(d, l - 1) + b[j]
    <3>1. \A i \in 1 .. l : b[i] \in Int
      BY <2>4
    <3>2. \A i \in 1 .. l - 1 : d[i] = IF i < j THEN b[i] ELSE b[i + 1]
      BY <2>5
    <3> QED BY <3>1, <3>2, TotalWithout
  <2>10. Total(a, m) = Total(a, m - 1) + a[m]
    <3>1. \A i \in 1 .. m : a[i] \in Int
      BY <2>4
    <3> QED BY <2>1, <3>1, TotalUnfolds
  <2>11. Total(a, m - 1) = Total(c, m - 1)
    <3>1. \A i \in 1 .. m - 1 : a[i] \in Int /\ c[i] \in Int /\ a[i] = c[i]
      BY <2>3, <2>4, <2>5
    <3> QED BY <2>1, <3>1, TotalCompares
  <2>12. a[m] = b[j]
    BY <2>1, <2>2, <2>4
  <2> QED BY <2>6, <2>8, <2>9, <2>10, <2>11, <2>12
<1>3. n \in G
  <2> HIDE DEF Same
  <2>1. 0 \in G /\ n \in 0 .. n
    BY <1>1
  <2>2. \A i \in 1 .. n : i - 1 \in G => i \in G
    BY <1>2
  <2> HIDE DEF G
  <2> QED BY <2>1, <2>2, UpTo
<1> QED BY <1>3

\* SumOf adds in one order of the domain for all functions.
Orders(D, n, o) ==
  /\ n \in Nat /\ o \in [1 .. n -> D]
  /\ \A i, j \in 1 .. n : o[i] = o[j] => i = j
  /\ \A x \in D : \E i \in 1 .. n : o[i] = x
  /\ \A f : DOMAIN f = D => SumOf(f) = Listed(f, n, o)

LEMMA SumOrder ==
  ASSUME NEW D, IsFiniteSet(D)
  PROVE  \E n, o : Orders(D, n, o)
<1> DEFINE n == Cardinality(D)
           Order(o) == \A i, j \in 1 .. n : o[i] = o[j] => i = j
           order == CHOOSE o \in [1 .. n -> D] : Order(o)
<1>1. n \in Nat /\ ExistsBijection(1 .. n, D)
  BY FS_CardinalityType
<1>2. ASSUME NEW f, DOMAIN f = D PROVE SumOf(f) = Listed(f, n, order)
  BY <1>2 DEF SumOf, Listed
<1>3. \E o \in [1 .. n -> D] : Order(o)
  BY <1>1 DEF ExistsBijection, Bijection, Injection, IsInjective
<1>4. IsFiniteSet(1 .. n) /\ Cardinality(1 .. n) = n
  <2> HIDE DEF n
  <2> QED BY <1>1, FS_Interval
<1> HIDE DEF Order
<1>5. order \in [1 .. n -> D] /\ Order(order)
  BY <1>3
<1> HIDE DEF order
<1>6. order \in Injection(1 .. n, D)
  BY <1>5 DEF Order, Injection, IsInjective
<1>7. order \in Surjection(1 .. n, D)
  <2>1. Cardinality(1 .. n) = Cardinality(D)
    BY <1>4
  <2> HIDE DEF n
  <2> QED BY <1>4, <1>6, <2>1, FS_Injection
<1>8. \A x \in D : \E i \in 1 .. n : order[i] = x
  <2> HIDE DEF n
  <2> QED BY <1>7 DEF Surjection
<1> HIDE DEF n
<1> QED BY <1>1, <1>2, <1>5, <1>8 DEF Order, Orders

LEMMA SumOfType ==
  ASSUME NEW f, IsFiniteSet(DOMAIN f), \A x \in DOMAIN f : f[x] \in Int
  PROVE  SumOf(f) \in Int
<1>1. PICK n, o : Orders(DOMAIN f, n, o)
  BY SumOrder
<1>2. n \in Nat /\ o \in [1 .. n -> DOMAIN f] /\ SumOf(f) = Listed(f, n, o)
  BY <1>1 DEF Orders
<1> DEFINE g == [i \in 1 .. n |-> f[o[i]]]
<1>3. \A i \in 1 .. n : g[i] \in Int
  BY <1>2
<1>4. SumOf(f) = Total(g, n)
  BY <1>2 DEF Listed
<1> HIDE DEF g
<1> QED BY <1>2, <1>3, <1>4, TotalType

LEMMA SumsAdd ==
  ASSUME NEW D, IsFiniteSet(D), NEW f \in [D -> Int], NEW g \in [D -> Int], NEW h \in [D -> Int]
  PROVE  /\ (\A x \in D : f[x] + g[x] <= h[x]) => SumOf(f) + SumOf(g) <= SumOf(h)
         /\ (\A x \in D : f[x] + g[x] = h[x]) => SumOf(f) + SumOf(g) = SumOf(h)
<1>1. PICK n, o : Orders(D, n, o)
  BY SumOrder
<1>2. n \in Nat /\ o \in [1 .. n -> D] /\ \A e : DOMAIN e = D => SumOf(e) = Listed(e, n, o)
  BY <1>1 DEF Orders
<1> DEFINE a == [i \in 1 .. n |-> f[o[i]]]
           b == [i \in 1 .. n |-> g[o[i]]]
           c == [i \in 1 .. n |-> h[o[i]]]
<1>3. \A i \in 1 .. n : a[i] \in Int /\ b[i] \in Int /\ c[i] \in Int
  BY <1>2
<1>4. \A i \in 1 .. n : o[i] \in D /\ a[i] = f[o[i]] /\ b[i] = g[o[i]] /\ c[i] = h[o[i]]
  BY <1>2
<1>5. SumOf(f) = Total(a, n) /\ SumOf(g) = Total(b, n) /\ SumOf(h) = Total(c, n)
  BY <1>2 DEF Listed
<1> HIDE DEF a, b, c
<1>6. n \in Nat
  BY <1>2
<1>7. ASSUME \A x \in D : f[x] + g[x] <= h[x] PROVE SumOf(f) + SumOf(g) <= SumOf(h)
  <2>1. \A i \in 1 .. n : a[i] + b[i] <= c[i]
    BY <1>4, <1>7
  <2>2. Total(a, n) + Total(b, n) <= Total(c, n)
    BY <1>3, <1>6, <2>1, TotalAdds
  <2> QED BY <1>5, <2>2
<1>8. ASSUME \A x \in D : f[x] + g[x] = h[x] PROVE SumOf(f) + SumOf(g) = SumOf(h)
  <2>1. \A i \in 1 .. n : a[i] + b[i] = c[i]
    BY <1>4, <1>8
  <2>2. Total(a, n) + Total(b, n) = Total(c, n)
    BY <1>3, <1>6, <2>1, TotalAdds
  <2> QED BY <1>5, <2>2
<1> QED BY <1>7, <1>8

LEMMA SumsCompare ==
  ASSUME NEW D, IsFiniteSet(D), NEW f \in [D -> Int], NEW g \in [D -> Int],
         \A x \in D : f[x] <= g[x]
  PROVE  SumOf(f) <= SumOf(g)
<1>1. PICK n, o : Orders(D, n, o)
  BY SumOrder
<1>2. n \in Nat /\ o \in [1 .. n -> D] /\ \A e : DOMAIN e = D => SumOf(e) = Listed(e, n, o)
  BY <1>1 DEF Orders
<1> DEFINE a == [i \in 1 .. n |-> f[o[i]]]
           b == [i \in 1 .. n |-> g[o[i]]]
<1>3. \A i \in 1 .. n : a[i] \in Int /\ b[i] \in Int
  BY <1>2
<1>4. \A i \in 1 .. n : a[i] <= b[i]
  BY <1>2
<1>5. SumOf(f) = Total(a, n) /\ SumOf(g) = Total(b, n)
  BY <1>2 DEF Listed
<1> HIDE DEF a, b
<1> QED BY <1>2, <1>3, <1>4, <1>5, TotalCompares

\* Zeros add nothing, and the order of a sum does not matter.
LEMMA SumOfPart ==
  ASSUME NEW D, IsFiniteSet(D), NEW E \in SUBSET D, NEW f \in [E -> Int], NEW g \in [D -> Int],
         \A x \in D : g[x] = IF x \in E THEN f[x] ELSE 0
  PROVE  SumOf(f) = SumOf(g)
<1>0. IsFiniteSet(E)
  BY FS_Subset
<1>1. PICK n, o : Orders(D, n, o)
  BY SumOrder
<1>2. /\ n \in Nat /\ o \in [1 .. n -> D]
      /\ \A i, j \in 1 .. n : o[i] = o[j] => i = j
      /\ \A x \in D : \E i \in 1 .. n : o[i] = x
      /\ \A e : DOMAIN e = D => SumOf(e) = Listed(e, n, o)
  BY <1>1 DEF Orders
<1>3. PICK m, p : Orders(E, m, p)
  BY <1>0, SumOrder
<1>4. /\ m \in Nat /\ p \in [1 .. m -> E]
      /\ \A i, j \in 1 .. m : p[i] = p[j] => i = j
      /\ \A x \in E : \E i \in 1 .. m : p[i] = x
      /\ \A e : DOMAIN e = E => SumOf(e) = Listed(e, m, p)
  BY <1>3 DEF Orders
<1>5. Lists(g, D, m, p, n, o)
  <2>1. p \in [1 .. m -> D]
    BY <1>4
  <2>2. \A j \in 1 .. n : (\A i \in 1 .. m : p[i] # o[j]) => g[o[j]] = 0
    <3>1. \A j \in 1 .. n : o[j] \in D /\ ((\A i \in 1 .. m : p[i] # o[j]) => o[j] \notin E)
      BY <1>2, <1>4
    <3> QED BY <3>1
  <2>3. \A i \in 1 .. m : \E j \in 1 .. n : o[j] = p[i]
    BY <1>2, <2>1
  <2> QED BY <1>2, <1>4, <2>1, <2>2, <2>3 DEF Lists
<1>6. Listed(g, m, p) = Listed(g, n, o)
  BY <1>2, <1>4, <1>5, ListedSame
<1>7. Listed(g, m, p) = Listed(f, m, p)
  <2>1. [i \in 1 .. m |-> g[p[i]]] = [i \in 1 .. m |-> f[p[i]]]
    BY <1>4
  <2> QED BY <2>1 DEF Listed
<1>8. SumOf(f) = Listed(f, m, p) /\ SumOf(g) = Listed(g, n, o)
  BY <1>2, <1>4
<1> QED BY <1>6, <1>7, <1>8

\* A sum of one value.
LEMMA SumOfOne ==
  ASSUME NEW c, NEW f, DOMAIN f = {c}, f[c] \in Int
  PROVE  SumOf(f) = f[c]
<1>1. IsFiniteSet({c})
  BY FS_Singleton
<1>2. PICK n, o : Orders({c}, n, o)
  BY <1>1, SumOrder
<1>3. /\ n \in Nat /\ (\A i \in 1 .. n : o[i] = c) /\ (\A i, j \in 1 .. n : o[i] = o[j] => i = j)
      /\ \E i \in 1 .. n : o[i] = c
  BY <1>2 DEF Orders
<1>4. n = 1
  <2>1. n >= 1
    BY <1>3
  <2>2. n >= 2 => 1 \in 1 .. n /\ 2 \in 1 .. n
    BY <1>3
  <2> QED BY <1>3, <2>1, <2>2
<1>5. SumOf(f) = Listed(f, n, o)
  BY <1>2 DEF Orders
<1> DEFINE g == [i \in 1 .. 1 |-> f[o[i]]]
<1>6. SumOf(f) = Total(g, 1)
  BY <1>4, <1>5 DEF Listed
<1>7. g[1] = f[c] /\ \A i \in 1 .. 1 : g[i] \in Int
  BY <1>3, <1>4
<1> HIDE DEF g
<1>8. 1 \in Nat /\ 1 \in 1 .. 1 /\ 1 - 1 = 0
  OBVIOUS
<1>9. Total(g, 1) = Total(g, 0) + g[1] /\ Total(g, 0) = 0
  <2>1. Total(g, 0) = 0
    BY <1>7, <1>8, TotalUnfolds
  <2>2. Total(g, 1) = Total(g, 1 - 1) + g[1]
    BY <1>7, <1>8, TotalUnfolds
  <2> QED BY <1>8, <2>1, <2>2
<1> QED BY <1>6, <1>7, <1>9

----------------------------------------------------------------------------
(* The invariant. *)

Item == [bundle : Bundles, left : Nat, eto : Int, over : Contacts]

QueuesInShape == queue \in [Neighbors -> Seq(Item)]

\* No more is left of a contact than it had when it was added.
WithinVolume == \A c \in Contacts, p \in Priorities : mtv[c][p] <= Volume(c)

VolumeInv == TypeOK /\ QueuesInShape /\ WithinVolume /\ VolumesOrdered /\ OverbookingBounded

LEMMA ContactFacts ==
  ASSUME NEW c \in Contacts
  PROVE  /\ c.start \in Nat /\ c.end \in Nat /\ c.owlt \in Nat /\ c.rate \in Nat /\ c.rate > 0
         /\ c.start <= c.end /\ 0 < c.end /\ Volume(c) \in Nat
<1>1. /\ c.start \in Nat /\ c.end \in Nat /\ c.owlt \in Nat /\ c.rate \in Nat /\ c.rate > 0
      /\ c.start <= c.end /\ 0 < c.end
  BY VolumeAssumption
<1>2. c.end - c.start \in Nat
  BY <1>1
<1>3. \A x, y \in Nat : x * y \in Nat
  OBVIOUS
<1> QED BY <1>1, <1>2, <1>3 DEF Volume

LEMMA BundleFacts ==
  ASSUME NEW b \in Bundles
  PROVE  b.priority \in Priorities /\ b.evc \in 1 .. MaxEvc /\ b.evc \in Nat /\ MaxEvc \in Nat
BY VolumeAssumption

LEMMA NeighborFacts ==
  /\ IsFiniteSet(Neighbors) /\ Cardinality(Neighbors) \in Nat
  /\ \A n : IsFiniteSet(ToNeighbor(n)) /\ ToNeighbor(n) \subseteq Contacts
<1> DEFINE Local == {c \in Contacts : c.from = LocalNode}
           f == [c \in Local |-> c.to]
<1>1. IsFiniteSet(Contacts)
  BY VolumeAssumption
<1>2. IsFiniteSet(Local)
  BY <1>1, FS_Subset
<1>3. f \in Surjection(Local, Neighbors)
  BY DEF Surjection, Neighbors, Range
<1>4. IsFiniteSet(Neighbors)
  BY <1>2, <1>3, FS_Surjection
<1>5. \A n : ToNeighbor(n) \subseteq Contacts
  BY DEF ToNeighbor
<1> QED BY <1>1, <1>4, <1>5, FS_Subset, FS_CardinalityType

\* A computed route begins at the local node and does not come back to it.
LEMMA RouteFacts ==
  ASSUME TypeOK, NEW r \in Routes
  PROVE  /\ Len(r) \in Nat \ {0} /\ DOMAIN r = 1 .. Len(r) /\ 1 \in 1 .. Len(r)
         /\ \A k \in 1 .. Len(r) : r[k] \in Contacts /\ (r[k].from = LocalNode <=> k = 1)
         /\ Neighbor(r) \in Neighbors
         /\ Hops(r) \subseteq Contacts
<1>1. /\ r \in Seq(Contacts) /\ r # <<>> /\ r[1].from = LocalNode
      /\ \A i \in 2 .. Len(r) : r[i].from # LocalNode
  BY VolumeAssumption DEF TypeOK
<1>2. Len(r) \in Nat \ {0} /\ DOMAIN r = 1 .. Len(r) /\ 1 \in 1 .. Len(r)
  BY <1>1
<1>3. \A k \in 1 .. Len(r) : r[k] \in Contacts /\ (k = 1 \/ k \in 2 .. Len(r))
  BY <1>1, <1>2
<1>4. \A k \in 1 .. Len(r) : r[k].from = LocalNode <=> k = 1
  <2>1. \A k \in 2 .. Len(r) : k # 1
    BY <1>2
  <2> QED BY <1>1, <1>3, <2>1
<1> QED BY <1>1, <1>2, <1>3, <1>4 DEF Neighbor, Neighbors, Hops

----------------------------------------------------------------------------
(* Phase two: the numbers are integers. *)

LEMMA Quotients ==
  ASSUME NEW x \in Int, NEW y \in Nat, y > 0
  PROVE  x \div y \in Int /\ Quotient(x, y) \in Int /\ (x >= 0 => x \div y >= 0 /\ Quotient(x, y) >= 0)
<1>1. /\ \A z \in Int : z \div y \in Int
      /\ \A z \in Int : z >= 0 => z \div y >= 0
  OBVIOUS
<1> QED BY <1>1 DEF Quotient

LEMMA RateType ==
  ASSUME TypeOK, NEW c \in Contacts
  PROVE  rate[c] \in Nat /\ rate[c] > 0 /\ now \in Nat /\ \A p \in Priorities : mtv[c][p] \in Int
BY VolumeAssumption DEF TypeOK

LEMMA ResidualType ==
  ASSUME TypeOK, QueuesInShape, NEW c \in Contacts, c.to \in Neighbors, NEW p \in Priorities
  PROVE  Residual(c, p) \in Nat
<1> DEFINE n == c.to
           part == [k \in DOMAIN queue[n] |-> IF queue[n][k].bundle.priority >= p THEN queue[n][k].left ELSE 0]
           D == {d \in ToNeighbor(n) : d.start < c.start /\ d.end > now}
           f == [d \in D |-> ApplicableVolume(d)]
<1>1. queue[n] \in Seq(Item)
  BY DEF QueuesInShape
<1>2. Backlog(n, p) \in Int
  <2>1. Len(queue[n]) \in Nat /\ DOMAIN queue[n] = 1 .. Len(queue[n])
    BY <1>1
  <2>2. \A k \in 1 .. Len(queue[n]) : queue[n][k].left \in Nat
    <3>1. \A q \in Seq(Item) : \A k \in 1 .. Len(q) : q[k] \in Item
      OBVIOUS
    <3>2. \A x \in Item : x.left \in Nat
      BY DEF Item
    <3> HIDE DEF n, part
    <3> QED BY <1>1, <3>1, <3>2
  <2>3. \A k \in 1 .. Len(queue[n]) : part[k] \in Int
    BY <2>1, <2>2
  <2>4. Backlog(n, p) = Total(part, Len(queue[n]))
    BY DEF Backlog
  <2> HIDE DEF part, n
  <2> QED BY <2>1, <2>3, <2>4, TotalType
<1>3. Relief(n, c) \in Int
  <2>1. IsFiniteSet(D) /\ D \subseteq Contacts
    BY NeighborFacts, FS_Subset
  <2>2. ASSUME NEW d \in D PROVE f[d] \in Int
    <3>1. rate[d] \in Nat /\ now \in Nat /\ d.end \in Nat /\ d.start \in Nat
      BY <2>1, ContactFacts, RateType
    <3>2. d.end - Later(now, d.start) \in Int
      BY <3>1 DEF Later
    <3>3. rate[d] * (d.end - Later(now, d.start)) \in Int
      BY <3>1, <3>2
    <3> QED BY <3>3 DEF ApplicableVolume
  <2>3. Relief(n, c) = SumOf(f) /\ DOMAIN f = D
    BY DEF Relief
  <2> HIDE DEF f, D, n
  <2> QED BY <2>1, <2>2, <2>3, SumOfType
<1> HIDE DEF n
<1>4. Residual(c, p) = Later(0, Backlog(n, p) - Relief(n, c))
  BY DEF Residual, n
<1> QED BY <1>2, <1>3, <1>4 DEF Later

\* A bundle does not leave before its first contact begins.
LEMMA EtoType ==
  ASSUME TypeOK, QueuesInShape, NEW r \in Routes, NEW p \in Priorities
  PROVE  Eto(r, p) \in Int /\ Eto(r, p) >= r[1].start
<1>1. r[1] \in Contacts /\ r[1].to \in Neighbors
  BY RouteFacts DEF Neighbor
<1>2. Residual(r[1], p) \div rate[r[1]] \in Int /\ Residual(r[1], p) \div rate[r[1]] >= 0
  BY <1>1, ResidualType, RateType, Quotients
<1>3. now \in Nat /\ r[1].start \in Nat
  BY <1>1, RateType, ContactFacts
<1> QED BY <1>2, <1>3 DEF Eto, Later

Hop == [first : Int, last : Int, arrives : Int]

LEMMA SentType ==
  ASSUME TypeOK, NEW first \in Int, NEW c \in Contacts, NEW b \in Bundles
  PROVE  Sent(first, c, b) \in Hop /\ Sent(first, c, b).first = first
<1>1. b.evc \in Nat /\ rate[c] \in Nat /\ rate[c] > 0 /\ c.owlt \in Nat
  BY BundleFacts, RateType, ContactFacts
<1>2. b.evc \div rate[c] \in Int
  BY <1>1, Quotients
<1> DEFINE last == first + b.evc \div rate[c]
<1>3. last \in Int /\ last + c.owlt \in Int
  BY <1>1, <1>2
<1>4. Sent(first, c, b) = [first |-> first, last |-> last, arrives |-> last + c.owlt]
  BY DEF Sent
<1> HIDE DEF last
<1> QED BY <1>3, <1>4 DEF Hop

LEMMA QueueDelayType ==
  ASSUME TypeOK, NEW c \in Contacts, NEW p \in Priorities
  PROVE  /\ QueueDelay(c, p) \in Int
         /\ rate[c] >= c.rate /\ mtv[c][p] <= Volume(c) => QueueDelay(c, p) >= 0
<1>1. /\ rate[c] \in Nat /\ rate[c] > 0 /\ mtv[c][p] \in Int
      /\ c.end - c.start \in Nat /\ c.rate \in Nat
  BY RateType, ContactFacts
<1>2. \A x, y, z \in Nat : x * y \in Nat /\ (x >= z => x * y >= z * y)
  OBVIOUS
<1>3. rate[c] * (c.end - c.start) - mtv[c][p] \in Int
  BY <1>1, <1>2
<1>4. ASSUME rate[c] >= c.rate, mtv[c][p] <= Volume(c)
      PROVE  rate[c] * (c.end - c.start) - mtv[c][p] >= 0
  <2>1. rate[c] * (c.end - c.start) >= Volume(c) /\ Volume(c) \in Nat
    BY <1>1, <1>2, <1>4 DEF Volume
  <2> QED BY <1>1, <1>2, <1>4, <2>1
<1> QED BY <1>1, <1>3, <1>4, Quotients DEF QueueDelay

\* Journey follows the hops one by one.
LEMMA JourneyUnfolds ==
  ASSUME TypeOK, QueuesInShape, NEW r \in Routes, NEW b \in Bundles
  PROVE  /\ \A k \in 1 .. Len(r) : Journey(r, b)[k] \in Hop
         /\ Journey(r, b)[1].first = Eto(r, b.priority)
         /\ \A k \in 2 .. Len(r) :
              Journey(r, b)[k].first =
                Later(Journey(r, b)[k - 1].arrives, r[k].start + QueueDelay(r[k], b.priority))
<1> DEFINE n == Len(r)
           start == Sent(Eto(r, b.priority), r[1], b)
           Begins(k) == r[k].start + QueueDelay(r[k], b.priority)
           Step(k, x) == Sent(Later(x.arrives, Begins(k)), r[k], b)
           next == [i \in 1 .. n - 1 |-> [x \in Hop |-> Step(i + 1, x)]]
           Hops1(h) == [k \in 1 .. n |-> IF k = 1 THEN start ELSE Step(k, h[k - 1])]
<1>1. /\ n \in Nat \ {0} /\ 1 \in 1 .. n /\ \A k \in 1 .. n : r[k] \in Contacts
      /\ b.priority \in Priorities
  BY RouteFacts, BundleFacts
<1>2. start \in Hop /\ start.first = Eto(r, b.priority)
  BY <1>1, EtoType, SentType
<1>3. ASSUME NEW k \in 1 .. n, NEW x \in Hop
      PROVE  Step(k, x) \in Hop /\ Step(k, x).first = Later(x.arrives, Begins(k))
  <2>1. x.arrives \in Int
    BY DEF Hop
  <2>2. Begins(k) \in Int
    <3>1. r[k].start \in Nat /\ QueueDelay(r[k], b.priority) \in Int
      BY <1>1, ContactFacts, QueueDelayType
    <3> QED BY <3>1
  <2> HIDE DEF Begins
  <2>3. Later(x.arrives, Begins(k)) \in Int
    BY <2>1, <2>2 DEF Later
  <2> QED BY <1>1, <2>3, SentType
<1> HIDE DEF start, Step
<1>4. \A i \in 1 .. n - 1 : i + 1 \in 1 .. n
  BY <1>1
<1>5. next \in [1 .. n - 1 -> [Hop -> Hop]]
  BY <1>3, <1>4
<1>6. \A i \in 1 .. n - 1, x \in Hop : next[i][x] = Step(i + 1, x)
  OBVIOUS
<1> HIDE DEF next
<1>7. PICK f \in [0 .. n - 1 -> Hop] : f[0] = start /\ \A i \in 1 .. n - 1 : f[i] = next[i][f[i - 1]]
  <2>1. n - 1 \in Nat
    BY <1>1
  <2>2. \E f : Iterates(f, n - 1, Hop, start, next)
    BY <1>2, <1>5, <2>1, Recursion
  <2> QED BY <2>2 DEF Iterates
<1> DEFINE h == [k \in 1 .. n |-> f[k - 1]]
<1>8. h = Hops1(h) /\ \A k \in 1 .. n : h[k] \in Hop
  <2>1. \A k \in 1 .. n : h[k] = f[k - 1] /\ k - 1 \in 0 .. n - 1 /\ f[k - 1] \in Hop
    BY <1>1
  <2>2. ASSUME NEW k \in 1 .. n, k # 1 PROVE h[k] = Step(k, h[k - 1])
    <3>1. k - 1 \in 1 .. n - 1 /\ k - 1 \in 1 .. n /\ k - 1 - 1 \in 0 .. n - 1 /\ (k - 1) + 1 = k
      BY <1>1, <2>2
    <3>2. h[k] = next[k - 1][f[k - 1 - 1]] /\ h[k - 1] = f[k - 1 - 1] /\ f[k - 1 - 1] \in Hop
      BY <1>7, <2>1, <3>1
    <3> QED BY <1>6, <3>1, <3>2
  <2>3. h[1] = start
    BY <1>1, <1>7, <2>1
  <2> HIDE DEF h
  <2>4. h = [k \in 1 .. n |-> h[k]]
    BY DEF h
  <2> QED BY <2>1, <2>2, <2>3, <2>4
<1> DEFINE g == CHOOSE x : x = Hops1(x)
<1>9. Journey(r, b) = g
  BY Zenon DEF Journey, start, Step, Begins, n
<1> HIDE DEF h
<1>10. g = Hops1(g)
  BY <1>8, Zenon
<1> HIDE DEF g
<1>11. \A k \in 1 .. n : g[k] = IF k = 1 THEN start ELSE Step(k, g[k - 1])
  BY <1>10, Zenon
<1>12. g[1] = start /\ \A k \in 2 .. n : g[k] = Step(k, g[k - 1]) /\ k - 1 \in 1 .. n /\ k \in 1 .. n
  BY <1>1, <1>11
<1>13. \A k \in 1 .. n : g[k] \in Hop
  <2> DEFINE G == {i \in 0 .. n : i # 0 => g[i] \in Hop}
  <2>1. 0 \in G
    BY <1>1
  <2>2. ASSUME NEW i \in 1 .. n, i - 1 \in G PROVE i \in G
    <3>1. CASE i = 1
      BY <1>2, <1>12, <3>1
    <3>2. CASE i \in 2 .. n
      <4>1. g[i - 1] \in Hop
        BY <2>2, <3>2
      <4> QED BY <1>3, <1>12, <3>2, <4>1
    <3> QED BY <3>1, <3>2
  <2> HIDE DEF G
  <2>3. \A i \in 0 .. n : i \in G
    BY <1>1, <2>1, <2>2, UpTo
  <2>4. \A i \in 1 .. n : i \in 0 .. n /\ i # 0
    BY <1>1
  <2> QED BY <2>3, <2>4 DEF G
<1>14. \A k \in 2 .. n : g[k].first = Later(g[k - 1].arrives, Begins(k))
  BY <1>3, <1>12, <1>13
<1> QED BY <1>2, <1>9, <1>12, <1>13, <1>14

LEMMA FirstEndType ==
  ASSUME TypeOK, NEW r \in Routes, NEW k \in 1 .. Len(r)
  PROVE  FirstEnd(r, k) \in Nat /\ FirstEnd(r, k) <= r[k].end
<1> DEFINE ends == {r[i].end : i \in k .. Len(r)}
<1>1. \A i \in k .. Len(r) : i \in 1 .. Len(r)
  BY RouteFacts
<1>2. ends \subseteq Nat /\ r[k].end \in ends
  BY <1>1, RouteFacts, ContactFacts
<1> HIDE DEF ends
<1>3. \E e \in ends : \A f \in ends : e <= f
  BY <1>2, NatMin
<1>4. FirstEnd(r, k) = CHOOSE e \in ends : \A f \in ends : e <= f
  BY DEF FirstEnd, ends
<1> QED BY <1>2, <1>3, <1>4

\* What a viable route's contacts have left is enough for the bundle.
LEMMA ViableHasVolume ==
  ASSUME TypeOK, QueuesInShape, NEW b \in Bundles, NEW r \in Routes, Viable(r, b), NEW c \in Hops(r)
  PROVE  c \in Contacts /\ mtv[c][b.priority] >= b.evc
<1>1. PICK k \in 1 .. Len(r) : c = r[k]
  BY RouteFacts DEF Hops
<1>2. c \in Contacts /\ b.priority \in Priorities /\ b.evc \in Nat
  BY <1>1, RouteFacts, BundleFacts
<1>3. mtv[c][b.priority] \in Int /\ rate[c] \in Nat
  BY <1>2, RateType
<1> DEFINE first == Journey(r, b)[k].first
<1>4. VolumeLimit(r, k, b, first) >= b.evc
  BY <1>1, RouteFacts DEF Viable, Deliverable
<1>5. first \in Int
  BY JourneyUnfolds DEF Hop
<1> HIDE DEF first
<1>6. EffectiveDuration(r, k, first) * rate[r[k]] \in Int
  <2>1. EffectiveDuration(r, k, first) \in Int
    BY <1>5, FirstEndType DEF EffectiveDuration
  <2> QED BY <1>1, <1>3, <2>1
<1>7. VolumeLimit(r, k, b, first) <= mtv[r[k]][b.priority]
  BY <1>1, <1>3, <1>6 DEF VolumeLimit, Earlier
<1>8. VolumeLimit(r, k, b, first) \in Int
  BY <1>1, <1>3, <1>6 DEF VolumeLimit, Earlier
<1> QED BY <1>1, <1>2, <1>3, <1>4, <1>7, <1>8

----------------------------------------------------------------------------
(* Phase three. *)

\* It takes routes of S, and at most one over a neighbor.
LEMMA ChosenRoutes ==
  ASSUME NEW S, NEW b, b.critical \in BOOLEAN, NEW T \in Chosen(S, b)
  PROVE  T \subseteq S /\ \A q, r \in T : Neighbor(q) = Neighbor(r) => q = r
<1>1. CASE b.critical
  <2>1. /\ T \subseteq S
        /\ \A n \in {Neighbor(r) : r \in S} : \E r : {q \in T : Neighbor(q) = n} = {r}
    BY <1>1 DEF Chosen
  <2>2. ASSUME NEW q \in T, NEW r \in T, Neighbor(q) = Neighbor(r) PROVE q = r
    <3>1. PICK x : {y \in T : Neighbor(y) = Neighbor(r)} = {x}
      BY <2>1
    <3> QED BY <2>2, <3>1
  <2> QED BY <2>1, <2>2
<1>2. CASE ~b.critical
  <2>1. PICK r \in Best(S, b) : T = {r}
    BY <1>2 DEF Chosen
  <2> QED BY <2>1 DEF Best
<1> QED BY <1>1, <1>2

\* How often a contact is booked for one bundle: once for each neighbor, and
\* once only if it is itself a contact with a neighbor.
LEMMA BookedTimes ==
  ASSUME TypeOK, NEW T, T \subseteq Routes, \A q, r \in T : Neighbor(q) = Neighbor(r) => q = r,
         NEW c \in Contacts
  PROVE  LET n == Cardinality({r \in T : c \in Hops(r)})
         IN  /\ n \in Nat /\ n <= Cardinality(Neighbors)
             /\ n > 0 => \E r \in T : c \in Hops(r)
             /\ c.from = LocalNode => n <= 1
<1> DEFINE U == {r \in T : c \in Hops(r)}
           f == [r \in U |-> Neighbor(r)]
<1>1. \A r \in U : r \in Routes /\ Neighbor(r) \in Neighbors
  BY RouteFacts
<1>2. f \in Injection(U, Neighbors)
  BY <1>1 DEF Injection, IsInjective
<1>3. IsFiniteSet(U) /\ Cardinality(U) \in Nat /\ Cardinality(U) <= Cardinality(Neighbors)
  BY <1>2, NeighborFacts, FS_Injection, FS_CardinalityType
<1>4. Cardinality(U) > 0 => U # {}
  BY <1>3, FS_EmptySet
<1>5. ASSUME c.from = LocalNode PROVE Cardinality(U) <= 1
  <2>1. \A r \in U : Neighbor(r) = c.to
    <3> SUFFICES ASSUME NEW r \in U PROVE Neighbor(r) = c.to
      OBVIOUS
    <3>1. PICK k \in 1 .. Len(r) : c = r[k]
      BY <1>1, RouteFacts DEF Hops
    <3>2. k = 1
      BY <1>1, <1>5, <3>1, RouteFacts
    <3> QED BY <3>1, <3>2 DEF Neighbor
  <2>2. f \in Injection(U, {c.to})
    BY <1>2, <2>1 DEF Injection, IsInjective
  <2>3. IsFiniteSet({c.to}) /\ Cardinality({c.to}) = 1
    BY FS_Singleton
  <2> HIDE DEF U, f
  <2> QED BY <2>2, <2>3, FS_Injection
<1> HIDE DEF f
<1> QED BY <1>3, <1>4, <1>5

LEMMA Products ==
  ASSUME NEW n \in Nat, NEW N \in Nat, NEW e \in Nat, NEW M \in Nat, 1 <= n, n <= N, e <= M
  PROVE  /\ e * n \in Nat /\ (N - 1) * M \in Nat
         /\ e - e * n >= -((N - 1) * M)
         /\ n = 1 => e * n = e
<1>1. \A x, y, z \in Nat : x * y \in Nat /\ (y <= z => x * y <= x * z /\ y * x <= z * x)
  OBVIOUS
<1>2. n - 1 \in Nat /\ N - 1 \in Nat /\ n - 1 <= N - 1
  OBVIOUS
<1>3. (n - 1) * e <= (n - 1) * M /\ (n - 1) * M <= (N - 1) * M
  BY <1>1, <1>2
<1>4. e * n - e = (n - 1) * e
  OBVIOUS
<1>5. (n - 1) * e \in Nat /\ (n - 1) * M \in Nat /\ (N - 1) * M \in Nat /\ e * n \in Nat
  BY <1>1, <1>2
<1> QED BY <1>3, <1>4, <1>5

\* The bookings of update_volumes, for routes each of which is viable alone.
LEMMA BookingKeeps ==
  ASSUME VolumeInv, NEW b \in Bundles, NEW T, T \subseteq Routes, \A r \in T : Viable(r, b),
         \A q, r \in T : Neighbor(q) = Neighbor(r) => q = r, mtv' = Booked(T, b)
  PROVE  /\ mtv' \in [Contacts -> [Priorities -> Int]]
         /\ WithinVolume' /\ VolumesOrdered' /\ OverbookingBounded'
<1> DEFINE n(c) == Cardinality({r \in T : c \in Hops(r)})
<1>1. TypeOK /\ QueuesInShape
  BY DEF VolumeInv
<1>2. /\ b.priority \in Priorities /\ b.evc \in Nat /\ b.evc <= MaxEvc /\ MaxEvc \in Nat
      /\ 0 \in Priorities /\ 1 \in Priorities /\ 2 \in Priorities
  BY BundleFacts DEF Priorities
<1>3. \A c \in Contacts :
        /\ n(c) \in Nat /\ n(c) <= Cardinality(Neighbors)
        /\ n(c) > 0 => \E r \in T : c \in Hops(r)
        /\ c.from = LocalNode => n(c) <= 1
  BY <1>1, BookedTimes
<1>4. \A c \in Contacts : n(c) > 0 => mtv[c][b.priority] >= b.evc
  BY <1>1, <1>3, ViableHasVolume
<1>5. \A c \in Contacts, p \in Priorities :
        mtv'[c][p] = IF p <= b.priority THEN mtv[c][p] - b.evc * n(c) ELSE mtv[c][p]
  BY DEF Booked
<1> HIDE DEF n
<1>6. \A c \in Contacts : b.evc * n(c) \in Nat
  <2>1. \A x, y \in Nat : x * y \in Nat
    OBVIOUS
  <2> QED BY <1>2, <1>3, <2>1
<1>7. \A c \in Contacts, p \in Priorities : mtv[c][p] \in Int /\ mtv'[c][p] \in Int /\ mtv'[c][p] <= mtv[c][p]
  BY <1>1, <1>5, <1>6, RateType
<1>8. mtv' \in [Contacts -> [Priorities -> Int]]
  <2>1. mtv' = [c \in Contacts |-> [p \in Priorities |-> mtv'[c][p]]]
    BY DEF Booked
  <2> QED BY <1>7, <2>1
<1>9. WithinVolume'
  <2> SUFFICES ASSUME NEW c \in Contacts, NEW p \in Priorities PROVE mtv'[c][p] <= Volume(c)
    BY DEF WithinVolume
  <2>1. mtv[c][p] <= Volume(c) /\ Volume(c) \in Nat
    BY ContactFacts DEF VolumeInv, WithinVolume
  <2> QED BY <1>7, <2>1
<1>10. VolumesOrdered'
  <2> SUFFICES ASSUME NEW c \in Contacts PROVE mtv'[c][0] <= mtv'[c][1] /\ mtv'[c][1] <= mtv'[c][2]
    BY DEF VolumesOrdered
  <2>1. mtv[c][0] <= mtv[c][1] /\ mtv[c][1] <= mtv[c][2]
    BY DEF VolumeInv, VolumesOrdered
  <2>2. /\ mtv'[c][0] = IF 0 <= b.priority THEN mtv[c][0] - b.evc * n(c) ELSE mtv[c][0]
        /\ mtv'[c][1] = IF 1 <= b.priority THEN mtv[c][1] - b.evc * n(c) ELSE mtv[c][1]
        /\ mtv'[c][2] = IF 2 <= b.priority THEN mtv[c][2] - b.evc * n(c) ELSE mtv[c][2]
    BY <1>2, <1>5
  <2>3. mtv[c][0] \in Int /\ mtv[c][1] \in Int /\ mtv[c][2] \in Int /\ b.evc * n(c) \in Nat
    BY <1>2, <1>6, <1>7
  <2>4. b.priority \in Nat
    BY <1>2 DEF Priorities
  <2> QED BY <2>1, <2>2, <2>3, <2>4
<1>11. OverbookingBounded'
  <2> SUFFICES ASSUME NEW c \in Contacts
               PROVE  \/ mtv'[c][2] >= 0
                      \/ c.from # LocalNode /\ mtv'[c][2] >= -((Cardinality(Neighbors) - 1) * MaxEvc)
    BY DEF OverbookingBounded
  <2>1. \/ mtv[c][2] >= 0
        \/ c.from # LocalNode /\ mtv[c][2] >= -((Cardinality(Neighbors) - 1) * MaxEvc)
    BY DEF VolumeInv, OverbookingBounded
  <2>2. CASE b.priority # 2
    <3>1. ~(2 <= b.priority)
      BY <1>2, <2>2 DEF Priorities
    <3> QED BY <1>2, <1>5, <2>1, <3>1
  <2>3. CASE b.priority = 2 /\ n(c) = 0
    <3>1. mtv'[c][2] = mtv[c][2]
      BY <1>2, <1>5, <1>7, <2>3
    <3> QED BY <2>1, <3>1
  <2>4. CASE b.priority = 2 /\ n(c) > 0
    <3>1. mtv'[c][2] = mtv[c][2] - b.evc * n(c) /\ mtv[c][2] >= b.evc
      BY <1>2, <1>4, <1>5, <2>4
    <3>2. /\ b.evc * n(c) \in Nat /\ (Cardinality(Neighbors) - 1) * MaxEvc \in Nat
          /\ b.evc - b.evc * n(c) >= -((Cardinality(Neighbors) - 1) * MaxEvc)
          /\ n(c) = 1 => b.evc * n(c) = b.evc
      BY <1>2, <1>3, <2>4, NeighborFacts, Products
    <3>3. mtv[c][2] \in Int
      BY <1>2, <1>7
    <3>4. CASE c.from = LocalNode
      <4>1. n(c) = 1
        BY <1>3, <2>4, <3>4
      <4> QED BY <1>2, <3>1, <3>2, <3>3, <4>1
    <3>5. CASE c.from # LocalNode
      BY <1>2, <3>1, <3>2, <3>3, <3>5
    <3> QED BY <3>4, <3>5
  <2>5. n(c) = 0 \/ n(c) > 0
    BY <1>3
  <2> QED BY <2>2, <2>3, <2>4, <2>5
<1> QED BY <1>8, <1>9, <1>10, <1>11

----------------------------------------------------------------------------
(* The queues of the neighbors. *)

LEMMA ItemFacts ==
  ASSUME NEW q \in Seq(Item)
  PROVE  /\ Len(q) \in Nat /\ DOMAIN q = 1 .. Len(q)
         /\ \A k \in 1 .. Len(q) :
              /\ q[k] \in Item /\ q[k].bundle \in Bundles /\ q[k].left \in Nat /\ q[k].eto \in Int
              /\ q[k].over \in Contacts
              /\ q[k].bundle.priority \in Priorities /\ q[k].bundle.priority \in Nat
<1>1. Len(q) \in Nat /\ DOMAIN q = 1 .. Len(q) /\ \A k \in 1 .. Len(q) : q[k] \in Item
  OBVIOUS
<1>2. \A x \in Item : x.bundle \in Bundles /\ x.left \in Nat /\ x.eto \in Int /\ x.over \in Contacts
  BY DEF Item
<1>3. \A b \in Bundles : b.priority \in Priorities /\ b.priority \in Nat
  BY BundleFacts DEF Priorities
<1> QED BY <1>1, <1>2, <1>3

\* After how many items one of a priority is put.
Place(q, p) == Cardinality({k \in DOMAIN q : q[k].bundle.priority >= p})

\* t is q with x after the first n.
Inserted(q, n, x, t) ==
  /\ n \in 0 .. Len(q) /\ Len(q) \in Nat
  /\ t \in Seq(Item) /\ Len(t) = Len(q) + 1
  /\ \A k \in 1 .. n : t[k] = q[k]
  /\ t[n + 1] = x
  /\ \A k \in n + 2 .. Len(q) + 1 : t[k] = q[k - 1]

LEMMA EnqueueInserts ==
  ASSUME NEW q \in Seq(Item), NEW x \in Item
  PROVE  Inserted(q, Place(q, x.bundle.priority), x, Enqueue(q, x))
<1> DEFINE ahead == {k \in DOMAIN q : q[k].bundle.priority >= x.bundle.priority}
           n == Cardinality(ahead)
           t == Enqueue(q, x)
           u == SubSeq(q, 1, n)
           v == SubSeq(q, n + 1, Len(q))
           w == u \o <<x>>
<1>1. n \in 0 .. Len(q) /\ Len(q) \in Nat
  <2>1. DOMAIN q = 1 .. Len(q) /\ Len(q) \in Nat
    OBVIOUS
  <2>2. IsFiniteSet(1 .. Len(q)) /\ Cardinality(1 .. Len(q)) = Len(q)
    BY <2>1, FS_Interval
  <2>3. ahead \in SUBSET (1 .. Len(q))
    BY <2>1
  <2> HIDE DEF ahead
  <2>4. IsFiniteSet(ahead) /\ n <= Len(q)
    BY <2>2, <2>3, FS_Subset
  <2>5. n \in Nat
    BY <2>4, FS_CardinalityType
  <2> QED BY <2>1, <2>4, <2>5
<1>2. t = w \o v
  BY DEF Enqueue
<1>0. n = Place(q, x.bundle.priority)
  BY DEF Place
<1> HIDE DEF n, t, ahead
<1>3. u \in Seq(Item) /\ Len(u) = n /\ \A k \in 1 .. n : u[k] = q[k]
  BY <1>1
<1>4. v \in Seq(Item) /\ Len(v) = Len(q) - n /\ \A k \in 1 .. Len(q) - n : v[k] = q[n + k]
  BY <1>1
<1> HIDE DEF u, v
<1>5. w \in Seq(Item) /\ Len(w) = n + 1 /\ w[n + 1] = x /\ \A k \in 1 .. n : w[k] = q[k]
  BY <1>1, <1>3
<1> HIDE DEF w
<1>6. /\ t \in Seq(Item) /\ Len(t) = Len(q) + 1
      /\ \A k \in 1 .. n + 1 : t[k] = w[k]
      /\ \A k \in n + 2 .. Len(q) + 1 : t[k] = v[k - (n + 1)]
  BY <1>1, <1>2, <1>4, <1>5
<1>7. \A k \in n + 2 .. Len(q) + 1 :
        k - (n + 1) \in 1 .. Len(q) - n /\ n + (k - (n + 1)) = k - 1
  BY <1>1
<1>8. \A k \in n + 2 .. Len(q) + 1 : t[k] = q[k - 1]
  BY <1>4, <1>6, <1>7
<1>9. (\A k \in 1 .. n : k \in 1 .. n + 1) /\ n + 1 \in 1 .. n + 1
  BY <1>1
<1>10. \A k \in 1 .. n + 1 : t[k] = w[k]
  BY <1>6
<1>11. (\A k \in 1 .. n : t[k] = q[k]) /\ t[n + 1] = x
  BY <1>5, <1>9, <1>10
<1> QED BY <1>0, <1>1, <1>6, <1>8, <1>11 DEF Inserted, t

\* Each bundle once, not complete, and with a route.
QueueSound(q, P) ==
  \A k \in 1 .. Len(q) :
    /\ q[k].left \in 1 .. q[k].bundle.evc /\ q[k].bundle \notin P
    /\ \A j \in (1 .. Len(q)) \ {k} : q[j].bundle # q[k].bundle

QueuesSound == \A n \in Neighbors : QueueSound(queue[n], pending)

LEMMA TypeOKByParts ==
  ASSUME DOMAIN queue = Neighbors, \A n \in Neighbors : queue[n] \in Seq(Item)
  PROVE  TypeOK <=> /\ now \in 0 .. MaxNow
                    /\ rate \in [Contacts -> Nat \ {0}]
                    /\ mtv \in [Contacts -> [Priorities -> Int]]
                    /\ \E R \in RouteSets : Routes \subseteq R
                    /\ \A r \in Routes, c \in Contacts : c \in Hops(r) => now < c.end
                    /\ pending \subseteq Bundles
                    /\ QueuesSound
<1>1. \A n \in Neighbors : DOMAIN queue[n] = 1 .. Len(queue[n])
  OBVIOUS
<1>2. QueuesSound <=>
        \A n \in Neighbors : \A k \in DOMAIN queue[n] :
          LET item == queue[n][k]
          IN /\ item.left \in 1 .. item.bundle.evc /\ item.bundle \notin pending
             /\ \A j \in DOMAIN queue[n] \ {k} : queue[n][j].bundle # item.bundle
  BY <1>1 DEF QueuesSound, QueueSound
<1> QED BY <1>2 DEF TypeOK

LEMMA EnqueueKeeps ==
  ASSUME NEW P, NEW q \in Seq(Item), QueueSound(q, P), NEW b \in Bundles, b \in P, NEW eto \in Int,
         NEW c \in Contacts
  PROVE  LET t == Enqueue(q, [bundle |-> b, left |-> b.evc, eto |-> eto, over |-> c])
         IN  t \in Seq(Item) /\ QueueSound(t, P \ {b})
<1> DEFINE item == [bundle |-> b, left |-> b.evc, eto |-> eto, over |-> c]
           n == Place(q, b.priority)
           t == Enqueue(q, item)
<1>1. item \in Item /\ item.bundle = b /\ b.evc \in Nat /\ b.evc >= 1
  BY BundleFacts DEF Item
<1>2. n \in 0 .. Len(q) /\ Len(q) \in Nat
  <2> HIDE DEF item
  <2> QED BY <1>1, EnqueueInserts DEF Inserted
<1>4. /\ t \in Seq(Item) /\ Len(t) = Len(q) + 1
      /\ \A k \in 1 .. n : t[k] = q[k]
      /\ t[n + 1] = item
      /\ \A k \in n + 2 .. Len(q) + 1 : t[k] = q[k - 1]
  <2> HIDE DEF item
  <2> QED BY <1>1, EnqueueInserts DEF Inserted
<1> HIDE DEF n
<1> DEFINE Old(k) == IF k <= n THEN k ELSE k - 1
<1>5. \A k \in 1 .. Len(t) : \/ k = n + 1 /\ t[k] = item
                             \/ k # n + 1 /\ Old(k) \in 1 .. Len(q) /\ t[k] = q[Old(k)]
  <2> HIDE DEF t, item
  <2> SUFFICES ASSUME NEW k \in 1 .. Len(t)
               PROVE  \/ k = n + 1 /\ t[k] = item
                      \/ k # n + 1 /\ Old(k) \in 1 .. Len(q) /\ t[k] = q[Old(k)]
    OBVIOUS
  <2>1. k \in 1 .. n \/ k = n + 1 \/ k \in n + 2 .. Len(q) + 1
    BY <1>2, <1>4
  <2> QED BY <1>2, <1>4, <2>1
<1>6. \A j, k \in 1 .. Len(t) : j # k /\ j # n + 1 /\ k # n + 1 => Old(j) # Old(k)
  BY <1>2, <1>4
<1>7. \A k \in 1 .. Len(q) : q[k].bundle # b
  BY DEF QueueSound
<1>8. item.bundle = b /\ item.left = b.evc
  OBVIOUS
<1> HIDE DEF t, item, Old
<1>9. QueueSound(t, P \ {b})
  <2> SUFFICES ASSUME NEW k \in 1 .. Len(t)
               PROVE  /\ t[k].left \in 1 .. t[k].bundle.evc /\ t[k].bundle \notin P \ {b}
                      /\ \A j \in (1 .. Len(t)) \ {k} : t[j].bundle # t[k].bundle
    BY DEF QueueSound
  <2>1. CASE k = n + 1
    <3>1. t[k] = item
      BY <1>5, <2>1
    <3>2. ASSUME NEW j \in (1 .. Len(t)) \ {k} PROVE t[j].bundle # b
      BY <1>5, <1>7, <2>1, <3>2
    <3> QED BY <1>1, <1>8, <3>1, <3>2
  <2>2. CASE k # n + 1
    <3>1. Old(k) \in 1 .. Len(q) /\ t[k] = q[Old(k)]
      BY <1>5, <2>2
    <3>2. ASSUME NEW j \in (1 .. Len(t)) \ {k} PROVE t[j].bundle # t[k].bundle
      <4>1. CASE j = n + 1
        BY <1>5, <1>7, <1>8, <3>1, <4>1
      <4>2. CASE j # n + 1
        <5>1. Old(j) \in 1 .. Len(q) /\ t[j] = q[Old(j)] /\ Old(j) # Old(k)
          BY <1>5, <1>6, <2>2, <4>2
        <5> QED BY <3>1, <5>1 DEF QueueSound
      <4> QED BY <4>1, <4>2
    <3> QED BY <3>1, <3>2 DEF QueueSound
  <2> QED BY <2>1, <2>2
<1> QED BY <1>4, <1>9 DEF t, item

LEMMA SendsType ==
  ASSUME TypeOK, QueuesInShape, NEW n \in Neighbors, NEW k \in 1 .. Len(queue[n])
  PROVE  Sends(n, k) \in Nat /\ Sends(n, k) <= queue[n][k].left
<1> DEFINE lefts == [j \in DOMAIN queue[n] |-> queue[n][j].left]
           D == {c \in ToNeighbor(n) : c.start <= now /\ now < c.end}
           f == [c \in D |-> rate[c]]
<1>1. queue[n] \in Seq(Item)
  BY DEF QueuesInShape
<1>2. \A j \in 1 .. Len(queue[n]) : queue[n][j].left \in Nat
  <2>1. \A q \in Seq(Item) : \A j \in 1 .. Len(q) : q[j] \in Item
    OBVIOUS
  <2>2. \A x \in Item : x.left \in Nat
    BY DEF Item
  <2> QED BY <1>1, <2>1, <2>2
<1>3. Ahead(n, k) \in Int
  <2>1. Len(queue[n]) \in Nat /\ DOMAIN queue[n] = 1 .. Len(queue[n])
    BY <1>1
  <2>2. k - 1 \in Nat /\ \A j \in 1 .. k - 1 : j \in 1 .. Len(queue[n])
    BY <2>1
  <2>3. \A j \in 1 .. k - 1 : lefts[j] \in Int
    BY <1>2, <2>1, <2>2
  <2>4. Ahead(n, k) = Total(lefts, k - 1)
    BY DEF Ahead
  <2> HIDE DEF lefts
  <2> QED BY <2>2, <2>3, <2>4, TotalType
<1>4. Capacity(n) \in Int
  <2>1. IsFiniteSet(D) /\ D \subseteq Contacts
    BY NeighborFacts, FS_Subset
  <2>2. \A c \in D : f[c] \in Int
    BY <2>1, RateType
  <2>3. Capacity(n) = SumOf(f) /\ DOMAIN f = D
    BY DEF Capacity
  <2> HIDE DEF f, D
  <2> QED BY <2>1, <2>2, <2>3, SumOfType
<1>5. queue[n][k].left \in Nat
  BY <1>2
<1> QED BY <1>3, <1>4, <1>5 DEF Sends, Earlier, Later

\* What a queue has left after a unit of time, with the items that are complete.
Sending(n) == [k \in DOMAIN queue[n] |-> [queue[n][k] EXCEPT !.left = @ - Sends(n, k)]]

LEMMA SendingItems ==
  ASSUME TypeOK, QueuesInShape, NEW n \in Neighbors
  PROVE  /\ Sending(n) \in Seq(Item) /\ Len(Sending(n)) = Len(queue[n])
         /\ \A k \in 1 .. Len(queue[n]) :
              /\ Sending(n)[k].bundle = queue[n][k].bundle
              /\ Sending(n)[k].eto = queue[n][k].eto /\ Sending(n)[k].over = queue[n][k].over
              /\ Sending(n)[k].left = queue[n][k].left - Sends(n, k)
         /\ Tick => \E S : queue'[n] = Only(S, Sending(n))
<1> DEFINE q == queue[n]
           after == Sending(n)
<1>1. q \in Seq(Item)
  BY DEF QueuesInShape
<1>2. \A k \in 1 .. Len(q) : Sends(n, k) \in Nat /\ Sends(n, k) <= q[k].left
  BY SendsType
<1>3. after = [k \in DOMAIN q |-> [q[k] EXCEPT !.left = @ - Sends(n, k)]]
  BY DEF Sending
<1>4. Tick => \E S : queue'[n] = Only(S, after)
  BY DEF Tick, Sending
<1> HIDE DEF q, after
<1>5. Len(q) \in Nat /\ DOMAIN q = 1 .. Len(q)
  BY <1>1
<1>6. ASSUME NEW k \in 1 .. Len(q)
      PROVE  /\ after[k] \in Item /\ after[k].bundle = q[k].bundle
             /\ after[k].eto = q[k].eto /\ after[k].over = q[k].over
             /\ after[k].left = q[k].left - Sends(n, k)
  <2>1. /\ q[k] = [bundle |-> q[k].bundle, left |-> q[k].left, eto |-> q[k].eto, over |-> q[k].over]
        /\ q[k].bundle \in Bundles /\ q[k].left \in Nat /\ q[k].eto \in Int /\ q[k].over \in Contacts
    <3>1. q[k] \in Item
      BY <1>1
    <3> QED BY <3>1 DEF Item
  <2>2. after[k] = [q[k] EXCEPT !.left = @ - Sends(n, k)]
    BY <1>3, <1>5
  <2>3. after[k] = [bundle |-> q[k].bundle, left |-> q[k].left - Sends(n, k), eto |-> q[k].eto, over |-> q[k].over]
    BY <2>1, <2>2
  <2>4. q[k].left - Sends(n, k) \in Nat
    BY <1>2, <2>1
  <2> QED BY <2>1, <2>3, <2>4 DEF Item
<1>7. after \in Seq(Item) /\ Len(after) = Len(q)
  <2>1. after = [k \in 1 .. Len(q) |-> after[k]]
    BY <1>3, <1>5
  <2>2. after \in [1 .. Len(q) -> Item]
    BY <1>6, <2>1
  <2> QED BY <1>5, <2>2
<1> QED BY <1>4, <1>6, <1>7 DEF q, after

\* What a neighbor's queue has left after a unit of time: fewer of the same
\* bundles, each once.
LEMMA SendingKeeps ==
  ASSUME TypeOK, QueuesInShape, QueuesSound, NEW n \in Neighbors, Tick
  PROVE  queue'[n] \in Seq(Item) /\ QueueSound(queue'[n], pending)
<1> DEFINE q == queue[n]
           after == Sending(n)
           some == {after[k] : k \in {k \in DOMAIN after : after[k].left > 0}}
           t == Only(some, after)
<1>1. queue'[n] = t
  BY DEF Tick, Sending
<1>2. q \in Seq(Item) /\ Len(q) \in Nat
  BY DEF QueuesInShape
<1>3. \A k \in 1 .. Len(q) :
        /\ q[k].bundle \in Bundles /\ q[k].left \in Nat
        /\ q[k].left <= q[k].bundle.evc /\ q[k].bundle \notin pending
  <2>1. \A k \in 1 .. Len(q) : q[k].left \in 1 .. q[k].bundle.evc /\ q[k].bundle \notin pending
    BY DEF QueuesSound, QueueSound
  <2> HIDE DEF q
  <2> QED BY <1>2, <2>1, ItemFacts, BundleFacts
<1>4. \A k \in 1 .. Len(q) : Sends(n, k) \in Nat /\ Sends(n, k) <= q[k].left
  BY SendsType
<1>5. \A j, k \in 1 .. Len(q) : q[j].bundle = q[k].bundle => j = k
  BY DEF QueuesSound, QueueSound
<1>6. /\ after \in Seq(Item) /\ Len(after) = Len(q)
      /\ \A k \in 1 .. Len(q) : /\ after[k].bundle = q[k].bundle
                                /\ after[k].left = q[k].left - Sends(n, k)
  BY SendingItems
<1> HIDE DEF q, after
<1>7. DOMAIN after = 1 .. Len(q)
  BY <1>6
<1>8. NoDuplicates(after)
  BY <1>5, <1>6 DEF NoDuplicates
<1> HIDE DEF some
<1>9. /\ t \in Seq(Item) /\ NoDuplicates(t)
      /\ \A y : In(y, t) => In(y, after) /\ y \in some
  BY <1>6, <1>8, InOnly
<1> HIDE DEF t
<1>10. \A k \in 1 .. Len(t) : \E i \in 1 .. Len(q) : t[k] = after[i] /\ after[i].left > 0
  <2> SUFFICES ASSUME NEW k \in 1 .. Len(t) PROVE \E i \in 1 .. Len(q) : t[k] = after[i] /\ after[i].left > 0
    OBVIOUS
  <2>1. In(t[k], t)
    BY DEF In
  <2>2. t[k] \in some
    BY <1>9, <2>1
  <2> QED BY <1>7, <2>2 DEF some
<1>11. QueueSound(t, pending)
  <2> SUFFICES ASSUME NEW k \in 1 .. Len(t)
               PROVE  /\ t[k].left \in 1 .. t[k].bundle.evc /\ t[k].bundle \notin pending
                      /\ \A j \in (1 .. Len(t)) \ {k} : t[j].bundle # t[k].bundle
    BY DEF QueueSound
  <2>1. PICK i \in 1 .. Len(q) : t[k] = after[i] /\ after[i].left > 0
    BY <1>10
  <2>2. t[k].left \in 1 .. t[k].bundle.evc /\ t[k].bundle \notin pending
    <3>1. /\ q[i].bundle.evc \in Nat /\ q[i].left \in Nat /\ q[i].left <= q[i].bundle.evc
          /\ q[i].bundle \notin pending /\ Sends(n, i) \in Nat
      BY <1>3, <1>4, BundleFacts
    <3>2. /\ t[k].bundle = q[i].bundle /\ t[k].left = q[i].left - Sends(n, i) /\ t[k].left > 0
      BY <1>6, <2>1
    <3> QED BY <3>1, <3>2
  <2>3. ASSUME NEW j \in (1 .. Len(t)) \ {k}, t[j].bundle = t[k].bundle PROVE FALSE
    <3>1. PICK m \in 1 .. Len(q) : t[j] = after[m]
      BY <1>10
    <3>2. m = i
      BY <1>5, <1>6, <2>1, <2>3, <3>1
    <3> QED BY <1>9, <2>1, <2>3, <3>1, <3>2 DEF NoDuplicates
  <2> QED BY <2>2, <2>3
<1> QED BY <1>1, <1>9, <1>11

----------------------------------------------------------------------------
(* The steps. *)

LEMMA InitHolds == Init => VolumeInv
<1> SUFFICES ASSUME Init PROVE VolumeInv
  OBVIOUS
<1>1. \A n \in Neighbors : queue[n] = <<>> /\ queue[n] \in Seq(Item)
  BY DEF Init
<1>2. DOMAIN queue = Neighbors /\ QueuesInShape
  BY <1>1 DEF Init, QueuesInShape
<1>3. QueuesSound
  BY <1>1 DEF QueuesSound, QueueSound
<1>4. \A c \in Contacts, p \in Priorities : mtv[c][p] = Volume(c) /\ Volume(c) \in Nat
  BY ContactFacts DEF Init
<1>5. mtv \in [Contacts -> [Priorities -> Int]]
  <2>1. mtv = [c \in Contacts |-> [p \in Priorities |-> Volume(c)]] /\ \A c \in Contacts : Volume(c) \in Int
    BY <1>4, ContactFacts DEF Init
  <2> QED BY <2>1
<1>6. WithinVolume /\ VolumesOrdered /\ OverbookingBounded
  <2>1. \A c \in Contacts : mtv[c][0] = Volume(c) /\ mtv[c][1] = Volume(c) /\ mtv[c][2] = Volume(c) /\ Volume(c) \in Nat
    BY <1>4, ContactFacts DEF Priorities
  <2> QED BY <1>4, <2>1 DEF WithinVolume, VolumesOrdered, OverbookingBounded
<1>7. PICK R \in RouteSets : Routes = R
  BY DEF Init, Routes
<1>8. now \in 0 .. MaxNow /\ rate \in [Contacts -> Nat \ {0}] /\ pending \subseteq Bundles
  BY VolumeAssumption DEF Init
<1>9. \A r \in Routes, c \in Contacts : c \in Hops(r) => now < c.end
  BY ContactFacts DEF Init
<1>10. TypeOK
  BY <1>1, <1>2, <1>3, <1>5, <1>7, <1>8, <1>9, TypeOKByParts
<1> QED BY <1>2, <1>6, <1>10 DEF VolumeInv

LEMMA StepHolds == VolumeInv /\ [Next]_vars => VolumeInv'
<1> SUFFICES ASSUME VolumeInv, [Next]_vars PROVE VolumeInv'
  OBVIOUS
<1>1. TypeOK /\ QueuesInShape /\ WithinVolume /\ VolumesOrdered /\ OverbookingBounded
  BY DEF VolumeInv
<1>2. /\ DOMAIN queue = Neighbors /\ queue \in [Neighbors -> Seq(Item)]
      /\ \A n \in Neighbors : queue[n] \in Seq(Item)
  BY <1>1 DEF QueuesInShape
<1>3. /\ now \in 0 .. MaxNow
      /\ rate \in [Contacts -> Nat \ {0}]
      /\ mtv \in [Contacts -> [Priorities -> Int]]
      /\ \E R \in RouteSets : Routes \subseteq R
      /\ \A r \in Routes, c \in Contacts : c \in Hops(r) => now < c.end
      /\ pending \subseteq Bundles
      /\ QueuesSound
  BY <1>1, <1>2, TypeOKByParts
\* What is left of each step: the queues, the volumes, the routes.
<1>4. ASSUME /\ now' \in 0 .. MaxNow
             /\ rate' \in [Contacts -> Nat \ {0}]
             /\ mtv' \in [Contacts -> [Priorities -> Int]]
             /\ Routes' \subseteq Routes
             /\ \A r \in Routes', c \in Contacts : c \in Hops(r) => now' < c.end
             /\ pending' \subseteq Bundles
             /\ queue' \in [Neighbors -> Seq(Item)]
             /\ QueuesSound'
             /\ WithinVolume' /\ VolumesOrdered' /\ OverbookingBounded'
      PROVE  VolumeInv'
  <2>1. (DOMAIN queue = Neighbors /\ \A n \in Neighbors : queue[n] \in Seq(Item))'
    BY <1>4
  <2>2. (\E R \in RouteSets : Routes \subseteq R)'
    BY <1>3, <1>4
  <2>3. TypeOK'
    <3>1. \A r \in Routes', c \in Contacts : c \in Hops(r)' => now' < c.end
      BY <1>4 DEF Hops
    <3>2. \A n \in Neighbors : DOMAIN queue'[n] = 1 .. Len(queue'[n])
      BY <1>4
    <3>3. \A n \in Neighbors : \A k \in DOMAIN queue'[n] :
            LET item == queue'[n][k]
            IN /\ item.left \in 1 .. item.bundle.evc /\ item.bundle \notin pending'
               /\ \A j \in DOMAIN queue'[n] \ {k} : queue'[n][j].bundle # item.bundle
      BY <1>4, <3>2 DEF QueuesSound, QueueSound
    <3> QED BY <1>4, <2>1, <2>2, <3>1, <3>3 DEF TypeOK
  <2> QED BY <1>4, <2>3 DEF VolumeInv, QueuesInShape
<1>5. mtv' = mtv => WithinVolume' /\ VolumesOrdered' /\ OverbookingBounded'
  BY <1>1 DEF WithinVolume, VolumesOrdered, OverbookingBounded
<1>6. CASE Tick
  <2>1. now' = now + 1 /\ now < MaxNow /\ UNCHANGED <<rate, mtv, pending>>
    BY <1>6 DEF Tick
  <2>2. now' \in 0 .. MaxNow
    BY <1>3, <2>1, VolumeAssumption
  <2>3. Routes' = {r \in Routes : Unexpired(r, now + 1)}
    BY <1>6 DEF Tick, Routes
  <2>4. \A r \in Routes', c \in Contacts : c \in Hops(r) => now' < c.end
    <3>1. \A r \in Routes', c \in Contacts : c \in Hops(r) => c.end > now + 1
      BY <2>3 DEF Unexpired
    <3> QED BY <1>3, <2>1, <3>1, ContactFacts
  <2>5. \A n \in Neighbors : queue'[n] \in Seq(Item) /\ QueueSound(queue'[n], pending)
    BY <1>1, <1>3, <1>6, SendingKeeps
  <2>6. queue' \in [Neighbors -> Seq(Item)]
    <3>1. queue' = [n \in Neighbors |-> queue'[n]]
      BY <1>6 DEF Tick
    <3> QED BY <2>5, <3>1
  <2>7. QueuesSound'
    BY <2>1, <2>5 DEF QueuesSound, QueueSound
  <2> QED BY <1>3, <1>4, <1>5, <2>1, <2>2, <2>3, <2>4, <2>6, <2>7
<1>7. ASSUME NEW b \in Bundles, Forward(b) PROVE VolumeInv'
  <2> DEFINE S == {r \in Routes : Viable(r, b)}
  <2>1. PICK T \in Chosen(S, b) :
          /\ mtv' = Booked(T, b)
          /\ queue' = [n \in Neighbors |->
               IF \E r \in T : Neighbor(r) = n
               THEN LET r == CHOOSE r \in T : Neighbor(r) = n
                    IN Enqueue(queue[n], [bundle |-> b, left |-> b.evc,
                                          eto |-> Eto(r, b.priority), over |-> r[1]])
               ELSE queue[n]]
    BY <1>7 DEF Forward
  <2>2. b \in pending /\ pending' = pending \ {b} /\ UNCHANGED <<now, rate>> /\ arrival' = Recomputed(b)
    BY <1>7 DEF Forward
  <2>3. T \subseteq Routes /\ (\A r \in T : Viable(r, b)) /\ \A q, r \in T : Neighbor(q) = Neighbor(r) => q = r
    <3>1. b.critical \in BOOLEAN
      BY VolumeAssumption
    <3>2. T \subseteq S /\ \A q, r \in T : Neighbor(q) = Neighbor(r) => q = r
      <4> HIDE DEF S
      <4> QED BY <2>1, <3>1, ChosenRoutes
    <3> QED BY <3>2
  <2> HIDE DEF S
  <2>4. /\ mtv' \in [Contacts -> [Priorities -> Int]]
        /\ WithinVolume' /\ VolumesOrdered' /\ OverbookingBounded'
    BY <2>1, <2>3, BookingKeeps
  <2>5. ASSUME NEW n \in Neighbors
        PROVE  queue'[n] \in Seq(Item) /\ QueueSound(queue'[n], pending \ {b})
    <3>1. QueueSound(queue[n], pending)
      BY <1>3 DEF QueuesSound
    <3>2. CASE \E r \in T : Neighbor(r) = n
      <4> DEFINE r == CHOOSE r \in T : Neighbor(r) = n
      <4>1. r \in Routes
        BY <2>3, <3>2
      <4>2. queue'[n] = Enqueue(queue[n], [bundle |-> b, left |-> b.evc,
                                           eto |-> Eto(r, b.priority), over |-> r[1]])
        BY <2>1, <3>2
      <4> HIDE DEF r
      <4>3. Eto(r, b.priority) \in Int /\ r[1] \in Contacts
        BY <1>1, <4>1, BundleFacts, EtoType, RouteFacts
      <4> DEFINE eto == Eto(r, b.priority)
                 over == r[1]
      <4>4. queue'[n] = Enqueue(queue[n], [bundle |-> b, left |-> b.evc, eto |-> eto, over |-> over])
        BY <4>2
      <4>5. eto \in Int /\ over \in Contacts
        BY <4>3
      <4> HIDE DEF eto, over
      <4> QED BY <1>2, <2>2, <3>1, <4>4, <4>5, EnqueueKeeps
    <3>3. CASE ~\E r \in T : Neighbor(r) = n
      <4>1. queue'[n] = queue[n]
        BY <2>1, <3>3
      <4> QED BY <1>2, <3>1, <4>1 DEF QueueSound
    <3> QED BY <3>2, <3>3
  <2>6. queue' \in [Neighbors -> Seq(Item)]
    <3>1. queue' = [n \in Neighbors |-> queue'[n]]
      BY <2>1
    <3> QED BY <2>5, <3>1
  <2>7. QueuesSound'
    BY <2>2, <2>5 DEF QueuesSound, QueueSound
  <2>8. Routes' = Routes
    BY <2>2 DEF Recomputed, Routes
  <2> QED BY <1>3, <1>4, <2>2, <2>4, <2>6, <2>7, <2>8
<1>8. ASSUME NEW b \in Bundles, NoRouteFor(b) PROVE VolumeInv'
  <2>1. UNCHANGED <<now, rate, mtv, pending, queue>> /\ Routes' = Routes
    BY <1>8 DEF NoRouteFor, Recomputed, Routes
  <2>2. QueuesSound'
    BY <1>3, <2>1 DEF QueuesSound, QueueSound
  <2> QED BY <1>2, <1>3, <1>4, <1>5, <2>1, <2>2
<1>9. ASSUME NEW c \in Contacts, NEW new \in NewRates, ReviseRate(c, new) PROVE VolumeInv'
  <2>1. UNCHANGED <<now, mtv, arrival, pending, queue>> /\ rate' = [rate EXCEPT ![c] = new]
    BY <1>9 DEF ReviseRate
  <2>2. rate' \in [Contacts -> Nat \ {0}]
    BY <1>3, <2>1, VolumeAssumption
  <2>3. QueuesSound' /\ Routes' = Routes
    BY <1>3, <2>1 DEF QueuesSound, QueueSound, Routes
  <2> QED BY <1>2, <1>3, <1>4, <1>5, <2>1, <2>2, <2>3
<1>10. CASE UNCHANGED vars
  <2>1. UNCHANGED <<now, rate, mtv, arrival, pending, queue>>
    BY <1>10 DEF vars
  <2>2. QueuesSound' /\ Routes' = Routes
    BY <1>3, <2>1 DEF QueuesSound, QueueSound, Routes
  <2> QED BY <1>2, <1>3, <1>4, <1>5, <2>1, <2>2
<1> QED BY <1>6, <1>7, <1>8, <1>9, <1>10 DEF Next

LEMMA VolumeInvCorrect == Spec => []VolumeInv
BY InitHolds, StepHolds, PTL DEF Spec

\* The bookings stay in order and a contact is overbooked by a critical bundle's
\* copies only: one that is viable over each of its routes alone.
THEOREM BookingsCorrect == Spec => []BookingsBounded
<1>1. VolumeInv => BookingsBounded
  BY DEF VolumeInv, BookingsBounded
<1> QED BY <1>1, VolumeInvCorrect, PTL

\* The delivery time of a viable route never counts on a hop before the bundle
\* can be there, since no contact has more left than its volume.
THEOREM PromiseCorrect == Spec => []PromiseNotEarly
<1>1. VolumeInv => PromiseNotEarly
  <2> SUFFICES ASSUME VolumeInv, NEW b \in pending, NEW r \in Routes, NEW k \in DOMAIN r
               PROVE  /\ rate[r[k]] >= r[k].rate => Journey(r, b)[k].first >= r[k].start
                      /\ k > 1 => Journey(r, b)[k].first >= Journey(r, b)[k - 1].arrives
    BY DEF PromiseNotEarly
  <2>1. TypeOK /\ QueuesInShape /\ WithinVolume /\ b \in Bundles
    BY DEF VolumeInv, TypeOK
  <2>2. /\ k \in 1 .. Len(r) /\ Len(r) \in Nat /\ r[k] \in Contacts /\ r[k].start \in Nat
        /\ b.priority \in Priorities
    BY <2>1, RouteFacts, ContactFacts, BundleFacts
  <2>3. CASE k = 1
    BY <2>1, <2>2, <2>3, JourneyUnfolds, EtoType
  <2>4. CASE k \in 2 .. Len(r)
    <3>1. Journey(r, b)[k].first =
            Later(Journey(r, b)[k - 1].arrives, r[k].start + QueueDelay(r[k], b.priority))
      BY <2>1, <2>4, JourneyUnfolds
    <3>2. Journey(r, b)[k - 1].arrives \in Int
      <4>1. k - 1 \in 1 .. Len(r)
        BY <2>2, <2>4
      <4> QED BY <2>1, <4>1, JourneyUnfolds DEF Hop
    <3>3. /\ QueueDelay(r[k], b.priority) \in Int
          /\ rate[r[k]] >= r[k].rate => QueueDelay(r[k], b.priority) >= 0
      BY <2>1, <2>2, QueueDelayType DEF WithinVolume
    <3> QED BY <2>2, <3>1, <3>2, <3>3 DEF Later
  <2> QED BY <2>2, <2>3, <2>4
<1> QED BY <1>1, VolumeInvCorrect, PTL

----------------------------------------------------------------------------
(* What is sent to a neighbor by a time. *)

\* At the rates the contacts have.
Served(c, t) ==
  rate[c] * (IF t <= c.start THEN 0 ELSE IF t < c.end THEN t - c.start ELSE c.end - c.start)

SentBy(n, t) == SumOf([c \in ToNeighbor(n) |-> Served(c, t)])

LEMMA Multiples ==
  ASSUME NEW x \in Nat, NEW y \in Nat, NEW z \in Nat
  PROVE  /\ x * y \in Nat /\ x * (y + z) = x * y + x * z /\ x * (y + 1) = x * y + x
         /\ y <= z => x * y <= x * z
OBVIOUS

LEMMA ServedSteps ==
  ASSUME TypeOK, NEW c \in Contacts, NEW t \in Nat
  PROVE  /\ Served(c, t) \in Nat
         /\ Served(c, t + 1) = Served(c, t) + (IF c.start <= t /\ t < c.end THEN rate[c] ELSE 0)
         /\ \A s \in Nat : s <= t => Served(c, s) <= Served(c, t)
<1> DEFINE Time(s) == IF s <= c.start THEN 0 ELSE IF s < c.end THEN s - c.start ELSE c.end - c.start
<1>1. c.start \in Nat /\ c.end \in Nat /\ rate[c] \in Nat /\ c.start <= c.end
  BY ContactFacts, RateType
<1>2. \A s \in Nat : Served(c, s) = rate[c] * Time(s) /\ Time(s) \in Nat
  BY <1>1 DEF Served
<1>3. \A s \in Nat : s <= t => Time(s) <= Time(t)
  BY <1>1
<1>4. t + 1 \in Nat /\ Time(t + 1) = Time(t) + (IF c.start <= t /\ t < c.end THEN 1 ELSE 0)
  BY <1>1
<1> HIDE DEF Time
<1>5. Served(c, t) \in Nat
  BY <1>1, <1>2, Multiples
<1>6. \A s \in Nat : s <= t => Served(c, s) <= Served(c, t)
  BY <1>1, <1>2, <1>3, Multiples
<1>7. CASE c.start <= t /\ t < c.end
  <2>1. rate[c] * (Time(t) + 1) = rate[c] * Time(t) + rate[c]
    <3>1. Time(t) \in Nat /\ 1 \in Nat /\ rate[c] \in Nat
      BY <1>1, <1>2
    <3> QED BY <3>1, Multiples
  <2> QED BY <1>2, <1>4, <1>5, <1>6, <1>7, <2>1
<1>8. CASE ~(c.start <= t /\ t < c.end)
  <2>1. Time(t + 1) = Time(t)
    BY <1>2, <1>4, <1>8
  <2> QED BY <1>2, <1>4, <1>5, <1>6, <1>8, <2>1
<1> QED BY <1>7, <1>8

LEMMA SentByGrows ==
  ASSUME TypeOK, NEW n, NEW s \in Nat, NEW t \in Nat
  PROVE  SentBy(n, t) \in Int /\ (s <= t => SentBy(n, s) <= SentBy(n, t))
<1> DEFINE D == ToNeighbor(n)
           f == [c \in D |-> Served(c, s)]
           g == [c \in D |-> Served(c, t)]
<1>1. IsFiniteSet(D) /\ D \subseteq Contacts
  BY NeighborFacts
<1>2. \A c \in D : Served(c, s) \in Int /\ Served(c, t) \in Int
  BY <1>1, ServedSteps
<1>3. f \in [D -> Int] /\ g \in [D -> Int]
  BY <1>2
<1>4. s <= t => \A c \in D : f[c] <= g[c]
  BY <1>1, ServedSteps
<1>5. SentBy(n, s) = SumOf(f) /\ SentBy(n, t) = SumOf(g)
  BY DEF SentBy
<1> HIDE DEF D, f, g
<1>6. SumOf(g) \in Int
  BY <1>1, <1>3, SumOfType
<1> QED BY <1>1, <1>3, <1>4, <1>5, <1>6, SumsCompare

\* The queue's capacity is what its contacts serve in a unit of time.
LEMMA CapacityServed ==
  ASSUME TypeOK, NEW n
  PROVE  Capacity(n) \in Nat /\ SentBy(n, now + 1) = SentBy(n, now) + Capacity(n)
<1> DEFINE D == ToNeighbor(n)
           E == {c \in D : c.start <= now /\ now < c.end}
           f == [c \in E |-> rate[c]]
           g == [c \in D |-> IF c \in E THEN f[c] ELSE 0]
           u == [c \in D |-> Served(c, now)]
           v == [c \in D |-> Served(c, now + 1)]
<1>1. IsFiniteSet(D) /\ D \subseteq Contacts /\ now \in Nat /\ now + 1 \in Nat
  BY NeighborFacts, VolumeAssumption DEF TypeOK
<1>2. \A c \in Contacts : rate[c] \in Nat
  BY RateType
<1>3. E \in SUBSET D /\ f \in [E -> Int]
  BY <1>1, <1>2
<1>4. g \in [D -> Int] /\ \A c \in D : g[c] = IF c \in E THEN f[c] ELSE 0
  BY <1>3
<1>5. u \in [D -> Int] /\ v \in [D -> Int]
  <2>1. \A c \in D : Served(c, now) \in Int /\ Served(c, now + 1) \in Int
    BY <1>1, ServedSteps
  <2> QED BY <2>1
<1>6. \A c \in D : u[c] + g[c] = v[c]
  <2> SUFFICES ASSUME NEW c \in D PROVE u[c] + g[c] = v[c]
    OBVIOUS
  <2>1. Served(c, now + 1) = Served(c, now) + (IF c.start <= now /\ now < c.end THEN rate[c] ELSE 0)
    BY <1>1, ServedSteps
  <2>2. g[c] = IF c.start <= now /\ now < c.end THEN rate[c] ELSE 0
    BY <1>1, <1>2
  <2>3. u[c] = Served(c, now) /\ v[c] = Served(c, now + 1)
    OBVIOUS
  <2> QED BY <2>1, <2>2, <2>3
<1>7. /\ SentBy(n, now) = SumOf(u) /\ SentBy(n, now + 1) = SumOf(v)
      /\ Capacity(n) = SumOf(f)
  BY DEF SentBy, Capacity
<1>8. SentBy(n, now) <= SentBy(n, now + 1) /\ SentBy(n, now) \in Int /\ SentBy(n, now + 1) \in Int
  BY <1>1, SentByGrows
<1> HIDE DEF D, E, f, g, u, v
<1>9. SumOf(f) = SumOf(g)
  BY <1>1, <1>3, <1>4, SumOfPart
<1>10. SumOf(u) + SumOf(g) = SumOf(v)
  BY <1>1, <1>4, <1>5, <1>6, SumsAdd
<1>11. SumOf(g) \in Int
  BY <1>1, <1>4, SumOfType
<1> QED BY <1>7, <1>8, <1>9, <1>10, <1>11

\* What relieves the backlog is sent by the time all contacts that do so end, and
\* the contact serves the rest from its start on.
LEMMA ReliefServed ==
  ASSUME TypeOK, NEW n \in Neighbors, NEW c \in ToNeighbor(n),
         NEW y \in Nat, Later(now, c.start) <= y, y <= c.end, NEW x \in Nat, y <= x,
         \A d \in ToNeighbor(n) : d.start < c.start => d.end <= x
  PROVE  /\ Relief(n, c) \in Int
         /\ SentBy(n, now) + Relief(n, c) + rate[c] * (y - Later(now, c.start)) <= SentBy(n, x)
<1> DEFINE D == ToNeighbor(n)
           m == Later(now, c.start)
           P == {d \in D : d.start < c.start /\ d.end > now}
           p == [d \in P |-> ApplicableVolume(d)]
           own == [d \in {c} |-> rate[c] * (y - m)]
           u == [d \in D |-> Served(d, now)]
           v == [d \in D |-> IF d \in P THEN p[d] ELSE 0]
           w == [d \in D |-> IF d \in {c} THEN own[d] ELSE 0]
           s == [d \in D |-> u[d] + v[d]]
           e == [d \in D |-> Served(d, x)]
<1>1. IsFiniteSet(D) /\ D \subseteq Contacts /\ c \in D /\ c \in Contacts /\ now \in Nat
  BY NeighborFacts, VolumeAssumption DEF TypeOK
<1>2. \A d \in Contacts : rate[d] \in Nat
  BY RateType
<1>3. /\ m \in Nat /\ y - m \in Nat /\ rate[c] \in Nat /\ c.start \in Nat /\ c.end \in Nat
      /\ m = (IF now > c.start THEN now ELSE c.start) /\ now <= x
  BY <1>1, <1>2, ContactFacts DEF Later
<1>4. rate[c] * (y - m) \in Nat
  BY <1>3, Multiples
<1>5. ASSUME NEW d \in D
      PROVE  /\ ApplicableVolume(d) \in Int /\ Served(d, now) \in Nat /\ Served(d, x) \in Nat
             /\ d \in P => Served(d, now) + ApplicableVolume(d) <= Served(d, x)
             /\ d = c => Served(d, now) + rate[c] * (y - m) <= Served(d, x)
             /\ Served(d, now) <= Served(d, x)
  <2>1. /\ d \in Contacts /\ d.start \in Nat /\ d.end \in Nat /\ rate[d] \in Nat /\ d.start <= d.end
    BY <1>1, <1>2, ContactFacts
  <2>2. Served(d, now) \in Nat /\ Served(d, x) \in Nat /\ Served(d, now) <= Served(d, x)
    BY <1>1, <1>3, <2>1, ServedSteps
  <2>3. ApplicableVolume(d) = rate[d] * (d.end - Later(now, d.start))
    BY <1>2, <2>1 DEF ApplicableVolume
  <2> DEFINE Time(t) == IF t <= d.start THEN 0 ELSE IF t < d.end THEN t - d.start ELSE d.end - d.start
  <2>4. Served(d, now) = rate[d] * Time(now) /\ Served(d, x) = rate[d] * Time(x)
    BY DEF Served
  <2>5. Time(now) \in Nat /\ Time(x) \in Nat /\ d.end - Later(now, d.start) \in Int
    BY <1>1, <2>1 DEF Later
  <2>6. rate[d] * (d.end - Later(now, d.start)) \in Int
    BY <2>1, <2>5
  <2>7. d \in P => Served(d, now) + ApplicableVolume(d) <= Served(d, x)
    <3> SUFFICES ASSUME d \in P PROVE Served(d, now) + ApplicableVolume(d) <= Served(d, x)
      OBVIOUS
    <3>1. d.start < c.start /\ d.end > now /\ d.end <= x
      OBVIOUS
    <3>2. /\ d.end - Later(now, d.start) \in Nat
          /\ Time(x) = Time(now) + (d.end - Later(now, d.start))
      BY <1>1, <1>3, <2>1, <3>1 DEF Later
    <3> HIDE DEF Time
    <3>3. rate[d] * Time(x) = rate[d] * Time(now) + rate[d] * (d.end - Later(now, d.start))
      BY <2>1, <2>5, <3>2, Multiples
    <3> QED BY <2>2, <2>3, <2>4, <2>6, <3>3
  <2>8. d = c => Served(d, now) + rate[c] * (y - m) <= Served(d, x)
    <3> SUFFICES ASSUME d = c PROVE Served(d, now) + rate[c] * (y - m) <= Served(d, x)
      OBVIOUS
    <3>1. Time(now) + (y - m) <= Time(x) /\ Time(now) + (y - m) \in Nat
      BY <1>1, <1>3, <2>1
    <3> HIDE DEF Time, m
    <3>2. rate[d] * (Time(now) + (y - m)) <= rate[d] * Time(x)
      BY <2>1, <2>5, <3>1, Multiples
    <3>3. rate[d] * (Time(now) + (y - m)) = rate[d] * Time(now) + rate[d] * (y - m)
      BY <1>3, <2>1, <2>5, Multiples
    <3> QED BY <1>4, <2>2, <2>4, <3>2, <3>3
  <2> QED BY <2>2, <2>3, <2>6, <2>7, <2>8
<1> HIDE DEF m
<1>6. c \notin P
  BY <1>3
<1>7. P \in SUBSET D /\ {c} \in SUBSET D /\ p \in [P -> Int] /\ own \in [{c} -> Int]
  BY <1>1, <1>4, <1>5
<1>8. v \in [D -> Int] /\ \A d \in D : v[d] = IF d \in P THEN p[d] ELSE 0
  BY <1>7
<1>9. w \in [D -> Int] /\ \A d \in D : w[d] = IF d \in {c} THEN own[d] ELSE 0
  BY <1>7
<1>10. u \in [D -> Int] /\ e \in [D -> Int]
  BY <1>5
<1>11. s \in [D -> Int] /\ \A d \in D : u[d] + v[d] = s[d]
  <2>1. \A d \in D : u[d] \in Int /\ v[d] \in Int
    BY <1>8, <1>10
  <2> HIDE DEF u, v
  <2> QED BY <2>1
<1>12. \A d \in D : s[d] + w[d] <= e[d]
  <2> SUFFICES ASSUME NEW d \in D PROVE s[d] + w[d] <= e[d]
    OBVIOUS
  <2>1. u[d] = Served(d, now) /\ e[d] = Served(d, x) /\ s[d] = u[d] + v[d]
    OBVIOUS
  <2>2. /\ d \in P => v[d] = ApplicableVolume(d) /\ w[d] = 0
        /\ d = c => v[d] = 0 /\ w[d] = rate[c] * (y - m)
        /\ d \notin P /\ d # c => v[d] = 0 /\ w[d] = 0
    BY <1>6
  <2> HIDE DEF u, v, w, s, e, P, p, own, D
  <2> QED BY <1>4, <1>5, <2>1, <2>2
<1>13. /\ SentBy(n, now) = SumOf(u) /\ SentBy(n, x) = SumOf(e) /\ Relief(n, c) = SumOf(p)
  BY DEF SentBy, Relief
<1>14. SumOf(own) = rate[c] * (y - m)
  <2>1. DOMAIN own = {c} /\ own[c] = rate[c] * (y - m) /\ own[c] \in Int
    BY <1>4
  <2> HIDE DEF own
  <2>2. SumOf(own) = own[c]
    BY <2>1, SumOfOne
  <2> QED BY <2>1, <2>2
<1> HIDE DEF D, P, p, own, u, v, w, s, e
<1>15. SumOf(p) = SumOf(v)
  BY <1>1, <1>7, <1>8, SumOfPart
<1>16. SumOf(own) = SumOf(w)
  BY <1>1, <1>7, <1>9, SumOfPart
<1>17. SumOf(u) + SumOf(v) = SumOf(s)
  BY <1>1, <1>8, <1>10, <1>11, SumsAdd
<1>18. SumOf(s) + SumOf(w) <= SumOf(e)
  BY <1>1, <1>9, <1>10, <1>11, <1>12, SumsAdd
<1>19. /\ SumOf(u) \in Int /\ SumOf(v) \in Int /\ SumOf(s) \in Int /\ SumOf(w) \in Int
       /\ SumOf(e) \in Int
  BY <1>1, <1>8, <1>9, <1>10, <1>11, SumOfType
<1> QED BY <1>4, <1>13, <1>14, <1>15, <1>16, <1>17, <1>18, <1>19 DEF m

----------------------------------------------------------------------------
(* The queue is in the order of priority. *)

InOrder(q) ==
  \A i, j \in 1 .. Len(q) : i < j => q[i].bundle.priority >= q[j].bundle.priority

LEMMA PlaceInOrder ==
  ASSUME NEW q \in Seq(Item), InOrder(q), NEW p \in Priorities
  PROVE  /\ Place(q, p) \in 0 .. Len(q)
         /\ \A k \in 1 .. Len(q) : q[k].bundle.priority >= p <=> k <= Place(q, p)
<1> DEFINE ahead == {k \in 1 .. Len(q) : q[k].bundle.priority >= p}
<1>1. /\ Len(q) \in Nat /\ DOMAIN q = 1 .. Len(q) /\ p \in Nat
      /\ \A k \in 1 .. Len(q) : q[k].bundle.priority \in Nat
  BY ItemFacts DEF Priorities
<1>2. Place(q, p) = Cardinality(ahead)
  BY <1>1 DEF Place
<1>3. \A k \in ahead : \A i \in 1 .. k : i \in ahead
  <2> SUFFICES ASSUME NEW k \in ahead, NEW i \in 1 .. k PROVE i \in ahead
    OBVIOUS
  <2>1. i \in 1 .. Len(q) /\ k \in 1 .. Len(q) /\ (i = k \/ i < k)
    BY <1>1
  <2>2. q[k].bundle.priority >= p /\ q[i].bundle.priority >= q[k].bundle.priority
    BY <1>1, <2>1 DEF InOrder
  <2>3. q[i].bundle.priority >= p
    BY <1>1, <2>1, <2>2
  <2> QED BY <2>1, <2>3
<1>4. CASE ahead = {}
  <2>1. Place(q, p) = 0
    BY <1>2, <1>4, FS_EmptySet
  <2> QED BY <1>1, <1>4, <2>1
<1>5. CASE ahead # {}
  <2>1. ahead \subseteq Nat /\ \A k \in ahead : k <= Len(q)
    BY <1>1
  <2>2. PICK m \in ahead : \A k \in ahead : k <= m
    <3> HIDE DEF ahead
    <3> QED BY <1>1, <1>5, <2>1, NatMax
  <2>3. ahead = 1 .. m /\ m \in Nat
    BY <1>1, <1>3, <2>1, <2>2
  <2>4. Place(q, p) = m
    <3>1. Cardinality(1 .. m) = m
      <4>1. m \in Int /\ 1 \in Int /\ 1 <= m
        BY <2>2
      <4> QED BY <2>3, <4>1, FS_Interval
    <3> HIDE DEF ahead
    <3> QED BY <1>2, <2>3, <3>1
  <2>5. \A k \in 1 .. Len(q) : k \in ahead <=> k <= m
    BY <2>3
  <2> QED BY <1>1, <2>1, <2>3, <2>4, <2>5
<1> QED BY <1>4, <1>5

LEMMA EnqueueInOrder ==
  ASSUME NEW q \in Seq(Item), InOrder(q), NEW x \in Item
  PROVE  InOrder(Enqueue(q, x))
<1> DEFINE p == x.bundle.priority
           n == Place(q, p)
           t == Enqueue(q, x)
<1>1. /\ n \in 0 .. Len(q) /\ Len(q) \in Nat
      /\ t \in Seq(Item) /\ Len(t) = Len(q) + 1
      /\ \A k \in 1 .. n : t[k] = q[k]
      /\ t[n + 1] = x
      /\ \A k \in n + 2 .. Len(q) + 1 : t[k] = q[k - 1]
  BY EnqueueInserts DEF Inserted
<1>2. p \in Priorities /\ p \in Nat
  BY BundleFacts DEF Item, Priorities
<1>3. \A k \in 1 .. Len(q) : q[k].bundle.priority \in Nat /\ (q[k].bundle.priority >= p <=> k <= n)
  BY <1>2, ItemFacts, PlaceInOrder
<1> HIDE DEF n, t
<1> SUFFICES ASSUME NEW i \in 1 .. Len(t), NEW j \in 1 .. Len(t), i < j
             PROVE  t[i].bundle.priority >= t[j].bundle.priority
  BY DEF InOrder, t
<1>4. CASE j <= n
  <2>1. i \in 1 .. n /\ j \in 1 .. n /\ i \in 1 .. Len(q) /\ j \in 1 .. Len(q)
    BY <1>1, <1>4
  <2> QED BY <1>1, <2>1 DEF InOrder
<1>5. CASE j = n + 1
  <2>1. i \in 1 .. n /\ i \in 1 .. Len(q) /\ i <= n
    BY <1>1, <1>5
  <2>2. t[j] = x /\ t[i] = q[i]
    BY <1>1, <1>5, <2>1
  <2> QED BY <1>3, <2>1, <2>2
<1>6. CASE j > n + 1
  <2>1. j \in n + 2 .. Len(q) + 1 /\ j - 1 \in 1 .. Len(q) /\ t[j] = q[j - 1] /\ ~(j - 1 <= n)
    BY <1>1, <1>6
  <2>2. CASE i <= n
    <3>1. i \in 1 .. n /\ i \in 1 .. Len(q) /\ i < j - 1
      BY <1>1, <1>6, <2>2
    <3> QED BY <1>1, <2>1, <3>1 DEF InOrder
  <2>3. CASE i = n + 1
    <3>1. t[i] = x /\ ~(q[j - 1].bundle.priority >= p)
      BY <1>1, <1>3, <2>1, <2>3
    <3> QED BY <1>2, <1>3, <2>1, <3>1
  <2>4. CASE i > n + 1
    <3>1. i \in n + 2 .. Len(q) + 1 /\ i - 1 \in 1 .. Len(q) /\ t[i] = q[i - 1] /\ i - 1 < j - 1
      BY <1>1, <2>4
    <3> QED BY <2>1, <3>1 DEF InOrder
  <2>5. i \in Nat /\ n \in Nat
    BY <1>1
  <2> QED BY <2>2, <2>3, <2>4, <2>5
<1>7. j \in Nat /\ n \in Nat
  BY <1>1
<1> QED BY <1>4, <1>5, <1>6, <1>7

----------------------------------------------------------------------------
(* What is left of the first items. *)

Lefts(q, m) == Total([j \in DOMAIN q |-> q[j].left], m)

LEMMA LeftsSteps ==
  ASSUME NEW q \in Seq(Item)
  PROVE  /\ Lefts(q, 0) = 0
         /\ \A m \in 0 .. Len(q) : Lefts(q, m) \in Nat
         /\ \A m \in 1 .. Len(q) : Lefts(q, m) = Lefts(q, m - 1) + q[m].left
<1> DEFINE f == [j \in DOMAIN q |-> q[j].left]
<1>1. Len(q) \in Nat /\ \A j \in 1 .. Len(q) : f[j] = q[j].left /\ f[j] \in Nat
  BY ItemFacts
<1>2. \A m : Lefts(q, m) = Total(f, m)
  BY DEF Lefts
<1> HIDE DEF f
<1>3. \A j \in 1 .. Len(q) : f[j] \in Int
  BY <1>1
<1>4. /\ Lefts(q, 0) = 0
      /\ \A m \in 1 .. Len(q) : Lefts(q, m) = Lefts(q, m - 1) + q[m].left
  <2>1. Total(f, 0) = 0
    BY <1>1, <1>3, TotalUnfolds
  <2>2. \A m \in 1 .. Len(q) : Total(f, m) = Total(f, m - 1) + f[m]
    BY <1>1, <1>3, TotalUnfolds
  <2> QED BY <1>1, <1>2, <2>1, <2>2
<1> DEFINE G == {m \in 0 .. Len(q) : Lefts(q, m) \in Nat}
<1>5. 0 \in G
  BY <1>1, <1>4
<1>6. ASSUME NEW m \in 1 .. Len(q), m - 1 \in G PROVE m \in G
  <2>1. Lefts(q, m) = Lefts(q, m - 1) + q[m].left /\ q[m].left \in Nat
    BY <1>1, <1>4
  <2> QED BY <1>6, <2>1
<1> HIDE DEF G
<1>7. \A m \in 0 .. Len(q) : m \in G
  BY <1>1, <1>5, <1>6, UpTo
<1> QED BY <1>4, <1>7 DEF G

LEMMA LeftsSame ==
  ASSUME NEW q \in Seq(Item), NEW t \in Seq(Item), NEW m \in Nat, m <= Len(q), m <= Len(t),
         \A i \in 1 .. m : q[i].left = t[i].left
  PROVE  Lefts(q, m) = Lefts(t, m)
<1> DEFINE f == [j \in DOMAIN q |-> q[j].left]
           g == [j \in DOMAIN t |-> t[j].left]
<1>1. \A i \in 1 .. m : i \in 1 .. Len(q) /\ i \in 1 .. Len(t)
  BY ItemFacts
<1>2. \A i \in 1 .. m : f[i] = q[i].left /\ g[i] = t[i].left /\ q[i].left \in Nat /\ t[i].left \in Nat
  BY <1>1, ItemFacts
<1>3. Lefts(q, m) = Total(f, m) /\ Lefts(t, m) = Total(g, m)
  BY DEF Lefts
<1> HIDE DEF f, g
<1>4. \A i \in 1 .. m : f[i] \in Int /\ g[i] \in Int
  BY <1>2
<1>5. \A i \in 1 .. m : f[i] = g[i]
  BY <1>2
<1> QED BY <1>3, <1>4, <1>5, TotalCompares

\* The backlog of a priority is what is left of the items it is put after.
LEMMA BacklogAhead ==
  ASSUME QueuesInShape, NEW n \in Neighbors, InOrder(queue[n]), NEW p \in Priorities
  PROVE  /\ Place(queue[n], p) \in 0 .. Len(queue[n])
         /\ Backlog(n, p) = Lefts(queue[n], Place(queue[n], p))
         /\ Backlog(n, p) \in Nat
<1> DEFINE q == queue[n]
           m == Place(q, p)
           f == [k \in DOMAIN q |-> IF q[k].bundle.priority >= p THEN q[k].left ELSE 0]
           g == [k \in DOMAIN q |-> q[k].left]
<1>1. q \in Seq(Item)
  BY DEF QueuesInShape
<1>2. /\ Len(q) \in Nat /\ DOMAIN q = 1 .. Len(q)
      /\ \A k \in 1 .. Len(q) : q[k].left \in Nat /\ (q[k].bundle.priority >= p <=> k <= m)
  <2>1. InOrder(q)
    OBVIOUS
  <2> HIDE DEF q
  <2> QED BY <1>1, <2>1, ItemFacts, PlaceInOrder
<1>3. m \in 0 .. Len(q)
  BY <1>1, PlaceInOrder
<1>4. Backlog(n, p) = Total(f, Len(q)) /\ Lefts(q, m) = Total(g, m)
  BY DEF Backlog, Lefts
<1>5. \A k \in 1 .. Len(q) : /\ f[k] \in Int /\ g[k] \in Int
                             /\ f[k] = IF k <= m THEN g[k] ELSE 0
  BY <1>2
<1> HIDE DEF f, g, m
<1>6. m \in Nat /\ \A k \in m + 1 .. Len(q) : k \in 1 .. Len(q) /\ f[k] = 0
  BY <1>2, <1>3, <1>5
<1>7. \A k \in 1 .. m : k \in 1 .. Len(q) /\ f[k] = g[k]
  BY <1>2, <1>3, <1>5
<1> HIDE DEF q
<1>8. Total(f, Len(q)) = Total(f, m)
  <2>1. \A k \in 1 .. Len(q) : f[k] \in Int
    BY <1>5
  <2>2. \A k \in m + 1 .. Len(q) : f[k] = 0
    BY <1>6
  <2> QED BY <1>2, <1>3, <2>1, <2>2, TotalEnds
<1>9. Total(f, m) = Total(g, m)
  <2>1. \A k \in 1 .. m : f[k] \in Int /\ g[k] \in Int
    BY <1>5, <1>7
  <2>2. \A k \in 1 .. m : f[k] = g[k]
    BY <1>7
  <2> QED BY <1>6, <2>1, <2>2, TotalCompares
<1>10. Lefts(q, m) \in Nat
  BY <1>1, <1>3, LeftsSteps
<1> QED BY <1>3, <1>4, <1>8, <1>9, <1>10 DEF q, m

LEMMA Remainder ==
  ASSUME NEW x \in Nat, NEW y \in Nat, y > 0
  PROVE  x \div y \in Nat /\ x < y * ((x \div y) + 1)
OBVIOUS

\* An expedited bundle is served in the unit of time its eto is in, or by the end
\* of a contact that encloses the one it was promised over.
DueBy(n, eto, over, x) ==
  \/ x = eto + 1
  \/ \E d \in ToNeighbor(n) : d.start < over.start /\ over.start < d.end /\ x = d.end

\* The last of a time and the ends of the contacts that begin before another one.
IsLastEnd(n, c, t, x) ==
  /\ t <= x /\ \A d \in ToNeighbor(n) : d.start < c.start => d.end <= x
  /\ x = t \/ \E d \in ToNeighbor(n) : d.start < c.start /\ x = d.end

LEMMA LastEnd ==
  ASSUME NEW n, NEW c, NEW t \in Nat
  PROVE  \E x \in Nat : IsLastEnd(n, c, t, x)
<1> DEFINE D == ToNeighbor(n)
<1>1. IsFiniteSet(D) /\ \A d \in D : d.end \in Nat
  BY NeighborFacts, ContactFacts
<1> HIDE DEF D
<1>2. PICK k, o : Orders(D, k, o)
  BY <1>1, SumOrder
<1>3. k \in Nat /\ o \in [1 .. k -> D] /\ \A d \in D : \E i \in 1 .. k : o[i] = d
  BY <1>2 DEF Orders
<1> DEFINE Last(i, x) == /\ t <= x /\ \A j \in 1 .. i : o[j].start < c.start => o[j].end <= x
                         /\ x = t \/ \E d \in D : d.start < c.start /\ x = d.end
           G == {i \in 0 .. k : \E x \in Nat : Last(i, x)}
<1>4. 0 \in G
  <2>1. Last(0, t)
    OBVIOUS
  <2> QED BY <1>3, <2>1
<1>5. ASSUME NEW i \in 1 .. k, i - 1 \in G PROVE i \in G
  <2>1. PICK x \in Nat : Last(i - 1, x)
    BY <1>5
  <2>2. o[i] \in D /\ o[i].end \in Nat
    BY <1>1, <1>3
  <2>3. CASE o[i].start < c.start /\ o[i].end > x
    <3>1. Last(i, o[i].end)
      <4>1. ASSUME NEW j \in 1 .. i, o[j].start < c.start PROVE o[j].end <= o[i].end
        <5>1. CASE j \in 1 .. i - 1
          <6>1. o[j].end <= x /\ o[j].end \in Nat
            BY <1>1, <1>3, <2>1, <4>1, <5>1
          <6> QED BY <2>2, <2>3, <6>1
        <5>2. CASE j = i
          BY <2>2, <5>2
        <5> QED BY <5>1, <5>2
      <4> QED BY <2>1, <2>2, <2>3, <4>1
    <3> HIDE DEF Last
    <3> QED BY <2>2, <3>1
  <2>4. CASE ~(o[i].start < c.start /\ o[i].end > x)
    <3>1. Last(i, x)
      <4>1. ASSUME NEW j \in 1 .. i, o[j].start < c.start PROVE o[j].end <= x
        <5>1. CASE j \in 1 .. i - 1
          BY <2>1, <4>1, <5>1
        <5>2. CASE j = i
          BY <2>2, <2>4, <4>1, <5>2
        <5> QED BY <5>1, <5>2
      <4> QED BY <2>1, <4>1
    <3> HIDE DEF Last
    <3> QED BY <3>1
  <2> QED BY <2>3, <2>4
<1> HIDE DEF G
<1>6. \A i \in 0 .. k : i \in G
  BY <1>3, <1>4, <1>5, UpTo
<1>7. PICK x \in Nat : Last(k, x)
  <2>1. k \in G
    BY <1>3, <1>6
  <2> HIDE DEF Last
  <2> QED BY <2>1 DEF G
<1>8. \A d \in D : d.start < c.start => d.end <= x
  BY <1>3, <1>7
<1> QED BY <1>7, <1>8 DEF D, IsLastEnd

\* The contacts with the neighbor serve all that is ahead and more by the time
\* that phase two promises, or that the enclosing contacts need.
LEMMA PromiseKept ==
  ASSUME TypeOK, QueuesInShape, NEW b \in Bundles,
         NEW r \in Routes, Viable(r, b), NEW n, n = Neighbor(r), InOrder(queue[n])
  PROVE  \E x \in Nat :
           /\ DueBy(n, Eto(r, b.priority), r[1], x) /\ now < x
           /\ Backlog(n, b.priority) < SentBy(n, x) - SentBy(n, now)
<1> DEFINE p == b.priority
           c == r[1]
           m == Later(now, c.start)
           residual == Residual(c, p)
           z == residual \div rate[c]
           eto == Eto(r, p)
<1>1. /\ c \in Contacts /\ c.from = LocalNode /\ c.to = n /\ n \in Neighbors /\ p \in Priorities
      /\ 1 \in 1 .. Len(r) /\ DOMAIN r = 1 .. Len(r) /\ now \in Nat
  BY RouteFacts, BundleFacts, VolumeAssumption DEF Neighbor, TypeOK
<1>2. c \in ToNeighbor(n)
  BY <1>1 DEF ToNeighbor
<1>3. rate[c] \in Nat /\ rate[c] > 0 /\ c.start \in Nat /\ c.end \in Nat
  BY <1>1, ContactFacts, RateType
<1>4. residual \in Nat
  BY <1>1, ResidualType
<1>5. z \in Nat /\ residual < rate[c] * (z + 1)
  <2> HIDE DEF residual, c
  <2> QED BY <1>3, <1>4, Remainder
<1>6. eto = m + z /\ m \in Nat /\ now <= m /\ c.start <= m
  BY <1>1, <1>3 DEF Eto, Later
<1>7. eto < c.end
  <2>1. FirstEnd(r, 1) \in Nat /\ FirstEnd(r, 1) <= c.end
    BY <1>1, FirstEndType
  <2>2. FirstEnd(r, 1) - Journey(r, b)[1].first > 0
    BY <1>1 DEF Viable, Deliverable, EffectiveDuration
  <2>3. Journey(r, b)[1].first = eto
    BY JourneyUnfolds
  <2> HIDE DEF z, m, c, eto
  <2> QED BY <1>3, <1>5, <1>6, <2>1, <2>2, <2>3
<1>8. residual = Later(0, Backlog(n, p) - Relief(n, c))
  BY <1>1 DEF Residual
<1>9. Backlog(n, p) \in Nat
  BY <1>1, BacklogAhead
<1> HIDE DEF z, residual, eto, p
<1>10. eto + 1 \in Nat /\ m <= eto + 1 /\ eto + 1 <= c.end /\ now < eto + 1 /\ c.start < eto + 1
  <2> HIDE DEF c, m
  <2> QED BY <1>1, <1>3, <1>5, <1>6, <1>7
<1> HIDE DEF c
<1>11. PICK x \in Nat : IsLastEnd(n, c, eto + 1, x)
  BY <1>10, LastEnd
<1>12. /\ eto + 1 <= x /\ \A d \in ToNeighbor(n) : d.start < c.start => d.end <= x
       /\ x = eto + 1 \/ \E d \in ToNeighbor(n) : d.start < c.start /\ x = d.end
  BY <1>11 DEF IsLastEnd
<1>13. /\ Relief(n, c) \in Int
       /\ SentBy(n, now) + Relief(n, c) + rate[c] * ((eto + 1) - m) <= SentBy(n, x)
  BY <1>1, <1>2, <1>10, <1>12, ReliefServed
<1> HIDE DEF m
<1>14. (eto + 1) - m = z + 1
  BY <1>5, <1>6
<1>15. SentBy(n, now) \in Int /\ SentBy(n, x) \in Int /\ rate[c] * (z + 1) \in Nat
  <2>1. z + 1 \in Nat
    BY <1>5
  <2> QED BY <1>1, <1>3, <1>12, <2>1, SentByGrows, Multiples
<1>16. Backlog(n, p) <= Relief(n, c) + residual
  BY <1>4, <1>8, <1>9, <1>13 DEF Later
<1>17. Backlog(n, p) < SentBy(n, x) - SentBy(n, now)
  BY <1>4, <1>5, <1>9, <1>13, <1>14, <1>15, <1>16
<1>18. now < x
  BY <1>1, <1>10, <1>12
<1>19. DueBy(n, eto, c, x)
  <2>1. ASSUME NEW d \in ToNeighbor(n), d.start < c.start, x = d.end PROVE c.start < d.end
    BY <1>3, <1>10, <1>12, <2>1
  <2> QED BY <1>12, <2>1 DEF DueBy
<1> QED BY <1>17, <1>18, <1>19 DEF eto, p, c

\* Dropping items puts no item behind more than it had ahead.
LEMMA OnlyLefts ==
  ASSUME NEW S, NEW s \in Seq(Item), NEW k \in 1 .. Len(Only(S, s))
  PROVE  \E i \in 1 .. Len(s) : Only(S, s)[k] = s[i] /\ Lefts(Only(S, s), k - 1) <= Lefts(s, i - 1)
<1> DEFINE Behind(t, i, l) == \E j \in 1 .. i : t[l] = s[j] /\ Lefts(t, l - 1) <= Lefts(s, j - 1)
           Good(t, i) == /\ t \in Seq(Item) /\ Lefts(t, Len(t)) <= Lefts(s, i)
                         /\ \A l \in 1 .. Len(t) : Behind(t, i, l)
<1>1. PICK f : Keeps(S, s, f) /\ Only(S, s) = f[Len(s)]
  BY OnlyUnfolds
<1> DEFINE G == {i \in 0 .. Len(s) : Good(f[i], i)}
<1>2. Len(s) \in Nat /\ 0 \in 0 .. Len(s)
  OBVIOUS
<1>3. 0 \in G
  <2>1. f[0] = <<>> /\ <<>> \in Seq(Item) /\ Len(<<>>) = 0
    BY <1>1 DEF Keeps
  <2>2. Lefts(<<>>, 0) = 0 /\ Lefts(s, 0) = 0
    BY <2>1, LeftsSteps
  <2>3. \A l \in 1 .. 0 : Behind(<<>>, 0, l)
    OBVIOUS
  <2> HIDE DEF Behind
  <2>4. Good(<<>>, 0)
    <3>1. Lefts(<<>>, Len(<<>>)) <= Lefts(s, 0)
      BY <2>1, <2>2
    <3>2. \A l \in 1 .. Len(<<>>) : Behind(<<>>, 0, l)
      BY <2>1, <2>3
    <3> QED BY <2>1, <3>1, <3>2
  <2> HIDE DEF Good
  <2> QED BY <1>2, <2>1, <2>4
<1>4. ASSUME NEW i \in 1 .. Len(s), i - 1 \in G PROVE i \in G
  <2> DEFINE t == f[i - 1]
             u == f[i]
  <2>1. /\ t \in Seq(Item) /\ Lefts(t, Len(t)) <= Lefts(s, i - 1)
        /\ \A l \in 1 .. Len(t) : Behind(t, i - 1, l)
    <3> HIDE DEF Behind
    <3> QED BY <1>4
  <2>2. u = IF s[i] \in S THEN Append(t, s[i]) ELSE t
    BY <1>1 DEF Keeps
  <2>3. /\ Lefts(s, i) = Lefts(s, i - 1) + s[i].left /\ s[i].left \in Nat /\ s[i] \in Item
        /\ Lefts(s, i - 1) \in Nat /\ Lefts(s, i) \in Nat
    <3>1. i \in 0 .. Len(s) /\ i - 1 \in 0 .. Len(s)
      OBVIOUS
    <3> QED BY <3>1, LeftsSteps, ItemFacts
  <2> HIDE DEF t, u
  <2>4. Len(t) \in Nat /\ Lefts(t, Len(t)) \in Nat
    <3>1. Len(t) \in Nat /\ Len(t) \in 0 .. Len(t)
      BY <2>1
    <3> QED BY <2>1, <3>1, LeftsSteps
  <2>5. \A j \in 1 .. i - 1 : j \in 1 .. i
    OBVIOUS
  <2>6. CASE s[i] \notin S
    <3>1. u = t
      BY <2>2, <2>6
    <3>2. \A l \in 1 .. Len(t) : Behind(t, i, l)
      BY <2>1, <2>5
    <3>3. Lefts(t, Len(t)) <= Lefts(s, i)
      BY <2>1, <2>3, <2>4
    <3> HIDE DEF Behind
    <3> QED BY <2>1, <3>1, <3>2, <3>3 DEF u
  <2>7. CASE s[i] \in S
    <3>1. /\ u \in Seq(Item) /\ Len(u) = Len(t) + 1 /\ u[Len(t) + 1] = s[i]
          /\ \A l \in 1 .. Len(t) : u[l] = t[l]
      BY <2>1, <2>2, <2>3, <2>7
    <3>2. \A m \in 0 .. Len(t) : Lefts(u, m) = Lefts(t, m)
      <4> SUFFICES ASSUME NEW m \in 0 .. Len(t) PROVE Lefts(u, m) = Lefts(t, m)
        OBVIOUS
      <4>1. m \in Nat /\ m <= Len(u) /\ m <= Len(t) /\ \A l \in 1 .. m : u[l].left = t[l].left
        BY <2>4, <3>1
      <4> QED BY <2>1, <3>1, <4>1, LeftsSame
    <3>3. Lefts(u, Len(u)) = Lefts(t, Len(t)) + s[i].left
      <4>1. Len(u) \in 1 .. Len(u) /\ Len(u) - 1 = Len(t) /\ Len(t) \in 0 .. Len(t)
        BY <2>4, <3>1
      <4>2. Lefts(u, Len(u)) = Lefts(u, Len(u) - 1) + u[Len(u)].left
        BY <3>1, <4>1, LeftsSteps
      <4> QED BY <3>1, <3>2, <4>1, <4>2
    <3>4. Lefts(u, Len(u)) <= Lefts(s, i)
      BY <2>1, <2>3, <2>4, <3>3
    <3>5. ASSUME NEW l \in 1 .. Len(u) PROVE Behind(u, i, l)
      <4>1. CASE l = Len(t) + 1
        <5>1. u[l] = s[i] /\ Lefts(u, l - 1) = Lefts(t, Len(t)) /\ i \in 1 .. i
          <6>1. l - 1 = Len(t) /\ Len(t) \in 0 .. Len(t)
            BY <2>4, <4>1
          <6> QED BY <3>1, <3>2, <4>1, <6>1
        <5> QED BY <2>1, <5>1
      <4>2. CASE l \in 1 .. Len(t)
        <5>1. PICK j \in 1 .. i - 1 : t[l] = s[j] /\ Lefts(t, l - 1) <= Lefts(s, j - 1)
          BY <2>1, <4>2
        <5>2. u[l] = t[l] /\ Lefts(u, l - 1) = Lefts(t, l - 1)
          <6>1. l - 1 \in 0 .. Len(t)
            BY <2>4, <4>2
          <6> QED BY <3>1, <3>2, <4>2, <6>1
        <5> QED BY <2>5, <5>1, <5>2
      <4> QED BY <2>4, <3>1, <4>1, <4>2
    <3> HIDE DEF Behind
    <3> QED BY <3>1, <3>4, <3>5 DEF u
  <2> QED BY <2>6, <2>7
<1> HIDE DEF G
<1>5. \A i \in 0 .. Len(s) : i \in G
  BY <1>2, <1>3, <1>4, UpTo
<1>6. Len(s) \in 0 .. Len(s)
  BY <1>2
<1> HIDE DEF Behind
<1>7. Behind(f[Len(s)], Len(s), k)
  BY <1>1, <1>5, <1>6 DEF G
<1> QED BY <1>1, <1>7 DEF Behind

LEMMA Sendable ==
  ASSUME NEW a \in Nat, NEW c \in Nat, NEW x \in Nat
  PROVE  Later(0, a - c) + (x - Earlier(x, Later(0, c - a))) = Later(0, (a + x) - c)
BY DEF Later, Earlier

\* The capacity is used up by the first items.
LEMMA SendingLefts ==
  ASSUME TypeOK, QueuesInShape, NEW n \in Neighbors, NEW m \in 0 .. Len(queue[n])
  PROVE  Lefts(Sending(n), m) = Later(0, Lefts(queue[n], m) - Capacity(n))
<1> DEFINE q == queue[n]
           after == Sending(n)
           c == Capacity(n)
           G == {i \in 0 .. Len(q) : Lefts(after, i) = Later(0, Lefts(q, i) - c)}
<1>1. q \in Seq(Item) /\ Len(q) \in Nat
  BY DEF QueuesInShape
<1>2. after \in Seq(Item) /\ Len(after) = Len(q) /\ c \in Nat
  BY SendingItems, CapacityServed
<1>3. \A k \in 1 .. Len(q) : /\ after[k].left = q[k].left - Sends(n, k)
                             /\ Sends(n, k) = Earlier(q[k].left, Later(0, c - Lefts(q, k - 1)))
  BY SendingItems DEF Sends, Ahead, Lefts
<1> HIDE DEF q, after, c
<1>4. 0 \in G
  <2>1. Lefts(after, 0) = 0 /\ Lefts(q, 0) = 0
    BY <1>1, <1>2, LeftsSteps
  <2> QED BY <1>1, <1>2, <2>1 DEF Later
<1>5. ASSUME NEW i \in 1 .. Len(q), i - 1 \in G PROVE i \in G
  <2>1. i - 1 \in 0 .. Len(q) /\ i \in 0 .. Len(q) /\ i \in 1 .. Len(after)
    BY <1>2
  <2>2. /\ Lefts(after, i) = Lefts(after, i - 1) + after[i].left
        /\ Lefts(q, i) = Lefts(q, i - 1) + q[i].left
        /\ Lefts(q, i - 1) \in Nat /\ q[i].left \in Nat
    BY <1>1, <1>2, <2>1, LeftsSteps, ItemFacts
  <2>3. Lefts(after, i - 1) = Later(0, Lefts(q, i - 1) - c)
    BY <1>5
  <2> DEFINE a == Lefts(q, i - 1)
             x == q[i].left
  <2>4. after[i].left = x - Earlier(x, Later(0, c - a))
    BY <1>3
  <2>5. a \in Nat /\ x \in Nat
    BY <2>2
  <2> HIDE DEF a, x
  <2>6. Later(0, a - c) + (x - Earlier(x, Later(0, c - a))) = Later(0, (a + x) - c)
    BY <1>2, <2>5, Sendable
  <2>7. Lefts(after, i) = Later(0, (a + x) - c)
    BY <2>2, <2>3, <2>4, <2>6 DEF a
  <2> QED BY <2>1, <2>2, <2>7 DEF a, x
<1> HIDE DEF G
<1>6. \A i \in 0 .. Len(q) : i \in G
  BY <1>1, <1>4, <1>5, UpTo
<1> QED BY <1>6 DEF G, q, after, c

----------------------------------------------------------------------------
(* The promise. *)

\* What is ahead of an expedited bundle that is not sent in part is less than
\* what is sent from the time t until the bundle is due, unless a contact with the
\* neighbor was given another rate.
Promised(n, q, t) ==
  \A k \in 1 .. Len(q) :
    q[k].bundle.priority = 2 /\ q[k].left = q[k].bundle.evc /\ q[k].bundle \notin shaken =>
      \E x \in Nat : /\ DueBy(n, q[k].eto, q[k].over, x) /\ t < x
                     /\ Lefts(q, k - 1) < SentBy(n, x) - SentBy(n, t)

LEMMA SendingInOrder ==
  ASSUME TypeOK, QueuesInShape, NEW n \in Neighbors, InOrder(queue[n]), Tick
  PROVE  InOrder(queue'[n])
<1> DEFINE q == queue[n]
           after == Sending(n)
<1>1. /\ after \in Seq(Item) /\ Len(after) = Len(q)
      /\ \A k \in 1 .. Len(q) : after[k].bundle = q[k].bundle
  BY SendingItems
<1>2. PICK S : queue'[n] = Only(S, after)
  BY SendingItems
<1> DEFINE t == Only(S, after)
<1> SUFFICES ASSUME NEW i \in 1 .. Len(t), NEW j \in 1 .. Len(t), i < j
             PROVE  t[i].bundle.priority >= t[j].bundle.priority
  BY <1>2 DEF InOrder
<1> HIDE DEF after
<1>3. Before(t, t[i], t[j])
  BY DEF Before
<1>4. Before(after, t[i], t[j])
  BY <1>1, <1>3, BeforeOnly
<1>5. PICK k, l \in 1 .. Len(after) : k < l /\ after[k] = t[i] /\ after[l] = t[j]
  BY <1>4 DEF Before
<1>6. q[k].bundle.priority >= q[l].bundle.priority
  BY <1>1, <1>5 DEF InOrder
<1> QED BY <1>1, <1>5, <1>6

LEMMA SendingPromised ==
  ASSUME TypeOK, QueuesInShape, QueuesSound, NEW n \in Neighbors, Tick,
         Promised(n, queue[n], now)
  PROVE  Promised(n, queue'[n], now + 1)
<1> DEFINE q == queue[n]
           after == Sending(n)
           c == Capacity(n)
<1>1. q \in Seq(Item) /\ Len(q) \in Nat /\ now \in Nat /\ now + 1 \in Nat
  BY VolumeAssumption DEF QueuesInShape, TypeOK
<1>2. /\ after \in Seq(Item) /\ Len(after) = Len(q)
      /\ \A k \in 1 .. Len(q) : /\ after[k].bundle = q[k].bundle
                                /\ after[k].eto = q[k].eto /\ after[k].over = q[k].over
                                /\ after[k].left = q[k].left - Sends(n, k)
  BY SendingItems
<1>3. PICK S : queue'[n] = Only(S, after)
  BY SendingItems
<1>4. c \in Nat /\ SentBy(n, now + 1) = SentBy(n, now) + c
  BY CapacityServed
<1>5. \A k \in 1 .. Len(q) : /\ Sends(n, k) \in Nat
                             /\ Sends(n, k) = Earlier(q[k].left, Later(0, c - Lefts(q, k - 1)))
  BY SendsType DEF Sends, Ahead, Lefts
<1>6. \A k \in 1 .. Len(q) : /\ q[k].left \in Nat /\ q[k].left > 0 /\ q[k].left <= q[k].bundle.evc
                             /\ q[k].bundle.evc \in Nat
  <2>1. \A k \in 1 .. Len(q) : q[k].left \in 1 .. q[k].bundle.evc
    BY DEF QueuesSound, QueueSound
  <2>2. \A k \in 1 .. Len(q) : q[k].bundle \in Bundles
    <3> HIDE DEF q
    <3> QED BY <1>1, ItemFacts
  <2> HIDE DEF q
  <2> QED BY <2>1, <2>2, BundleFacts
<1>7. \A m \in 0 .. Len(q) : Lefts(after, m) = Later(0, Lefts(q, m) - c)
  BY SendingLefts
<1>8. Promised(n, q, now)
  OBVIOUS
<1> DEFINE t == Only(S, after)
<1> HIDE DEF q, after, c
<1>9. t \in Seq(Item)
  BY <1>2, InOnly
<1> SUFFICES ASSUME NEW k \in 1 .. Len(t), t[k].bundle.priority = 2, t[k].left = t[k].bundle.evc,
                    t[k].bundle \notin shaken
             PROVE  \E x \in Nat : /\ DueBy(n, t[k].eto, t[k].over, x) /\ now + 1 < x
                                   /\ Lefts(t, k - 1) < SentBy(n, x) - SentBy(n, now + 1)
  BY <1>3 DEF Promised
<1>10. PICK i \in 1 .. Len(after) : t[k] = after[i] /\ Lefts(t, k - 1) <= Lefts(after, i - 1)
  BY <1>2, OnlyLefts
<1>11. i \in 1 .. Len(q) /\ i - 1 \in 0 .. Len(q)
  BY <1>1, <1>2, <1>10
<1> DEFINE a == Lefts(q, i - 1)
<1>12. a \in Nat
  BY <1>1, <1>11, LeftsSteps
<1>13. Sends(n, i) = 0 /\ q[i].left = q[i].bundle.evc /\ q[i].bundle.priority = 2
       /\ q[i].bundle \notin shaken
  <2>1. t[k].left = q[i].left - Sends(n, i) /\ t[k].bundle = q[i].bundle
    BY <1>2, <1>10, <1>11
  <2>2. q[i].left - Sends(n, i) = q[i].bundle.evc /\ q[i].bundle.priority = 2
    BY <2>1
  <2>3. q[i].bundle \notin shaken
    BY <2>1
  <2>4. /\ Sends(n, i) \in Nat
        /\ q[i].left \in Nat /\ q[i].bundle.evc \in Nat /\ q[i].left <= q[i].bundle.evc
    BY <1>5, <1>6, <1>11
  <2> QED BY <2>2, <2>3, <2>4
<1>14. c <= a
  <2>1. Earlier(q[i].left, Later(0, c - a)) = 0 /\ q[i].left \in Nat /\ q[i].left > 0
    BY <1>5, <1>6, <1>11, <1>13
  <2> QED BY <1>4, <1>12, <2>1 DEF Earlier, Later
<1>15. PICK x \in Nat : /\ DueBy(n, q[i].eto, q[i].over, x) /\ now < x
                        /\ a < SentBy(n, x) - SentBy(n, now)
  BY <1>8, <1>11, <1>13 DEF Promised
<1>16. t[k].eto = q[i].eto /\ t[k].over = q[i].over
  BY <1>2, <1>10, <1>11
<1>17. Lefts(after, i - 1) = a - c
  <2>1. Lefts(after, i - 1) = Later(0, a - c)
    BY <1>7, <1>11
  <2> QED BY <1>4, <1>12, <1>14, <2>1 DEF Later
<1>18. Lefts(t, k - 1) \in Nat
  <2>1. k - 1 \in 0 .. Len(t)
    BY <1>9
  <2> QED BY <1>9, <2>1, LeftsSteps
<1> HIDE DEF a, t
<1>19. /\ SentBy(n, x) \in Int /\ SentBy(n, now) \in Int /\ SentBy(n, now + 1) \in Int
       /\ x <= now + 1 => SentBy(n, x) <= SentBy(n, now + 1)
  BY <1>1, SentByGrows
<1>20. Lefts(t, k - 1) < SentBy(n, x) - SentBy(n, now + 1)
  BY <1>4, <1>10, <1>12, <1>14, <1>15, <1>17, <1>18, <1>19 DEF t
<1>21. now + 1 < x
  BY <1>1, <1>15, <1>18, <1>19, <1>20
<1> QED BY <1>15, <1>16, <1>20, <1>21

LEMMA EnqueuePromised ==
  ASSUME NEW n, NEW time, NEW q \in Seq(Item), InOrder(q), Promised(n, q, time), NEW x \in Item,
         x.bundle.priority = 2 =>
           \E y \in Nat : /\ DueBy(n, x.eto, x.over, y) /\ time < y
                         /\ Lefts(q, Place(q, 2)) < SentBy(n, y) - SentBy(n, time)
  PROVE  Promised(n, Enqueue(q, x), time)
<1> DEFINE p == x.bundle.priority
           m == Place(q, p)
           t == Enqueue(q, x)
<1>1. /\ m \in 0 .. Len(q) /\ Len(q) \in Nat
      /\ t \in Seq(Item) /\ Len(t) = Len(q) + 1
      /\ \A k \in 1 .. m : t[k] = q[k]
      /\ t[m + 1] = x
      /\ \A k \in m + 2 .. Len(q) + 1 : t[k] = q[k - 1]
  BY EnqueueInserts DEF Inserted
<1>2. p \in Priorities /\ p \in Nat /\ p <= 2
  BY BundleFacts DEF Item, Priorities
<1>3. \A k \in 1 .. Len(q) : q[k].bundle.priority \in Nat /\ (q[k].bundle.priority >= p <=> k <= m)
  BY <1>2, ItemFacts, PlaceInOrder
<1>4. p = 2 => m = Place(q, 2)
  OBVIOUS
<1> HIDE DEF m, t
<1>5. \A l \in 0 .. m : Lefts(t, l) = Lefts(q, l)
  <2> SUFFICES ASSUME NEW l \in 0 .. m PROVE Lefts(t, l) = Lefts(q, l)
    OBVIOUS
  <2>1. l \in Nat /\ l <= Len(q) /\ l <= Len(t) /\ \A i \in 1 .. l : t[i].left = q[i].left
    BY <1>1
  <2> QED BY <1>1, <2>1, LeftsSame
<1> SUFFICES ASSUME NEW k \in 1 .. Len(t), t[k].bundle.priority = 2, t[k].left = t[k].bundle.evc,
                    t[k].bundle \notin shaken
             PROVE  \E y \in Nat : /\ DueBy(n, t[k].eto, t[k].over, y) /\ time < y
                                   /\ Lefts(t, k - 1) < SentBy(n, y) - SentBy(n, time)
  BY DEF Promised, t
<1>6. CASE k <= m
  <2>1. k \in 1 .. m /\ k \in 1 .. Len(q) /\ k - 1 \in 0 .. m
    BY <1>1, <1>6
  <2>2. t[k] = q[k] /\ Lefts(t, k - 1) = Lefts(q, k - 1)
    BY <1>1, <1>5, <2>1
  <2> QED BY <2>1, <2>2 DEF Promised
<1>7. CASE k = m + 1
  <2>1. t[k] = x /\ k - 1 = m /\ m \in 0 .. m
    BY <1>1, <1>7
  <2>2. Lefts(t, k - 1) = Lefts(q, Place(q, 2))
    BY <1>4, <1>5, <2>1
  <2> QED BY <2>1, <2>2
<1>8. CASE k > m + 1
  <2>1. k \in m + 2 .. Len(q) + 1 /\ k - 1 \in 1 .. Len(q) /\ ~(k - 1 <= m)
    BY <1>1, <1>8
  <2>2. t[k] = q[k - 1] /\ ~(q[k - 1].bundle.priority >= p) /\ q[k - 1].bundle.priority \in Nat
    BY <1>1, <1>3, <2>1
  <2> QED BY <1>2, <2>2
<1>9. k \in Nat /\ m \in Nat
  BY <1>1
<1> QED BY <1>6, <1>7, <1>8, <1>9

----------------------------------------------------------------------------
(* The steps. *)

\* What was promised at the rates there are stays promised while no rate changes.
LEMMA PromisedStays ==
  ASSUME rate' = rate, shaken' = shaken, NEW n, NEW t, now' = t, Promised(n, queue'[n], t)
  PROVE  Promised(n, queue[n], now)'
<1>1. (\A y : SentBy(n, y)' = SentBy(n, y)) /\ SentBy(n, now)' = SentBy(n, t)
  BY DEF SentBy, Served
<1> SUFFICES ASSUME NEW k \in 1 .. Len(queue'[n]), queue'[n][k].bundle.priority = 2,
                    queue'[n][k].left = queue'[n][k].bundle.evc, queue'[n][k].bundle \notin shaken'
             PROVE  \E x \in Nat : /\ DueBy(n, queue'[n][k].eto, queue'[n][k].over, x) /\ now' < x
                                   /\ Lefts(queue'[n], k - 1) < SentBy(n, x)' - SentBy(n, now)'
  BY DEF Promised, DueBy, Lefts
<1>2. PICK x \in Nat : /\ DueBy(n, queue'[n][k].eto, queue'[n][k].over, x) /\ t < x
                       /\ Lefts(queue'[n], k - 1) < SentBy(n, x) - SentBy(n, t)
  BY DEF Promised
<1> QED BY <1>1, <1>2

EtoInv == \A n \in Neighbors : InOrder(queue[n]) /\ Promised(n, queue[n], now)

LEMMA EtoInitHolds == Init => EtoInv
<1> SUFFICES ASSUME Init PROVE EtoInv
  OBVIOUS
<1>1. \A n \in Neighbors : queue[n] = <<>>
  BY DEF Init
<1>2. \A k : k \notin 1 .. Len(<<>>)
  OBVIOUS
<1>3. \A n \in Neighbors : InOrder(queue[n]) /\ Promised(n, queue[n], now)
  BY <1>1, <1>2 DEF InOrder, Promised
<1> QED BY <1>3 DEF EtoInv

LEMMA EtoForward ==
  ASSUME VolumeInv, EtoInv, NEW b \in Bundles, Forward(b)
  PROVE  EtoInv'
<1>1. TypeOK /\ QueuesInShape /\ \A n \in Neighbors : queue[n] \in Seq(Item) /\ InOrder(queue[n])
  BY DEF VolumeInv, QueuesInShape, EtoInv
<1>2. PICK T \in Chosen({r \in Routes : Viable(r, b)}, b) :
          queue' = [n \in Neighbors |->
               IF \E r \in T : Neighbor(r) = n
               THEN LET r == CHOOSE r \in T : Neighbor(r) = n
                    IN Enqueue(queue[n], [bundle |-> b, left |-> b.evc,
                                          eto |-> Eto(r, b.priority), over |-> r[1]])
               ELSE queue[n]]
  BY DEF Forward
<1>3. UNCHANGED <<now, rate, shaken>>
  BY DEF Forward
<1>4. T \subseteq Routes /\ \A r \in T : Viable(r, b)
  <2> DEFINE S == {r \in Routes : Viable(r, b)}
  <2>1. b.critical \in BOOLEAN /\ T \in Chosen(S, b)
    BY VolumeAssumption
  <2> HIDE DEF S
  <2>2. T \subseteq S
    BY <2>1, ChosenRoutes
  <2> QED BY <2>2 DEF S
<1>5. b.priority \in Priorities /\ b.evc \in Nat
  BY BundleFacts
<1>6. ASSUME NEW n \in Neighbors
      PROVE  InOrder(queue'[n]) /\ Promised(n, queue'[n], now)
  <2>1. Promised(n, queue[n], now)
    BY DEF EtoInv
  <2>2. CASE ~\E r \in T : Neighbor(r) = n
    <3>1. queue'[n] = queue[n]
      BY <1>2, <2>2
    <3> QED BY <1>1, <2>1, <3>1
  <2>3. CASE \E r \in T : Neighbor(r) = n
    <3> DEFINE r == CHOOSE r \in T : Neighbor(r) = n
               item == [bundle |-> b, left |-> b.evc, eto |-> Eto(r, b.priority), over |-> r[1]]
    <3>1. r \in T /\ Neighbor(r) = n
      BY <2>3
    <3>2. queue'[n] = Enqueue(queue[n], item)
      BY <1>2, <2>3
    <3> HIDE DEF r
    <3>3. r \in Routes /\ Viable(r, b) /\ Eto(r, b.priority) \in Int /\ r[1] \in Contacts
      BY <1>1, <1>4, <1>5, <3>1, EtoType, RouteFacts
    <3>4. item \in Item /\ item.bundle = b /\ item.eto = Eto(r, b.priority) /\ item.over = r[1]
      BY <1>5, <3>3 DEF Item
    <3> HIDE DEF item
    <3>5. InOrder(queue'[n])
      BY <1>1, <3>2, <3>4, EnqueueInOrder
    <3>6. Promised(n, queue'[n], now)
      <4>1. \E x \in Nat : /\ DueBy(n, Eto(r, b.priority), r[1], x) /\ now < x
                           /\ Backlog(n, b.priority) < SentBy(n, x) - SentBy(n, now)
        BY <1>1, <3>1, <3>3, PromiseKept
      <4>2. Backlog(n, b.priority) = Lefts(queue[n], Place(queue[n], b.priority))
        BY <1>1, <1>5, BacklogAhead
      <4>3. item.bundle.priority = 2 =>
              \E x \in Nat : /\ DueBy(n, item.eto, item.over, x) /\ now < x
                             /\ Lefts(queue[n], Place(queue[n], 2)) < SentBy(n, x) - SentBy(n, now)
        BY <3>4, <4>1, <4>2
      <4> QED BY <1>1, <2>1, <3>2, <3>4, <4>3, EnqueuePromised
    <3> QED BY <3>5, <3>6
  <2> QED BY <2>2, <2>3
<1>7. \A n \in Neighbors : Promised(n, queue[n], now)'
  BY <1>3, <1>6, PromisedStays
<1> QED BY <1>6, <1>7 DEF EtoInv, InOrder

LEMMA EtoTick ==
  ASSUME VolumeInv, EtoInv, Tick
  PROVE  EtoInv'
<1>1. /\ TypeOK /\ QueuesInShape /\ QueuesSound
      /\ now' = now + 1 /\ rate' = rate /\ shaken' = shaken
  <2>1. DOMAIN queue = Neighbors /\ \A n \in Neighbors : queue[n] \in Seq(Item)
    BY DEF VolumeInv, QueuesInShape
  <2>2. TypeOK
    BY DEF VolumeInv
  <2>3. QueuesSound
    BY <2>1, <2>2, TypeOKByParts
  <2> QED BY <2>2, <2>3 DEF VolumeInv, Tick
<1>2. ASSUME NEW n \in Neighbors
      PROVE  InOrder(queue'[n]) /\ Promised(n, queue'[n], now')
  <2>1. InOrder(queue[n]) /\ Promised(n, queue[n], now)
    BY DEF EtoInv
  <2> QED BY <1>1, <2>1, SendingInOrder, SendingPromised
<1>3. \A n \in Neighbors : Promised(n, queue[n], now)'
  BY <1>1, <1>2, PromisedStays
<1> QED BY <1>2, <1>3 DEF EtoInv, InOrder

\* Who waits for a neighbor when a contact with it gets another rate is shaken, and
\* the contacts with the others serve what they served.
LEMMA EtoRevise ==
  ASSUME VolumeInv, EtoInv, NEW c \in Contacts, NEW new \in NewRates, ReviseRate(c, new)
  PROVE  EtoInv'
<1>1. /\ rate' = [rate EXCEPT ![c] = new] /\ queue' = queue /\ now' = now
      /\ shaken' = shaken \cup {b \in Bundles : c.from = LocalNode /\ b \in QueuedFor(c.to)}
      /\ rate \in [Contacts -> Nat \ {0}]
  BY DEF ReviseRate, VolumeInv, TypeOK
<1>2. \A n \in Neighbors : queue[n] \in Seq(Item)
  BY DEF VolumeInv, QueuesInShape
<1>3. ASSUME NEW n \in Neighbors
      PROVE  InOrder(queue[n]) /\ Promised(n, queue[n], now)'
  <2>1. InOrder(queue[n]) /\ Promised(n, queue[n], now)
    BY DEF EtoInv
  <2>2. CASE c \in ToNeighbor(n)
    <3>1. c.from = LocalNode /\ c.to = n
      BY <2>2 DEF ToNeighbor
    <3>2. \A k \in 1 .. Len(queue[n]) : queue[n][k].bundle \in Bundles
      BY <1>2, ItemFacts
    <3>3. \A k \in 1 .. Len(queue[n]) : queue[n][k].bundle \in QueuedFor(n)
      BY <1>2 DEF QueuedFor
    <3>4. \A k \in 1 .. Len(queue'[n]) : queue'[n][k].bundle \in shaken'
      BY <1>1, <3>1, <3>2, <3>3
    <3> QED BY <2>1, <3>4 DEF Promised
  <2>3. CASE c \notin ToNeighbor(n)
    <3>1. \A d \in ToNeighbor(n) : rate'[d] = rate[d]
      BY <1>1, <2>3, NeighborFacts
    <3>2. \A t : \A d \in ToNeighbor(n) : Served(d, t)' = Served(d, t)
      BY <3>1 DEF Served
    <3>3. \A t : SentBy(n, t)' = SentBy(n, t)
      <4> SUFFICES ASSUME NEW t PROVE SentBy(n, t)' = SentBy(n, t)
        OBVIOUS
      <4>1. [d \in ToNeighbor(n) |-> Served(d, t)'] = [d \in ToNeighbor(n) |-> Served(d, t)]
        BY <3>2
      <4> QED BY <4>1 DEF SentBy
    <3>4. shaken \subseteq shaken'
      BY <1>1
    <3> QED BY <1>1, <2>1, <3>3, <3>4 DEF Promised, DueBy
  <2> QED BY <2>2, <2>3
<1> QED BY <1>1, <1>3 DEF EtoInv, InOrder

LEMMA EtoStepHolds == VolumeInv /\ EtoInv /\ [Next]_vars => EtoInv'
<1> SUFFICES ASSUME VolumeInv, EtoInv, [Next]_vars PROVE EtoInv'
  OBVIOUS
<1>1. ASSUME UNCHANGED <<now, rate, queue, shaken>> PROVE EtoInv'
  <2>1. \A n \in Neighbors : Promised(n, queue'[n], now')
    BY <1>1 DEF EtoInv
  <2>2. \A n \in Neighbors : Promised(n, queue[n], now)'
    BY <1>1, <2>1, PromisedStays
  <2> QED BY <1>1, <2>2 DEF EtoInv, InOrder
<1>2. CASE Tick
  BY <1>2, EtoTick
<1>3. ASSUME NEW b \in Bundles, Forward(b) PROVE EtoInv'
  BY <1>3, EtoForward
<1>4. ASSUME NEW b \in Bundles, NoRouteFor(b) PROVE EtoInv'
  BY <1>1, <1>4 DEF NoRouteFor
<1>5. ASSUME NEW c \in Contacts, NEW new \in NewRates, ReviseRate(c, new) PROVE EtoInv'
  BY <1>5, EtoRevise
<1>6. CASE UNCHANGED vars
  BY <1>1, <1>6 DEF vars
<1> QED BY <1>2, <1>3, <1>4, <1>5, <1>6 DEF Next

\* The promise of phase two to expedited traffic holds over any contacts a neighbor
\* may have: the backlog that is relieved is gone when the contacts that relieve it
\* end, and the rest of it by the earliest transmission opportunity.  Where those
\* contacts end before the first one of the route begins, that is the promise as it
\* was made; an enclosing contact may hold the bundle up until its own end.
THEOREM EtoCorrect == Spec => SentByEto
<1>1. VolumeInv /\ EtoInv /\ [Next]_vars =>
        [\A n \in Neighbors : \A k \in DOMAIN queue[n] :
           LET item == queue[n][k]
           IN /\ now' > now /\ item.bundle.priority = 2 /\ item.bundle \notin shaken
              /\ item.left = item.bundle.evc /\ Sends(n, k) > 0
              => \/ now <= item.eto
                 \/ \E d \in ToNeighbor(n) :
                      d.start < item.over.start /\ item.over.start < d.end /\ now < d.end]_vars
  <2> SUFFICES ASSUME VolumeInv, EtoInv, NEW n \in Neighbors, NEW k \in DOMAIN queue[n],
                      queue[n][k].bundle.priority = 2, queue[n][k].left = queue[n][k].bundle.evc,
                      queue[n][k].bundle \notin shaken
               PROVE  \/ now <= queue[n][k].eto
                      \/ \E d \in ToNeighbor(n) :
                           /\ d.start < queue[n][k].over.start /\ queue[n][k].over.start < d.end
                           /\ now < d.end
    OBVIOUS
  <2>1. /\ queue[n] \in Seq(Item) /\ DOMAIN queue[n] = 1 .. Len(queue[n]) /\ now \in Nat
        /\ Promised(n, queue[n], now)
    BY VolumeAssumption DEF VolumeInv, QueuesInShape, TypeOK, EtoInv
  <2>2. PICK x \in Nat : DueBy(n, queue[n][k].eto, queue[n][k].over, x) /\ now < x
    BY <2>1 DEF Promised
  <2>3. queue[n][k].eto \in Int
    BY <2>1, ItemFacts
  <2> QED BY <2>1, <2>2, <2>3 DEF DueBy
<1>2. Spec => []EtoInv
  BY EtoInitHolds, EtoStepHolds, VolumeInvCorrect, PTL DEF Spec
<1> QED BY <1>1, <1>2, VolumeInvCorrect, PTL DEF Spec, SentByEto
=============================================================================
