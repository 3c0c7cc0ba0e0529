----------------------------- MODULE DataLemmas -----------------------------
(***************************************************************************)
(* Facts that the proofs of several modules rest on: least and greatest    *)
(* elements of sets of naturals, which take the place of an induction,     *)
(* sequences of values computed one from the other, functions defined by   *)
(* recursion on a rank, and the elements of lists and their order.         *)
(***************************************************************************)
EXTENDS Lists, FiniteSets, WellFoundedInduction, TLAPS

(* A set of naturals that is not empty has a least element. *)

LEMMA NatOrder == \E R : IsWellFoundedOn(R, Nat) /\ R = {p \in Nat \X Nat : p[1] < p[2]}
<1>1. OpToRel(<, Nat) = {p \in Nat \X Nat : p[1] < p[2]}
  BY Zenon DEF OpToRel
<1>2. IsWellFoundedOn(OpToRel(<, Nat), Nat)
  BY NatLessThanWellFounded, Zenon
<1> QED BY <1>1, <1>2, Zenon

LEMMA NatMin ==
  ASSUME NEW T, T \subseteq Nat, T # {}
  PROVE  \E m \in T : \A n \in T : m <= n
<1>1. PICK R : IsWellFoundedOn(R, Nat) /\ R = {p \in Nat \X Nat : p[1] < p[2]}
  BY NatOrder
<1>2. PICK x \in T : \A y \in T : ~(<<y, x>> \in R)
  BY <1>1, WFMin
<1>3. \A a, b \in Nat : a < b => <<a, b>> \in R
  BY <1>1
<1>4. \A y \in T : ~(y < x)
  BY <1>2, <1>3
<1>5. x \in Nat /\ \A y \in T : y \in Nat
  OBVIOUS
<1>6. \A y \in T : x <= y
  BY <1>4, <1>5
<1> QED BY <1>6

(* A set that has 0 and, up to n, the successor of each of its elements has *)
(* all numbers up to n.                                                     *)

LEMMA UpTo ==
  ASSUME NEW n \in Nat, NEW G, 0 \in G, \A i \in 1 .. n : i - 1 \in G => i \in G
  PROVE  \A i \in 0 .. n : i \in G
<1> DEFINE Missing == {i \in 0 .. n : i \notin G}
<1>1. SUFFICES ASSUME Missing # {} PROVE FALSE
  OBVIOUS
<1>2. Missing \subseteq Nat
  OBVIOUS
<1>3. PICK m \in Missing : \A k \in Missing : m <= k
  <2> HIDE DEF Missing
  <2> QED BY <1>1, <1>2, NatMin
<1>4. m \in 1 .. n /\ m - 1 \in 0 .. n
  BY <1>3
<1>5. m - 1 \in G
  BY <1>3, <1>4
<1> QED BY <1>3, <1>4, <1>5

(* A first value and a way from each value to the next make a sequence. *)

Iterates(f, n, X, start, next) ==
  f \in [0 .. n -> X] /\ f[0] = start /\ \A i \in 1 .. n : f[i] = next[i][f[i - 1]]

LEMMA Recursion ==
  ASSUME NEW n \in Nat, NEW X, NEW start \in X, NEW next \in [1 .. n -> [X -> X]]
  PROVE  \E f : Iterates(f, n, X, start, next)
<1> DEFINE Upto(m, f) == f[0] = start /\ \A i \in 1 .. m : f[i] = next[i][f[i - 1]]
           Has == {m \in 0 .. n : \E f \in [0 .. m -> X] : Upto(m, f)}
<1>1. 0 \in Has
  <2>1. [i \in 0 .. 0 |-> start] \in [0 .. 0 -> X] /\ Upto(0, [i \in 0 .. 0 |-> start])
    OBVIOUS
  <2> HIDE DEF Upto
  <2> QED BY <2>1
<1>2. ASSUME NEW m \in 1 .. n, m - 1 \in Has PROVE m \in Has
  <2>1. PICK f \in [0 .. (m - 1) -> X] : Upto(m - 1, f)
    BY <1>2
  <2> DEFINE g == [i \in 0 .. m |-> IF i < m THEN f[i] ELSE next[m][f[m - 1]]]
  <2>2. f[m - 1] \in X /\ next[m][f[m - 1]] \in X
    OBVIOUS
  <2>3. g \in [0 .. m -> X]
    <3>1. \A i \in 0 .. m : i < m => i \in 0 .. (m - 1)
      OBVIOUS
    <3> QED BY <2>2, <3>1
  <2>4. \A i \in 0 .. m : g[i] = IF i < m THEN f[i] ELSE next[m][f[m - 1]]
    OBVIOUS
  <2> HIDE DEF g
  <2>5. g[m] = next[m][f[m - 1]] /\ \A i \in 0 .. m : i # m => g[i] = f[i]
    BY <2>4
  <2>6. Upto(m, g)
    <3>1. g[0] = start
      BY <2>1, <2>4
    <3>2. ASSUME NEW i \in 1 .. m PROVE g[i] = next[i][g[i - 1]]
      <4>1. i - 1 \in 0 .. m /\ i - 1 # m /\ g[i - 1] = f[i - 1]
        BY <2>5
      <4>2. CASE i = m
        BY <2>5, <4>1, <4>2
      <4>3. CASE i < m
        BY <2>1, <2>4, <4>1, <4>3
      <4> QED BY <4>2, <4>3
    <3> QED BY <3>1, <3>2
  <2> HIDE DEF Upto
  <2> QED BY <2>3, <2>6
<1>3. n \in Has
  <2> HIDE DEF Has
  <2>1. \A i \in 0 .. n : i \in Has
    BY <1>1, <1>2, UpTo
  <2> QED BY <2>1
<1> QED BY <1>3 DEF Iterates

(* A set of naturals that is bounded has a greatest element. *)

LEMMA NatMax ==
  ASSUME NEW T, T \subseteq Nat, T # {}, NEW bound \in Nat, \A n \in T : n <= bound
  PROVE  \E m \in T : \A n \in T : n <= m
<1> DEFINE U == {bound - n : n \in T}
<1>1. U \subseteq Nat /\ U # {}
  <2>1. \A n \in T : bound - n \in Nat
    OBVIOUS
  <2> QED BY <2>1
<1>2. PICK u \in U : \A v \in U : u <= v
  BY <1>1, NatMin
<1>3. PICK m \in T : u = bound - m
  BY <1>2
<1>4. ASSUME NEW n \in T PROVE n <= m
  <2>1. bound - n \in U
    OBVIOUS
  <2>2. u <= bound - n
    BY <1>2, <2>1
  <2> QED BY <1>3, <2>2
<1> QED BY <1>4

----------------------------------------------------------------------------
(* Sequences. *)

LEMMA InAppend ==
  ASSUME NEW T, NEW s \in Seq(T), NEW x \in T, NEW y
  PROVE  In(y, Append(s, x)) <=> In(y, s) \/ y = x
<1>1. /\ Len(Append(s, x)) = Len(s) + 1 /\ Len(s) \in Nat
      /\ \A i \in 1 .. Len(s) : Append(s, x)[i] = s[i]
      /\ Append(s, x)[Len(s) + 1] = x
  OBVIOUS
<1> HIDE DEF In
<1> QED BY <1>1 DEF In

LEMMA NoDuplicatesAppend ==
  ASSUME NEW T, NEW s \in Seq(T), NEW x \in T, NoDuplicates(s), ~In(x, s)
  PROVE  NoDuplicates(Append(s, x))
BY DEF NoDuplicates, In

LEMMA InTail ==
  ASSUME NEW T, NEW s \in Seq(T), s # <<>>
  PROVE  /\ \A y : In(y, s) <=> In(y, Tail(s)) \/ y = Head(s)
         /\ NoDuplicates(s) => NoDuplicates(Tail(s)) /\ ~In(Head(s), Tail(s))
<1>1. /\ Len(Tail(s)) = Len(s) - 1 /\ Len(s) \in Nat \ {0} /\ Head(s) = s[1]
      /\ \A i \in 1 .. Len(Tail(s)) : Tail(s)[i] = s[i + 1]
  OBVIOUS
<1>2. ASSUME NEW y, In(y, s) PROVE In(y, Tail(s)) \/ y = Head(s)
  <2>1. PICK i \in 1 .. Len(s) : s[i] = y
    BY <1>2 DEF In
  <2>2. CASE i = 1
    BY <1>1, <2>1, <2>2
  <2>3. CASE i # 1
    <3>1. i - 1 \in 1 .. Len(Tail(s)) /\ Tail(s)[i - 1] = y
      BY <1>1, <2>1, <2>3
    <3> QED BY <3>1 DEF In
  <2> QED BY <2>2, <2>3
<1>3. ASSUME NEW y, In(y, Tail(s)) \/ y = Head(s) PROVE In(y, s)
  BY <1>1, <1>3 DEF In
<1>4. NoDuplicates(s) => NoDuplicates(Tail(s)) /\ ~In(Head(s), Tail(s))
  BY <1>1 DEF NoDuplicates, In
<1> QED BY <1>2, <1>3, <1>4

LEMMA InConcat ==
  ASSUME NEW T, NEW s \in Seq(T), NEW t \in Seq(T)
  PROVE  /\ \A y : In(y, s \o t) <=> In(y, s) \/ In(y, t)
         /\ NoDuplicates(s \o t) <=>
              NoDuplicates(s) /\ NoDuplicates(t) /\ \A y : ~(In(y, s) /\ In(y, t))
<1>1. /\ Len(s \o t) = Len(s) + Len(t) /\ Len(s) \in Nat /\ Len(t) \in Nat
      /\ \A i \in 1 .. Len(s) : (s \o t)[i] = s[i]
      /\ \A i \in 1 .. Len(t) : (s \o t)[Len(s) + i] = t[i]
      /\ \A i \in (Len(s) + 1) .. Len(s \o t) : (s \o t)[i] = t[i - Len(s)]
  OBVIOUS
<1>2. ASSUME NEW y, In(y, s) \/ In(y, t) PROVE In(y, s \o t)
  BY <1>1, <1>2 DEF In
<1>3. ASSUME NEW y, In(y, s \o t) PROVE In(y, s) \/ In(y, t)
  <2>1. PICK i \in 1 .. Len(s \o t) : (s \o t)[i] = y
    BY <1>3 DEF In
  <2>2. CASE i <= Len(s)
    BY <1>1, <2>1, <2>2 DEF In
  <2>3. CASE i > Len(s)
    <3>1. i - Len(s) \in 1 .. Len(t) /\ t[i - Len(s)] = y
      BY <1>1, <2>1, <2>3
    <3> QED BY <3>1 DEF In
  <2> QED BY <1>1, <2>2, <2>3
<1>4. ASSUME NoDuplicates(s \o t)
      PROVE  NoDuplicates(s) /\ NoDuplicates(t) /\ \A y : ~(In(y, s) /\ In(y, t))
  <2>1. NoDuplicates(s)
    BY <1>1, <1>4 DEF NoDuplicates
  <2>2. NoDuplicates(t)
    <3> SUFFICES ASSUME NEW i \in 1 .. Len(t), NEW j \in 1 .. Len(t), t[i] = t[j] PROVE i = j
      BY DEF NoDuplicates
    <3>1. Len(s) + i \in 1 .. Len(s \o t) /\ Len(s) + j \in 1 .. Len(s \o t)
      BY <1>1
    <3>2. (s \o t)[Len(s) + i] = (s \o t)[Len(s) + j]
      BY <1>1
    <3>3. Len(s) + i = Len(s) + j
      BY <1>4, <3>1, <3>2 DEF NoDuplicates
    <3> QED BY <1>1, <3>3
  <2>3. ASSUME NEW y, In(y, s), In(y, t) PROVE FALSE
    <3>1. PICK i \in 1 .. Len(s), j \in 1 .. Len(t) : s[i] = y /\ t[j] = y
      BY <2>3 DEF In
    <3>2. i \in 1 .. Len(s \o t) /\ Len(s) + j \in 1 .. Len(s \o t) /\ i # Len(s) + j
          /\ (s \o t)[i] = (s \o t)[Len(s) + j]
      BY <1>1, <3>1
    <3> QED BY <1>4, <3>2 DEF NoDuplicates
  <2> QED BY <2>1, <2>2, <2>3
<1>5. ASSUME NoDuplicates(s), NoDuplicates(t), \A y : ~(In(y, s) /\ In(y, t))
      PROVE  NoDuplicates(s \o t)
  <2> SUFFICES ASSUME NEW i \in 1 .. Len(s \o t), NEW j \in 1 .. Len(s \o t),
                      (s \o t)[i] = (s \o t)[j]
               PROVE  i = j
    BY DEF NoDuplicates
  <2>1. CASE i <= Len(s) /\ j <= Len(s)
    BY <1>1, <1>5, <2>1 DEF NoDuplicates
  <2>2. CASE i > Len(s) /\ j > Len(s)
    <3>1. i - Len(s) \in 1 .. Len(t) /\ j - Len(s) \in 1 .. Len(t)
          /\ t[i - Len(s)] = t[j - Len(s)]
      BY <1>1, <2>2
    <3>2. i - Len(s) = j - Len(s)
      BY <1>5, <3>1 DEF NoDuplicates
    <3> QED BY <1>1, <3>2
  <2>3. ASSUME NEW p \in 1 .. Len(s \o t), NEW q \in 1 .. Len(s \o t),
               (s \o t)[p] = (s \o t)[q], p <= Len(s), q > Len(s)
        PROVE  FALSE
    <3>1. p \in 1 .. Len(s) /\ q - Len(s) \in 1 .. Len(t) /\ s[p] = t[q - Len(s)]
      BY <1>1, <2>3
    <3> QED BY <1>5, <3>1 DEF In
  <2> QED BY <1>1, <2>1, <2>2, <2>3
<1> QED BY <1>2, <1>3, <1>4, <1>5

LEMMA InPrefix ==
  ASSUME NEW T, NEW s \in Seq(T), NEW n \in 0 .. Len(s)
  PROVE  /\ SubSeq(s, 1, n) \in Seq(T) /\ Len(SubSeq(s, 1, n)) = n
         /\ \A y : In(y, SubSeq(s, 1, n)) => In(y, s)
         /\ NoDuplicates(s) => NoDuplicates(SubSeq(s, 1, n))
<1>1. /\ SubSeq(s, 1, n) \in Seq(T) /\ Len(SubSeq(s, 1, n)) = n
      /\ \A i \in 1 .. n : SubSeq(s, 1, n)[i] = s[i]
  OBVIOUS
<1> QED BY <1>1 DEF In, NoDuplicates

----------------------------------------------------------------------------
(* The elements of a sequence that are in a set. *)

Keeps(S, s, f) ==
  /\ f[0] = <<>>
  /\ \A i \in 1 .. Len(s) : f[i] = IF s[i] \in S THEN Append(f[i - 1], s[i]) ELSE f[i - 1]

LEMMA OnlyUnfolds ==
  ASSUME NEW T, NEW S, NEW s \in Seq(T)
  PROVE  \E f : Keeps(S, s, f) /\ Only(S, s) = f[Len(s)]
<1> DEFINE Kept(f) == [i \in 0 .. Len(s) |->
                         IF i = 0 THEN <<>>
                         ELSE IF s[i] \in S THEN Append(f[i - 1], s[i]) ELSE f[i - 1]]
           next == [i \in 1 .. Len(s) |-> [x \in Seq(T) |->
                      IF s[i] \in S THEN Append(x, s[i]) ELSE x]]
<1>0. Len(s) \in Nat /\ 0 \in 0 .. Len(s) /\ (1 .. Len(s)) \subseteq 0 .. Len(s)
  OBVIOUS
<1>1. next \in [1 .. Len(s) -> [Seq(T) -> Seq(T)]]
  OBVIOUS
<1>2. \A i \in 1 .. Len(s), x \in Seq(T) :
        next[i][x] = IF s[i] \in S THEN Append(x, s[i]) ELSE x
  OBVIOUS
<1>3. <<>> \in Seq(T)
  OBVIOUS
<1> HIDE DEF next
<1>4. PICK f \in [0 .. Len(s) -> Seq(T)] :
        f[0] = <<>> /\ \A i \in 1 .. Len(s) : f[i] = next[i][f[i - 1]]
  <2>1. \E f : Iterates(f, Len(s), Seq(T), <<>>, next)
    BY <1>0, <1>1, <1>3, Recursion
  <2> QED BY <2>1 DEF Iterates
<1>5. f = Kept(f)
  <2>1. ASSUME NEW i \in 1 .. Len(s)
        PROVE  f[i] = IF s[i] \in S THEN Append(f[i - 1], s[i]) ELSE f[i - 1]
    <3>1. f[i - 1] \in Seq(T)
      OBVIOUS
    <3> QED BY <1>2, <1>4, <3>1
  <2>2. \A i \in 0 .. Len(s) : i # 0 => i \in 1 .. Len(s)
    BY <1>0
  <2> QED BY <1>4, <2>1, <2>2
<1> DEFINE g == CHOOSE h : h = Kept(h)
<1>6. Only(S, s) = g[Len(s)]
  BY Zenon DEF Only
<1>7. g = Kept(g)
  BY <1>5, Zenon
<1> HIDE DEF g
<1>8. \A i \in 0 .. Len(s) :
        g[i] = IF i = 0 THEN <<>> ELSE IF s[i] \in S THEN Append(g[i - 1], s[i]) ELSE g[i - 1]
  BY <1>7, Zenon
<1>9. \A i \in 1 .. Len(s) : i # 0
  BY <1>0
<1>10. Keeps(S, s, g)
  BY <1>0, <1>8, <1>9, Zenon DEF Keeps
<1> QED BY <1>6, <1>10

LEMMA InOnly ==
  ASSUME NEW T, NEW S, NEW s \in Seq(T)
  PROVE  /\ Only(S, s) \in Seq(T) /\ Len(Only(S, s)) <= Len(s)
         /\ \A y : In(y, Only(S, s)) <=> In(y, s) /\ y \in S
         /\ NoDuplicates(s) => NoDuplicates(Only(S, s))
<1>1. PICK f : Keeps(S, s, f) /\ Only(S, s) = f[Len(s)]
  BY OnlyUnfolds
<1>0. Len(s) \in Nat /\ 0 \in 0 .. Len(s) /\ Len(s) \in 0 .. Len(s)
  OBVIOUS
<1> DEFINE Good(i) ==
             /\ f[i] \in Seq(T) /\ Len(f[i]) <= i
             /\ \A y : In(y, f[i]) <=> \E j \in 1 .. i : s[j] = y /\ y \in S
             /\ NoDuplicates(s) => NoDuplicates(f[i])
<1>2. \A i \in 0 .. Len(s) : Good(i)
  <2> DEFINE G == {i \in 0 .. Len(s) : Good(i)}
  <2>1. 0 \in G
    <3>1. f[0] = <<>>
      BY <1>1 DEF Keeps
    <3>2. <<>> \in Seq(T) /\ Len(<<>>) <= 0 /\ NoDuplicates(<<>>) /\ \A y : ~In(y, <<>>)
      BY DEF In, NoDuplicates
    <3>3. \A j : j \notin 1 .. 0
      OBVIOUS
    <3>4. Good(0)
      BY <3>1, <3>2, <3>3
    <3> HIDE DEF Good
    <3> QED BY <1>0, <3>4
  <2>2. ASSUME NEW i \in 1 .. Len(s), Good(i - 1) PROVE Good(i)
    <3>1. f[i] = IF s[i] \in S THEN Append(f[i - 1], s[i]) ELSE f[i - 1]
      <4> HIDE DEF Good
      <4> QED BY <1>1 DEF Keeps
    <3>2. \A y : (\E j \in 1 .. i : s[j] = y /\ y \in S) <=>
                 (\E j \in 1 .. (i - 1) : s[j] = y /\ y \in S) \/ (y = s[i] /\ y \in S)
      OBVIOUS
    <3>3. CASE s[i] \in S
      <4>1. s[i] \in T /\ f[i] = Append(f[i - 1], s[i])
        BY <3>1, <3>3
      <4>2. f[i] \in Seq(T) /\ \A y : In(y, f[i]) <=> In(y, f[i - 1]) \/ y = s[i]
        BY <2>2, <4>1, InAppend
      <4>3. NoDuplicates(s) => ~In(s[i], f[i - 1])
        BY <2>2 DEF NoDuplicates
      <4>4. NoDuplicates(s) => NoDuplicates(f[i])
        BY <2>2, <4>1, <4>3, NoDuplicatesAppend
      <4>5. \A y : In(y, f[i]) <=> \E j \in 1 .. i : s[j] = y /\ y \in S
        BY <2>2, <3>2, <3>3, <4>2
      <4>6. Len(f[i]) <= i
        BY <2>2, <4>1
      <4> QED BY <4>2, <4>4, <4>5, <4>6
    <3>4. CASE s[i] \notin S
      <4>1. f[i] = f[i - 1] /\ f[i] \in Seq(T) /\ Len(f[i]) <= i
        BY <2>2, <3>1, <3>4
      <4> QED BY <2>2, <3>2, <3>4, <4>1
    <3> QED BY <3>3, <3>4
  <2>3. \A i \in 0 .. Len(s) : i \in G
    <3> HIDE DEF Good
    <3>1. \A i \in 1 .. Len(s) : i - 1 \in G => i \in G
      BY <2>2
    <3> HIDE DEF G
    <3> QED BY <1>0, <2>1, <3>1, UpTo
  <2> HIDE DEF Good
  <2> QED BY <2>3
<1>3. Good(Len(s))
  <2> HIDE DEF Good
  <2> QED BY <1>0, <1>2
<1>4. \A y : In(y, s) <=> \E j \in 1 .. Len(s) : s[j] = y
  BY DEF In
<1> QED BY <1>1, <1>3, <1>4

\* c comes before d in the sequence q.
Before(q, c, d) == \E i, j \in 1 .. Len(q) : i < j /\ q[i] = c /\ q[j] = d

LEMMA BeforeAppend ==
  ASSUME NEW T, NEW s \in Seq(T), NEW x \in T, NEW c, NEW d, d # x, Before(Append(s, x), c, d)
  PROVE  Before(s, c, d)
<1>1. /\ Len(Append(s, x)) = Len(s) + 1 /\ Len(s) \in Nat
      /\ \A i \in 1 .. Len(s) : Append(s, x)[i] = s[i]
      /\ Append(s, x)[Len(s) + 1] = x
  OBVIOUS
<1>2. PICK i, j \in 1 .. Len(Append(s, x)) : i < j /\ Append(s, x)[i] = c /\ Append(s, x)[j] = d
  BY DEF Before
<1>3. j \in 1 .. Len(s) /\ i \in 1 .. Len(s)
  BY <1>1, <1>2
<1> QED BY <1>1, <1>2, <1>3 DEF Before

LEMMA BeforeOnly ==
  ASSUME NEW T, NEW S, NEW s \in Seq(T), NEW c, NEW d, Before(Only(S, s), c, d)
  PROVE  Before(s, c, d)
<1>1. PICK f : Keeps(S, s, f) /\ Only(S, s) = f[Len(s)]
  BY OnlyUnfolds
<1>2. Len(s) \in Nat /\ 0 \in 0 .. Len(s) /\ Len(s) \in 0 .. Len(s)
  OBVIOUS
<1> DEFINE Found(i) == \E p, q \in 1 .. i : p < q /\ s[p] = c /\ s[q] = d
           Drawn(i) ==
             /\ f[i] \in Seq(T)
             /\ In(c, f[i]) => \E p \in 1 .. i : s[p] = c
             /\ Before(f[i], c, d) => Found(i)
           G == {i \in 0 .. Len(s) : Drawn(i)}
<1>3. 0 \in G
  <2>1. f[0] = <<>>
    BY <1>1 DEF Keeps
  <2>2. <<>> \in Seq(T) /\ ~In(c, <<>>) /\ ~Before(<<>>, c, d)
    BY DEF In, Before
  <2> QED BY <1>2, <2>1, <2>2
<1>4. ASSUME NEW i \in 1 .. Len(s), Drawn(i - 1) PROVE Drawn(i)
  <2>1. f[i] = IF s[i] \in S THEN Append(f[i - 1], s[i]) ELSE f[i - 1]
    BY <1>1 DEF Keeps
  <2>2. (\E p \in 1 .. (i - 1) : s[p] = c) => \E p \in 1 .. i : s[p] = c
    OBVIOUS
  <2>3. Found(i - 1) => Found(i)
    <3>1. \A p \in 1 .. (i - 1) : p \in 1 .. i
      OBVIOUS
    <3> QED BY <3>1
  <2>4. CASE s[i] \notin S
    <3> HIDE DEF Found
    <3> QED BY <1>4, <2>1, <2>2, <2>3, <2>4
  <2>5. CASE s[i] \in S
    <3>1. s[i] \in T /\ i \in 1 .. i /\ f[i] = Append(f[i - 1], s[i])
      BY <2>1, <2>5
    <3>2. f[i] \in Seq(T) /\ (In(c, f[i]) <=> In(c, f[i - 1]) \/ c = s[i])
      BY <1>4, <3>1, InAppend
    <3>3. In(c, f[i]) => \E p \in 1 .. i : s[p] = c
      BY <1>4, <2>2, <3>1, <3>2
    <3>4. ASSUME Before(f[i], c, d) PROVE Found(i)
      <4>1. CASE d # s[i]
        <5>1. Before(f[i - 1], c, d)
          BY <1>4, <3>1, <3>4, <4>1, BeforeAppend
        <5> HIDE DEF Found
        <5> QED BY <1>4, <2>3, <5>1
      <4>2. CASE d = s[i]
        <5>1. /\ Len(f[i]) = Len(f[i - 1]) + 1 /\ Len(f[i - 1]) \in Nat
              /\ \A k \in 1 .. Len(f[i - 1]) : f[i][k] = f[i - 1][k]
          BY <1>4, <3>1
        <5>2. PICK k, m \in 1 .. Len(f[i]) : k < m /\ f[i][k] = c /\ f[i][m] = d
          BY <3>4 DEF Before
        <5>3. k \in 1 .. Len(f[i - 1]) /\ f[i - 1][k] = c
          BY <5>1, <5>2
        <5>4. PICK p \in 1 .. (i - 1) : s[p] = c
          BY <1>4, <5>3 DEF In
        <5>5. p \in 1 .. i /\ p < i
          BY <5>4
        <5> QED BY <3>1, <4>2, <5>4, <5>5
      <4> QED BY <4>1, <4>2
    <3> HIDE DEF Found
    <3> QED BY <3>2, <3>3, <3>4
  <2> QED BY <2>4, <2>5
<1>5. Drawn(Len(s))
  <2> HIDE DEF Drawn
  <2>1. \A i \in 1 .. Len(s) : i - 1 \in G => i \in G
    BY <1>4
  <2> HIDE DEF G
  <2>2. \A i \in 0 .. Len(s) : i \in G
    BY <1>2, <1>3, <2>1, UpTo
  <2> QED BY <1>2, <2>2 DEF G
<1> QED BY <1>1, <1>5 DEF Before

LEMMA BeforeRest ==
  ASSUME NEW T, NEW s \in Seq(T), NEW n \in 0 .. Len(s), NEW c, NEW d,
         In(c, SubSeq(s, 1, n)), In(d, s), ~In(d, SubSeq(s, 1, n))
  PROVE  Before(s, c, d)
<1>1. /\ Len(SubSeq(s, 1, n)) = n /\ \A i \in 1 .. n : SubSeq(s, 1, n)[i] = s[i]
      /\ 1 .. n \subseteq 1 .. Len(s)
  OBVIOUS
<1>2. PICK i \in 1 .. n : s[i] = c
  BY <1>1 DEF In
<1>3. PICK j \in 1 .. Len(s) : s[j] = d
  BY DEF In
<1>4. j \notin 1 .. n
  BY <1>1, <1>3 DEF In
<1>5. i < j /\ i \in 1 .. Len(s)
  BY <1>2, <1>3, <1>4
<1> QED BY <1>2, <1>3, <1>5 DEF Before

LEMMA InRange ==
  ASSUME NEW T, NEW s \in Seq(T), NEW y, In(y, s)
  PROVE  y \in T
BY DEF In

----------------------------------------------------------------------------
(* A function that is computed from its value one step down, until a rank  *)
(* that is bounded cannot fall any more, exists.                           *)

Descends(f, D, final, next, out, comb) ==
  \A s \in D : f[s] = IF s \in final THEN out[s] ELSE comb[s][f[next[s]]]

LEMMA Descent ==
  ASSUME NEW D, NEW X, NEW N \in Nat, NEW rank \in [D -> 0 .. N], NEW final,
         NEW next \in [D -> D], NEW out \in [D -> X], NEW comb \in [D -> [X -> X]],
         \A s \in D : s \notin final => rank[next[s]] < rank[s]
  PROVE  \E f \in [D -> X] : Descends(f, D, final, next, out, comb)
<1> DEFINE Below(m) == {s \in D : rank[s] < m}
           Has == {m \in 0 .. N + 1 :
                     \E f \in [Below(m) -> X] : Descends(f, Below(m), final, next, out, comb)}
<1>0. \A s \in D : rank[s] \in Nat /\ rank[s] < N + 1 /\ next[s] \in D
  OBVIOUS
<1>1. 0 \in Has
  <2>1. Below(0) = {}
    BY <1>0
  <2>2. [s \in {} |-> out[s]] \in [Below(0) -> X]
    BY <2>1
  <2>3. Descends([s \in {} |-> out[s]], Below(0), final, next, out, comb)
    BY <2>1 DEF Descends
  <2>4. 0 \in 0 .. N + 1
    OBVIOUS
  <2> HIDE DEF Below
  <2> QED BY <2>2, <2>3, <2>4
<1>2. ASSUME NEW m \in 1 .. N + 1, m - 1 \in Has PROVE m \in Has
  <2>1. PICK f \in [Below(m - 1) -> X] : Descends(f, Below(m - 1), final, next, out, comb)
    BY <1>2
  <2> DEFINE g == [s \in Below(m) |-> IF s \in Below(m - 1) THEN f[s]
                                      ELSE IF s \in final THEN out[s] ELSE comb[s][f[next[s]]]]
  <2>2. \A s \in Below(m) : s \in D /\ (s \notin final => next[s] \in Below(m - 1))
    BY <1>0
  <2>3. Below(m - 1) \subseteq Below(m)
    BY <1>0
  <2>4. g \in [Below(m) -> X]
    <3> SUFFICES ASSUME NEW s \in Below(m)
                 PROVE  (IF s \in Below(m - 1) THEN f[s]
                         ELSE IF s \in final THEN out[s] ELSE comb[s][f[next[s]]]) \in X
      OBVIOUS
    <3>1. s \in D /\ (s \notin final => next[s] \in Below(m - 1))
      BY <2>2
    <3> HIDE DEF Below
    <3> QED BY <3>1
  <2>5. \A s \in Below(m) : g[s] = IF s \in Below(m - 1) THEN f[s]
                                   ELSE IF s \in final THEN out[s] ELSE comb[s][f[next[s]]]
    OBVIOUS
  <2> HIDE DEF g, Below
  <2>6. ASSUME NEW s \in Below(m)
        PROVE  g[s] = IF s \in final THEN out[s] ELSE comb[s][g[next[s]]]
    <3>1. s \notin final => g[next[s]] = f[next[s]]
      BY <2>2, <2>3, <2>5
    <3>2. s \in Below(m - 1) => f[s] = IF s \in final THEN out[s] ELSE comb[s][f[next[s]]]
      BY <2>1 DEF Descends
    <3> QED BY <2>5, <3>1, <3>2
  <2>7. Descends(g, Below(m), final, next, out, comb)
    BY <2>6 DEF Descends
  <2> QED BY <2>4, <2>7
<1>3. N + 1 \in Has
  <2> HIDE DEF Has
  <2>1. N + 1 \in Nat /\ \A i \in 1 .. N + 1 : i - 1 \in Has => i \in Has
    BY <1>2
  <2>2. \A i \in 0 .. N + 1 : i \in Has
    BY <1>1, <2>1, UpTo
  <2> QED BY <2>1, <2>2
<1>4. Below(N + 1) = D
  BY <1>0
<1> HIDE DEF Below
<1> QED BY <1>3, <1>4

\* What holds where a rank is least and is passed on from the next one down.
LEMMA Ascent ==
  ASSUME NEW D, NEW rank \in [D -> Nat], NEW G,
         \A s \in D : (\A t \in D : rank[t] < rank[s] => t \in G) => s \in G
  PROVE  D \subseteq G
<1> DEFINE Missing == {rank[s] : s \in D \ G}
<1>1. SUFFICES ASSUME D \ G # {} PROVE FALSE
  OBVIOUS
<1>2. Missing \subseteq Nat /\ Missing # {}
  BY <1>1
<1>3. PICK m \in Missing : \A k \in Missing : m <= k
  BY <1>2, NatMin
<1>4. PICK s \in D \ G : m = rank[s]
  BY <1>3
<1>5. \A t \in D : rank[t] < rank[s] => t \in G
  <2> SUFFICES ASSUME NEW t \in D, rank[t] < rank[s], t \notin G PROVE FALSE
    OBVIOUS
  <2>1. rank[t] \in Missing /\ rank[t] \in Nat /\ rank[s] \in Nat
    OBVIOUS
  <2>2. rank[s] <= rank[t]
    BY <1>3, <1>4, <2>1
  <2> QED BY <2>1, <2>2
<1> QED BY <1>4, <1>5
=============================================================================
