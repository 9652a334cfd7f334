------------------------------ MODULE Arithmetic ------------------------------
(* Division, and induction over an interval of numbers. *)
EXTENDS Integers, FiniteSets, FiniteSetTheorems, WellFoundedInduction, TLAPS

\* Products of numbers are numbers.
LEMMA TimesNat == ASSUME NEW a \in Nat, NEW b \in Nat PROVE a * b \in Nat
OBVIOUS

\* A quotient and a remainder make the number.
LEMMA DivMod ==
  ASSUME NEW a \in Nat, NEW b \in Nat \ {0}
  PROVE  /\ a = b * (a \div b) + (a % b)
         /\ a \div b \in Nat /\ a % b \in 0 .. b - 1
<1>1. a - (a % b) = b * (a \div b)
  OBVIOUS
<1> QED BY <1>1

\* A positive factor can be taken off both sides.
LEMMA TimesLess ==
  ASSUME NEW m \in Nat \ {0}, NEW k \in Int, NEW u \in Int, m * k < m * u PROVE k < u
OBVIOUS

\* And no other quotient and remainder do.
LEMMA DivModOnly ==
  ASSUME NEW m \in Nat \ {0}, NEW u \in Nat, NEW r \in 0 .. m - 1, NEW a \in Nat,
         a = m * u + r
  PROVE  a % m = r /\ a \div m = u
<1> DEFINE k == a \div m
           s == a % m
<1>1. a = m * k + s /\ k \in Nat /\ s \in 0 .. m - 1
  BY DivMod
<1> HIDE DEF k, s
<1>2. m * k < m * (u + 1) /\ m * u < m * (k + 1)
  BY <1>1
<1>3. k < u + 1 /\ u < k + 1
  BY <1>1, <1>2, TimesLess
<1>4. k = u
  BY <1>1, <1>3
<1>5. s = r
  BY <1>1, <1>4
<1> QED BY <1>4, <1>5 DEF k, s

\* Counting on by one wraps the remainder, and carries to the quotient.
LEMMA DivModNext ==
  ASSUME NEW a \in Nat, NEW m \in Nat \ {0}
  PROVE  /\ (a + 1) % m = ((a % m) + 1) % m
         /\ (a + 1) \div m = (IF (a % m) + 1 = m THEN (a \div m) + 1 ELSE a \div m)
<1> DEFINE k == a \div m
           r == a % m
<1>1. a = m * k + r /\ k \in Nat /\ r \in 0 .. m - 1
  BY DivMod
<1> HIDE DEF k, r
<1>2. CASE r + 1 = m
  <2>1. a + 1 = m * (k + 1) + 0 /\ k + 1 \in Nat /\ 0 \in 0 .. m - 1 /\ a + 1 \in Nat
    BY <1>1, <1>2
  <2>2. (a + 1) % m = 0 /\ (a + 1) \div m = k + 1
    <3> DEFINE j == k + 1
    <3>1. a + 1 = m * j + 0 /\ j \in Nat /\ 0 \in 0 .. m - 1 /\ a + 1 \in Nat
      BY <2>1
    <3> HIDE DEF j
    <3>2. (a + 1) % m = 0 /\ (a + 1) \div m = j
      BY <3>1, DivModOnly
    <3> QED BY <3>2 DEF j
  <2>3. m % m = 0
    <3>1. m = m * 1 + 0 /\ 0 \in 0 .. m - 1
      OBVIOUS
    <3> QED BY <3>1, DivModOnly
  <2> QED BY <1>2, <2>2, <2>3 DEF k, r
<1>3. CASE r + 1 # m
  <2>1. a + 1 = m * k + (r + 1) /\ r + 1 \in 0 .. m - 1 /\ a + 1 \in Nat
    BY <1>1, <1>3
  <2>2. (a + 1) % m = r + 1 /\ (a + 1) \div m = k
    BY <1>1, <2>1, DivModOnly
  <2>3. (r + 1) % m = r + 1
    <3>1. r + 1 = m * 0 + (r + 1) /\ r + 1 \in Nat
      BY <2>1
    <3> QED BY <2>1, <3>1, DivModOnly
  <2> QED BY <1>3, <2>2, <2>3 DEF k, r
<1> QED BY <1>2, <1>3

---------------------------------------------------------------------------
(* Induction over data is out of the provers' reach when the property is an *)
(* operator; over a set of numbers it follows from the order of Nat.        *)

\* A set of numbers has a least one.
LEMMA LeastOf ==
  ASSUME NEW S \in SUBSET Nat, S # {}
  PROVE  \E n \in S : \A m \in S : n <= m
<1> DEFINE T == {0 .. n : n \in S}
<1>1. IsWellFoundedOn(StrictSubsetOrdering(Nat), FiniteSubsetsOf(Nat))
  BY FS_StrictSubsetOrderingWellFounded
<1>2. T \subseteq FiniteSubsetsOf(Nat) /\ T # {}
  <2>1. \A n \in S : 0 .. n \in SUBSET Nat /\ IsFiniteSet(0 .. n)
    BY FS_Interval
  <2> QED BY <2>1 DEF FiniteSubsetsOf
<1>3. PICK x \in T : \A y \in T : ~(<<y, x>> \in StrictSubsetOrdering(Nat))
  <2> HIDE DEF T
  <2> QED BY <1>1, <1>2, WFMin
<1>4. PICK n \in S : x = 0 .. n
  BY <1>3
<1>5. ASSUME NEW m \in S, m < n PROVE FALSE
  <2>1. 0 .. m \in SUBSET Nat /\ x \in SUBSET Nat /\ 0 .. m \subseteq x /\ 0 .. m # x
    <3>1. n \in 0 .. n /\ n \notin 0 .. m /\ m \in Nat
      BY <1>5
    <3> QED BY <1>4, <1>5, <3>1
  <2>2. <<0 .. m, x>> \in StrictSubsetOrdering(Nat)
    BY <2>1 DEF StrictSubsetOrdering
  <2> QED BY <1>3, <1>5, <2>2
<1> QED BY <1>5

\* A set that has the first number of an interval, and with each the next one,
\* has them all.
LEMMA IntervalInduction ==
  ASSUME NEW k \in Nat, NEW S, 0 \in S, \A n \in 0 .. k - 1 : n \in S => n + 1 \in S
  PROVE  0 .. k \subseteq S
<1> SUFFICES ASSUME (0 .. k) \ S # {} PROVE FALSE
  OBVIOUS
<1>1. PICK n \in (0 .. k) \ S : \A m \in (0 .. k) \ S : n <= m
  <2>1. (0 .. k) \ S \in SUBSET Nat
    OBVIOUS
  <2> QED BY <2>1, LeastOf
<1>2. n - 1 \in 0 .. k - 1 /\ (n - 1) + 1 = n
  BY <1>1
<1>3. n - 1 \in S
  BY <1>1, <1>2
<1> QED BY <1>1, <1>2, <1>3

\* The k links followed from p, one after the other, stay in S.
Walk(p, link, k) ==
  LET at[n \in 0 .. k] == IF n = 0 THEN p ELSE link[at[n - 1]] IN at

WalksIn(S, p, link, k) ==
  LET f == Walk(p, link, k)
  IN  f \in [0 .. k -> S] /\ f[0] = p /\ \A n \in 1 .. k : f[n] = link[f[n - 1]]

\* A recursive function that follows a link from p has all its places, in S.
LEMMA Iteration ==
  ASSUME NEW S, NEW p \in S, NEW link \in [S -> S], NEW k \in Nat
  PROVE  WalksIn(S, p, link, k)
<1> DEFINE Walks(j) == {h \in [0 .. j -> S] :
                          h[0] = p /\ \A n \in 1 .. j : h[n] = link[h[n - 1]]}
           T == {j \in Nat : Walks(j) # {}}
<1>1. 0 \in T
  <2>1. [n \in 0 .. 0 |-> p] \in Walks(0)
    OBVIOUS
  <2> QED BY <2>1
<1>2. ASSUME NEW j \in 0 .. k - 1, j \in T PROVE j + 1 \in T
  <2>1. PICK h \in [0 .. j -> S] : h[0] = p /\ \A n \in 1 .. j : h[n] = link[h[n - 1]]
    BY <1>2
  <2> DEFINE g == [n \in 0 .. j + 1 |-> IF n = j + 1 THEN link[h[j]] ELSE h[n]]
  <2>2. j \in Nat /\ j + 1 \in Nat
    OBVIOUS
  <2>3. g \in [0 .. j + 1 -> S]
    BY <2>1, <2>2
  <2>4. g[0] = p
    BY <2>1, <2>2
  <2>5. ASSUME NEW n \in 1 .. j + 1 PROVE g[n] = link[g[n - 1]]
    <3>1. n - 1 \in 0 .. j /\ g[n - 1] = h[n - 1]
      BY <2>2
    <3>2. CASE n = j + 1
      BY <2>2, <3>1, <3>2
    <3>3. CASE n # j + 1
      BY <2>1, <2>2, <3>1, <3>3
    <3> QED BY <3>2, <3>3
  <2>6. g \in Walks(j + 1)
    BY <2>3, <2>4, <2>5
  <2> QED BY <2>2, <2>6
<1>3. k \in T
  <2> HIDE DEF T
  <2> QED BY <1>1, <1>2, IntervalInduction
<1>4. PICK h \in [0 .. k -> S] : h[0] = p /\ \A n \in 1 .. k : h[n] = link[h[n - 1]]
  BY <1>3
<1>5. h = [n \in 0 .. k |-> IF n = 0 THEN p ELSE link[h[n - 1]]]
  <2>1. ASSUME NEW n \in 0 .. k PROVE h[n] = IF n = 0 THEN p ELSE link[h[n - 1]]
    BY <1>4
  <2> QED BY <2>1
<1> DEFINE f == CHOOSE at : at = [n \in 0 .. k |-> IF n = 0 THEN p ELSE link[at[n - 1]]]
<1>6. f = [n \in 0 .. k |-> IF n = 0 THEN p ELSE link[f[n - 1]]]
  BY <1>5
<1> HIDE DEF f
<1>7. f[0] = p /\ \A n \in 1 .. k : f[n] = link[f[n - 1]]
  BY <1>6
<1>8. 0 .. k \subseteq {n \in 0 .. k : f[n] \in S}
  <2> DEFINE I == {n \in 0 .. k : f[n] \in S}
  <2>1. 0 \in I
    BY <1>7
  <2>2. \A n \in 0 .. k - 1 : n \in I => n + 1 \in I
    <3> SUFFICES ASSUME NEW n \in 0 .. k - 1, n \in I PROVE n + 1 \in I
      OBVIOUS
    <3>1. n + 1 \in 1 .. k /\ n + 1 \in 0 .. k /\ (n + 1) - 1 = n
      OBVIOUS
    <3>2. f[n + 1] = link[f[n]] /\ f[n] \in S
      BY <1>7, <3>1
    <3> QED BY <3>1, <3>2
  <2> HIDE DEF I
  <2> QED BY <2>1, <2>2, IntervalInduction DEF I
<1>9. f \in [0 .. k -> S]
  BY <1>6, <1>8
<1>10. f = Walk(p, link, k)
  BY DEF f, Walk
<1> QED BY <1>7, <1>9, <1>10 DEF WalksIn
=============================================================================
