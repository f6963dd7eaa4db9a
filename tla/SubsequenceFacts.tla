--------------------------- MODULE SubsequenceFacts ---------------------------
(***************************************************************************)
(* What Kept leaves of any sequence: the elements in the set and no others,  *)
(* in their order.  The library states induction over the numbers for an      *)
(* operator, which the provers cannot instantiate; Induction states it for a  *)
(* set, from the least element of every set of numbers.                      *)
(***************************************************************************)
EXTENDS Subsequences, WellFoundedInduction, TLAPS

\* A set of numbers that is not empty has a least one.
LEMMA LeastNumber ==
    ASSUME NEW N \in SUBSET Nat, N # {}
    PROVE  \E m \in N : \A k \in N : m <= k
<1>1. IsWellFoundedOn(OpToRel(<, Nat), Nat)
  BY NatLessThanWellFounded
<1>2. PICK m \in N : \A k \in N : ~(<<k, m>> \in OpToRel(<, Nat))
  BY <1>1, WFMin
<1>3. \A k \in N : ~(k < m)
  BY <1>2 DEF OpToRel
<1> QED BY <1>3

\* Induction, for a set of numbers in place of a predicate.
LEMMA Induction ==
    ASSUME NEW n \in Nat, NEW Good, 0 \in Good,
           \A k \in 1..n : k - 1 \in Good => k \in Good
    PROVE  \A k \in 0..n : k \in Good
<1> DEFINE Bad == {k \in 0..n : k \notin Good}
<1> SUFFICES ASSUME Bad # {} PROVE FALSE
  OBVIOUS
<1>1. PICK m \in Bad : \A k \in Bad : m <= k
  <2>1. Bad \in SUBSET Nat
    OBVIOUS
  <2> HIDE DEF Bad
  <2> QED BY <2>1, LeastNumber
<1>2. m \in 1..n /\ m - 1 \in 0..n /\ m - 1 \notin Bad
  BY <1>1
<1>3. m - 1 \in Good
  BY <1>2
<1>4. m \in Good
  BY <1>2, <1>3
<1> QED BY <1>1, <1>4

\* The function that Kept is the last value of.
Keeps(g, s, T, n) ==
    g = [k \in 0..n |-> IF k = 0 THEN <<>>
                        ELSE IF s[k] \in T THEN Append(g[k - 1], s[k]) ELSE g[k - 1]]

\* The recursion has a solution: longer ones are made of shorter ones.
LEMMA KeepsExists ==
    ASSUME NEW n \in Nat, NEW s, NEW T
    PROVE  \E g : Keeps(g, s, T, n)
<1> DEFINE Good == {k \in Nat : \E g : Keeps(g, s, T, k)}
<1>1. 0 \in Good
  <2> DEFINE g == [k \in 0..0 |-> <<>>]
  <2>1. Keeps(g, s, T, 0)
    BY DEF Keeps
  <2> HIDE DEF g
  <2> QED BY <2>1
<1>2. ASSUME NEW k \in 1..n, k - 1 \in Good PROVE k \in Good
  <2>1. PICK f : Keeps(f, s, T, k - 1)
    BY <1>2
  <2> DEFINE g == [j \in 0..k |-> IF j = k THEN IF s[k] \in T THEN Append(f[k - 1], s[k]) ELSE f[k - 1]
                                  ELSE f[j]]
  <2>2. \A j \in 0..(k - 1) :
            f[j] = IF j = 0 THEN <<>> ELSE IF s[j] \in T THEN Append(f[j - 1], s[j]) ELSE f[j - 1]
    BY <2>1 DEF Keeps
  <2>3. \A j \in 0..k : j # k => g[j] = f[j] /\ j \in 0..(k - 1)
    OBVIOUS
  <2>4. \A j \in 0..k :
            g[j] = IF j = 0 THEN <<>> ELSE IF s[j] \in T THEN Append(g[j - 1], s[j]) ELSE g[j - 1]
    <3> SUFFICES ASSUME NEW j \in 0..k
        PROVE g[j] = IF j = 0 THEN <<>> ELSE IF s[j] \in T THEN Append(g[j - 1], s[j]) ELSE g[j - 1]
      OBVIOUS
    <3>1. CASE j = k
      BY <3>1, <2>3
    <3>2. CASE j # k
      BY <3>2, <2>2, <2>3
    <3> QED BY <3>1, <3>2
  <2>5. g = [j \in 0..k |-> g[j]]
    OBVIOUS
  <2> HIDE DEF g
  <2>6. Keeps(g, s, T, k)
    BY <2>4, <2>5 DEF Keeps
  <2> QED BY <2>6
<1> HIDE DEF Good
<1>3. n \in Good
  BY <1>1, <1>2, Induction
<1> QED BY <1>3 DEF Good

\* h says where the elements of t come from: they are those of s in T, in order.
Picks(h, t, s, T, n) ==
    /\ h \in [1..Len(t) -> 1..n]
    /\ \A i, j \in 1..Len(t) : i < j => h[i] < h[j]
    /\ \A i \in 1..Len(t) : t[i] = s[h[i]] /\ t[i] \in T
    /\ \A k \in 1..n : s[k] \in T => \E i \in 1..Len(t) : h[i] = k

\* Filtering keeps the chosen elements, all of them, and their order.
THEOREM KeptPicks ==
    ASSUME NEW S, NEW s \in Seq(S), NEW T
    PROVE  Kept(s, T) \in Seq(S) /\ \E h : Picks(h, Kept(s, T), s, T, Len(s))
<1> DEFINE g == CHOOSE g : Keeps(g, s, T, Len(s))
<1>1. Kept(s, T) = g[Len(s)]
  BY DEF Kept, Keeps
<1>2. Keeps(g, s, T, Len(s))
  BY KeepsExists
<1> HIDE DEF g
<1>3. \A k \in 0..Len(s) :
          g[k] = IF k = 0 THEN <<>> ELSE IF s[k] \in T THEN Append(g[k - 1], s[k]) ELSE g[k - 1]
  BY <1>2 DEF Keeps
<1> DEFINE Good == {k \in Nat : g[k] \in Seq(S) /\ \E h : Picks(h, g[k], s, T, k)}
<1>4. 0 \in Good
  <2> DEFINE h == [i \in {} |-> 0]
  <2>1. g[0] = <<>>
    BY <1>3
  <2>2. Picks(h, g[0], s, T, 0)
    BY <2>1 DEF Picks
  <2>3. g[0] \in Seq(S)
    BY <2>1
  <2> HIDE DEF h
  <2> QED BY <2>2, <2>3
<1>5. ASSUME NEW k \in 1..Len(s), k - 1 \in Good PROVE k \in Good
  <2>1. PICK f : Picks(f, g[k - 1], s, T, k - 1)
    BY <1>5
  <2> DEFINE t == g[k - 1]
             m == Len(t)
  <2>2. t \in Seq(S) /\ m \in Nat /\ s[k] \in S
    BY <1>5
  <2>3. CASE s[k] \notin T
    <3>1. g[k] = t
      BY <1>3, <2>3
    <3> HIDE DEF t
    <3>2. Picks(f, t, s, T, k - 1)
      BY <2>1 DEF t
    <3>3. \A j \in 1..k : j = k \/ j \in 1..(k - 1)
      OBVIOUS
    <3>4. f \in [1..m -> 1..k] /\ \A j \in 1..k : s[j] \in T => \E i \in 1..m : f[i] = j
      BY <3>2, <3>3, <2>3 DEF Picks
    <3>5. Picks(f, t, s, T, k)
      BY <3>2, <3>4 DEF Picks
    <3> QED BY <2>2, <3>1, <3>5
  <2>4. CASE s[k] \in T
    <3> DEFINE u == Append(t, s[k])
               h == [i \in 1..(m + 1) |-> IF i = m + 1 THEN k ELSE f[i]]
    <3>1. g[k] = u
      <4>1. k \in 0..Len(s) /\ k # 0
        OBVIOUS
      <4> QED BY <4>1, <1>3, <2>4
    <3>2. /\ u \in Seq(S) /\ Len(u) = m + 1 /\ u[m + 1] = s[k]
          /\ \A i \in 1..m : u[i] = t[i]
      BY <2>2
    <3> HIDE DEF t, u, m
    <3>3. /\ f \in [1..m -> 1..(k - 1)]
          /\ \A i, j \in 1..m : i < j => f[i] < f[j]
          /\ \A i \in 1..m : t[i] = s[f[i]] /\ t[i] \in T
          /\ \A j \in 1..(k - 1) : s[j] \in T => \E i \in 1..m : f[i] = j
      BY <2>1 DEF Picks, t, m
    <3>4. h[m + 1] = k /\ \A i \in 1..m : h[i] = f[i]
      BY <2>2
    <3>5. h \in [1..(m + 1) -> 1..k]
      BY <3>3, <2>2
    <3>6. \A i \in 1..(m + 1) : i = m + 1 \/ i \in 1..m
      BY <2>2
    <3> HIDE DEF h
    <3>7. \A i, j \in 1..(m + 1) : i < j => h[i] < h[j]
      <4> SUFFICES ASSUME NEW i \in 1..(m + 1), NEW j \in 1..(m + 1), i < j PROVE h[i] < h[j]
        OBVIOUS
      <4>4. i \in 1..m
        BY <2>2
      <4>1. i \in 1..m /\ h[i] = f[i] /\ f[i] \in 1..(k - 1)
        BY <4>4, <3>3, <3>4
      <4>2. CASE j = m + 1
        BY <4>1, <4>2, <3>4
      <4>3. CASE j \in 1..m
        BY <4>1, <4>3, <3>3, <3>4
      <4> QED BY <4>2, <4>3, <3>6
    <3>8. \A i \in 1..(m + 1) : u[i] = s[h[i]] /\ u[i] \in T
      BY <3>2, <3>3, <3>4, <3>6, <2>2, <2>4
    <3>9. \A j \in 1..k : s[j] \in T => \E i \in 1..(m + 1) : h[i] = j
      <4> SUFFICES ASSUME NEW j \in 1..k, s[j] \in T PROVE \E i \in 1..(m + 1) : h[i] = j
        OBVIOUS
      <4>1. CASE j = k
        BY <4>1, <3>4, <2>2
      <4>2. CASE j # k
        <5>1. PICK i \in 1..m : f[i] = j
          BY <4>2, <3>3
        <5>2. i \in 1..(m + 1) /\ h[i] = j
          BY <5>1, <3>4, <2>2
        <5> QED BY <5>2
      <4> QED BY <4>1, <4>2
    <3>10. Picks(h, u, s, T, k)
      BY <3>2, <3>5, <3>7, <3>8, <3>9 DEF Picks
    <3> QED BY <3>1, <3>2, <3>10
  <2> QED BY <2>3, <2>4
<1> HIDE DEF Good
<1>6. Len(s) \in Nat
  OBVIOUS
<1>7. \A k \in 0..Len(s) : k \in Good
  BY <1>4, <1>5, <1>6, Induction
<1>8. Len(s) \in Good
  BY <1>6, <1>7
<1> QED BY <1>1, <1>8 DEF Good

\* What can be said of what is kept without its places in s.
LEMMA KeptElements ==
    ASSUME NEW S, NEW s \in Seq(S), NEW T
    PROVE  /\ Kept(s, T) \in Seq(S)
           /\ \A i \in 1..Len(Kept(s, T)) :
                  Kept(s, T)[i] \in T /\ \E k \in 1..Len(s) : Kept(s, T)[i] = s[k]
           /\ \A k \in 1..Len(s) :
                  s[k] \in T => \E i \in 1..Len(Kept(s, T)) : Kept(s, T)[i] = s[k]
<1> DEFINE t == Kept(s, T)
<1>1. t \in Seq(S) /\ \E h : Picks(h, t, s, T, Len(s))
  BY KeptPicks
<1>2. PICK h : Picks(h, t, s, T, Len(s))
  BY <1>1
<1> HIDE DEF t
<1>3. \A i \in 1..Len(t) : t[i] \in T /\ \E k \in 1..Len(s) : t[i] = s[k]
  BY <1>2 DEF Picks
<1>4. \A k \in 1..Len(s) : s[k] \in T => \E i \in 1..Len(t) : t[i] = s[k]
  BY <1>2 DEF Picks
<1> QED BY <1>1, <1>3, <1>4 DEF t

\* No more is kept than there is.
LEMMA KeptLength ==
    ASSUME NEW S, NEW s \in Seq(S), NEW T
    PROVE  Len(Kept(s, T)) <= Len(s)
<1> DEFINE t == Kept(s, T)
<1>1. t \in Seq(S) /\ \E h : Picks(h, t, s, T, Len(s))
  BY KeptPicks
<1>2. PICK h : Picks(h, t, s, T, Len(s))
  BY <1>1
<1> HIDE DEF t
<1> DEFINE n == Len(t)
           Good == {i \in Nat : i \in 1..n => i <= h[i]}
<1>3. n \in Nat /\ Len(s) \in Nat
  BY <1>1
<1>4. /\ h \in [1..n -> 1..Len(s)]
      /\ \A i, j \in 1..n : i < j => h[i] < h[j]
  BY <1>2 DEF Picks
<1> HIDE DEF n
<1>5. 0 \in Good
  OBVIOUS
<1>6. ASSUME NEW i \in 1..n, i - 1 \in Good PROVE i \in Good
  <2>1. CASE i = 1
    BY <2>1, <1>3, <1>4
  <2>2. CASE i # 1
    <3>1. i - 1 \in 1..n /\ i - 1 < i
      BY <2>2, <1>3
    <3>2. i - 1 <= h[i - 1] /\ h[i - 1] < h[i]
      BY <3>1, <1>4, <1>6
    <3>3. h[i] \in Nat /\ h[i - 1] \in Nat
      BY <3>1, <1>3, <1>4
    <3> QED BY <3>2, <3>3, <1>3
  <2> QED BY <2>1, <2>2
<1> HIDE DEF Good
<1>7. \A i \in 0..n : i \in Good
  BY <1>3, <1>5, <1>6, Induction
<1>8. n # 0 => n <= h[n] /\ h[n] <= Len(s)
  <2>1. n \in Good
    BY <1>3, <1>7
  <2> QED BY <2>1, <1>3, <1>4 DEF Good
<1>9. n # 0 => h[n] \in Nat
  BY <1>3, <1>4
<1> QED BY <1>3, <1>8, <1>9 DEF n, t

\* What occurs once is kept once.
LEMMA KeptOnce ==
    ASSUME NEW S, NEW s \in Seq(S), NEW T,
           \A i, j \in 1..Len(s) : s[i] = s[j] => i = j
    PROVE  \A i, j \in 1..Len(Kept(s, T)) : Kept(s, T)[i] = Kept(s, T)[j] => i = j
<1> DEFINE t == Kept(s, T)
<1>1. t \in Seq(S) /\ \E h : Picks(h, t, s, T, Len(s))
  BY KeptPicks
<1>2. PICK h : Picks(h, t, s, T, Len(s))
  BY <1>1
<1> HIDE DEF t
<1> DEFINE n == Len(t)
<1>3. n \in Nat
  BY <1>1
<1>4. /\ h \in [1..n -> 1..Len(s)]
      /\ \A i, j \in 1..n : i < j => h[i] < h[j]
      /\ \A i \in 1..n : t[i] = s[h[i]]
  BY <1>2 DEF Picks
<1> HIDE DEF n
<1> SUFFICES ASSUME NEW i \in 1..n, NEW j \in 1..n, t[i] = t[j] PROVE i = j
  BY DEF n, t
<1>5. h[i] = h[j]
  BY <1>4
<1>6. ~(i < j) /\ ~(j < i)
  BY <1>4, <1>5
<1> QED BY <1>3, <1>6

\* A last element that is kept is the last that is kept.
LEMMA KeptLast ==
    ASSUME NEW S, NEW s \in Seq(S), NEW T, s # <<>>, s[Len(s)] \in T
    PROVE  Kept(s, T) # <<>> /\ Kept(s, T)[Len(Kept(s, T))] = s[Len(s)]
<1> DEFINE t == Kept(s, T)
<1>1. t \in Seq(S) /\ \E h : Picks(h, t, s, T, Len(s))
  BY KeptPicks
<1>2. PICK h : Picks(h, t, s, T, Len(s))
  BY <1>1
<1> HIDE DEF t
<1> DEFINE n == Len(t)
<1>3. n \in Nat /\ Len(s) \in 1..Len(s)
  BY <1>1
<1>4. /\ h \in [1..n -> 1..Len(s)]
      /\ \A i, j \in 1..n : i < j => h[i] < h[j]
      /\ \A i \in 1..n : t[i] = s[h[i]]
      /\ \E i \in 1..n : h[i] = Len(s)
  BY <1>2, <1>3 DEF Picks
<1> HIDE DEF n
<1>5. PICK i \in 1..n : h[i] = Len(s)
  BY <1>4
<1>6. ~(i < n)
  <2>1. n \in 1..n /\ h[n] \in 1..Len(s)
    BY <1>3, <1>4, <1>5
  <2> QED BY <2>1, <1>4, <1>5
<1>7. n \in 1..n /\ h[n] = Len(s)
  BY <1>3, <1>5, <1>6
<1>8. t[n] = s[Len(s)]
  BY <1>4, <1>7
<1>9. t # <<>>
  BY <1>1, <1>7 DEF n
<1> QED BY <1>8, <1>9 DEF n, t
=============================================================================
