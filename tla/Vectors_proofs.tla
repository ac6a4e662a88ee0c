--------------------------- MODULE Vectors_proofs ---------------------------
(***************************************************************************)
(* What the loop of merge_vectors() and getOrder() puts together.          *)
(***************************************************************************)
EXTENDS Vectors, WellFoundedInduction, TLAPS

\* Induction, by the least number that is not in S.
LEMMA UptoInduction ==
  ASSUME NEW S, 0 \in S, \A n \in Nat : n \in S => n + 1 \in S
  PROVE  Nat \subseteq S
<1> DEFINE R == OpToRel(<, Nat)
           T == Nat \ S
<1> SUFFICES ASSUME T # {} PROVE FALSE
  OBVIOUS
<1>1. PICK m \in T : \A n \in T : <<n, m>> \notin R
  <2>1. IsWellFoundedOn(R, Nat) /\ T \subseteq Nat
    BY NatLessThanWellFounded
  <2> HIDE DEF R, T
  <2>2. QED
    BY <2>1, WFMin
<1>2. m - 1 \in T
  OBVIOUS
<1>3. <<m - 1, m>> \in R
  BY <1>2 DEF OpToRel
<1>4. QED
  BY <1>1, <1>2, <1>3

\* f is the recursion of WithNew() over the first n members of t.
IsUpto(f, s, t, S, n) ==
  f = [k \in 0 .. n |->
         IF k = 0 THEN s
         ELSE IF t[k] \in S /\ ~Contains(f[k - 1], t[k])
                THEN Append(f[k - 1], t[k])
                ELSE f[k - 1]]

\* The recursion has a solution: built member by member.
LEMMA UptoExists ==
  ASSUME NEW s, NEW t, NEW S, NEW n \in Nat
  PROVE  \E f : IsUpto(f, s, t, S, n)
<1> DEFINE Solved == {k \in Nat : \E f : IsUpto(f, s, t, S, k)}
<1>1. 0 \in Solved
  <2> DEFINE f == [k \in 0 .. 0 |-> s]
  <2>1. IsUpto(f, s, t, S, 0)
    BY DEF IsUpto
  <2>2. QED
    BY <2>1
<1>2. ASSUME NEW k \in Nat, k \in Solved PROVE k + 1 \in Solved
  <2>1. PICK f : IsUpto(f, s, t, S, k)
    BY <1>2
  <2> DEFINE last == IF t[k + 1] \in S /\ ~Contains(f[k], t[k + 1])
                       THEN Append(f[k], t[k + 1])
                       ELSE f[k]
             g == [j \in 0 .. k + 1 |-> IF j = k + 1 THEN last ELSE f[j]]
  <2>2. ASSUME NEW j \in 0 .. k + 1
        PROVE  g[j] = IF j = 0 THEN s
                      ELSE IF t[j] \in S /\ ~Contains(g[j - 1], t[j])
                             THEN Append(g[j - 1], t[j])
                             ELSE g[j - 1]
    <3>1. CASE j = k + 1
      <4>1. g[j] = last /\ g[j - 1] = f[k] /\ j # 0
        BY <3>1
      <4> HIDE DEF g
      <4>2. QED
        BY <3>1, <4>1
    <3>2. CASE j \in 0 .. k
      <4>1. g[j] = f[j] /\ (j # 0 => g[j - 1] = f[j - 1])
        BY <3>2
      <4>2. f[j] = IF j = 0 THEN s
                   ELSE IF t[j] \in S /\ ~Contains(f[j - 1], t[j])
                          THEN Append(f[j - 1], t[j])
                          ELSE f[j - 1]
        BY <2>1, <3>2 DEF IsUpto
      <4> HIDE DEF g
      <4>3. QED
        BY <4>1, <4>2
    <3>3. QED
      BY <3>1, <3>2
  <2>3. IsUpto(g, s, t, S, k + 1)
    BY <2>2 DEF IsUpto
  <2>4. QED
    BY <2>3
<1>3. QED
  <2> HIDE DEF Solved
  <2>1. n \in Solved
    BY <1>1, <1>2, UptoInduction
  <2>2. QED
    BY <2>1 DEF Solved

\* What WithNew() returns is a list; it has every element of the first list, and
\* every one of the second that is in S; and it has none twice if the first has
\* none.
LEMMA WithNewIsList ==
  ASSUME NEW X, NEW Y, NEW S, Y \cap S \subseteq X, NEW s \in Seq(X), NEW t \in Seq(Y)
  PROVE  /\ WithNew(s, t, S) \in Seq(X)
         /\ Range(s) \cup (Range(t) \cap S) \subseteq Range(WithNew(s, t, S))
         /\ IsInjective(s) => IsInjective(WithNew(s, t, S))
<1> DEFINE N == Len(t)
<1>1. N \in Nat /\ DOMAIN t = 1 .. N
  OBVIOUS
<1> DEFINE f == CHOOSE g : IsUpto(g, s, t, S, N)
<1>2. IsUpto(f, s, t, S, N)
  BY <1>1, UptoExists
<1>3. WithNew(s, t, S) = f[N]
  BY DEF WithNew, IsUpto
<1> HIDE DEF f, N
<1>4. /\ f[0] = s
      /\ \A k \in 1 .. N : f[k] = IF t[k] \in S /\ ~Contains(f[k - 1], t[k])
                                    THEN Append(f[k - 1], t[k])
                                    ELSE f[k - 1]
  <2>1. \A k \in 0 .. N : f[k] = IF k = 0 THEN s
                                 ELSE IF t[k] \in S /\ ~Contains(f[k - 1], t[k])
                                        THEN Append(f[k - 1], t[k])
                                        ELSE f[k - 1]
    BY <1>2 DEF IsUpto
  <2>2. 0 \in 0 .. N /\ \A k \in 1 .. N : k \in 0 .. N /\ k # 0
    BY <1>1
  <2>3. QED
    BY <2>1, <2>2
<1> DEFINE Has(l, x) == \E j \in DOMAIN l : l[j] = x
           Once(l) == \A i, j \in DOMAIN l : l[i] = l[j] => i = j
           Good(k) == /\ f[k] \in Seq(X)
                      /\ \A x : Has(s, x) => Has(f[k], x)
                      /\ Once(s) => Once(f[k])
                      /\ \A i \in 1 .. k : t[i] \in S => Has(f[k], t[i])
           Proved == {k \in Nat : k <= N => Good(k)}
<1>5. 0 \in Proved
  BY <1>4
<1>6. ASSUME NEW k \in Nat, k \in Proved PROVE k + 1 \in Proved
  <2> SUFFICES ASSUME k + 1 <= N PROVE Good(k + 1)
    OBVIOUS
  <2>1. Good(k)
    BY <1>1, <1>6
  <2>2. k + 1 \in 1 .. N /\ (k + 1) - 1 = k
    BY <1>1
  <2>3. f[k + 1] = IF t[k + 1] \in S /\ ~Contains(f[k], t[k + 1])
                     THEN Append(f[k], t[k + 1])
                     ELSE f[k]
    BY <1>4, <2>2
  <2>4. t[k + 1] \in S => t[k + 1] \in X
    BY <1>1, <2>2
  <2> DEFINE l == f[k]
             m == f[k + 1]
             x == t[k + 1]
  <2>5. l \in Seq(X)
    BY <2>1
  <2> HIDE DEF l, m, x
  <2>6. /\ m \in Seq(X) /\ (\A y : Has(l, y) => Has(m, y)) /\ (x \in S => Has(m, x))
        /\ Once(l) => Once(m)
    <3>1. CASE x \in S /\ ~Contains(l, x)
      <4>1. m = Append(l, x) /\ x \in X
        BY <2>3, <2>4, <3>1 DEF l, m, x
      <4>2. /\ m \in Seq(X) /\ DOMAIN m = 1 .. Len(l) + 1 /\ m[Len(l) + 1] = x
            /\ DOMAIN l = 1 .. Len(l) /\ Len(l) \in Nat
            /\ \A j \in 1 .. Len(l) : m[j] = l[j]
        BY <2>5, <4>1
      <4>3. \A j \in DOMAIN l : l[j] # x
        BY <2>5, <3>1 DEF Contains
      <4>4. Once(l) => Once(m)
        BY <4>2, <4>3
      <4>5. m \in Seq(X) /\ (\A y : Has(l, y) => Has(m, y)) /\ Has(m, x)
        BY <4>2
      <4>6. QED
        BY <4>4, <4>5
    <3>2. CASE ~(x \in S /\ ~Contains(l, x))
      <4>1. m = l /\ (x \in S => Contains(l, x))
        BY <2>3, <3>2 DEF l, m, x
      <4>2. Contains(l, x) => Has(l, x)
        BY <2>5 DEF Contains
      <4>3. QED
        BY <2>5, <4>1, <4>2
    <3>3. QED
      BY <3>1, <3>2
  <2>7. ASSUME NEW i \in 1 .. k + 1, t[i] \in S PROVE Has(m, t[i])
    <3>1. CASE i = k + 1
      BY <2>6, <2>7, <3>1 DEF x
    <3>2. CASE i \in 1 .. k
      BY <2>1, <2>6, <2>7, <3>2 DEF l
    <3>3. QED
      BY <3>1, <3>2
  <2>8. /\ \A y : Has(s, y) => Has(m, y)
        /\ Once(s) => Once(m)
    BY <2>1, <2>6 DEF l
  <2>9. QED
    BY <2>6, <2>7, <2>8 DEF m
<1>7. N \in Proved
  <2> HIDE DEF Proved
  <2>1. QED
    BY <1>1, <1>5, <1>6, UptoInduction
<1>8. Good(N)
  BY <1>1, <1>7
<1>9. Range(t) \cap S \subseteq Range(f[N])
  BY <1>1, <1>8 DEF Range
<1>10. Range(s) \subseteq Range(f[N])
  BY <1>8 DEF Range
<1>11. IsInjective(s) => IsInjective(f[N])
  BY <1>8 DEF IsInjective
<1>12. QED
  BY <1>3, <1>8, <1>9, <1>10, <1>11
=============================================================================
