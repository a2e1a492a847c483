---------------------- MODULE CalibrationReport_proofs ----------------------
(***************************************************************************)
(* The report's hindsight flag cannot be avoided without waiting, and its  *)
(* arithmetic adds up, for every value of the constants.                   *)
(*                                                                         *)
(* What a sum is of a list of any length needs induction.  The library's   *)
(* NatInduction takes a predicate; NatInd takes the set of the numbers     *)
(* that have the property, and follows from the well-foundedness of < on   *)
(* the natural numbers, which the library states without one.              *)
(***************************************************************************)
EXTENDS CalibrationReport, FiniteSetTheorems, WellFoundedInduction, TLAPS

-----------------------------------------------------------------------------
(* Sums.                                                                    *)

\* Induction over the natural numbers, as membership in a set.
LEMMA NatInd ==
  ASSUME NEW S, 0 \in S, \A n \in Nat : n \in S => n + 1 \in S
  PROVE  Nat \subseteq S
<1> DEFINE T == Nat \ S
<1> SUFFICES ASSUME T # {} PROVE FALSE
  OBVIOUS
<1>1. PICK x \in T : \A y \in T : ~ (<<y, x>> \in OpToRel(<, Nat))
  <2>1. IsWellFoundedOn(OpToRel(<, Nat), Nat)
    BY NatLessThanWellFounded, Zenon
  <2>2. T \subseteq Nat
    OBVIOUS
  <2> HIDE DEF T
  <2> QED
    BY <2>1, <2>2, WFMin, Zenon
<1>2. x # 0 /\ x \in Nat /\ x \notin S
  OBVIOUS
<1>3. x - 1 \in Nat /\ x - 1 \notin S
  BY <1>2
<1>4. <<x - 1, x>> \in OpToRel(<, Nat)
  BY <1>2, <1>3 DEF OpToRel
<1> QED
  BY <1>1, <1>3, <1>4, Zenon

\* s holds the partial sums of x up to m.
SumFun(s, x, m) == s = [k \in 0 .. m |-> IF k = 0 THEN 0 ELSE s[k - 1] + x[k]]

\* The recursive definition of a sum has a solution.
LEMMA SumFunExists == ASSUME NEW x, NEW m \in Nat PROVE \E s : SumFun(s, x, m)
<1> DEFINE S == {n \in Nat : \E s : SumFun(s, x, n)}
<1>1. 0 \in S
  <2>1. SumFun([k \in 0 .. 0 |-> 0], x, 0)
    BY DEF SumFun
  <2> QED
    BY <2>1
<1>2. ASSUME NEW n \in Nat, n \in S PROVE n + 1 \in S
  <2>1. PICK s : SumFun(s, x, n)
    BY <1>2
  <2> DEFINE t == [k \in 0 .. n + 1 |-> IF k = n + 1 THEN s[n] + x[n + 1] ELSE s[k]]
  <2>2. ASSUME NEW k \in 0 .. n + 1 PROVE t[k] = IF k = 0 THEN 0 ELSE t[k - 1] + x[k]
    <3>1. CASE k = n + 1
      BY <3>1
    <3>2. CASE k # n + 1
      BY <2>1, <3>2 DEF SumFun
    <3> QED
      BY <3>1, <3>2
  <2>3. SumFun(t, x, n + 1)
    BY <2>2 DEF SumFun
  <2>4. \E u : SumFun(u, x, n + 1)
    <3> HIDE DEF t
    <3> QED
      BY <2>3
  <2> QED
    BY <2>4
<1>3. Nat \subseteq S
  <2> HIDE DEF S
  <2> QED
    BY <1>1, <1>2, NatInd
<1> QED
  BY <1>3

\* Its solutions agree, a longer list's with a shorter one's too.
LEMMA SumFunUnique ==
  ASSUME NEW x, NEW m \in Nat, NEW s, SumFun(s, x, m), NEW n \in 0 .. m, NEW t, SumFun(t, x, n)
  PROVE  t[n] = s[n]
<1> DEFINE S == {k \in Nat : k <= n => t[k] = s[k]}
<1>1. 0 \in S
  BY DEF SumFun
<1>2. ASSUME NEW k \in Nat, k \in S PROVE k + 1 \in S
  <2>1. CASE k + 1 <= n
    <3>1. k + 1 \in 0 .. n /\ k + 1 \in 0 .. m /\ k + 1 # 0 /\ (k + 1) - 1 = k
      BY <2>1
    <3>2. t[k + 1] = t[k] + x[k + 1]
      BY <3>1 DEF SumFun
    <3>3. s[k + 1] = s[k] + x[k + 1]
      BY <3>1 DEF SumFun
    <3> QED
      BY <1>2, <2>1, <3>2, <3>3
  <2> QED
    BY <2>1
<1>3. Nat \subseteq S
  <2> HIDE DEF S
  <2> QED
    BY <1>1, <1>2, NatInd
<1> QED
  BY <1>3

\* So SumTo is what its definition says.
LEMMA SumToFun == ASSUME NEW x, NEW m \in Nat PROVE \E s : SumFun(s, x, m) /\ SumTo(x, m) = s[m]
<1> DEFINE c == CHOOSE s : SumFun(s, x, m)
<1>1. SumFun(c, x, m)
  BY SumFunExists
<1>2. SumTo(x, m) = c[m]
  BY DEF SumTo, SumFun
<1> QED
  BY <1>1, <1>2

\* The sum of nothing.
LEMMA SumToZero == ASSUME NEW x PROVE SumTo(x, 0) = 0
  BY SumToFun DEF SumFun

\* The sum of one term more.
LEMMA SumToNext == ASSUME NEW x, NEW m \in Nat PROVE SumTo(x, m + 1) = SumTo(x, m) + x[m + 1]
<1>1. PICK s : SumFun(s, x, m + 1) /\ SumTo(x, m + 1) = s[m + 1]
  BY SumToFun
<1>2. PICK t : SumFun(t, x, m) /\ SumTo(x, m) = t[m]
  BY SumToFun
<1>3. t[m] = s[m]
  BY <1>1, <1>2, SumFunUnique
<1>4. s[m + 1] = s[m] + x[m + 1]
  <2>1. m + 1 \in 0 .. m + 1 /\ m + 1 # 0 /\ (m + 1) - 1 = m
    OBVIOUS
  <2> QED
    BY <1>1, <2>1 DEF SumFun
<1> QED
  BY <1>1, <1>2, <1>3, <1>4

\* Sums of integers, and of natural numbers.
LEMMA SumToInt ==
  ASSUME NEW n \in Nat, NEW x, \A k \in 1 .. n : x[k] \in Int
  PROVE  SumTo(x, n) \in Int
<1> DEFINE S == {k \in Nat : k <= n => SumTo(x, k) \in Int}
<1>1. 0 \in S
  BY SumToZero
<1>2. ASSUME NEW k \in Nat, k \in S PROVE k + 1 \in S
  BY <1>2, SumToNext
<1>3. Nat \subseteq S
  <2> HIDE DEF S
  <2> QED
    BY <1>1, <1>2, NatInd
<1> QED
  BY <1>3

LEMMA SumToNat ==
  ASSUME NEW n \in Nat, NEW x, \A k \in 1 .. n : x[k] \in Nat
  PROVE  SumTo(x, n) \in Nat
<1> DEFINE S == {k \in Nat : k <= n => SumTo(x, k) \in Nat}
<1>1. 0 \in S
  BY SumToZero
<1>2. ASSUME NEW k \in Nat, k \in S PROVE k + 1 \in S
  BY <1>2, SumToNext
<1>3. Nat \subseteq S
  <2> HIDE DEF S
  <2> QED
    BY <1>1, <1>2, NatInd
<1> QED
  BY <1>3

\* Sums add.
LEMMA SumToAdd ==
  ASSUME NEW n \in Nat, NEW t, NEW x, NEW y,
         \A k \in 1 .. n : x[k] \in Int /\ y[k] \in Int /\ t[k] = x[k] + y[k]
  PROVE  SumTo(t, n) = SumTo(x, n) + SumTo(y, n)
<1> DEFINE S == {k \in Nat : k <= n => SumTo(t, k) = SumTo(x, k) + SumTo(y, k)}
<1>1. 0 \in S
  BY SumToZero
<1>2. ASSUME NEW k \in Nat, k \in S PROVE k + 1 \in S
  <2>1. CASE k + 1 <= n
    <3>1. k + 1 \in 1 .. n
      BY <2>1
    <3>2. x[k + 1] \in Int /\ y[k + 1] \in Int /\ t[k + 1] = x[k + 1] + y[k + 1]
      BY <3>1
    <3>3. SumTo(x, k) \in Int /\ SumTo(y, k) \in Int
      BY <2>1, SumToInt
    <3>4. /\ SumTo(t, k + 1) = SumTo(t, k) + t[k + 1]
          /\ SumTo(x, k + 1) = SumTo(x, k) + x[k + 1]
          /\ SumTo(y, k + 1) = SumTo(y, k) + y[k + 1]
      BY SumToNext
    <3>5. SumTo(t, k) = SumTo(x, k) + SumTo(y, k)
      BY <1>2, <2>1
    <3> QED
      BY <3>2, <3>3, <3>4, <3>5
  <2> QED
    BY <2>1
<1>3. Nat \subseteq S
  <2> HIDE DEF S
  <2> QED
    BY <1>1, <1>2, NatInd
<1> QED
  BY <1>3

\* A factor can be taken out.
LEMMA SumToScale ==
  ASSUME NEW n \in Nat, NEW t, NEW x, NEW a \in Int,
         \A k \in 1 .. n : x[k] \in Int /\ t[k] = a * x[k]
  PROVE  SumTo(t, n) = a * SumTo(x, n)
<1> DEFINE S == {k \in Nat : k <= n => SumTo(t, k) = a * SumTo(x, k)}
<1>1. 0 \in S
  BY SumToZero
<1>2. ASSUME NEW k \in Nat, k \in S PROVE k + 1 \in S
  <2>1. CASE k + 1 <= n
    <3>1. k + 1 \in 1 .. n
      BY <2>1
    <3>2. x[k + 1] \in Int /\ t[k + 1] = a * x[k + 1]
      BY <3>1
    <3>3. SumTo(x, k) \in Int
      BY <2>1, SumToInt
    <3>4. /\ SumTo(t, k + 1) = SumTo(t, k) + t[k + 1]
          /\ SumTo(x, k + 1) = SumTo(x, k) + x[k + 1]
      BY SumToNext
    <3>5. SumTo(t, k) = a * SumTo(x, k)
      BY <1>2, <2>1
    <3>6. a * SumTo(x, k) + a * x[k + 1] = a * (SumTo(x, k) + x[k + 1])
      BY <3>2, <3>3
    <3> QED
      BY <3>2, <3>4, <3>5, <3>6
  <2> QED
    BY <2>1
<1>3. Nat \subseteq S
  <2> HIDE DEF S
  <2> QED
    BY <1>1, <1>2, NatInd
<1> QED
  BY <1>3

\* A sum is of its terms alone.
LEMMA SumToSame ==
  ASSUME NEW n \in Nat, NEW x, NEW y, \A k \in 1 .. n : x[k] = y[k]
  PROVE  SumTo(x, n) = SumTo(y, n)
<1> DEFINE S == {k \in Nat : k <= n => SumTo(x, k) = SumTo(y, k)}
<1>1. 0 \in S
  BY SumToZero
<1>2. ASSUME NEW k \in Nat, k \in S PROVE k + 1 \in S
  <2>1. SumTo(x, k + 1) = SumTo(x, k) + x[k + 1] /\ SumTo(y, k + 1) = SumTo(y, k) + y[k + 1]
    BY SumToNext
  <2>2. k + 1 <= n => k + 1 \in 1 .. n
    OBVIOUS
  <2> QED
    BY <1>2, <2>1, <2>2
<1>3. Nat \subseteq S
  <2> HIDE DEF S
  <2> QED
    BY <1>1, <1>2, NatInd
<1> QED
  BY <1>3

\* A sum with one term that counts.
LEMMA SumToOne ==
  ASSUME NEW n \in Nat, NEW x, NEW j \in 1 .. n, NEW v \in Int,
         \A k \in 1 .. n : x[k] = IF k = j THEN v ELSE 0
  PROVE  SumTo(x, n) = v
<1> DEFINE S == {k \in Nat : k <= n => SumTo(x, k) = IF k < j THEN 0 ELSE v}
<1>1. 0 \in S
  BY SumToZero
<1>2. ASSUME NEW k \in Nat, k \in S PROVE k + 1 \in S
  BY <1>2, SumToNext
<1>3. Nat \subseteq S
  <2> HIDE DEF S
  <2> QED
    BY <1>1, <1>2, NatInd
<1> QED
  BY <1>3

\* The sum of the rows' sums is the sum of the columns' sums.
LEMMA SumToExchange ==
  ASSUME NEW m \in Nat, NEW n \in Nat, NEW x,
         \A i \in 1 .. m : \A k \in 1 .. n : x[i][k] \in Int
  PROVE  SumTo([i \in 1 .. m |-> SumTo(x[i], n)], m)
           = SumTo([k \in 1 .. n |-> SumTo([i \in 1 .. m |-> x[i][k]], m)], n)
<1> DEFINE rows == [i \in 1 .. m |-> SumTo(x[i], n)]
           col(k) == [i \in 1 .. m |-> x[i][k]]
           cols(j) == [k \in 1 .. n |-> SumTo(col(k), j)]
           S == {j \in Nat : j <= m => SumTo(rows, j) = SumTo(cols(j), n)}
<1>1. 0 \in S
  <2>1. \A k \in 1 .. n : cols(0)[k] = 0
    BY SumToZero
  <2>2. SumTo(cols(0), n) = 0
    <3> DEFINE y == cols(0)
    <3>1. \A k \in 1 .. n : y[k] \in Int /\ y[k] = 0 * y[k]
      BY <2>1
    <3> HIDE DEF y
    <3>2. SumTo(y, n) \in Int
      BY <3>1, SumToInt
    <3>3. SumTo(y, n) = 0 * SumTo(y, n)
      BY <3>1, SumToScale
    <3>4. SumTo(y, n) = 0
      BY <3>2, <3>3
    <3> QED
      BY <3>4 DEF y
  <2> QED
    BY <2>2, SumToZero
<1>2. ASSUME NEW j \in Nat, j \in S PROVE j + 1 \in S
  <2>1. CASE j + 1 <= m
    <3> DEFINE new == cols(j + 1)
               old == cols(j)
               row == x[j + 1]
    <3>1. j + 1 \in 1 .. m
      BY <2>1
    <3>2. ASSUME NEW k \in 1 .. n
          PROVE  /\ old[k] \in Int /\ row[k] \in Int
                 /\ new[k] = old[k] + row[k]
      <4>1. \A i \in 1 .. j : col(k)[i] \in Int
        BY <2>1
      <4>2. SumTo(col(k), j) \in Int
        <5> HIDE DEF col
        <5> QED
          BY <4>1, SumToInt
      <4>3. SumTo(col(k), j + 1) = SumTo(col(k), j) + col(k)[j + 1]
        <5> HIDE DEF col
        <5> QED
          BY SumToNext
      <4>4. col(k)[j + 1] = row[k] /\ row[k] \in Int
        BY <3>1
      <4>5. old[k] = SumTo(col(k), j) /\ new[k] = SumTo(col(k), j + 1)
        OBVIOUS
      <4> HIDE DEF old, new, row, col
      <4> QED
        BY <4>2, <4>3, <4>4, <4>5
    <3>3. SumTo(rows, j + 1) = SumTo(rows, j) + SumTo(row, n)
      <4>1. rows[j + 1] = SumTo(row, n)
        BY <3>1
      <4> HIDE DEF rows, row
      <4> QED
        BY <4>1, SumToNext
    <3>4. SumTo(rows, j) = SumTo(old, n)
      BY <1>2, <2>1
    <3> HIDE DEF old, new, row, rows, cols
    <3>5. SumTo(new, n) = SumTo(old, n) + SumTo(row, n)
      BY <3>2, SumToAdd
    <3>7. SumTo(rows, j + 1) = SumTo(new, n)
      BY <3>3, <3>4, <3>5
    <3> QED
      BY <3>7 DEF new
  <2> QED
    BY <2>1
<1>3. Nat \subseteq S
  <2> HIDE DEF S
  <2> QED
    BY <1>1, <1>2, NatInd
<1> QED
  BY <1>3

\* The size of a set of indices is the sum of its marks.
LEMMA SumToCount ==
  ASSUME NEW n \in Nat, NEW B \in SUBSET (1 .. n), NEW x,
         \A k \in 1 .. n : x[k] = IF k \in B THEN 1 ELSE 0
  PROVE  IsFiniteSet(B) /\ Cardinality(B) = SumTo(x, n)
<1> DEFINE Below(k) == {b \in B : b <= k}
           S == {k \in Nat : k <= n => /\ IsFiniteSet(Below(k))
                                      /\ Cardinality(Below(k)) = SumTo(x, k)}
<1>0. \A b \in B : b \in Nat /\ b > 0 /\ b <= n
  OBVIOUS
<1>1. 0 \in S
  <2>1. \A b \in B : ~ (b <= 0)
    BY <1>0
  <2>2. Below(0) = {}
    BY <2>1
  <2> QED
    BY <2>2, FS_EmptySet, SumToZero
<1>2. ASSUME NEW k \in Nat, k \in S PROVE k + 1 \in S
  <2>1. CASE k + 1 <= n
    <3> DEFINE old == Below(k)
               new == Below(k + 1)
    <3>1. IsFiniteSet(old) /\ Cardinality(old) = SumTo(x, k)
      BY <1>2, <2>1
    <3>2. SumTo(x, k + 1) = SumTo(x, k) + x[k + 1]
      BY SumToNext
    <3>3. CASE k + 1 \in B
      <4>1. new = old \cup {k + 1} /\ k + 1 \notin old
        <5>1. \A b \in B : b <= k + 1 <=> b <= k \/ b = k + 1
          BY <1>0
        <5>2. ~ (k + 1 <= k)
          OBVIOUS
        <5> QED
          BY <3>3, <5>1, <5>2, Zenon
      <4>2. x[k + 1] = 1
        BY <2>1, <3>3
      <4>3. IsFiniteSet(new) /\ Cardinality(new) = Cardinality(old) + 1
        <5> HIDE DEF old, new
        <5> QED
          BY <3>1, <4>1, FS_AddElement
      <4> QED
        BY <3>1, <3>2, <4>2, <4>3
    <3>4. CASE k + 1 \notin B
      <4>1. new = old
        <5>1. \A b \in B : b # k + 1 => (b <= k + 1 <=> b <= k)
          BY <1>0
        <5>2. \A b \in B : b # k + 1
          BY <3>4
        <5> QED
          BY <5>1, <5>2, Zenon
      <4>2. x[k + 1] = 0
        BY <2>1, <3>4
      <4>3. Cardinality(old) \in Nat
        <5> HIDE DEF old
        <5> QED
          BY <3>1, FS_CardinalityType
      <4> QED
        BY <3>1, <3>2, <4>1, <4>2, <4>3
    <3> QED
      BY <3>3, <3>4
  <2> QED
    BY <2>1
<1>3. Nat \subseteq S
  <2> HIDE DEF S
  <2> QED
    BY <1>1, <1>2, NatInd
<1>4. Below(n) = B
  <2>1. \A b \in B : b <= n
    BY <1>0
  <2> QED
    BY <2>1, Zenon
<1> QED
  BY <1>3, <1>4

\* A sum of zeros.
LEMMA SumToNone ==
  ASSUME NEW n \in Nat, NEW x, \A k \in 1 .. n : x[k] = 0
  PROVE  SumTo(x, n) = 0
<1>1. \A k \in 1 .. n : x[k] \in Int /\ x[k] = 0 * x[k]
  OBVIOUS
<1>2. SumTo(x, n) \in Int
  BY <1>1, SumToInt
<1>3. SumTo(x, n) = 0 * SumTo(x, n)
  BY <1>1, SumToScale
<1> QED
  BY <1>2, <1>3

\* A combination of four sums, and of two.
LEMMA SumToCombine ==
  ASSUME NEW n \in Nat, NEW t, NEW x, NEW y, NEW z, NEW w, NEW a \in Int, NEW c \in Int,
         \A k \in 1 .. n : /\ x[k] \in Int /\ y[k] \in Int /\ z[k] \in Int /\ w[k] \in Int
                           /\ t[k] = x[k] - y[k] + a * z[k] + c * w[k]
  PROVE  SumTo(t, n) = SumTo(x, n) - SumTo(y, n) + a * SumTo(z, n) + c * SumTo(w, n)
<1> DEFINE az == [k \in 1 .. n |-> a * z[k]]
           cw == [k \in 1 .. n |-> c * w[k]]
           r == [k \in 1 .. n |-> az[k] + cw[k]]
           d == [k \in 1 .. n |-> x[k] - y[k]]
<1>1. \A k \in 1 .. n : az[k] \in Int /\ az[k] = a * z[k] /\ cw[k] \in Int /\ cw[k] = c * w[k]
  OBVIOUS
<1>2. \A k \in 1 .. n : r[k] \in Int /\ r[k] = az[k] + cw[k]
  BY <1>1
<1>3. \A k \in 1 .. n : d[k] \in Int /\ x[k] = d[k] + y[k]
  OBVIOUS
<1>4. \A k \in 1 .. n : t[k] = d[k] + r[k]
  <2> TAKE k \in 1 .. n
  <2>1. d[k] = x[k] - y[k] /\ r[k] = a * z[k] + c * w[k]
    OBVIOUS
  <2> HIDE DEF d, r
  <2>2. x[k] - y[k] \in Int /\ a * z[k] \in Int /\ c * w[k] \in Int
    OBVIOUS
  <2> QED
    BY <2>1, <2>2
<1> HIDE DEF az, cw, r, d
<1>5. SumTo(az, n) = a * SumTo(z, n)
  BY <1>1, SumToScale
<1>6. SumTo(cw, n) = c * SumTo(w, n)
  BY <1>1, SumToScale
<1>7. SumTo(r, n) = SumTo(az, n) + SumTo(cw, n)
  BY <1>1, <1>2, SumToAdd
<1>8. SumTo(x, n) = SumTo(d, n) + SumTo(y, n)
  BY <1>3, SumToAdd
<1>9. SumTo(t, n) = SumTo(d, n) + SumTo(r, n)
  BY <1>2, <1>3, <1>4, SumToAdd
<1>10. /\ SumTo(y, n) \in Int /\ SumTo(d, n) \in Int
       /\ SumTo(az, n) \in Int /\ SumTo(cw, n) \in Int
  BY <1>1, <1>3, SumToInt
<1> QED
  BY <1>5, <1>6, <1>7, <1>8, <1>9, <1>10

LEMMA SumToLinear ==
  ASSUME NEW n \in Nat, NEW t, NEW x, NEW y, NEW a \in Int, NEW c \in Int,
         \A k \in 1 .. n : x[k] \in Int /\ y[k] \in Int /\ t[k] = a * x[k] + c * y[k]
  PROVE  SumTo(t, n) = a * SumTo(x, n) + c * SumTo(y, n)
<1> DEFINE ax == [k \in 1 .. n |-> a * x[k]]
           cy == [k \in 1 .. n |-> c * y[k]]
<1>1. \A k \in 1 .. n : /\ x[k] \in Int /\ ax[k] = a * x[k] /\ ax[k] \in Int
                        /\ y[k] \in Int /\ cy[k] = c * y[k] /\ cy[k] \in Int
                        /\ t[k] = ax[k] + cy[k]
  OBVIOUS
<1> HIDE DEF ax, cy
<1>2. SumTo(ax, n) = a * SumTo(x, n)
  BY <1>1, SumToScale
<1>3. SumTo(cy, n) = c * SumTo(y, n)
  BY <1>1, SumToScale
<1>4. SumTo(t, n) = SumTo(ax, n) + SumTo(cy, n)
  BY <1>1, SumToAdd
<1> QED
  BY <1>2, <1>3, <1>4

-----------------------------------------------------------------------------
(* The buckets.                                                             *)

\* A multiple of the width is below every later one.
LEMMA Steps ==
  ASSUME NEW i \in Nat, NEW j \in Nat, NEW w \in Nat, i < j
  PROVE  (i + 1) * w <= j * w
<1>1. PICK d \in Nat : j = (i + 1) + d
  <2>1. j - (i + 1) \in Nat /\ j = (i + 1) + (j - (i + 1))
    OBVIOUS
  <2> QED
    BY <2>1
<1>2. j * w = (i + 1) * w + d * w
  BY <1>1
<1>3. d * w \in Nat /\ (i + 1) * w \in Nat
  OBVIOUS
<1> QED
  BY <1>2, <1>3

\* Every probability is in exactly one bucket, 0.0, 1.0 and the limits between buckets
\* included (store.py:605-607).
THEOREM BucketsPartition ==
  ASSUME NEW p \in 0 .. 10 * Width
  PROVE  /\ \E i \in 0 .. 9 : InBucket(i, p)
         /\ \A i, j \in 0 .. 9 : InBucket(i, p) /\ InBucket(j, p) => i = j
<1>0. Width \in Nat /\ Width > 0 /\ p \in Nat /\ p <= 10 * Width
  BY ReportAssumption
<1>1. \E i \in 0 .. 9 : InBucket(i, p)
  <2>1. CASE p < 5 * Width
    <3>1. \/ InBucket(0, p) \/ InBucket(1, p) \/ InBucket(2, p) \/ InBucket(3, p)
          \/ InBucket(4, p)
      BY <1>0, <2>1 DEF InBucket
    <3> QED
      BY <3>1
  <2>2. CASE p >= 5 * Width
    <3>1. \/ InBucket(5, p) \/ InBucket(6, p) \/ InBucket(7, p) \/ InBucket(8, p)
          \/ InBucket(9, p)
      BY <1>0, <2>2 DEF InBucket
    <3> QED
      BY <3>1
  <2> QED
    BY <1>0, <2>1, <2>2
<1>2. ASSUME NEW i \in 0 .. 9, NEW j \in 0 .. 9, InBucket(i, p), InBucket(j, p), i < j
      PROVE  FALSE
  <2>1. (i + 1) * Width <= j * Width
    BY <1>0, <1>2, Steps
  <2>2. i # 9 /\ p < (i + 1) * Width
    BY <1>2 DEF InBucket
  <2>3. CASE j * Width <= p
    BY <1>0, <2>1, <2>2, <2>3
  <2>4. CASE j = 9 /\ p = 10 * Width
    <3>1. (i + 1) * Width <= 9 * Width
      BY <2>1, <2>4
    <3> QED
      BY <1>0, <2>2, <2>4, <3>1
  <2> QED
    BY <1>2, <2>3, <2>4 DEF InBucket
<1>3. ASSUME NEW i \in 0 .. 9, NEW j \in 0 .. 9, InBucket(i, p), InBucket(j, p)
      PROVE  i = j
  <2>1. ~(i < j) /\ ~(j < i)
    BY <1>2, <1>3
  <2> QED
    BY <2>1
<1> QED
  BY <1>1, <1>3

-----------------------------------------------------------------------------
(* The hindsight flag.                                                      *)

LEMMA ReportStep == ReportInv /\ [Next]_vars => ReportInv'
<1> SUFFICES ASSUME ReportInv, [Next]_vars PROVE ReportInv'
  OBVIOUS
<1>0. /\ now \in Nat /\ forecasts \in Seq(Forecast) /\ Asserted
      /\ pairs \in Seq(Probability \X {0, 1}) /\ Len(pairs) <= MaxPairs
  BY DEF ReportInv, TypeOK
<1>1. CASE Log
  <2>1. PICK h \in {NoDate} \cup 0 .. MaxTime + Skew :
          forecasts' = Append(forecasts, [horizon |-> h, locked_at |-> now,
                                          resolutions |-> << >>, voided |-> FALSE])
    BY <1>1 DEF Log
  <2> DEFINE new == [horizon |-> h, locked_at |-> now, resolutions |-> << >>, voided |-> FALSE]
  <2>2. h \in Int
    BY ReportAssumption DEF NoDate
  <2>3. new \in Forecast
    BY <1>0, <2>2 DEF Forecast
  <2>4. TypeOK'
    BY <1>0, <1>1, <2>1, <2>3 DEF TypeOK, Log
  <2>5. \A f \in DOMAIN forecasts' :
            \/ f \in DOMAIN forecasts /\ forecasts'[f] = forecasts[f]
            \/ forecasts'[f] = new
    BY <1>0, <2>1, <2>3
  <2>6. Asserted'
    BY <1>0, <2>5 DEF Asserted
  <2> QED
    BY <1>0, <1>1, <2>4, <2>6 DEF ReportInv, Log
<1>2. ASSUME NEW f \in DOMAIN forecasts, Resolve(f) PROVE ReportInv'
  <2>1. PICK at \in 0 .. MaxTime + Skew :
          /\ MayAssert(f, at)
          /\ forecasts' = [forecasts EXCEPT ![f].resolutions =
                 Append(@, [resolved_at |-> at, made |-> now, is_correction |-> Resolved(f)])]
    BY <1>2 DEF Resolve
  <2> DEFINE old == forecasts[f]
             res == [resolved_at |-> at, made |-> now, is_correction |-> Resolved(f)]
             new == [old EXCEPT !.resolutions = Append(old.resolutions, res)]
  <2>2. old \in Forecast
    BY <1>0
  <2>3. old.resolutions \in Seq(Resolution) /\ old.locked_at \in Nat
    BY <2>2 DEF Forecast
  <2>4. res \in Resolution
    BY <1>0, ReportAssumption DEF Resolution, Resolved
  <2>5. new \in Forecast
    <3>1. Append(old.resolutions, res) \in Seq(Resolution)
      BY <2>3, <2>4
    <3> QED
      BY ONLY <2>2, <3>1 DEF Forecast
  <2>6. forecasts' = [forecasts EXCEPT ![f] = new] /\ now' = now /\ pairs' = pairs
    BY <1>2, <2>1 DEF Resolve
  <2>7. TypeOK'
    BY <1>0, <2>5, <2>6 DEF TypeOK
  <2>8. \A i \in DOMAIN new.resolutions :
            /\ new.locked_at <= new.resolutions[i].resolved_at
            /\ new.resolutions[i].resolved_at <= new.resolutions[i].made + Skew
            /\ i > 1 => new.resolutions[i].is_correction
    <3>1. new.resolutions = Append(old.resolutions, res) /\ new.locked_at = old.locked_at
      BY ONLY <2>2 DEF Forecast
    <3>2. TAKE i \in DOMAIN new.resolutions
    <3>3. CASE i \in DOMAIN old.resolutions
      <4>1. new.resolutions[i] = old.resolutions[i]
        BY <2>3, <3>1, <3>3
      <4> QED
        BY <1>0, <3>1, <3>3, <4>1 DEF Asserted
    <3>4. CASE i \notin DOMAIN old.resolutions
      <4>1. new.resolutions[i] = res /\ i = Len(old.resolutions) + 1
        BY <2>3, <2>4, <3>1, <3>4
      <4>2. i > 1 => Resolved(f)
        BY <2>3, <4>1 DEF Resolved
      <4> QED
        BY <2>1, <3>1, <4>1, <4>2 DEF MayAssert
    <3> QED
      BY <3>3, <3>4
  <2>9. Asserted'
    BY <1>0, <2>6, <2>8 DEF Asserted
  <2> QED
    BY <1>0, <2>6, <2>7, <2>9 DEF ReportInv
<1>3. ASSUME NEW f \in DOMAIN forecasts, VoidForecast(f) PROVE ReportInv'
  <2> DEFINE new == [forecasts[f] EXCEPT !.voided = TRUE]
  <2>1. forecasts[f] \in Forecast
    BY <1>0
  <2>2. new \in Forecast /\ new.resolutions = forecasts[f].resolutions
        /\ new.locked_at = forecasts[f].locked_at
    BY ONLY <2>1 DEF Forecast
  <2>3. forecasts' = [forecasts EXCEPT ![f] = new] /\ now' = now /\ pairs' = pairs
    BY <1>3 DEF VoidForecast
  <2>4. TypeOK'
    BY <1>0, <2>2, <2>3 DEF TypeOK
  <2>5. Asserted'
    BY <1>0, <2>2, <2>3 DEF Asserted
  <2> QED
    BY <1>0, <2>3, <2>4, <2>5 DEF ReportInv
<1>4. CASE Tick \/ SetBack \/ UNCHANGED vars
  BY <1>0, <1>4 DEF Tick, SetBack, vars, ReportInv, TypeOK, Asserted
<1>5. CASE Collect
  <2>1. PICK p \in Probability, o \in {0, 1} : pairs' = Append(pairs, <<p, o>>)
    BY <1>5 DEF Collect
  <2>2. pairs' \in Seq(Probability \X {0, 1}) /\ Len(pairs') <= MaxPairs
    BY <1>0, <1>5, <2>1, ReportAssumption DEF Collect
  <2> QED
    BY <1>0, <1>5, <2>2 DEF Collect, ReportInv, TypeOK, Asserted
<1> QED
  BY <1>1, <1>2, <1>3, <1>4, <1>5 DEF Next

\* Every resolution in the tables was asserted within the bounds at its call, and every
\* one but the first is marked as a correction (store.py:329-376).
THEOREM ReportInvHolds == Spec => []ReportInv
<1>1. Init => ReportInv
  BY ReportAssumption DEF Init, ReportInv, TypeOK, Asserted
<1> QED
  BY <1>1, ReportStep, PTL DEF Spec

\* The times of a scored forecast's resolutions are numbers.
LEMMA ScoredTypes ==
  ASSUME ReportInv, NEW f \in Scored
  PROVE  /\ f \in DOMAIN forecasts /\ forecasts[f].locked_at \in Nat
         /\ forecasts[f].horizon \in Int
         /\ forecasts[f].resolutions \in Seq(Resolution)
         /\ Len(forecasts[f].resolutions) \in DOMAIN forecasts[f].resolutions
         /\ Latest(f).resolved_at \in Nat /\ Latest(f).made \in Nat
<1>1. forecasts[f] \in Forecast /\ f \in DOMAIN forecasts /\ Resolved(f)
  BY DEF ReportInv, TypeOK, Scored
<1>2. /\ forecasts[f].locked_at \in Nat /\ forecasts[f].horizon \in Int
      /\ forecasts[f].resolutions \in Seq(Resolution)
  BY ONLY <1>1 DEF Forecast
<1>3. Len(forecasts[f].resolutions) \in DOMAIN forecasts[f].resolutions
  BY <1>1, <1>2 DEF Resolved
<1>4. Latest(f) \in Resolution
  BY <1>2, <1>3 DEF Latest
<1>5. Latest(f).resolved_at \in Nat /\ Latest(f).made \in Nat
  BY ONLY <1>4 DEF Resolution
<1> QED
  BY <1>1, <1>2, <1>3, <1>5

\* Without a flag, either the gap is long or a certifying horizon was kept, and both end
\* at a time that the server's clock had nearly reached.
LEMMA Waited ==
  ASSUME ReportInv, NEW f \in Scored \ Flagged
  PROVE  Latest(f).made + Skew >= forecasts[f].locked_at + Least(Latency, Certifying)
<1>1. /\ f \in DOMAIN forecasts /\ forecasts[f].locked_at \in Nat
      /\ forecasts[f].horizon \in Int
      /\ Len(forecasts[f].resolutions) \in DOMAIN forecasts[f].resolutions
      /\ Latest(f).resolved_at \in Nat /\ Latest(f).made \in Nat
  BY ScoredTypes
<1>2. Latest(f).resolved_at <= Latest(f).made + Skew
  BY <1>1 DEF ReportInv, Asserted, Latest
<1>3. \/ Latest(f).resolved_at - forecasts[f].locked_at >= Latency
      \/ /\ Latest(f).resolved_at >= forecasts[f].horizon
         /\ forecasts[f].horizon - forecasts[f].locked_at >= Certifying
  BY <1>1, ReportAssumption DEF Flagged, Certified, BeforeHorizon
<1> QED
  BY <1>1, <1>2, <1>3, ReportAssumption DEF Least

\* What is not flagged had waited: the flag cannot be avoided by what an analyst asserts,
\* neither by a horizon nor by the time of a resolution.
THEOREM FlagNeedsWaiting == Spec => []UnflaggedOnlyAfterWaiting
<1>1. ReportInv => UnflaggedOnlyAfterWaiting
  BY Waited DEF UnflaggedOnlyAfterWaiting
<1> QED
  BY <1>1, ReportInvHolds, PTL

\* A forecast that was graded too early is flagged or counted as corrected, whatever
\* follows.
THEOREM EarlyGradesVisible == Spec => []EarlyGradeStaysVisible
<1>1. ASSUME ReportInv, NEW f \in Scored,
             forecasts[f].resolutions[1].made + Skew
                 < forecasts[f].locked_at + Least(Latency, Certifying),
             f \notin Flagged
      PROVE  f \in Corrected
  <2>1. /\ f \in DOMAIN forecasts /\ forecasts[f].locked_at \in Nat
        /\ forecasts[f].resolutions \in Seq(Resolution)
        /\ Len(forecasts[f].resolutions) \in DOMAIN forecasts[f].resolutions
        /\ Latest(f).made \in Nat
    BY <1>1, ScoredTypes
  <2>2. Latest(f).made + Skew >= forecasts[f].locked_at + Least(Latency, Certifying)
    BY <1>1, Waited
  <2>3. Least(Latency, Certifying) \in Nat
    BY ReportAssumption DEF Least
  <2>4. Len(forecasts[f].resolutions) # 1
    BY <1>1, <2>1, <2>2, <2>3, ReportAssumption DEF Latest
  <2>5. Len(forecasts[f].resolutions) > 1
    <3> DEFINE n == Len(forecasts[f].resolutions)
    <3>1. n \in 1 .. n
      BY <2>1
    <3>2. n \in Nat
      BY <2>1
    <3> HIDE DEF n
    <3>3. n # 1 => n > 1
      BY ONLY <3>1, <3>2
    <3> QED
      BY <2>4, <3>3 DEF n
  <2>6. Latest(f).is_correction
    BY <1>1, <2>1, <2>5 DEF ReportInv, Asserted, Latest
  <2> QED
    BY <1>1, <2>1, <2>6 DEF Corrected, Latest
<1>2. ReportInv => EarlyGradeStaysVisible
  BY <1>1 DEF EarlyGradeStaysVisible
<1> QED
  BY <1>2, ReportInvHolds, PTL

-----------------------------------------------------------------------------
(* The arithmetic.                                                          *)

\* What a report in progress has.
LEMMA PairTypes ==
  ASSUME ReportInv
  PROVE  /\ Len(pairs) \in Nat /\ Len(pairs) <= MaxPairs /\ DOMAIN pairs = 1 .. Len(pairs)
         /\ One \in Nat
         /\ \A k \in 1 .. Len(pairs) :
              /\ pairs[k][1] \in 0 .. 10 * Width /\ pairs[k][2] \in {0, 1}
              /\ P[k] \in Nat /\ P[k] = pairs[k][1] * Unit
              /\ O[k] \in Nat /\ O[k] = One * pairs[k][2]
<1>1. /\ Width \in Nat /\ Unit \in Nat /\ Probability \subseteq 0 .. 10 * Width
      /\ pairs \in Seq(Probability \X {0, 1}) /\ Len(pairs) <= MaxPairs
  BY ReportAssumption DEF ReportInv, TypeOK
<1>2. Len(pairs) \in Nat /\ DOMAIN pairs = 1 .. Len(pairs)
  BY <1>1
<1>3. One \in Nat
  BY <1>1 DEF One
<1>4. ASSUME NEW k \in 1 .. Len(pairs)
      PROVE  /\ pairs[k][1] \in 0 .. 10 * Width /\ pairs[k][2] \in {0, 1}
             /\ P[k] \in Nat /\ P[k] = pairs[k][1] * Unit
             /\ O[k] \in Nat /\ O[k] = One * pairs[k][2]
  <2>1. pairs[k] \in Probability \X {0, 1}
    BY <1>1, <1>4
  <2>2. pairs[k][1] \in 0 .. 10 * Width /\ pairs[k][2] \in {0, 1}
    BY <1>1, <2>1
  <2>3. P[k] = pairs[k][1] * Unit /\ O[k] = pairs[k][2] * 10 * Width * Unit
    BY <1>2 DEF P, O
  <2>4. P[k] \in Nat
    BY <1>1, <2>2, <2>3
  <2>5. O[k] = One * pairs[k][2] /\ O[k] \in Nat
    <3>1. CASE pairs[k][2] = 0
      BY <1>1, <1>3, <2>3, <3>1
    <3>2. CASE pairs[k][2] = 1
      BY <1>1, <1>3, <2>3, <3>2 DEF One
    <3> QED
      BY <2>2, <3>1, <3>2
  <2> QED
    BY <2>2, <2>3, <2>4, <2>5
<1> QED
  BY <1>1, <1>2, <1>3, <1>4

\* A sum over the list is the sum of the buckets' sums.
LEMMA Bucketwise ==
  ASSUME ReportInv, NEW x, \A k \in 1 .. Len(pairs) : x[k] \in Int
  PROVE  SumTo([b \in 1 .. 10 |-> SumTo(Of(b - 1, x), Len(pairs))], 10) = SumTo(x, Len(pairs))
<1> DEFINE n == Len(pairs)
           part == [b \in 1 .. 10 |-> Of(b - 1, x)]
           col(k) == [b \in 1 .. 10 |-> part[b][k]]
<1>1. n \in Nat /\ DOMAIN pairs = 1 .. n
  BY PairTypes
<1>2. \A b \in 1 .. 10 : \A k \in 1 .. n : part[b][k] = IF k \in Bucket(b - 1) THEN x[k] ELSE 0
  BY <1>1 DEF Of
<1>3. SumTo([b \in 1 .. 10 |-> SumTo(part[b], n)], 10)
        = SumTo([k \in 1 .. n |-> SumTo([b \in 1 .. 10 |-> part[b][k]], 10)], n)
  <2>1. \A b \in 1 .. 10 : \A k \in 1 .. n : part[b][k] \in Int
    <3> TAKE b \in 1 .. 10
    <3> TAKE k \in 1 .. n
    <3>1. x[k] \in Int
      OBVIOUS
    <3>2. part[b][k] = IF k \in Bucket(b - 1) THEN x[k] ELSE 0
      BY <1>2
    <3> QED
      BY <3>1, <3>2
  <2> HIDE DEF part, n
  <2> QED
    BY <1>1, <2>1, SumToExchange
<1>4. ASSUME NEW k \in 1 .. n PROVE SumTo(col(k), 10) = x[k]
  <2>1. pairs[k][1] \in 0 .. 10 * Width
    BY PairTypes
  <2>2. PICK i \in 0 .. 9 : InBucket(i, pairs[k][1])
    BY <2>1, BucketsPartition
  <2>3. \A j \in 0 .. 9 : k \in Bucket(j) <=> j = i
    BY <1>1, <2>1, <2>2, BucketsPartition DEF Bucket
  <2> DEFINE y == col(k)
  <2>4. PICK j \in 1 .. 10 : j - 1 = i
    <3>1. i + 1 \in 1 .. 10 /\ (i + 1) - 1 = i
      OBVIOUS
    <3> QED
      BY <3>1
  <2>5. \A b \in 1 .. 10 : y[b] = IF b = j THEN x[k] ELSE 0
    <3> TAKE b \in 1 .. 10
    <3>1. b - 1 \in 0 .. 9 /\ (b - 1 = i <=> b = j)
      BY <2>4
    <3>2. y[b] = IF k \in Bucket(b - 1) THEN x[k] ELSE 0
      BY <1>2
    <3> QED
      BY <2>3, <3>1, <3>2
  <2> DEFINE v == x[k]
  <2>6. v \in Int /\ 10 \in Nat /\ \A b \in 1 .. 10 : y[b] = IF b = j THEN v ELSE 0
    BY <2>5
  <2> HIDE DEF y, v
  <2>7. SumTo(y, 10) = v
    BY ONLY <2>6, SumToOne
  <2> QED
    BY <2>7 DEF y, v
<1>5. SumTo([k \in 1 .. n |-> SumTo([b \in 1 .. 10 |-> part[b][k]], 10)], n) = SumTo(x, n)
  <2> DEFINE z == [k \in 1 .. n |-> SumTo(col(k), 10)]
  <2>1. \A k \in 1 .. n : z[k] = x[k]
    BY <1>4
  <2>2. SumTo(z, n) = SumTo(x, n)
    <3> HIDE DEF z, n
    <3> QED
      BY <1>1, <2>1, SumToSame
  <2> QED
    BY <2>2
<1>6. [b \in 1 .. 10 |-> SumTo(part[b], n)] = [b \in 1 .. 10 |-> SumTo(Of(b - 1, x), n)]
  OBVIOUS
<1> QED
  BY <1>3, <1>5, <1>6

\* The squared errors; that a bucket's forecasts agree; a mark for each pair.
Errors == [k \in DOMAIN pairs |-> Sq(P[k] - O[k])]
Agree(i) == \A k, m \in Bucket(i) : pairs[k][1] = pairs[m][1]
Ones == [k \in DOMAIN pairs |-> 1]

\* The algebra of one bucket: all its forecasts have probability p, a share f of its
\* c outcomes occurred (c * f = b), and ob is the share of all outcomes.
LEMMA Expanded ==
  ASSUME NEW c \in Int, NEW p \in Int, NEW f \in Int, NEW b \in Int, NEW ob \in Int,
         NEW one \in Int, c * f = b
  PROVE  (p * p) * c + (one - 2 * p) * b
           = c * ((p - f) * (p - f)) - c * ((f - ob) * (f - ob))
               + (one - 2 * ob) * b + (ob * ob) * c
  OBVIOUS

\* The mean is exact where the number of terms divides the sum.
LEMMA Quotient == ASSUME NEW c \in Nat \ {0}, NEW q \in Nat PROVE (c * q) \div c = q
  OBVIOUS

\* The size of a bucket as a sum, and its bounds.
LEMMA BucketSize ==
  ASSUME ReportInv, NEW i \in 0 .. 9
  PROVE  /\ Cardinality(Bucket(i)) = SumTo(Of(i, Ones), Len(pairs))
         /\ Bucket(i) # {} => Cardinality(Bucket(i)) \in 1 .. Len(pairs)
<1> DEFINE n == Len(pairs)
           B == Bucket(i)
           x == Of(i, Ones)
<1>1. n \in Nat /\ DOMAIN pairs = 1 .. n
  BY PairTypes
<1>2. B \in SUBSET (1 .. n)
  BY <1>1 DEF Bucket
<1>3. \A k \in 1 .. n : x[k] = IF k \in B THEN 1 ELSE 0
  BY <1>1 DEF Of, Ones
<1>4. IsFiniteSet(B) /\ Cardinality(B) = SumTo(x, n)
  <2> HIDE DEF n, B, x
  <2> QED
    BY <1>1, <1>2, <1>3, SumToCount
<1>5. IsFiniteSet(1 .. n) /\ Cardinality(1 .. n) = n
  <2> HIDE DEF n
  <2> QED
    BY <1>1, FS_Interval
<1>6. Cardinality(B) <= n
  <2> HIDE DEF n, B
  <2> QED
    BY <1>2, <1>5, FS_Subset
<1>7. Cardinality(B) \in Nat /\ (B # {} => Cardinality(B) # 0)
  <2> HIDE DEF B
  <2> QED
    BY <1>4, FS_EmptySet, FS_CardinalityType
<1> QED
  BY <1>1, <1>4, <1>6, <1>7

\* What a bucket whose forecasts agree contributes to the Brier score.
LEMMA BucketTerms ==
  ASSUME ReportInv, NEW i \in Filled, Agree(i)
  PROVE  LET c == Cardinality(Bucket(i))
             b == SumTo(Of(i, O), Len(pairs))
         IN  /\ MeanProbability(i) \in Int /\ ObservedFreq(i) \in Int
             /\ \A ob \in Int :
                  SumTo(Of(i, Errors), Len(pairs))
                    = c * Sq(MeanProbability(i) - ObservedFreq(i))
                        - c * Sq(ObservedFreq(i) - ob)
                        + (One - 2 * ob) * b + Sq(ob) * c
<1> DEFINE n == Len(pairs)
           B == Bucket(i)
           c == Cardinality(B)
           mark == Of(i, Ones)
           obs == Of(i, O)
           hit == [k \in 1 .. n |-> IF k \in B THEN pairs[k][2] ELSE 0]
<1>1. /\ n \in Nat /\ n <= MaxPairs /\ DOMAIN pairs = 1 .. n /\ One \in Nat
      /\ \A k \in 1 .. n : /\ pairs[k][1] \in 0 .. 10 * Width /\ pairs[k][2] \in {0, 1}
                           /\ P[k] \in Nat /\ P[k] = pairs[k][1] * Unit
                           /\ O[k] \in Nat /\ O[k] = One * pairs[k][2]
  BY PairTypes
<1>2. B # {} /\ i \in 0 .. 9 /\ B \subseteq 1 .. n
  BY <1>1 DEF Filled, Bucket
<1>3. c \in 1 .. n /\ c = SumTo(mark, n)
  BY <1>2, BucketSize
<1>4. \A k \in 1 .. n : /\ mark[k] = (IF k \in B THEN 1 ELSE 0) /\ mark[k] \in Int
                        /\ obs[k] = (IF k \in B THEN O[k] ELSE 0) /\ obs[k] \in Int
  BY <1>1 DEF Of, Ones
<1>5. PICK p \in Nat : \A k \in B : P[k] = p
  <2>1. PICK m \in B : TRUE
    BY <1>2
  <2>2. \A k \in B : P[k] = P[m] /\ P[m] \in Nat
    BY <1>1, <1>2, <2>1 DEF Agree
  <2> QED
    BY <2>1, <2>2
<1>6. PICK q \in Nat : Unit = c * q
  <2>1. MaxPairs \in Nat /\ Unit \in Nat
    BY ReportAssumption
  <2>2. c \in 1 .. MaxPairs
    <3> HIDE DEF c, n
    <3> QED
      BY <1>1, <1>3, <2>1
  <2>3. \E q \in 1 .. Unit : Unit = c * q
    BY <2>2, ReportAssumption
  <2> QED
    BY <2>1, <2>3
<1>7. SumTo(Of(i, P), n) = p * c
  <2> DEFINE x == Of(i, P)
  <2>1. n \in Nat /\ p \in Int /\ \A k \in 1 .. n : mark[k] \in Int /\ x[k] = p * mark[k]
    BY <1>1, <1>4, <1>5 DEF Of
  <2> HIDE DEF x, mark, n, c
  <2>2. SumTo(x, n) = p * SumTo(mark, n)
    BY <2>1, SumToScale
  <2> QED
    BY <1>3, <2>2 DEF x
<1>8. PICK h \in Nat : SumTo(obs, n) = One * h
  <2>1. \A k \in 1 .. n : hit[k] \in Nat /\ hit[k] \in Int /\ obs[k] = One * hit[k]
    <3> TAKE k \in 1 .. n
    <3>1. /\ hit[k] = (IF k \in B THEN pairs[k][2] ELSE 0) /\ pairs[k][2] \in {0, 1}
          /\ obs[k] = (IF k \in B THEN O[k] ELSE 0) /\ O[k] = One * pairs[k][2] /\ One \in Nat
      BY <1>1, <1>4
    <3> HIDE DEF hit, obs, n
    <3> QED
      BY ONLY <3>1
  <2> HIDE DEF hit, obs, n
  <2>2. SumTo(hit, n) \in Nat
    BY <1>1, <2>1, SumToNat
  <2>3. SumTo(obs, n) = One * SumTo(hit, n)
    BY <1>1, <2>1, SumToScale
  <2> QED
    BY <2>2, <2>3
<1> DEFINE f == 10 * Width * q * h
<1>9. f \in Nat /\ SumTo(obs, n) = c * f
  <2>1. Width \in Nat /\ c \in Nat
    <3> HIDE DEF c, n
    <3> QED
      BY <1>1, <1>3, ReportAssumption
  <2> HIDE DEF c, obs, n
  <2> QED
    BY <1>6, <1>8, <2>1 DEF One
<1>10. MeanProbability(i) = p /\ ObservedFreq(i) = f
  <2>1. c \in Nat \ {0} /\ c \in Nat
    <3> HIDE DEF c, n
    <3> QED
      BY <1>1, <1>3
  <2>2. MeanProbability(i) = (p * c) \div c /\ ObservedFreq(i) = (c * f) \div c
    BY <1>7, <1>9 DEF MeanProbability, ObservedFreq
  <2> HIDE DEF c, f
  <2>3. p * c = c * p
    BY <2>1
  <2>4. (c * p) \div c = p /\ (c * f) \div c = f
    BY <1>9, <2>1, Quotient
  <2> QED
    BY <2>2, <2>3, <2>4
<1>11. SumTo(Of(i, Errors), n) = (p * p) * c + (One - 2 * p) * SumTo(obs, n)
  <2> DEFINE t == Of(i, Errors)
             a == p * p
             e == One - 2 * p
  <2>1. a \in Int /\ e \in Int
    BY <1>1
  <2>2. ASSUME NEW k \in 1 .. n
        PROVE  mark[k] \in Int /\ obs[k] \in Int /\ t[k] = a * mark[k] + e * obs[k]
    <3>1. t[k] = IF k \in B THEN (P[k] - O[k]) * (P[k] - O[k]) ELSE 0
      BY <1>1 DEF Of, Errors, Sq
    <3>2. mark[k] \in Int /\ obs[k] \in Int
      BY <1>4
    <3>3. CASE k \in B
      <4>1. mark[k] = 1 /\ obs[k] = O[k] /\ P[k] = p /\ (O[k] = 0 \/ O[k] = One) /\ One \in Nat
        BY <1>1, <1>4, <1>5, <3>3
      <4>2. t[k] = (p - O[k]) * (p - O[k])
        BY <3>1, <3>3, <4>1
      <4> HIDE DEF mark, obs, t, n
      <4>3. CASE O[k] = 0
        BY ONLY <3>2, <4>1, <4>2, <4>3, p \in Nat
      <4>4. CASE O[k] = One
        BY ONLY <3>2, <4>1, <4>2, <4>4, p \in Nat
      <4> QED
        BY <4>1, <4>3, <4>4
    <3>4. CASE k \notin B
      <4>1. mark[k] = 0 /\ obs[k] = 0 /\ t[k] = 0
        BY <1>4, <3>1, <3>4
      <4> HIDE DEF mark, obs, t, a, e
      <4> QED
        BY <2>1, <4>1
    <3> QED
      BY <3>3, <3>4
  <2>3. n \in Nat
    BY <1>1
  <2> HIDE DEF t, a, e, mark, obs, n, c
  <2>4. SumTo(t, n) = a * SumTo(mark, n) + e * SumTo(obs, n)
    BY <2>1, <2>2, <2>3, SumToLinear
  <2> QED
    BY <1>3, <2>4 DEF t, a, e
<1>12. ASSUME NEW ob \in Int
       PROVE  SumTo(Of(i, Errors), n)
                = c * Sq(MeanProbability(i) - ObservedFreq(i)) - c * Sq(ObservedFreq(i) - ob)
                    + (One - 2 * ob) * SumTo(obs, n) + Sq(ob) * c
  <2>1. c \in Int /\ f \in Int /\ SumTo(obs, n) \in Int /\ c * f = SumTo(obs, n)
    <3>1. c \in Int
      <4> HIDE DEF c, n
      <4> QED
        BY <1>1, <1>3
    <3>2. c * f \in Int
      <4> HIDE DEF c, f
      <4> QED
        BY <1>9, <3>1
    <3> HIDE DEF c, f, obs, n
    <3> QED
      BY <1>9, <3>1, <3>2
  <2> DEFINE b == SumTo(obs, n)
  <2> HIDE DEF b, c, f
  <2>2. (p * p) * c + (One - 2 * p) * b
          = c * ((p - f) * (p - f)) - c * ((f - ob) * (f - ob))
              + (One - 2 * ob) * b + (ob * ob) * c
    BY <1>1, <2>1, Expanded DEF b
  <2> QED
    BY <1>10, <1>11, <2>2 DEF Sq, b
<1>13. MeanProbability(i) \in Int /\ ObservedFreq(i) \in Int
  <2> HIDE DEF f
  <2> QED
    BY <1>9, <1>10
<1> QED
  BY <1>12, <1>13

\* An empty bucket contributes nothing.
LEMMA EmptyTerms ==
  ASSUME ReportInv, NEW i \in 0 .. 9, i \notin Filled, NEW x
  PROVE  SumTo(Of(i, x), Len(pairs)) = 0
<1> DEFINE n == Len(pairs)
           y == Of(i, x)
<1>1. n \in Nat /\ DOMAIN pairs = 1 .. n
  BY PairTypes
<1>2. \A k \in 1 .. n : y[k] = 0
  BY <1>1 DEF Of, Filled
<1> HIDE DEF n, y
<1>3. SumTo(y, n) = 0
  BY <1>1, <1>2, SumToNone
<1> QED
  BY <1>3 DEF n, y

\* Murphy's decomposition, bucket by bucket.
LEMMA Decomposition ==
  ASSUME ReportInv, pairs # << >>, \A i \in Filled : Agree(i)
  PROVE  Brier = Reliability - ResolutionComponent + Len(pairs) * Obar * (One - Obar)
<1> DEFINE n == Len(pairs)
           ob == Obar
           rel == [b \in 1 .. 10 |->
                     IF b - 1 \in Filled
                     THEN Cardinality(Bucket(b - 1))
                              * Sq(MeanProbability(b - 1) - ObservedFreq(b - 1))
                     ELSE 0]
           res == [b \in 1 .. 10 |->
                     IF b - 1 \in Filled
                     THEN Cardinality(Bucket(b - 1)) * Sq(ObservedFreq(b - 1) - ob)
                     ELSE 0]
           bri == [b \in 1 .. 10 |-> SumTo(Of(b - 1, Errors), n)]
           hits == [b \in 1 .. 10 |-> SumTo(Of(b - 1, O), n)]
           size == [b \in 1 .. 10 |-> SumTo(Of(b - 1, Ones), n)]
           u == One - 2 * ob
           v == Sq(ob)
<1>1. n \in Nat \ {0} /\ n <= MaxPairs /\ DOMAIN pairs = 1 .. n /\ One \in Nat
  <2>1. pairs \in Seq(Probability \X {0, 1})
    BY DEF ReportInv, TypeOK
  <2> QED
    BY <2>1, PairTypes
<1>2. \A k \in 1 .. n : /\ O[k] \in Nat /\ O[k] \in Int /\ Errors[k] \in Int
                        /\ Ones[k] = 1 /\ Ones[k] \in Int
  <2> TAKE k \in 1 .. n
  <2>1. O[k] \in Nat /\ P[k] \in Nat
    BY PairTypes
  <2>2. Errors[k] = (P[k] - O[k]) * (P[k] - O[k]) /\ Ones[k] = 1
    BY <1>1 DEF Errors, Ones, Sq
  <2> QED
    BY <2>1, <2>2
<1>3. Obar \in Nat /\ SumTo(O, n) = n * Obar
  <2>1. PICK q \in Nat : Unit = n * q
    <3>1. n \in 1 .. MaxPairs
      BY <1>1, ReportAssumption
    <3>2. \E q \in 1 .. Unit : Unit = n * q
      BY <3>1, ReportAssumption
    <3> QED
      BY <3>2, ReportAssumption
  <2> DEFINE hit == [k \in 1 .. n |-> pairs[k][2]]
  <2>2. \A k \in 1 .. n : hit[k] \in Nat /\ hit[k] \in Int /\ O[k] = One * hit[k]
    <3> TAKE k \in 1 .. n
    <3>1. pairs[k][2] \in {0, 1} /\ O[k] = One * pairs[k][2]
      BY PairTypes
    <3>2. hit[k] = pairs[k][2]
      OBVIOUS
    <3> HIDE DEF hit
    <3> QED
      BY <3>1, <3>2
  <2>3. n \in Nat /\ One \in Int
    BY <1>1
  <2> HIDE DEF hit, n
  <2>4. SumTo(hit, n) \in Nat
    BY <2>2, <2>3, SumToNat
  <2>5. SumTo(O, n) = One * SumTo(hit, n)
    BY <2>2, <2>3, SumToScale
  <2> DEFINE f == 10 * Width * q * SumTo(hit, n)
  <2>6. f \in Nat /\ SumTo(O, n) = n * f
    BY <1>1, <2>1, <2>4, <2>5, ReportAssumption DEF One
  <2> HIDE DEF f
  <2>7. Obar = f
    BY <1>1, <2>6, Quotient DEF Obar, n
  <2> QED
    BY <2>6, <2>7
<1>4. u \in Int /\ v \in Int
  <2>1. ob \in Int /\ One \in Int
    BY <1>1, <1>3
  <2> HIDE DEF ob
  <2> QED
    BY <2>1 DEF Sq
<1>5. ASSUME NEW b \in 1 .. 10
      PROVE  /\ rel[b] \in Int /\ res[b] \in Int /\ hits[b] \in Int /\ size[b] \in Int
             /\ bri[b] = rel[b] - res[b] + u * hits[b] + v * size[b]
  <2> DEFINE i == b - 1
             x == Of(i, O)
             c == Cardinality(Bucket(i))
  <2>1. i \in 0 .. 9
    OBVIOUS
  <2>2. /\ bri[b] = SumTo(Of(i, Errors), n) /\ hits[b] = SumTo(x, n)
        /\ size[b] = SumTo(Of(i, Ones), n)
        /\ rel[b] = IF i \in Filled THEN c * Sq(MeanProbability(i) - ObservedFreq(i)) ELSE 0
        /\ res[b] = IF i \in Filled THEN c * Sq(ObservedFreq(i) - ob) ELSE 0
    OBVIOUS
  <2>3. hits[b] \in Int
    <3>1. n \in Nat /\ \A k \in 1 .. n : x[k] \in Int
      BY <1>1, <1>2 DEF Of
    <3>2. SumTo(x, n) \in Int
      <4> HIDE DEF x, n
      <4> QED
        BY <3>1, SumToInt
    <3> QED
      BY <2>2, <3>2
  <2>4. CASE i \in Filled
    <3>1. c = size[b] /\ c \in Nat
      <4>1. c = SumTo(Of(i, Ones), n) /\ c \in 1 .. n
        BY <2>1, <2>4, BucketSize DEF Filled
      <4> HIDE DEF c, n
      <4> QED
        BY <1>1, <2>2, <4>1
    <3>2. MeanProbability(i) \in Int /\ ObservedFreq(i) \in Int
      BY <2>4, BucketTerms
    <3>3. bri[b] = c * Sq(MeanProbability(i) - ObservedFreq(i)) - c * Sq(ObservedFreq(i) - ob)
                     + (One - 2 * ob) * SumTo(x, n) + Sq(ob) * c
      BY <1>3, <2>2, <2>4, BucketTerms
    <3> HIDE DEF c, i, x, n, bri, rel, res, hits, size
    <3>4. rel[b] \in Int /\ res[b] \in Int
      <4>1. ob \in Int
        BY <1>3
      <4> HIDE DEF ob
      <4> QED
        BY <2>2, <2>4, <3>1, <3>2, <4>1 DEF Sq
    <3> QED
      BY <2>2, <2>3, <2>4, <3>1, <3>3, <3>4
  <2>5. CASE i \notin Filled
    <3>1. bri[b] = 0 /\ hits[b] = 0 /\ size[b] = 0 /\ rel[b] = 0 /\ res[b] = 0
      BY <2>1, <2>2, <2>5, EmptyTerms
    <3> HIDE DEF i, n, bri, rel, res, hits, size, u, v
    <3> QED
      BY <1>4, <3>1
  <2> QED
    BY <2>4, <2>5
<1>6. SumTo(bri, 10)
        = SumTo(rel, 10) - SumTo(res, 10) + u * SumTo(hits, 10) + v * SumTo(size, 10)
  <2>1. \A b \in 1 .. 10 : /\ rel[b] \in Int /\ res[b] \in Int
                           /\ hits[b] \in Int /\ size[b] \in Int
                           /\ bri[b] = rel[b] - res[b] + u * hits[b] + v * size[b]
    BY <1>5
  <2> HIDE DEF bri, rel, res, hits, size, u, v
  <2>2. ASSUME NEW m \in Nat, m = 10
        PROVE  SumTo(bri, m)
                 = SumTo(rel, m) - SumTo(res, m) + u * SumTo(hits, m) + v * SumTo(size, m)
    <3>1. \A b \in 1 .. m : /\ rel[b] \in Int /\ res[b] \in Int
                            /\ hits[b] \in Int /\ size[b] \in Int
                            /\ bri[b] = rel[b] - res[b] + u * hits[b] + v * size[b]
      BY <2>1, <2>2
    <3> QED
      BY ONLY <1>4, <3>1, SumToCombine
  <2> QED
    BY <2>2
<1>7. SumTo(bri, 10) = Brier
  <2>1. SumTo(bri, 10) = SumTo(Errors, n)
    BY <1>2, Bucketwise
  <2> QED
    BY <2>1 DEF Brier, Errors
<1>8. SumTo(hits, 10) = n * Obar
  <2>1. SumTo(hits, 10) = SumTo(O, n)
    BY <1>2, Bucketwise
  <2> QED
    BY <1>3, <2>1
<1>9. SumTo(size, 10) = n
  <2>1. SumTo(size, 10) = SumTo(Ones, n)
    BY <1>2, Bucketwise
  <2>2. SumTo(Ones, n) = n
    <3>1. n \in Nat /\ 1 .. n \in SUBSET (1 .. n)
          /\ \A k \in 1 .. n : Ones[k] = IF k \in 1 .. n THEN 1 ELSE 0
      BY <1>1, <1>2
    <3> HIDE DEF n
    <3>2. Cardinality(1 .. n) = SumTo(Ones, n)
      BY ONLY <3>1, SumToCount
    <3> QED
      BY <3>1, <3>2, FS_Interval
  <2> QED
    BY <2>1, <2>2
<1>10. SumTo(rel, 10) = Reliability /\ SumTo(res, 10) = ResolutionComponent
  BY DEF Reliability, ResolutionComponent
<1>11. SumTo(rel, 10) \in Int /\ SumTo(res, 10) \in Int
  <2> HIDE DEF rel, res
  <2> QED
    BY <1>5, SumToInt
<1>12. Brier = Reliability - ResolutionComponent + (One - 2 * ob) * (n * ob) + (ob * ob) * n
  BY <1>6, <1>7, <1>8, <1>9, <1>10 DEF Sq
<1>13. n \in Nat /\ ob \in Nat /\ Reliability \in Int /\ ResolutionComponent \in Int
  BY <1>1, <1>3, <1>10, <1>11
<1>14. Brier = Reliability - ResolutionComponent + n * ob * (One - ob)
  <2> HIDE DEF n, ob
  <2> QED
    BY <1>1, <1>12, <1>13
<1> QED
  BY <1>14

\* The report's buckets count each pair it scored once, and so leave none out.
LEMMA CountedOnce ==
  ASSUME ReportInv, NEW k \in DOMAIN pairs
  PROVE  Cardinality({i \in 0 .. 9 : k \in Bucket(i)}) = 1
<1>1. pairs[k][1] \in 0 .. 10 * Width
  BY PairTypes
<1>2. PICK i \in 0 .. 9 : InBucket(i, pairs[k][1])
  BY <1>1, BucketsPartition
<1>3. \A j \in 0 .. 9 : k \in Bucket(j) <=> j = i
  BY <1>1, <1>2, BucketsPartition DEF Bucket
<1>4. {j \in 0 .. 9 : k \in Bucket(j)} = {i}
  BY <1>3
<1> QED
  BY <1>4, FS_Singleton

\* The report adds up for every list of pairs, however long, and every width of the
\* buckets: each pair is counted in one bucket, and where the forecasts of a bucket agree
\* the Brier score is reliability - resolution + uncertainty (store.py:600-620).
THEOREM ReportAlwaysAddsUp == Spec => []ReportAddsUp
<1>1. ReportInv => ReportAddsUp
  <2>1. SUFFICES ASSUME ReportInv, pairs # << >>
                 PROVE  /\ \A k \in DOMAIN pairs :
                             Cardinality({i \in 0 .. 9 : k \in Bucket(i)}) = 1
                        /\ (\A i \in Filled : \A k, m \in Bucket(i) : pairs[k][1] = pairs[m][1])
                             => Brier = Reliability - ResolutionComponent
                                          + Len(pairs) * Obar * (One - Obar)
    BY DEF ReportAddsUp
  <2>2. \A k \in DOMAIN pairs : Cardinality({i \in 0 .. 9 : k \in Bucket(i)}) = 1
    BY <2>1, CountedOnce
  <2>3. (\A i \in Filled : Agree(i))
            => Brier = Reliability - ResolutionComponent + Len(pairs) * Obar * (One - Obar)
    BY <2>1, Decomposition
  <2> QED
    BY <2>2, <2>3 DEF Agree
<1> QED
  BY <1>1, ReportInvHolds, PTL
=============================================================================
