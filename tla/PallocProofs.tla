---------------------------- MODULE PallocProofs ----------------------------
(***************************************************************************)
(* Theorems about the slab pool, for every alignment, every size of pool   *)
(* and chunks, every factor that does not shrink the classes, and any      *)
(* requests.                                                               *)
(***************************************************************************)
EXTENDS Palloc, FiniteSetTheorems, SequenceTheorems, WellFoundedInduction, TLAPS

-----------------------------------------------------------------------------
(* Arithmetic and induction.                                               *)

\* The constants one by one.
LEMMA Constants ==
  /\ Align \in Nat /\ InitSize \in Nat /\ MemSize \in Nat /\ ChunkSize \in Nat
  /\ FactorNum \in Nat /\ FactorDen \in Nat
  /\ Align > 0 /\ InitSize > 0 /\ MemSize > 0 /\ ChunkSize > 0
  /\ FactorNum > 0 /\ FactorDen > 0 /\ FactorDen <= FactorNum
  /\ MaxIdx \in Nat /\ MaxLive \in Nat
  /\ \A size \in Requests : size \in Nat /\ 1 <= size /\ size <= ChunkSize
BY PallocAssumption

LEMMA DivProperties ==
  ASSUME NEW n \in Nat, NEW d \in Nat \ {0}
  PROVE  n \div d \in Nat /\ d * (n \div d) <= n /\ n < d * (n \div d) + d
BY SMT

LEMMA TimesMonotonic ==
  ASSUME NEW k \in Nat, NEW a \in Nat, NEW b \in Nat, a <= b
  PROVE  k * a <= k * b
<1>1. PICK e \in Nat : b = a + e
  <2>1. b - a \in Nat /\ b = a + (b - a)
    OBVIOUS
  <2>2. QED
    BY <2>1
<1>2. k * e \in Nat /\ k * (a + e) = k * a + k * e
  OBVIOUS
<1>3. QED
  BY <1>1, <1>2

\* A set of numbers that is not empty has a least element: the intervals from 0
\* to its elements are finite sets, which strict inclusion orders well.
LEMMA LeastElement ==
  ASSUME NEW T, T \subseteq Nat, T # {}
  PROVE  \E m \in T : \A n \in T : m <= n
<1> DEFINE R == StrictSubsetOrdering(Nat)
           I == {0 .. n : n \in T}
<1>1. IsWellFoundedOn(R, FiniteSubsetsOf(Nat))
  BY FS_StrictSubsetOrderingWellFounded
<1>2. \A n \in T : IsFiniteSet(0 .. n) /\ 0 .. n \subseteq Nat
  BY FS_Interval
<1>3. I \subseteq FiniteSubsetsOf(Nat) /\ I # {}
  BY <1>2 DEF FiniteSubsetsOf
<1> HIDE DEF R
<1>4. \E x \in I : \A y \in I : ~ (<<y, x>> \in R)
  <2> HIDE DEF I
  <2>1. QED
    BY <1>1, <1>3, WFMin
<1>5. PICK m \in T : \A n \in T : ~ (<<0 .. n, 0 .. m>> \in R)
  BY <1>4
<1>6. ASSUME NEW n \in T, ~ (m <= n) PROVE FALSE
  <2>1. n \in Nat /\ m \in Nat /\ n < m
    BY <1>6
  <2>2. 0 .. n \subseteq 0 .. m /\ m \in 0 .. m /\ m \notin 0 .. n
    BY <2>1
  <2>3. <<0 .. n, 0 .. m>> \in R
    BY <2>1, <2>2 DEF R, StrictSubsetOrdering
  <2>4. QED
    BY <2>3, <1>5, <1>6
<1>7. QED
  BY <1>5, <1>6

\* Induction, stated for a set in place of a predicate.
LEMMA SetInduction ==
  ASSUME NEW S, 0 \in S, \A n \in Nat : n \in S => n + 1 \in S
  PROVE  Nat \subseteq S
<1>1. SUFFICES ASSUME Nat \ S # {} PROVE FALSE
  OBVIOUS
<1>2. PICK m \in Nat \ S : \A n \in Nat \ S : m <= n
  BY <1>1, LeastElement
<1>3. m # 0 /\ m - 1 \in Nat /\ ~ (m <= m - 1) /\ (m - 1) + 1 = m
  BY <1>2
<1>4. QED
  BY <1>2, <1>3

\* Min of the community modules, of a set of numbers.
LEMMA MinOfSet ==
  ASSUME NEW T, T \subseteq Nat, T # {}
  PROVE  Min(T) \in T /\ \A n \in T : Min(T) <= n
BY LeastElement DEF Min

\* Max of the community modules, of two numbers.
LEMMA MaxOfTwo ==
  ASSUME NEW a \in Nat, NEW b \in Nat
  PROVE  Max({a, b}) = IF a <= b THEN b ELSE a
<1>1. \E x \in {a, b} : \A y \in {a, b} : x >= y
  <2>1. a >= b \/ b >= a
    OBVIOUS
  <2>2. QED
    BY <2>1
<1>2. Max({a, b}) \in {a, b} /\ \A y \in {a, b} : Max({a, b}) >= y
  BY <1>1, Zenon DEF Max
<1>3. QED
  BY <1>2

-----------------------------------------------------------------------------
(* The size classes.                                                       *)

\* rs_align() rounds up.
LEMMA AlignedGrows ==
  ASSUME NEW n \in Nat
  PROVE  Aligned(n) \in Nat /\ n <= Aligned(n)
<1> DEFINE q == (n + Align - 1) \div Align
<1>1. n + Align - 1 \in Nat /\ Align \in Nat \ {0}
  BY Constants
<1>2. q \in Nat /\ n + Align - 1 < Align * q + Align
  BY <1>1, DivProperties
<1> HIDE DEF q
<1>3. q * Align \in Nat /\ q * Align = Align * q
  BY <1>1, <1>2
<1>4. n <= q * Align
  BY <1>1, <1>2, <1>3
<1>5. QED
  BY <1>3, <1>4 DEF Aligned, q

\* The size that follows those in f.
NextSize(f, i) ==
  Aligned(IF i = 0 THEN InitSize ELSE (f[i - 1] * FactorNum) \div FactorDen)

\* The recursion of Grown has a solution: apply it once more than there are sizes.
LEMMA GrownDef == Grown = [i \in 0 .. MaxIdx |-> NextSize(Grown, i)]
<1> DEFINE P == {n \in Nat : \E g : \A i \in 0 .. MaxIdx : i < n => g[i] = NextSize(g, i)}
<1>1. 0 \in P
  OBVIOUS
<1>2. ASSUME NEW n \in Nat, n \in P PROVE n + 1 \in P
  <2>1. PICK g : \A i \in 0 .. MaxIdx : i < n => g[i] = NextSize(g, i)
    BY <1>2
  <2> DEFINE h == [i \in 0 .. MaxIdx |-> NextSize(g, i)]
  <2>2. \A i \in 0 .. MaxIdx : i < n => h[i] = g[i]
    BY <2>1
  <2>3. ASSUME NEW i \in 0 .. MaxIdx, i < n + 1 PROVE h[i] = NextSize(h, i)
    <3>1. i = 0 \/ (i - 1 \in 0 .. MaxIdx /\ i - 1 < n)
      BY <2>3, Constants
    <3>2. i = 0 \/ h[i - 1] = g[i - 1]
      BY <3>1, <2>2
    <3>3. h[i] = NextSize(g, i)
      OBVIOUS
    <3> HIDE DEF h
    <3>4. QED
      BY <3>2, <3>3, Zenon DEF NextSize
  <2> HIDE DEF h
  <2>4. QED
    BY <2>3
<1>3. MaxIdx + 1 \in P
  <2> HIDE DEF P
  <2>1. QED
    BY <1>1, <1>2, Constants, SetInduction
<1>4. PICK g : \A i \in 0 .. MaxIdx : i < MaxIdx + 1 => g[i] = NextSize(g, i)
  BY <1>3
<1> DEFINE h == [i \in 0 .. MaxIdx |-> NextSize(g, i)]
<1>5. \A i \in 0 .. MaxIdx : h[i] = g[i]
  BY <1>4, Constants
<1>6. ASSUME NEW i \in 0 .. MaxIdx PROVE NextSize(g, i) = NextSize(h, i)
  <2>1. i = 0 \/ i - 1 \in 0 .. MaxIdx
    BY Constants
  <2>2. i = 0 \/ h[i - 1] = g[i - 1]
    BY <1>5, <2>1
  <2> HIDE DEF h
  <2>3. QED
    BY <2>2, Zenon DEF NextSize
<1>7. h = [i \in 0 .. MaxIdx |-> NextSize(h, i)]
  BY <1>6, Zenon
<1>8. \E f : f = [i \in 0 .. MaxIdx |-> NextSize(f, i)]
  BY <1>7, Zenon
<1>9. QED
  BY <1>8, Zenon DEF Grown, NextSize

LEMMA FactorGrows ==
  ASSUME NEW n \in Nat
  PROVE  (n * FactorNum) \div FactorDen \in Nat /\ n <= (n * FactorNum) \div FactorDen
<1> DEFINE m == n * FactorNum
           q == m \div FactorDen
<1>1. m \in Nat /\ FactorDen \in Nat \ {0} /\ FactorNum \in Nat /\ FactorDen <= FactorNum
  BY Constants
<1>2. n * FactorDen <= m
  BY <1>1, TimesMonotonic
<1> HIDE DEF m
<1>3. q \in Nat /\ m < FactorDen * q + FactorDen
  BY <1>1, DivProperties
<1> HIDE DEF q
<1>4. ASSUME ~ (n <= q) PROVE FALSE
  <2>1. q + 1 \in Nat /\ q + 1 <= n
    BY <1>3, <1>4
  <2>2. FactorDen * (q + 1) <= FactorDen * n
    BY <1>1, <2>1, TimesMonotonic
  <2>3. FactorDen * (q + 1) = FactorDen * q + FactorDen /\ FactorDen * n = n * FactorDen
    BY <1>1, <1>3
  <2>4. FactorDen * q \in Nat /\ FactorDen * n \in Nat
    BY <1>1, <1>3
  <2>5. QED
    BY <1>1, <1>2, <1>3, <2>2, <2>3, <2>4
<1>5. QED
  BY <1>3, <1>4 DEF q, m

\* The sizes are positive, and no size is smaller than the one before it.
LEMMA GrownGrows ==
  /\ \A i \in 0 .. MaxIdx : Grown[i] \in Nat /\ Grown[i] > 0
  /\ \A i, j \in 0 .. MaxIdx : i <= j => Grown[i] <= Grown[j]
<1>1. Grown[0] \in Nat /\ Grown[0] > 0
  <2>1. Grown[0] = Aligned(InitSize)
    BY GrownDef, Constants DEF NextSize
  <2>2. QED
    BY <2>1, AlignedGrows, Constants
<1>2. ASSUME NEW n \in Nat, n + 1 <= MaxIdx, Grown[n] \in Nat
      PROVE  Grown[n + 1] \in Nat /\ Grown[n] <= Grown[n + 1]
  <2> DEFINE q == (Grown[n] * FactorNum) \div FactorDen
  <2>1. n + 1 \in 0 .. MaxIdx /\ n + 1 # 0 /\ (n + 1) - 1 = n
    BY <1>2, Constants
  <2>2. Grown[n + 1] = Aligned(q)
    BY <2>1, GrownDef DEF NextSize
  <2>3. q \in Nat /\ Grown[n] <= q
    BY <1>2, FactorGrows
  <2> HIDE DEF q
  <2>4. Aligned(q) \in Nat /\ q <= Aligned(q)
    BY <2>3, AlignedGrows
  <2>5. QED
    BY <1>2, <2>2, <2>3, <2>4
<1> DEFINE P == {n \in Nat : n <= MaxIdx => Grown[n] \in Nat /\ Grown[n] > 0}
<1>3. \A n \in Nat : n \in P => n + 1 \in P
  <2> SUFFICES ASSUME NEW n \in Nat, n \in P, n + 1 <= MaxIdx
               PROVE  Grown[n + 1] \in Nat /\ Grown[n + 1] > 0
    OBVIOUS
  <2>1. n <= MaxIdx
    BY Constants
  <2>2. Grown[n] \in Nat /\ Grown[n] > 0
    BY <2>1
  <2>3. Grown[n + 1] \in Nat /\ Grown[n] <= Grown[n + 1]
    BY <1>2, <2>2
  <2>4. QED
    BY <2>2, <2>3
<1>4. Nat \subseteq P
  <2>1. 0 \in P
    BY <1>1
  <2> HIDE DEF P
  <2>2. QED
    BY <1>3, <2>1, SetInduction
<1>5. \A i \in 0 .. MaxIdx : i \in Nat /\ Grown[i] \in Nat /\ Grown[i] > 0
  BY <1>4, Constants
<1>6. ASSUME NEW i \in 0 .. MaxIdx, NEW j \in 0 .. MaxIdx, i <= j PROVE Grown[i] <= Grown[j]
  <2> DEFINE Q == {d \in Nat : i + d <= MaxIdx => Grown[i] <= Grown[i + d]}
  <2>1. 0 \in Q
    BY <1>5
  <2>2. ASSUME NEW d \in Nat, d \in Q, i + (d + 1) <= MaxIdx PROVE Grown[i] <= Grown[i + (d + 1)]
    <3>1. i + d \in 0 .. MaxIdx /\ i + d <= MaxIdx /\ i + d \in Nat
          /\ (i + d) + 1 = i + (d + 1) /\ (i + d) + 1 <= MaxIdx
      BY <2>2, Constants
    <3>2. Grown[i] <= Grown[i + d] /\ Grown[i + d] \in Nat /\ Grown[i] \in Nat
      BY <1>5, <2>2, <3>1
    <3>3. Grown[(i + d) + 1] \in Nat /\ Grown[i + d] <= Grown[(i + d) + 1]
      BY <1>2, <3>1, <3>2
    <3>4. Grown[i + (d + 1)] \in Nat /\ Grown[i + d] <= Grown[i + (d + 1)]
      BY <3>1, <3>3
    <3>5. QED
      BY <3>2, <3>4
  <2>3. \A d \in Nat : d \in Q => d + 1 \in Q
    BY <2>2
  <2>4. Nat \subseteq Q
    <3> HIDE DEF Q
    <3>1. QED
      BY <2>1, <2>3, SetInduction
  <2>5. j - i \in Nat /\ i + (j - i) = j /\ j <= MaxIdx
    BY <1>6
  <2>6. QED
    BY <2>4, <2>5
<1>7. QED
  BY <1>5, <1>6

\* The last class.
LEMMA LastClass ==
  /\ CurIdx \in 0 .. MaxIdx
  /\ \A c \in 0 .. CurIdx : c # CurIdx => Grown[c] < ChunkSize
<1> DEFINE T == {i \in 0 .. MaxIdx : i = MaxIdx \/ Grown[i] >= ChunkSize}
<1>1. T \subseteq Nat /\ MaxIdx \in T
  BY Constants
<1>2. CurIdx = Min(T)
  BY DEF CurIdx
<1>3. CurIdx \in T /\ \A n \in T : CurIdx <= n
  <2> HIDE DEF T
  <2>1. QED
    BY <1>1, <1>2, MinOfSet
<1>4. CurIdx \in 0 .. MaxIdx
  BY <1>3
<1>5. ASSUME NEW c \in 0 .. CurIdx, c # CurIdx PROVE Grown[c] < ChunkSize
  <2>1. c \in 0 .. MaxIdx /\ ~ (CurIdx <= c)
    BY <1>4, <1>5, Constants
  <2>2. c \notin T
    BY <1>3, <2>1
  <2>3. QED
    BY <2>1, <2>2, GrownGrows, Constants
<1>6. QED
  BY <1>4, <1>5

\* What the rest needs to know of the classes.
LEMMA ClassProperties ==
  /\ CurIdx \in Nat /\ Classes = 0 .. CurIdx
  /\ \A c \in Classes : /\ Size[c] \in Nat /\ Size[c] > 0 /\ Size[c] <= ChunkSize
                        /\ Count[c] \in Nat /\ Count[c] > 0
  /\ Size[CurIdx] = ChunkSize
  /\ \A c, d \in Classes : c <= d => Size[c] <= Size[d]
<1>1. CurIdx \in Nat /\ Classes = 0 .. CurIdx /\ CurIdx \in Classes /\ Classes \subseteq 0 .. MaxIdx
  BY LastClass, Constants DEF Classes
<1>2. /\ \A c \in Classes : Size[c] = IF c = CurIdx THEN ChunkSize ELSE Grown[c]
      /\ \A c \in Classes : Count[c] = IF c = CurIdx THEN 1 ELSE ChunkSize \div Grown[c]
  BY DEF Size, Count
<1>3. ASSUME NEW c \in Classes, c # CurIdx
      PROVE  /\ Grown[c] \in Nat /\ Grown[c] > 0 /\ Grown[c] < ChunkSize
             /\ ChunkSize \div Grown[c] \in Nat /\ ChunkSize \div Grown[c] > 0
  <2> DEFINE g == Grown[c]
             q == ChunkSize \div g
  <2>1. g \in Nat /\ g > 0 /\ g < ChunkSize
    BY <1>1, <1>3, GrownGrows, LastClass
  <2> HIDE DEF g
  <2>2. q \in Nat /\ ChunkSize < g * q + g
    BY <2>1, Constants, DivProperties
  <2> HIDE DEF q
  <2>3. q # 0
    BY <2>1, <2>2, Constants
  <2>4. QED
    BY <2>1, <2>2, <2>3 DEF q, g
<1>4. ASSUME NEW c \in Classes
      PROVE  /\ Size[c] \in Nat /\ Size[c] > 0 /\ Size[c] <= ChunkSize
             /\ Count[c] \in Nat /\ Count[c] > 0
  <2>1. CASE c = CurIdx
    BY <1>2, <2>1, Constants
  <2>2. CASE c # CurIdx
    BY <1>2, <1>3, <2>2, Constants
  <2>3. QED
    BY <2>1, <2>2
<1>5. ASSUME NEW c \in Classes, NEW d \in Classes, c <= d PROVE Size[c] <= Size[d]
  <2>1. CASE d = CurIdx
    BY <1>2, <1>4, <2>1
  <2>2. CASE d # CurIdx
    <3>1. c # CurIdx
      BY <1>1, <1>5, <2>2
    <3>2. QED
      BY <1>1, <1>2, <1>5, <2>2, <3>1, GrownGrows
  <2>3. QED
    BY <2>1, <2>2
<1>6. QED
  BY <1>1, <1>2, <1>4, <1>5

-----------------------------------------------------------------------------
(* The search for a class.                                                 *)

\* One round of rs_palloc_id() for the interval iv, the rest taken from f.
Round(size, f, iv) ==
  LET low == iv[1]
      high == iv[2]
      mid == low + (high - low) \div 2
  IN  IF low > high THEN low
      ELSE IF Size[mid] > size THEN f[<<low, mid - 1>>]
      ELSE IF Size[mid] < size THEN f[<<mid + 1, high>>]
      ELSE low

Mid(iv) == iv[1] + (iv[2] - iv[1]) \div 2

\* The two intervals a round can go on with, and their lengths.
LEMMA Halves ==
  ASSUME NEW iv \in Intervals, iv[1] <= iv[2]
  PROVE  /\ Mid(iv) \in Classes /\ iv[1] <= Mid(iv) /\ Mid(iv) <= iv[2]
         /\ <<iv[1], Mid(iv) - 1>> \in Intervals
         /\ <<Mid(iv) + 1, iv[2]>> \in Intervals
<1>1. /\ CurIdx \in Nat /\ Classes = 0 .. CurIdx
      /\ iv[1] \in Int /\ iv[2] \in Int /\ 0 <= iv[1] /\ iv[1] <= CurIdx + 1
      /\ -1 <= iv[2] /\ iv[2] <= CurIdx
  BY ClassProperties DEF Intervals
<1>2. Mid(iv) \in Int /\ iv[1] <= Mid(iv) /\ Mid(iv) <= iv[2]
  BY <1>1 DEF Mid
<1>3. /\ Mid(iv) \in 0 .. CurIdx
      /\ Mid(iv) - 1 \in -1 .. CurIdx /\ Mid(iv) + 1 \in 0 .. CurIdx + 1
      /\ iv[1] \in 0 .. CurIdx + 1 /\ iv[2] \in -1 .. CurIdx
  BY <1>1, <1>2
<1>4. QED
  BY <1>1, <1>2, <1>3, Zenon DEF Intervals

LEMMA RoundCases ==
  ASSUME NEW size, NEW f, NEW iv
  PROVE  Round(size, f, iv) =
           IF iv[1] > iv[2] THEN iv[1]
           ELSE IF Size[Mid(iv)] > size THEN f[<<iv[1], Mid(iv) - 1>>]
           ELSE IF Size[Mid(iv)] < size THEN f[<<Mid(iv) + 1, iv[2]>>]
           ELSE iv[1]
BY Zenon DEF Round, Mid

\* A round looks at shorter intervals only.
LEMMA RoundShrinks ==
  ASSUME NEW size, NEW f, NEW g, NEW n \in Nat,
         \A iv \in Intervals : iv[2] < iv[1] + n => f[iv] = g[iv],
         NEW iv \in Intervals, iv[2] < iv[1] + (n + 1)
  PROVE  Round(size, f, iv) = Round(size, g, iv)
<1>1. iv[1] \in Int /\ iv[2] \in Int
  BY ClassProperties DEF Intervals
<1>2. CASE iv[1] > iv[2]
  BY <1>2, RoundCases
<1>3. CASE ~ (iv[1] > iv[2])
  <2> DEFINE lo == <<iv[1], Mid(iv) - 1>>
             hi == <<Mid(iv) + 1, iv[2]>>
  <2>1. lo \in Intervals /\ hi \in Intervals /\ Mid(iv) \in Int /\ iv[1] <= Mid(iv) /\ Mid(iv) <= iv[2]
    BY <1>1, <1>3, Halves, ClassProperties
  <2>2. Mid(iv) - 1 < iv[1] + n /\ iv[2] < (Mid(iv) + 1) + n
    BY <1>1, <2>1
  <2>3. f[lo] = g[lo] /\ f[hi] = g[hi]
    BY <2>1, <2>2
  <2>4. QED
    BY <1>3, <2>3, RoundCases, Zenon
<1>4. QED
  BY <1>2, <1>3

\* The recursion of the search has a solution.
LEMMA SearchDef ==
  ASSUME NEW size
  PROVE  \E f : /\ f = [iv \in Intervals |-> Round(size, f, iv)]
                /\ PallocId(size) = f[<<0, CurIdx>>]
<1>1. CurIdx \in Nat /\ \A iv \in Intervals : iv[1] \in Int /\ iv[2] \in Int /\ iv[2] < iv[1] + (CurIdx + 1)
  <2>1. CurIdx \in Nat
    BY ClassProperties
  <2>2. \A iv \in Intervals : iv[1] \in 0 .. CurIdx + 1 /\ iv[2] \in -1 .. CurIdx
    BY DEF Intervals
  <2>3. QED
    BY <2>1, <2>2
<1> DEFINE P == {n \in Nat : \E g : \A iv \in Intervals : iv[2] < iv[1] + n => g[iv] = Round(size, g, iv)}
<1>2. 0 \in P
  <2> DEFINE g == [iv \in Intervals |-> iv[1]]
  <2>1. ASSUME NEW iv \in Intervals, iv[2] < iv[1] + 0 PROVE g[iv] = Round(size, g, iv)
    <3>1. iv[1] > iv[2]
      BY <1>1, <2>1
    <3>2. QED
      BY <3>1, RoundCases
  <2> HIDE DEF g
  <2>2. QED
    BY <2>1
<1>3. ASSUME NEW n \in Nat, n \in P PROVE n + 1 \in P
  <2>1. PICK g : \A iv \in Intervals : iv[2] < iv[1] + n => g[iv] = Round(size, g, iv)
    BY <1>3
  <2> DEFINE h == [iv \in Intervals |-> Round(size, g, iv)]
  <2>2. \A iv \in Intervals : h[iv] = Round(size, g, iv)
    BY Zenon
  <2>3. \A iv \in Intervals : iv[2] < iv[1] + n => g[iv] = h[iv]
    BY <2>1, <2>2, Zenon
  <2> HIDE DEF h
  <2>4. \A iv \in Intervals : iv[2] < iv[1] + (n + 1) => h[iv] = Round(size, h, iv)
    BY <2>2, <2>3, RoundShrinks
  <2>5. QED
    BY <2>4
<1>4. CurIdx + 1 \in P
  <2> HIDE DEF P
  <2>1. QED
    BY <1>1, <1>2, <1>3, SetInduction
<1>5. PICK g : \A iv \in Intervals : g[iv] = Round(size, g, iv)
  BY <1>1, <1>4
<1> DEFINE h == [iv \in Intervals |-> Round(size, g, iv)]
<1>6. \A iv \in Intervals : g[iv] = h[iv]
  BY <1>5, Zenon
<1> HIDE DEF P
<1>7. ASSUME NEW iv \in Intervals PROVE Round(size, g, iv) = Round(size, h, iv)
  <2>1. iv[2] < iv[1] + ((CurIdx + 1) + 1) /\ CurIdx + 1 \in Nat
    BY <1>1
  <2> HIDE DEF h
  <2>2. QED
    BY <1>6, <2>1, RoundShrinks
<1>8. h = [iv \in Intervals |-> Round(size, h, iv)]
  BY <1>7, Zenon
<1> HIDE DEF h
<1> DEFINE S == CHOOSE f : f = [iv \in Intervals |-> Round(size, f, iv)]
<1>9. S = [iv \in Intervals |-> Round(size, S, iv)]
  BY <1>8, Zenon
<1>10. PallocId(size) = S[<<0, CurIdx>>]
  BY Zenon DEF PallocId, Round
<1>11. QED
  BY <1>9, <1>10

\* What the search knows of an interval: the classes below it are too small, and
\* those above it too large.
Narrowed(size, iv) ==
  /\ iv[1] <= iv[2] + 1
  /\ \A c \in Classes : c < iv[1] => Size[c] < size
  /\ \A c \in Classes : c > iv[2] => Size[c] > size

\* What it finds.
Found(size, id) ==
  /\ id \in Classes
  /\ ~ Exact(size) => /\ \A c \in Classes : c < id => Size[c] < size
                      /\ Size[id] > size

LEMMA EmptyIntervalFound ==
  ASSUME NEW size \in Nat, size <= ChunkSize, NEW iv \in Intervals, Narrowed(size, iv), iv[1] > iv[2]
  PROVE  Found(size, iv[1])
<1>1. CurIdx \in Nat /\ Classes = 0 .. CurIdx /\ CurIdx \in Classes
  BY ClassProperties
<1>2. iv[1] \in 0 .. CurIdx + 1 /\ iv[2] \in -1 .. CurIdx
  BY DEF Intervals
<1>3. iv[1] # CurIdx + 1
  <2> SUFFICES ASSUME iv[1] = CurIdx + 1 PROVE FALSE
    OBVIOUS
  <2>1. CurIdx < iv[1]
    BY <1>1
  <2>2. Size[CurIdx] < size
    BY <1>1, <2>1 DEF Narrowed
  <2>3. QED
    BY <2>2, ClassProperties, Constants
<1>4. iv[1] \in Classes /\ iv[1] > iv[2]
  BY <1>1, <1>2, <1>3
<1>5. QED
  BY <1>4 DEF Narrowed, Found

\* The half the search goes on with is narrowed again, as the sizes are sorted.
LEMMA HalvesNarrowed ==
  ASSUME NEW size \in Nat, NEW iv \in Intervals, Narrowed(size, iv), iv[1] <= iv[2]
  PROVE  /\ Size[Mid(iv)] > size => Narrowed(size, <<iv[1], Mid(iv) - 1>>)
         /\ Size[Mid(iv)] < size => Narrowed(size, <<Mid(iv) + 1, iv[2]>>)
<1> DEFINE m == Mid(iv)
<1>1. m \in Classes /\ iv[1] <= m /\ m <= iv[2]
  BY Halves
<1>2. CurIdx \in Nat /\ Classes = 0 .. CurIdx /\ \A c \in Classes : Size[c] \in Nat
  BY ClassProperties
<1>3. iv[1] \in Int /\ iv[2] \in Int
  BY <1>2 DEF Intervals
<1> HIDE DEF m
<1>4. ASSUME Size[m] > size PROVE Narrowed(size, <<iv[1], m - 1>>)
  <2>1. ASSUME NEW c \in Classes, c > m - 1 PROVE Size[c] > size
    <3>1. m <= c
      BY <1>1, <1>2, <2>1
    <3>2. Size[m] <= Size[c]
      BY <1>1, <3>1, ClassProperties
    <3>3. QED
      BY <1>1, <1>2, <1>4, <3>2
  <2>2. iv[1] <= (m - 1) + 1
    BY <1>1, <1>2, <1>3
  <2>3. QED
    BY <2>1, <2>2 DEF Narrowed
<1>5. ASSUME Size[m] < size PROVE Narrowed(size, <<m + 1, iv[2]>>)
  <2>1. ASSUME NEW c \in Classes, c < m + 1 PROVE Size[c] < size
    <3>1. c <= m
      BY <1>1, <1>2, <2>1
    <3>2. Size[c] <= Size[m]
      BY <1>1, <3>1, ClassProperties
    <3>3. QED
      BY <1>1, <1>2, <1>5, <3>2
  <2>2. m + 1 <= iv[2] + 1
    BY <1>1, <1>2, <1>3
  <2>3. QED
    BY <2>1, <2>2 DEF Narrowed
<1>6. QED
  BY <1>4, <1>5 DEF m

LEMMA SearchFinds ==
  ASSUME NEW size \in Nat, 1 <= size, size <= ChunkSize
  PROVE  Found(size, PallocId(size))
<1>1. PICK f : /\ f = [iv \in Intervals |-> Round(size, f, iv)]
               /\ PallocId(size) = f[<<0, CurIdx>>]
  BY SearchDef
<1>2. /\ CurIdx \in Nat /\ Classes = 0 .. CurIdx /\ \A c \in Classes : Size[c] \in Nat
      /\ \A iv \in Intervals : iv[1] \in Int /\ iv[2] \in Int /\ iv[1] >= 0
  BY ClassProperties DEF Intervals
<1> DEFINE Q == {n \in Nat : \A iv \in Intervals :
                   iv[2] < iv[1] + n /\ Narrowed(size, iv) => Found(size, f[iv])}
<1>3. 0 \in Q
  <2> SUFFICES ASSUME NEW iv \in Intervals, iv[2] < iv[1] + 0, Narrowed(size, iv)
               PROVE  Found(size, f[iv])
    OBVIOUS
  <2>1. iv[1] > iv[2]
    BY <1>2
  <2>2. f[iv] = iv[1]
    BY <1>1, <2>1, RoundCases
  <2>3. QED
    BY <2>1, <2>2, EmptyIntervalFound
<1>4. ASSUME NEW n \in Nat, n \in Q PROVE n + 1 \in Q
  <2> SUFFICES ASSUME NEW iv \in Intervals, iv[2] < iv[1] + (n + 1), Narrowed(size, iv)
               PROVE  Found(size, f[iv])
    OBVIOUS
  <2> DEFINE lo == <<iv[1], Mid(iv) - 1>>
             hi == <<Mid(iv) + 1, iv[2]>>
  <2>1. f[iv] = IF iv[1] > iv[2] THEN iv[1]
                ELSE IF Size[Mid(iv)] > size THEN f[lo]
                ELSE IF Size[Mid(iv)] < size THEN f[hi]
                ELSE iv[1]
    BY <1>1, RoundCases
  <2>2. CASE iv[1] > iv[2]
    BY <2>1, <2>2, EmptyIntervalFound
  <2>3. CASE ~ (iv[1] > iv[2])
    <3>1. /\ iv[1] <= iv[2] /\ Mid(iv) \in Classes /\ iv[1] <= Mid(iv) /\ Mid(iv) <= iv[2]
          /\ lo \in Intervals /\ hi \in Intervals
      BY <1>2, <2>3, Halves
    <3>2. lo[1] = iv[1] /\ lo[2] = Mid(iv) - 1 /\ hi[1] = Mid(iv) + 1 /\ hi[2] = iv[2]
      OBVIOUS
    <3> HIDE DEF lo, hi
    <3>3. lo[2] < lo[1] + n /\ hi[2] < hi[1] + n
      BY <1>2, <3>1, <3>2
    <3>4. CASE Size[Mid(iv)] > size
      <4>1. Narrowed(size, lo)
        BY <3>1, <3>4, HalvesNarrowed DEF lo
      <4>2. Found(size, f[lo])
        BY <1>4, <3>1, <3>3, <4>1
      <4>3. QED
        BY <2>1, <2>3, <3>4, <4>2
    <3>5. CASE Size[Mid(iv)] < size
      <4>1. Narrowed(size, hi)
        BY <3>1, <3>5, HalvesNarrowed DEF hi
      <4>2. Found(size, f[hi])
        BY <1>4, <3>1, <3>3, <4>1
      <4>3. ~ (Size[Mid(iv)] > size)
        BY <1>2, <3>1, <3>5
      <4>4. QED
        BY <2>1, <2>3, <3>5, <4>2, <4>3
    <3>6. CASE ~ (Size[Mid(iv)] > size) /\ ~ (Size[Mid(iv)] < size)
      <4>1. Size[Mid(iv)] = size
        BY <1>2, <3>1, <3>6
      <4>2. Exact(size)
        BY <3>1, <4>1 DEF Exact
      <4>3. iv[1] \in Classes
        BY <1>2, <3>1
      <4>4. QED
        BY <2>1, <2>3, <3>6, <4>2, <4>3 DEF Found
    <3>7. QED
      BY <3>4, <3>5, <3>6
  <2>4. QED
    BY <2>2, <2>3
<1>5. CurIdx + 1 \in Q
  <2> HIDE DEF Q
  <2>1. QED
    BY <1>2, <1>3, <1>4, SetInduction
<1> DEFINE all == <<0, CurIdx>>
<1>6. all \in Intervals /\ all[1] = 0 /\ all[2] = CurIdx
  BY <1>2 DEF Intervals
<1> HIDE DEF all
<1>7. Narrowed(size, all) /\ all[2] < all[1] + (CurIdx + 1)
  BY <1>2, <1>6 DEF Narrowed
<1>8. Found(size, f[all])
  BY <1>5, <1>6, <1>7
<1>9. QED
  BY <1>1, <1>8 DEF all

-----------------------------------------------------------------------------
(* The inductive invariant.                                                *)

SlabRegion(c, i) == Region(slab[c][i], SlabBytes(c))

\* The chunks of the slabs of class c; l chunks from ch on.
ChunksOf(s, c) == {t + k * Size[c] : t \in Range(s), k \in 0 .. Count[c] - 1}
ChunksFrom(ch, l, c) == {ch + k * Size[c] : k \in 0 .. l - 1}

Held(c) == {a.addr : a \in LiveIn(c)}

\* What a class carves next are the last chunks of its last slab.
Carving(c) ==
  /\ left[c] = 0 => chunk[c] = NoChunk
  /\ left[c] > 0 => /\ slab[c] # << >>
                    /\ chunk[c] = Last(slab[c]) + (Count[c] - left[c]) * Size[c]

\* ChunksPartition, without counting.
Places(c) ==
  /\ \A a, b \in LiveIn(c) : a.addr = b.addr => a = b
  /\ IsInjective(freeChunk[c])
  /\ Held(c) \cap Range(freeChunk[c]) = {}
  /\ Held(c) \cup Range(freeChunk[c]) = Carved(c)

Callers ==
  /\ IsFiniteSet(live)
  /\ \A a \in live : a.id = PallocId(a.size)

Peaks ==
  /\ peak \in [Classes -> Nat]
  /\ SlabsFollowPeak

PoolInv ==
  /\ TypeOK /\ SlabsDisjoint /\ Callers
  /\ \A c \in Classes : Carving(c) /\ Places(c)
  /\ Peaks

-----------------------------------------------------------------------------
(* Chunks and slabs.                                                       *)

LEMMA MaxSizeType == MaxSize \in Nat
BY Constants, AlignedGrows DEF MaxSize

LEMMA SlabBytesType ==
  ASSUME NEW c \in Classes
  PROVE  SlabBytes(c) \in Nat /\ SlabBytes(c) > 0
<1>1. Size[c] \in Nat /\ Size[c] > 0 /\ Count[c] \in Nat /\ 1 <= Count[c]
  BY ClassProperties
<1>2. Size[c] * 1 <= Size[c] * Count[c] /\ Size[c] * Count[c] \in Nat /\ Size[c] * 1 = Size[c]
  BY <1>1, TimesMonotonic
<1>3. QED
  BY <1>1, <1>2 DEF SlabBytes

LEMMA InRegion ==
  ASSUME NEW a \in Nat, NEW n \in Nat, NEW x
  PROVE  x \in Region(a, n) <=> x \in Nat /\ a <= x /\ x < a + n
BY DEF Region

LEMMA ChunksApart ==
  ASSUME NEW c \in Classes, NEW i \in Nat, NEW k \in Nat, i < k
  PROVE  i * Size[c] + Size[c] <= k * Size[c]
<1>1. Size[c] \in Nat
  BY ClassProperties
<1>2. Size[c] * (i + 1) <= Size[c] * k
  BY <1>1, TimesMonotonic
<1>3. Size[c] * (i + 1) = i * Size[c] + Size[c] /\ Size[c] * k = k * Size[c]
  BY <1>1
<1>4. QED
  BY <1>2, <1>3

\* The chunks of a slab lie inside it.
LEMMA ChunkFits ==
  ASSUME NEW c \in Classes, NEW k \in 0 .. Count[c] - 1
  PROVE  k * Size[c] \in Nat /\ k * Size[c] + Size[c] <= SlabBytes(c)
<1>1. Size[c] \in Nat /\ Count[c] \in Nat
  BY ClassProperties
<1>2. k \in Nat /\ k < Count[c]
  BY <1>1
<1>3. k * Size[c] + Size[c] <= Count[c] * Size[c]
  BY <1>1, <1>2, ChunksApart
<1>4. k * Size[c] \in Nat /\ Count[c] * Size[c] = SlabBytes(c)
  BY <1>1, <1>2 DEF SlabBytes
<1>5. QED
  BY <1>3, <1>4

\* Taking the first of l chunks.
LEMMA TakeFirst ==
  ASSUME NEW c \in Classes, NEW ch \in Nat, NEW l \in Nat, l > 0,
         NEW next, l - 1 > 0 => next = ch + Size[c]
  PROVE  /\ ChunksFrom(ch, l, c) = {ch} \cup ChunksFrom(next, l - 1, c)
         /\ ch \notin ChunksFrom(next, l - 1, c)
<1>1. Size[c] \in Nat /\ Size[c] > 0
  BY ClassProperties
<1>2. \A k \in Nat : (k + 1) * Size[c] = k * Size[c] + Size[c] /\ k * Size[c] \in Nat
  BY <1>1
<1>3. ASSUME NEW x \in ChunksFrom(ch, l, c) PROVE x \in {ch} \cup ChunksFrom(next, l - 1, c)
  <2>1. PICK k \in 0 .. l - 1 : x = ch + k * Size[c]
    BY <1>3 DEF ChunksFrom
  <2>2. CASE k = 0
    <3>1. 0 * Size[c] = 0
      BY <1>1
    <3>2. QED
      BY <2>1, <2>2, <3>1
  <2>3. CASE k # 0
    <3>1. k - 1 \in 0 .. (l - 1) - 1 /\ k - 1 \in Nat /\ l - 1 > 0 /\ (k - 1) + 1 = k
      BY <2>3
    <3>2. k * Size[c] = (k - 1) * Size[c] + Size[c] /\ (k - 1) * Size[c] \in Nat
      BY <1>2, <3>1
    <3>3. x = next + (k - 1) * Size[c]
      BY <1>1, <2>1, <3>1, <3>2
    <3>4. QED
      BY <3>1, <3>3 DEF ChunksFrom
  <2>4. QED
    BY <2>2, <2>3
<1>4. ASSUME NEW x \in ChunksFrom(next, l - 1, c) PROVE x \in ChunksFrom(ch, l, c) /\ x # ch
  <2>1. PICK k \in 0 .. (l - 1) - 1 : x = next + k * Size[c]
    BY <1>4 DEF ChunksFrom
  <2>2. k \in Nat /\ k + 1 \in 0 .. l - 1 /\ l - 1 > 0
    BY <2>1
  <2>3. (k + 1) * Size[c] = k * Size[c] + Size[c] /\ k * Size[c] \in Nat
    BY <1>2, <2>2
  <2>4. x = ch + (k + 1) * Size[c] /\ x # ch
    BY <1>1, <2>1, <2>2, <2>3
  <2>5. QED
    BY <2>2, <2>4 DEF ChunksFrom
<1>5. ch \in ChunksFrom(ch, l, c)
  <2>1. 0 \in 0 .. l - 1 /\ ch = ch + 0 * Size[c]
    BY <1>1
  <2>2. QED
    BY <2>1 DEF ChunksFrom
<1>6. QED
  BY <1>3, <1>4, <1>5

LEMMA CarvedIs ==
  ASSUME NEW c \in Classes
  PROVE  /\ Carved(c) = ChunksOf(slab[c], c) \ ChunksFrom(chunk[c], left[c], c)
         /\ Uncarved(c) = ChunksFrom(chunk[c], left[c], c)
<1>1. Uncarved(c) = ChunksFrom(chunk[c], left[c], c)
  BY DEF Uncarved, ChunksFrom
<1>2. Carved(c) = ChunksOf(slab[c], c) \ Uncarved(c)
  BY DEF Carved, Uncarved, ChunksOf
<1>3. QED
  BY <1>1, <1>2

LEMMA NoChunksFrom == \A ch, c : ChunksFrom(ch, 0, c) = {}
BY DEF ChunksFrom

\* The types of the variables for one class.
LEMMA TypeOfClass ==
  ASSUME TypeOK, NEW c \in Classes
  PROVE  /\ cur \in Nat /\ cur <= MaxSize /\ freeSize \in Nat
         /\ slab[c] \in Seq(0 .. MaxSize - 1) /\ slab[c] \in Seq(Nat)
         /\ chunk[c] # NoChunk => chunk[c] \in Nat /\ chunk[c] < MaxSize
         /\ left[c] \in Nat /\ left[c] < Count[c]
         /\ freeChunk[c] \in Seq(0 .. MaxSize - 1)
<1>1. MaxSize \in Nat /\ Count[c] \in Nat
  BY MaxSizeType, ClassProperties
<1>2. /\ cur \in 0 .. MaxSize /\ freeSize \in 0 .. MaxSize
      /\ slab[c] \in Seq(0 .. MaxSize - 1) /\ freeChunk[c] \in Seq(0 .. MaxSize - 1)
      /\ chunk[c] \in {NoChunk} \cup 0 .. MaxSize - 1
      /\ left[c] \in Nat /\ left[c] < Count[c]
  BY DEF TypeOK
<1>3. slab[c] \in Seq(Nat)
  <2>1. 0 .. MaxSize - 1 \subseteq Nat
    BY <1>1
  <2>2. QED
    BY <1>2, <2>1, SeqMonotonic
<1>4. QED
  BY <1>1, <1>2, <1>3

\* Slabs and chunks lie below cur.
LEMMA SlabBelowCur ==
  ASSUME TypeOK, SlabsDisjoint, NEW c \in Classes, NEW i \in DOMAIN slab[c]
  PROVE  slab[c][i] \in Nat /\ slab[c][i] + SlabBytes(c) <= cur
<1>1. /\ slab[c][i] \in Nat /\ cur \in Nat /\ SlabBytes(c) \in Nat /\ SlabBytes(c) > 0
  BY TypeOfClass, SlabBytesType, ElementOfSeq, LenProperties
<1> DEFINE last == slab[c][i] + SlabBytes(c) - 1
<1>2. last \in Nat /\ slab[c][i] <= last /\ last < slab[c][i] + SlabBytes(c)
  BY <1>1
<1> HIDE DEF last
<1>3. last \in SlabRegion(c, i)
  BY <1>1, <1>2, InRegion DEF SlabRegion
<1>4. SlabRegion(c, i) \subseteq Region(0, cur)
  <2>1. UNION {UNION {Region(slab[d][j], SlabBytes(d)) : j \in DOMAIN slab[d]} : d \in Classes} = Region(0, cur)
    BY DEF SlabsDisjoint
  <2>2. SlabRegion(c, i) \in {Region(slab[c][j], SlabBytes(c)) : j \in DOMAIN slab[c]}
    BY DEF SlabRegion
  <2>3. SlabRegion(c, i) \subseteq UNION {Region(slab[c][j], SlabBytes(c)) : j \in DOMAIN slab[c]}
    BY <2>2
  <2>4. QED
    BY <2>1, <2>3
<1>5. last < 0 + cur
  BY <1>1, <1>3, <1>4, InRegion
<1>6. QED
  BY <1>1, <1>5 DEF last

LEMMA ChunkBelowCur ==
  ASSUME TypeOK, SlabsDisjoint, NEW c \in Classes, NEW x \in ChunksOf(slab[c], c)
  PROVE  x \in Nat /\ x < cur
<1>1. PICK i \in DOMAIN slab[c], k \in 0 .. Count[c] - 1 : x = slab[c][i] + k * Size[c]
  BY DEF ChunksOf, Range
<1>2. /\ slab[c][i] \in Nat /\ slab[c][i] + SlabBytes(c) <= cur
      /\ k * Size[c] \in Nat /\ k * Size[c] + Size[c] <= SlabBytes(c)
  BY SlabBelowCur, ChunkFits
<1>3. Size[c] \in Nat /\ Size[c] > 0 /\ SlabBytes(c) \in Nat /\ cur \in Nat
  BY ClassProperties, SlabBytesType, TypeOfClass
<1>4. QED
  BY <1>1, <1>2, <1>3

\* What is still to be carved, in terms of the last slab.
LEMMA NextChunk ==
  ASSUME TypeOK, NEW c \in Classes, Carving(c), left[c] > 0
  PROVE  /\ Len(slab[c]) \in DOMAIN slab[c] /\ Last(slab[c]) = slab[c][Len(slab[c])]
         /\ Last(slab[c]) \in Nat /\ chunk[c] \in Nat
         /\ Count[c] - left[c] \in 0 .. Count[c] - 1
         /\ chunk[c] = Last(slab[c]) + (Count[c] - left[c]) * Size[c]
<1>1. slab[c] \in Seq(Nat) /\ slab[c] # << >>
  BY TypeOfClass DEF Carving
<1>2. Len(slab[c]) \in Nat /\ Len(slab[c]) # 0 /\ DOMAIN slab[c] = 1 .. Len(slab[c])
  BY <1>1, LenProperties, EmptySeq
<1>3. Len(slab[c]) \in DOMAIN slab[c]
  BY <1>2
<1>4. Last(slab[c]) = slab[c][Len(slab[c])] /\ Last(slab[c]) \in Nat
  BY <1>1, <1>2, <1>3, ElementOfSeq DEF Last
<1>5. Count[c] \in Nat /\ left[c] \in Nat /\ left[c] < Count[c]
  BY ClassProperties, TypeOfClass
<1>6. Count[c] - left[c] \in 0 .. Count[c] - 1
  BY <1>5
<1>7. chunk[c] = Last(slab[c]) + (Count[c] - left[c]) * Size[c]
  BY DEF Carving
<1>8. chunk[c] \in Nat
  BY <1>4, <1>6, <1>7, ChunkFits
<1>9. QED
  BY <1>3, <1>4, <1>6, <1>7, <1>8

LEMMA UncarvedInLast ==
  ASSUME TypeOK, NEW c \in Classes, Carving(c), NEW x \in ChunksFrom(chunk[c], left[c], c)
  PROVE  /\ left[c] > 0
         /\ \E k \in 0 .. Count[c] - 1 : x = Last(slab[c]) + k * Size[c]
<1>1. left[c] \in Nat /\ left[c] < Count[c] /\ Count[c] \in Nat /\ Size[c] \in Nat
  BY TypeOfClass, ClassProperties
<1>2. PICK j \in 0 .. left[c] - 1 : x = chunk[c] + j * Size[c]
  BY DEF ChunksFrom
<1>3. left[c] > 0
  BY <1>1, <1>2
<1> DEFINE m == Count[c] - left[c]
<1>4. Last(slab[c]) \in Nat /\ m \in 0 .. Count[c] - 1 /\ chunk[c] = Last(slab[c]) + m * Size[c]
  BY <1>3, NextChunk
<1>5. m + j \in 0 .. Count[c] - 1
  <2>1. j \in Int /\ 0 <= j /\ j <= left[c] - 1
    BY <1>1, <1>2
  <2>2. QED
    BY <1>1, <2>1
<1> HIDE DEF m
<1>6. m \in Nat /\ j \in Nat /\ m * Size[c] \in Nat /\ j * Size[c] \in Nat
      /\ (m + j) * Size[c] = m * Size[c] + j * Size[c]
  BY <1>1, <1>2, <1>4
<1>7. x = Last(slab[c]) + (m + j) * Size[c]
  BY <1>2, <1>4, <1>6
<1>8. QED
  BY <1>3, <1>5, <1>7

LEMMA UncarvedAreChunks ==
  ASSUME TypeOK, NEW c \in Classes, Carving(c)
  PROVE  ChunksFrom(chunk[c], left[c], c) \subseteq ChunksOf(slab[c], c)
<1> SUFFICES ASSUME NEW x \in ChunksFrom(chunk[c], left[c], c) PROVE x \in ChunksOf(slab[c], c)
  OBVIOUS
<1>1. PICK k \in 0 .. Count[c] - 1 : x = Last(slab[c]) + k * Size[c]
  BY UncarvedInLast
<1>2. Last(slab[c]) \in Range(slab[c])
  BY UncarvedInLast, NextChunk DEF Range
<1>3. QED
  BY <1>1, <1>2 DEF ChunksOf

-----------------------------------------------------------------------------
(* What a step changes.                                                    *)

LEMMA GiveEffects ==
  ASSUME NEW addr, NEW size, NEW c \in Classes, Give(addr, size, c)
  PROVE  LET r == [addr |-> addr, size |-> size, id |-> c]
         IN  /\ live' = live \cup {r}
             /\ LiveIn(c)' = LiveIn(c) \cup {r}
             /\ Held(c)' = Held(c) \cup {addr}
             /\ \A d \in Classes : d # c => LiveIn(d)' = LiveIn(d)
<1> DEFINE r == [addr |-> addr, size |-> size, id |-> c]
<1>1. live' = live \cup {r} /\ r.addr = addr /\ r.id = c
  BY DEF Give
<1> HIDE DEF r
<1>2. LiveIn(c)' = LiveIn(c) \cup {r}
  BY <1>1 DEF LiveIn
<1>3. Held(c)' = Held(c) \cup {addr}
  BY <1>1, <1>2 DEF Held
<1>4. ASSUME NEW d \in Classes, d # c PROVE LiveIn(d)' = LiveIn(d)
  BY <1>1, <1>4 DEF LiveIn
<1>5. QED
  BY <1>1, <1>2, <1>3, <1>4 DEF r

\* A class that a step leaves alone.
LEMMA CarvingFrame ==
  ASSUME NEW d \in Classes, slab'[d] = slab[d], chunk'[d] = chunk[d], left'[d] = left[d]
  PROVE  Carved(d)' = Carved(d) /\ (Carving(d) => Carving(d)')
<1>1. Carved(d)' = Carved(d)
  BY DEF Carved
<1>2. Carving(d) => Carving(d)'
  BY DEF Carving
<1>3. QED
  BY <1>1, <1>2

LEMMA PlacesFrame ==
  ASSUME NEW d \in Classes, Carved(d)' = Carved(d), freeChunk'[d] = freeChunk[d],
         LiveIn(d)' = LiveIn(d), Places(d)
  PROVE  Places(d)'
<1>1. Held(d)' = Held(d)
  BY DEF Held
<1>2. QED
  BY <1>1 DEF Places

\* Carving one more chunk, from the slab there is.
LEMMA CarveGrows ==
  ASSUME TypeOK, NEW size, NEW c \in Classes, Carving(c), Carve(size, c)
  PROVE  /\ left[c] > 0 /\ chunk[c] \in Nat /\ chunk[c] < MaxSize
         /\ left'[c] \in 0 .. Count[c] - 1
         /\ left'[c] > 0 => chunk'[c] = chunk[c] + Size[c]
         /\ left'[c] = 0 => chunk'[c] = NoChunk
         /\ chunk[c] \notin Carved(c)
         /\ Carved(c)' = Carved(c) \cup {chunk[c]}
         /\ Carving(c)'
<1>1. /\ left[c] \in Nat /\ left[c] < Count[c] /\ Count[c] \in Nat /\ Size[c] \in Nat
      /\ chunk[c] # NoChunk /\ slab' = slab
  BY TypeOfClass, ClassProperties DEF Carve
<1>2. left[c] > 0 /\ chunk[c] \in Nat /\ chunk[c] < MaxSize
  BY <1>1, TypeOfClass DEF Carving
<1>3. left'[c] = left[c] - 1 /\ chunk'[c] = IF left[c] - 1 > 0 THEN chunk[c] + Size[c] ELSE NoChunk
  BY DEF Carve, Take, TypeOK
<1>4. /\ left'[c] \in 0 .. Count[c] - 1
      /\ left'[c] > 0 => chunk'[c] = chunk[c] + Size[c]
      /\ left'[c] = 0 => chunk'[c] = NoChunk
  BY <1>1, <1>2, <1>3
<1> DEFINE U  == ChunksFrom(chunk[c], left[c], c)
           U2 == ChunksFrom(chunk'[c], left[c] - 1, c)
           A  == ChunksOf(slab[c], c)
<1>5. U = {chunk[c]} \cup U2 /\ chunk[c] \notin U2
  BY <1>1, <1>2, <1>3, TakeFirst
<1>6. U \subseteq A
  BY UncarvedAreChunks
<1>7. Carved(c) = A \ U
  BY CarvedIs
<1>8. Carved(c)' = A \ U2
  BY <1>1, <1>3 DEF Carved, ChunksOf, ChunksFrom
<1> HIDE DEF U, U2, A
<1>9. chunk[c] \notin Carved(c) /\ Carved(c)' = Carved(c) \cup {chunk[c]}
  BY <1>5, <1>6, <1>7, <1>8
<1>10. Carving(c)'
  <2>1. CASE left'[c] = 0
    BY <1>4, <2>1 DEF Carving
  <2>2. CASE left'[c] > 0
    <3> DEFINE m == Count[c] - left[c]
    <3>1. Last(slab[c]) \in Nat /\ m \in Nat /\ chunk[c] = Last(slab[c]) + m * Size[c] /\ slab[c] # << >>
      BY <1>1, <1>2, NextChunk DEF Carving
    <3>2. Count[c] - left'[c] = m + 1
      BY <1>1, <1>3
    <3> HIDE DEF m
    <3>3. (m + 1) * Size[c] = m * Size[c] + Size[c] /\ m * Size[c] \in Nat
      BY <1>1, <3>1
    <3>4. chunk'[c] = Last(slab[c]) + (m + 1) * Size[c]
      BY <1>1, <1>4, <2>2, <3>1, <3>3
    <3>5. slab'[c] # << >> /\ chunk'[c] = Last(slab'[c]) + (Count[c] - left'[c]) * Size[c]
      BY <1>1, <3>1, <3>2, <3>4
    <3>6. left'[c] # 0
      BY <2>2
    <3>7. QED
      BY <3>5, <3>6, Zenon DEF Carving
  <2>3. left'[c] = 0 \/ left'[c] > 0
    BY <1>1, <1>2, <1>3
  <2>4. QED
    BY <2>1, <2>2, <2>3
<1>11. QED
  BY <1>2, <1>4, <1>9, <1>10

LEMMA AppendRange ==
  ASSUME NEW S, NEW s \in Seq(S), NEW x \in S
  PROVE  /\ Append(s, x) \in Seq(S) /\ Len(Append(s, x)) = Len(s) + 1
         /\ Append(s, x) # << >> /\ Last(Append(s, x)) = x
         /\ DOMAIN s = 1 .. Len(s) /\ Len(s) \in Nat
         /\ DOMAIN Append(s, x) = DOMAIN s \cup {Len(s) + 1}
         /\ \A i \in DOMAIN s : Append(s, x)[i] = s[i]
         /\ Append(s, x)[Len(s) + 1] = x
         /\ Range(Append(s, x)) = Range(s) \cup {x}
<1> DEFINE t == Append(s, x)
<1>1. /\ t \in Seq(S) /\ Len(t) = Len(s) + 1
      /\ \A i \in 1 .. Len(s) : t[i] = s[i]
      /\ t[Len(s) + 1] = x
  BY AppendProperties
<1>2. Len(s) \in Nat /\ DOMAIN s = 1 .. Len(s) /\ DOMAIN t = 1 .. Len(s) + 1
  BY <1>1, LenProperties
<1> HIDE DEF t
<1>3. 1 .. Len(s) + 1 = (1 .. Len(s)) \cup {Len(s) + 1}
  BY <1>2
<1>4. DOMAIN t = DOMAIN s \cup {Len(s) + 1}
  BY <1>2, <1>3
<1>5. Range(t) = Range(s) \cup {x}
  <2>1. ASSUME NEW y \in Range(t) PROVE y \in Range(s) \cup {x}
    <3>1. PICK i \in DOMAIN t : y = t[i]
      BY <2>1 DEF Range
    <3>2. CASE i \in DOMAIN s
      BY <1>1, <1>2, <3>1, <3>2 DEF Range
    <3>3. CASE i = Len(s) + 1
      BY <1>1, <3>1, <3>3
    <3>4. QED
      BY <1>4, <3>2, <3>3
  <2>2. ASSUME NEW y \in Range(s) PROVE y \in Range(t)
    <3>1. PICK i \in DOMAIN s : y = s[i]
      BY <2>2 DEF Range
    <3>2. i \in DOMAIN t /\ y = t[i]
      BY <1>1, <1>2, <1>4, <3>1
    <3>3. QED
      BY <3>2 DEF Range
  <2>3. x \in Range(t)
    BY <1>1, <1>4 DEF Range
  <2>4. QED
    BY <2>1, <2>2, <2>3
<1>6. t # << >> /\ Last(t) = x
  <2>1. t # << >>
    <3>1. Len(t) # 0
      BY <1>1, <1>2
    <3>2. QED
      BY <1>1, <3>1, EmptySeq
  <2>2. QED
    BY <1>1, <2>1 DEF Last
<1>7. QED
  BY <1>1, <1>2, <1>4, <1>5, <1>6 DEF t

LEMMA NewSlabTypes ==
  ASSUME TypeOK, SlabsDisjoint, NEW size, NEW c \in Classes, NewSlab(size, c)
  PROVE  /\ cur \in 0 .. MaxSize - 1 /\ cur \in Nat
         /\ cur' = cur + SlabBytes(c) /\ cur' + freeSize' = MaxSize
         /\ cur' \in 0 .. MaxSize /\ freeSize' \in 0 .. MaxSize
         /\ slab'[c] = Append(slab[c], cur) /\ slab'[c] \in Seq(0 .. MaxSize - 1)
         /\ \A d \in Classes : d # c => slab'[d] = slab[d]
         /\ slab' \in [Classes -> Seq(0 .. MaxSize - 1)]
<1>1. /\ cur \in Nat /\ cur <= MaxSize /\ freeSize \in Nat /\ MaxSize \in Nat
      /\ slab[c] \in Seq(0 .. MaxSize - 1)
  BY TypeOfClass, MaxSizeType
<1>2. SlabBytes(c) \in Nat /\ SlabBytes(c) > 0
  BY SlabBytesType
<1>3. /\ SlabBytes(c) <= freeSize
      /\ cur' = cur + SlabBytes(c) /\ freeSize' = freeSize - SlabBytes(c)
      /\ slab' = [slab EXCEPT ![c] = Append(@, cur)]
  BY DEF NewSlab
<1>4. cur + freeSize = MaxSize
  BY DEF SlabsDisjoint
<1>5. /\ cur \in 0 .. MaxSize - 1 /\ cur' + freeSize' = MaxSize
      /\ cur' \in 0 .. MaxSize /\ freeSize' \in 0 .. MaxSize
  <2>1. cur \in 0 .. MaxSize - 1
    BY <1>1, <1>2, <1>3, <1>4
  <2>2. freeSize - SlabBytes(c) \in Nat /\ cur + SlabBytes(c) \in Nat
        /\ (cur + SlabBytes(c)) + (freeSize - SlabBytes(c)) = MaxSize
    BY <1>1, <1>2, <1>3, <1>4
  <2>3. cur' \in Nat /\ freeSize' \in Nat /\ cur' + freeSize' = MaxSize
    BY <1>3, <2>2
  <2>4. \A x, y \in Nat : x + y = MaxSize => x \in 0 .. MaxSize /\ y \in 0 .. MaxSize
    BY <1>1
  <2>5. cur' \in 0 .. MaxSize /\ freeSize' \in 0 .. MaxSize
    BY <2>3, <2>4
  <2>6. QED
    BY <2>1, <2>3, <2>5
<1>6. Append(slab[c], cur) \in Seq(0 .. MaxSize - 1)
  BY <1>1, <1>5, AppendProperties
<1>7. slab \in [Classes -> Seq(0 .. MaxSize - 1)]
  BY DEF TypeOK
<1>8. /\ slab'[c] = Append(slab[c], cur)
      /\ \A d \in Classes : d # c => slab'[d] = slab[d]
      /\ slab' \in [Classes -> Seq(0 .. MaxSize - 1)]
  BY <1>3, <1>6, <1>7
<1>9. QED
  BY <1>1, <1>3, <1>5, <1>6, <1>8

\* Carving the first chunk of a new slab.
LEMMA NewSlabGrows ==
  ASSUME TypeOK, SlabsDisjoint, NEW size, NEW c \in Classes, Carving(c), NewSlab(size, c)
  PROVE  /\ left'[c] \in 0 .. Count[c] - 1
         /\ left'[c] > 0 => chunk'[c] = cur + Size[c]
         /\ left'[c] = 0 => chunk'[c] = NoChunk
         /\ cur \notin Carved(c)
         /\ Carved(c)' = Carved(c) \cup {cur}
         /\ Carving(c)'
<1>1. /\ left[c] \in Nat /\ Count[c] \in Nat /\ Count[c] > 0 /\ Size[c] \in Nat /\ chunk[c] = NoChunk
      /\ slab[c] \in Seq(Nat)
  BY TypeOfClass, ClassProperties DEF NewSlab
<1>2. cur \in 0 .. MaxSize - 1 /\ cur \in Nat /\ slab'[c] = Append(slab[c], cur)
  BY NewSlabTypes
<1>3. left[c] = 0
  <2>1. CASE left[c] > 0
    <3>1. chunk[c] \in Nat
      BY <2>1, NextChunk
    <3>2. QED
      BY <1>1, <3>1 DEF NoChunk
  <2>2. QED
    BY <1>1, <2>1
<1>4. left'[c] = Count[c] - 1 /\ chunk'[c] = IF Count[c] - 1 > 0 THEN cur + Size[c] ELSE NoChunk
  BY DEF NewSlab, Take, TypeOK
<1>5. /\ left'[c] \in 0 .. Count[c] - 1
      /\ left'[c] > 0 => chunk'[c] = cur + Size[c]
      /\ left'[c] = 0 => chunk'[c] = NoChunk
  BY <1>1, <1>4
<1> DEFINE U2 == ChunksFrom(chunk'[c], Count[c] - 1, c)
           B  == ChunksFrom(cur, Count[c], c)
           A  == ChunksOf(slab[c], c)
<1>6. B = {cur} \cup U2 /\ cur \notin U2
  BY <1>1, <1>2, <1>4, TakeFirst
<1>7. Carved(c) = A
  BY <1>3, CarvedIs, NoChunksFrom
<1>8. Carved(c)' = ChunksOf(slab'[c], c) \ U2
  BY <1>4 DEF Carved, ChunksOf, ChunksFrom
<1>9. ChunksOf(slab'[c], c) = A \cup B
  <2>1. Range(slab'[c]) = Range(slab[c]) \cup {cur}
    BY <1>1, <1>2, AppendRange
  <2>2. QED
    BY <2>1 DEF ChunksOf, ChunksFrom
<1>10. A \cap B = {}
  <2>1. \A x \in A : x \in Nat /\ x < cur
    BY ChunkBelowCur
  <2>2. ASSUME NEW x \in B PROVE x >= cur
    <3>1. PICK k \in 0 .. Count[c] - 1 : x = cur + k * Size[c]
      BY DEF ChunksFrom
    <3>2. k * Size[c] \in Nat
      BY ChunkFits
    <3>3. QED
      BY <1>2, <3>1, <3>2
  <2> HIDE DEF A, B
  <2>3. QED
    BY <1>2, <2>1, <2>2
<1> HIDE DEF A, B, U2
<1>11. cur \notin Carved(c) /\ Carved(c)' = Carved(c) \cup {cur}
  BY <1>6, <1>7, <1>8, <1>9, <1>10
<1>12. Carving(c)'
  <2>1. slab'[c] # << >> /\ Last(slab'[c]) = cur
    BY <1>1, <1>2, AppendRange
  <2>2. Count[c] - left'[c] = 1 /\ 1 * Size[c] = Size[c]
    BY <1>1, <1>4
  <2>3. left'[c] > 0 => chunk'[c] = Last(slab'[c]) + (Count[c] - left'[c]) * Size[c]
    BY <1>5, <2>1, <2>2
  <2>4. QED
    BY <1>5, <2>1, <2>3 DEF Carving
<1>13. QED
  BY <1>5, <1>11, <1>12

\* The new slab lies behind all the others, and next to the last of them.
LEMMA NewSlabDisjoint ==
  ASSUME TypeOK, SlabsDisjoint, NEW size, NEW c \in Classes, NewSlab(size, c)
  PROVE  SlabsDisjoint'
<1> DEFINE new == Len(slab[c]) + 1
           R(d, i) == Region(slab'[d][i], SlabBytes(d))
<1>1. /\ cur \in Nat /\ cur' = cur + SlabBytes(c) /\ cur' + freeSize' = MaxSize
      /\ slab'[c] = Append(slab[c], cur)
      /\ \A d \in Classes : d # c => slab'[d] = slab[d]
  BY NewSlabTypes
<1>2. /\ DOMAIN slab'[c] = DOMAIN slab[c] \cup {new} /\ new \notin DOMAIN slab[c]
      /\ \A i \in DOMAIN slab[c] : slab'[c][i] = slab[c][i]
      /\ slab'[c][new] = cur
  <2>1. slab[c] \in Seq(Nat)
    BY TypeOfClass
  <2>2. new \notin 1 .. Len(slab[c])
    BY <2>1, LenProperties
  <2>3. QED
    BY <1>1, <2>1, <2>2, AppendRange
<1> HIDE DEF new
<1>3. SlabBytes(c) \in Nat
  BY SlabBytesType
\* The slabs there were are the slabs there are, but for the new one.
<1>4. ASSUME NEW d \in Classes, NEW i \in DOMAIN slab'[d]
      PROVE  \/ i \in DOMAIN slab[d] /\ R(d, i) = SlabRegion(d, i)
             \/ <<d, i>> = <<c, new>> /\ R(d, i) = Region(cur, SlabBytes(c))
  <2>1. CASE d = c
    BY <1>2, <2>1 DEF SlabRegion
  <2>2. CASE d # c
    BY <1>1, <2>2 DEF SlabRegion
  <2>3. QED
    BY <2>1, <2>2
<1>5. ASSUME NEW d \in Classes, NEW i \in DOMAIN slab[d]
      PROVE  i \in DOMAIN slab'[d] /\ R(d, i) = SlabRegion(d, i) /\ <<d, i>> # <<c, new>>
  <2>1. CASE d = c
    BY <1>2, <2>1 DEF SlabRegion
  <2>2. CASE d # c
    BY <1>1, <2>2 DEF SlabRegion
  <2>3. QED
    BY <2>1, <2>2
<1>6. new \in DOMAIN slab'[c] /\ R(c, new) = Region(cur, SlabBytes(c))
  BY <1>2
<1>7. UNION {UNION {SlabRegion(d, i) : i \in DOMAIN slab[d]} : d \in Classes} = Region(0, cur)
  BY DEF SlabsDisjoint, SlabRegion
<1>8. \A d \in Classes : \A i \in DOMAIN slab[d] : SlabRegion(d, i) \subseteq Region(0, cur)
  BY <1>7
<1>9. \A d, e \in Classes : \A i \in DOMAIN slab[d], j \in DOMAIN slab[e] :
        <<d, i>> # <<e, j>> => SlabRegion(d, i) \cap SlabRegion(e, j) = {}
  BY Zenon DEF SlabsDisjoint, SlabRegion
<1>10. Region(0, cur) \cap Region(cur, SlabBytes(c)) = {}
       /\ Region(0, cur) \cup Region(cur, SlabBytes(c)) = Region(0, cur')
  <2>1. \A x : x \in Region(0, cur) <=> x \in Nat /\ x < cur
    BY <1>1, InRegion
  <2>2. \A x : x \in Region(cur, SlabBytes(c)) <=> x \in Nat /\ cur <= x /\ x < cur + SlabBytes(c)
    BY <1>1, <1>3, InRegion
  <2>3. \A x : x \in Region(0, cur') <=> x \in Nat /\ x < cur + SlabBytes(c)
    <3>1. cur + SlabBytes(c) \in Nat
      BY <1>1, <1>3
    <3>2. QED
      BY <1>1, <3>1, InRegion
  <2>4. QED
    BY <1>1, <1>3, <2>1, <2>2, <2>3
<1> HIDE DEF R
<1>11. ASSUME NEW d \in Classes, NEW e \in Classes,
              NEW i \in DOMAIN slab'[d], NEW j \in DOMAIN slab'[e], <<d, i>> # <<e, j>>
       PROVE  R(d, i) \cap R(e, j) = {}
  <2>1. CASE <<d, i>> = <<c, new>>
    <3>1. ~ (<<e, j>> = <<c, new>>)
      BY <1>11, <2>1
    <3>2. R(d, i) = Region(cur, SlabBytes(c)) /\ j \in DOMAIN slab[e] /\ R(e, j) = SlabRegion(e, j)
      BY <1>4, <1>6, <2>1, <3>1
    <3>3. R(e, j) \subseteq Region(0, cur)
      BY <1>8, <3>2
    <3>4. QED
      BY <1>10, <3>2, <3>3
  <2>2. CASE <<e, j>> = <<c, new>>
    <3>1. ~ (<<d, i>> = <<c, new>>)
      BY <1>11, <2>2
    <3>2. R(e, j) = Region(cur, SlabBytes(c)) /\ i \in DOMAIN slab[d] /\ R(d, i) = SlabRegion(d, i)
      BY <1>4, <1>6, <2>2, <3>1
    <3>3. R(d, i) \subseteq Region(0, cur)
      BY <1>8, <3>2
    <3>4. QED
      BY <1>10, <3>2, <3>3
  <2>3. CASE ~ (<<d, i>> = <<c, new>>) /\ ~ (<<e, j>> = <<c, new>>)
    <3>1. /\ i \in DOMAIN slab[d] /\ R(d, i) = SlabRegion(d, i)
          /\ j \in DOMAIN slab[e] /\ R(e, j) = SlabRegion(e, j)
      BY <1>4, <2>3
    <3>2. QED
      BY <1>9, <1>11, <3>1
  <2>4. QED
    BY <2>1, <2>2, <2>3
<1>12. UNION {UNION {R(d, i) : i \in DOMAIN slab'[d]} : d \in Classes} = Region(0, cur')
  <2> DEFINE T == UNION {UNION {R(d, i) : i \in DOMAIN slab'[d]} : d \in Classes}
  <2>1. \A x : x \in T <=> \E d \in Classes : \E i \in DOMAIN slab'[d] : x \in R(d, i)
    OBVIOUS
  <2>2. \A x : x \in Region(0, cur) <=> \E d \in Classes : \E i \in DOMAIN slab[d] : x \in SlabRegion(d, i)
    BY <1>7
  <2> HIDE DEF T
  <2>3. ASSUME NEW x \in T PROVE x \in Region(0, cur')
    <3>1. PICK d \in Classes : \E i \in DOMAIN slab'[d] : x \in R(d, i)
      BY <2>1, <2>3
    <3>2. PICK i \in DOMAIN slab'[d] : x \in R(d, i)
      BY <3>1
    <3>3. R(d, i) \subseteq Region(0, cur) \/ R(d, i) = Region(cur, SlabBytes(c))
      BY <1>4, <1>8
    <3>4. QED
      BY <1>10, <3>2, <3>3
  <2>4. ASSUME NEW x \in Region(0, cur') PROVE x \in T
    <3>1. CASE x \in Region(0, cur)
      BY <1>5, <2>1, <2>2, <3>1
    <3>2. CASE x \in Region(cur, SlabBytes(c))
      BY <1>6, <2>1, <3>2
    <3>3. QED
      BY <1>10, <2>4, <3>1, <3>2
  <2>5. QED
    BY <2>3, <2>4 DEF T
<1>13. QED
  BY <1>1, <1>11, <1>12, Zenon DEF SlabsDisjoint, R, SlabBytes

-----------------------------------------------------------------------------
(* The stack of freed chunks.                                              *)

LEMMA FrontRange ==
  ASSUME NEW S, NEW s \in Seq(S), s # << >>, IsInjective(s)
  PROVE  /\ Last(s) \in S /\ Last(s) \in Range(s)
         /\ Front(s) \in Seq(S) /\ IsInjective(Front(s))
         /\ Range(Front(s)) = Range(s) \ {Last(s)}
<1> DEFINE n == Len(s)
           t == Front(s)
<1>1. n \in Nat /\ n > 0 /\ DOMAIN s = 1 .. n
  BY LenProperties, EmptySeq
<1>2. n \in 1 .. n /\ s[n] \in S
  BY <1>1, ElementOfSeq
<1>3. Last(s) = s[n] /\ Last(s) \in Range(s)
  BY <1>1, <1>2 DEF Last, Range
<1>4. t \in Seq(S) /\ DOMAIN t = 1 .. n - 1 /\ \A i \in 1 .. n - 1 : t[i] = s[i]
  <2>1. \A i \in 1 .. n - 1 : s[i] \in S
    BY <1>1, ElementOfSeq
  <2> HIDE DEF n
  <2>2. t = SubSeq(s, 1, n - 1)
    BY DEF Front, n
  <2>3. SubSeq(s, 1, n - 1) = [i \in 1 .. n - 1 |-> s[i]]
    BY <1>1
  <2>4. n - 1 \in Nat
    BY <1>1
  <2>5. QED
    BY <2>1, <2>2, <2>3, <2>4
<1> HIDE DEF n, t
<1>5. 1 .. n = (1 .. n - 1) \cup {n} /\ n \notin 1 .. n - 1
  BY <1>1
<1>6. \A i, j \in 1 .. n : s[i] = s[j] => i = j
  BY <1>1 DEF IsInjective
<1>7. IsInjective(t)
  BY <1>4, <1>5, <1>6 DEF IsInjective
<1>8. Range(t) = Range(s) \ {s[n]}
  <2>1. Range(t) = {s[i] : i \in 1 .. n - 1}
    BY <1>4 DEF Range
  <2>2. Range(s) = {s[i] : i \in 1 .. n}
    BY <1>1 DEF Range
  <2>3. QED
    BY <1>5, <1>6, <2>1, <2>2
<1>9. QED
  BY <1>2, <1>3, <1>4, <1>7, <1>8 DEF t

LEMMA PushInjective ==
  ASSUME NEW S, NEW s \in Seq(S), NEW x \in S, IsInjective(s), x \notin Range(s)
  PROVE  IsInjective(Append(s, x))
<1> DEFINE t == Append(s, x)
<1>1. /\ DOMAIN t = DOMAIN s \cup {Len(s) + 1}
      /\ \A i \in DOMAIN s : t[i] = s[i]
      /\ t[Len(s) + 1] = x
  BY AppendRange
<1>2. \A i \in DOMAIN s : s[i] # x
  BY DEF Range
<1> HIDE DEF t
<1>3. \A i, j \in DOMAIN t : t[i] = t[j] => i = j
  BY <1>1, <1>2, Zenon DEF IsInjective
<1>4. QED
  BY <1>3 DEF IsInjective, t

-----------------------------------------------------------------------------
(* Where the chunks are.                                                   *)

\* A chunk that is carved has nobody's address yet.
LEMMA GivesCarved ==
  ASSUME NEW size, NEW c \in Classes, NEW addr, Give(addr, size, c), Places(c),
         freeChunk[c] = << >>, freeChunk'[c] = freeChunk[c],
         addr \notin Carved(c), Carved(c)' = Carved(c) \cup {addr}
  PROVE  Places(c)'
<1> DEFINE r == [addr |-> addr, size |-> size, id |-> c]
<1>1. r.addr = addr /\ LiveIn(c)' = LiveIn(c) \cup {r} /\ Held(c)' = Held(c) \cup {addr}
  BY GiveEffects
<1>2. Range(freeChunk[c]) = {} /\ Held(c) = Carved(c)
  <2>1. Range(<< >>) = {}
    BY DEF Range
  <2>2. Held(c) \cup Range(freeChunk[c]) = Carved(c)
    BY DEF Places
  <2>3. QED
    BY <2>1, <2>2
<1> HIDE DEF r
<1>3. \A a \in LiveIn(c) : a.addr # addr
  BY <1>2 DEF Held
<1>4. \A a, b \in LiveIn(c)' : a.addr = b.addr => a = b
  BY <1>1, <1>3 DEF Places
<1>5. IsInjective(freeChunk'[c])
  BY DEF Places
<1>6. Range(freeChunk'[c]) = {}
  BY <1>2
<1>7. QED
  BY <1>1, <1>2, <1>4, <1>5, <1>6 DEF Places

\* A chunk that is taken from the stack neither.
LEMMA GivesFreed ==
  ASSUME TypeOK, NEW size, NEW c \in Classes, Reuse(size, c), Places(c)
  PROVE  /\ Last(freeChunk[c]) \in 0 .. MaxSize - 1
         /\ freeChunk' \in [Classes -> Seq(0 .. MaxSize - 1)]
         /\ \A d \in Classes : d # c => freeChunk'[d] = freeChunk[d]
         /\ Last(freeChunk[c]) \notin Held(c) /\ Last(freeChunk[c]) \in Carved(c)
         /\ Places(c)'
<1> DEFINE addr == Last(freeChunk[c])
           r == [addr |-> addr, size |-> size, id |-> c]
           S == 0 .. MaxSize - 1
<1>1. /\ Give(addr, size, c) /\ freeChunk[c] # << >> /\ slab' = slab /\ chunk' = chunk /\ left' = left
      /\ freeChunk' = [freeChunk EXCEPT ![c] = Front(@)]
  BY DEF Reuse
<1>2. freeChunk \in [Classes -> Seq(S)]
  BY DEF TypeOK
<1>3. freeChunk[c] \in Seq(S) /\ IsInjective(freeChunk[c])
  BY <1>2 DEF Places
<1>4. r.addr = addr /\ LiveIn(c)' = LiveIn(c) \cup {r} /\ Held(c)' = Held(c) \cup {addr}
  BY <1>1, GiveEffects
<1> HIDE DEF r, S
<1>5. /\ addr \in S /\ addr \in Range(freeChunk[c])
      /\ Front(freeChunk[c]) \in Seq(S) /\ IsInjective(Front(freeChunk[c]))
      /\ Range(Front(freeChunk[c])) = Range(freeChunk[c]) \ {addr}
  BY <1>1, <1>3, FrontRange
<1>6. /\ freeChunk' \in [Classes -> Seq(S)]
      /\ freeChunk'[c] = Front(freeChunk[c])
      /\ \A d \in Classes : d # c => freeChunk'[d] = freeChunk[d]
  BY <1>1, <1>2, <1>5
<1> HIDE DEF addr
<1>7. addr \notin Held(c) /\ addr \in Carved(c)
  BY <1>5 DEF Places
<1>8. Carved(c)' = Carved(c)
  BY <1>1 DEF Carved
<1>9. \A a \in LiveIn(c) : a.addr # addr
  BY <1>7 DEF Held
<1>10. \A a, b \in LiveIn(c)' : a.addr = b.addr => a = b
  BY <1>4, <1>9 DEF Places
<1>11. /\ Held(c)' \cap Range(freeChunk'[c]) = {}
       /\ Held(c)' \cup Range(freeChunk'[c]) = Carved(c)'
  BY <1>4, <1>5, <1>6, <1>8 DEF Places
<1>12. IsInjective(freeChunk'[c])
  BY <1>5, <1>6
<1>13. Places(c)'
  BY <1>10, <1>11, <1>12 DEF Places
<1>14. QED
  BY <1>5, <1>6, <1>7, <1>13 DEF addr, S

\* A chunk that is freed goes from its caller to the stack.
LEMMA TakesBack ==
  ASSUME TypeOK, NEW a \in live, Pfree(a), Places(a.id)
  PROVE  /\ freeChunk' \in [Classes -> Seq(0 .. MaxSize - 1)]
         /\ \A d \in Classes : d # a.id => freeChunk'[d] = freeChunk[d] /\ LiveIn(d)' = LiveIn(d)
         /\ Places(a.id)'
<1> DEFINE c == a.id
           x == a.addr
           S == 0 .. MaxSize - 1
<1>1. /\ live' = live \ {a} /\ slab' = slab /\ chunk' = chunk /\ left' = left
      /\ freeChunk' = [freeChunk EXCEPT ![c] = Append(@, x)]
  BY DEF Pfree
<1>2. freeChunk \in [Classes -> Seq(S)] /\ c \in Classes /\ x \in S
  BY DEF TypeOK
<1>3. a \in LiveIn(c)
  BY DEF LiveIn
<1>4. LiveIn(c)' = LiveIn(c) \ {a} /\ \A d \in Classes : d # c => LiveIn(d)' = LiveIn(d)
  BY <1>1 DEF LiveIn
<1> HIDE DEF S, c
<1>5. Places(c)
  BY DEF c
<1>6. \A b \in LiveIn(c) : b.addr = x => b = a
  BY <1>3, <1>5 DEF Places
<1>7. Held(c)' = Held(c) \ {x} /\ x \in Held(c)
  BY <1>3, <1>4, <1>6 DEF Held
<1> HIDE DEF x
<1>8. freeChunk[c] \in Seq(S) /\ IsInjective(freeChunk[c]) /\ x \notin Range(freeChunk[c])
  BY <1>2, <1>5, <1>7 DEF Places
<1>9. /\ Append(freeChunk[c], x) \in Seq(S) /\ IsInjective(Append(freeChunk[c], x))
      /\ Range(Append(freeChunk[c], x)) = Range(freeChunk[c]) \cup {x}
  BY <1>2, <1>8, AppendRange, PushInjective
<1>10. /\ freeChunk' \in [Classes -> Seq(S)]
       /\ freeChunk'[c] = Append(freeChunk[c], x)
       /\ \A d \in Classes : d # c => freeChunk'[d] = freeChunk[d]
  BY <1>1, <1>2, <1>9
<1>11. Carved(c)' = Carved(c)
  BY <1>1 DEF Carved
<1>12. \A b, d \in LiveIn(c)' : b.addr = d.addr => b = d
  BY <1>4, <1>5 DEF Places
<1>13. /\ Held(c)' \cap Range(freeChunk'[c]) = {}
       /\ Held(c)' \cup Range(freeChunk'[c]) = Carved(c)'
  BY <1>5, <1>7, <1>9, <1>10, <1>11 DEF Places
<1>14. IsInjective(freeChunk'[c])
  BY <1>9, <1>10
<1>15. Places(c)'
  BY <1>12, <1>13, <1>14 DEF Places
<1>16. QED
  BY <1>4, <1>10, <1>15 DEF c, S

-----------------------------------------------------------------------------
(* Counting.                                                               *)

\* As many addresses as callers.
LEMMA HeldCounts ==
  ASSUME NEW c \in Classes, Places(c), IsFiniteSet(live)
  PROVE  /\ IsFiniteSet(LiveIn(c)) /\ IsFiniteSet(Held(c))
         /\ Cardinality(Held(c)) = Cardinality(LiveIn(c)) /\ Cardinality(LiveIn(c)) \in Nat
<1>1. IsFiniteSet(LiveIn(c))
  <2>1. LiveIn(c) \subseteq live
    BY DEF LiveIn
  <2>2. QED
    BY <2>1, FS_Subset
<1> DEFINE f == [a \in LiveIn(c) |-> a.addr]
<1>2. f \in Bijection(LiveIn(c), Held(c))
  <2>1. f \in [LiveIn(c) -> Held(c)]
    BY DEF Held
  <2>2. \A a, b \in LiveIn(c) : f[a] = f[b] => a = b
    BY DEF Places
  <2>3. \A x \in Held(c) : \E a \in LiveIn(c) : f[a] = x
    BY DEF Held
  <2> HIDE DEF f
  <2>4. QED
    BY <2>1, <2>2, <2>3 DEF Bijection, Injection, Surjection, IsInjective
<1>3. ExistsBijection(LiveIn(c), Held(c))
  BY <1>2 DEF ExistsBijection
<1>4. QED
  BY <1>1, <1>3, FS_Bijection, FS_CardinalityType

\* The chunks of a class are finitely many.
LEMMA CarvedFinite ==
  ASSUME TypeOK, NEW c \in Classes, Places(c), IsFiniteSet(live)
  PROVE  IsFiniteSet(Carved(c)) /\ Cardinality(Carved(c)) \in Nat
<1> DEFINE n == Len(freeChunk[c])
<1>1. n \in Nat /\ DOMAIN freeChunk[c] = 1 .. n
  BY TypeOfClass, LenProperties
<1>2. IsFiniteSet(1 .. n)
  BY <1>1, FS_Interval
<1> HIDE DEF n
<1> DEFINE f == [i \in 1 .. n |-> freeChunk[c][i]]
<1>3. f \in Surjection(1 .. n, Range(freeChunk[c]))
  <2>1. Range(freeChunk[c]) = {freeChunk[c][i] : i \in 1 .. n}
    BY <1>1 DEF Range
  <2>2. QED
    BY <2>1 DEF Surjection
<1> HIDE DEF f
<1>4. IsFiniteSet(Range(freeChunk[c]))
  BY <1>2, <1>3, FS_Surjection
<1>5. IsFiniteSet(Held(c) \cup Range(freeChunk[c]))
  BY <1>4, HeldCounts, FS_Union
<1>6. Held(c) \cup Range(freeChunk[c]) = Carved(c)
  BY DEF Places
<1>7. QED
  BY <1>5, <1>6, FS_CardinalityType

LEMMA PeakEffects ==
  ASSUME NEW addr, NEW size, NEW c \in Classes, Give(addr, size, c), peak \in [Classes -> Nat],
         Cardinality(LiveIn(c)) \in Nat
  PROVE  /\ peak' \in [Classes -> Nat]
         /\ peak'[c] = IF peak[c] <= Cardinality(LiveIn(c)) + 1 THEN Cardinality(LiveIn(c)) + 1 ELSE peak[c]
         /\ \A d \in Classes : d # c => peak'[d] = peak[d]
<1> DEFINE n == Cardinality(LiveIn(c)) + 1
           m == Max({peak[c], n})
<1>1. peak[c] \in Nat /\ n \in Nat
  OBVIOUS
<1>2. peak' = [peak EXCEPT ![c] = m]
  BY DEF Give
<1> HIDE DEF n
<1>3. m = IF peak[c] <= n THEN n ELSE peak[c]
  BY <1>1, MaxOfTwo
<1>4. m \in Nat
  BY <1>1, <1>3
<1> HIDE DEF m
<1>5. QED
  BY <1>1, <1>2, <1>3, <1>4 DEF n

\* A chunk is carved for one more allocation than ever before.
LEMMA PeakAfterCarving ==
  ASSUME TypeOK, NEW c \in Classes, NEW addr, NEW size, Give(addr, size, c),
         Places(c), Callers, Peaks, freeChunk[c] = << >>,
         addr \notin Carved(c), Carved(c)' = Carved(c) \cup {addr}
  PROVE  peak'[c] = Cardinality(Carved(c)')
<1>1. Range(<< >>) = {}
  BY DEF Range
<1>2. Held(c) = Carved(c)
  BY <1>1 DEF Places
<1>3. /\ IsFiniteSet(Carved(c)) /\ Cardinality(Carved(c)) \in Nat
      /\ Cardinality(Carved(c)) = Cardinality(LiveIn(c))
  BY <1>2, HeldCounts, CarvedFinite DEF Callers
<1>4. peak[c] = Cardinality(Carved(c)) /\ peak \in [Classes -> Nat]
  BY DEF Peaks, SlabsFollowPeak
<1>5. peak'[c] = Cardinality(Carved(c)) + 1
  BY <1>3, <1>4, PeakEffects
<1>6. Cardinality(Carved(c) \cup {addr}) = Cardinality(Carved(c)) + 1
  BY <1>3, FS_AddElement
<1>7. QED
  BY <1>5, <1>6

\* One that was freed is given again when fewer are held than there were.
LEMMA PeakAfterReuse ==
  ASSUME TypeOK, NEW c \in Classes, NEW addr, NEW size, Give(addr, size, c),
         Places(c), Callers, Peaks, addr \notin Held(c), addr \in Carved(c)
  PROVE  peak'[c] = peak[c]
<1>1. /\ IsFiniteSet(Held(c)) /\ Cardinality(Held(c)) = Cardinality(LiveIn(c))
      /\ Cardinality(LiveIn(c)) \in Nat
      /\ IsFiniteSet(Carved(c)) /\ Cardinality(Carved(c)) \in Nat
  BY HeldCounts, CarvedFinite DEF Callers
<1>2. Cardinality(Held(c) \cup {addr}) = Cardinality(Held(c)) + 1
  BY <1>1, FS_AddElement
<1>3. Held(c) \cup {addr} \in SUBSET Carved(c)
  BY DEF Places
<1>4. Cardinality(Held(c) \cup {addr}) <= Cardinality(Carved(c))
  BY <1>1, <1>3, FS_Subset
<1>5. peak[c] = Cardinality(Carved(c)) /\ peak \in [Classes -> Nat]
  BY DEF Peaks, SlabsFollowPeak
<1>6. peak'[c] = IF peak[c] <= Cardinality(LiveIn(c)) + 1 THEN Cardinality(LiveIn(c)) + 1 ELSE peak[c]
  BY <1>1, <1>5, PeakEffects
<1>7. QED
  BY <1>1, <1>2, <1>4, <1>5, <1>6

-----------------------------------------------------------------------------
(* The invariant is preserved.                                             *)

\* TypeOK, but for the callers.
PoolTyped ==
  /\ cur \in 0 .. MaxSize /\ freeSize \in 0 .. MaxSize
  /\ slab \in [Classes -> Seq(0 .. MaxSize - 1)]
  /\ chunk \in [Classes -> {NoChunk} \cup 0 .. MaxSize - 1]
  /\ left \in [Classes -> Nat] /\ \A c \in Classes : left[c] < Count[c]
  /\ freeChunk \in [Classes -> Seq(0 .. MaxSize - 1)]

\* What is common to the three ways of rs_palloc(): the other classes stay as
\* they are.
LEMMA GiveKeeps ==
  ASSUME PoolInv, NEW size \in Requests, NEW c \in Classes, c = PallocId(size),
         NEW addr \in 0 .. MaxSize - 1, Give(addr, size, c),
         PoolTyped', SlabsDisjoint',
         \A d \in Classes : d # c => /\ slab'[d] = slab[d] /\ chunk'[d] = chunk[d]
                                     /\ left'[d] = left[d] /\ freeChunk'[d] = freeChunk[d],
         Carving(c)', Places(c)', peak'[c] = Cardinality(Carved(c)')
  PROVE  PoolInv'
<1> DEFINE r == [addr |-> addr, size |-> size, id |-> c]
<1>1. /\ r.addr = addr /\ r.size = size /\ r.id = c
      /\ live' = live \cup {r}
      /\ \A d \in Classes : d # c => LiveIn(d)' = LiveIn(d)
  BY GiveEffects
<1>2. TypeOK /\ Callers /\ Peaks /\ \A d \in Classes : Carving(d) /\ Places(d)
  BY DEF PoolInv
<1> HIDE DEF r
<1>3. TypeOK'
  <2>1. \A a \in live' : a.addr \in 0 .. MaxSize - 1 /\ a.size \in Requests /\ a.id \in Classes
    BY <1>1, <1>2 DEF TypeOK
  <2>2. QED
    BY <2>1 DEF TypeOK, PoolTyped
<1>4. Callers'
  <2>1. IsFiniteSet(live)
    BY <1>2 DEF Callers
  <2>2. IsFiniteSet(live')
    BY <1>1, <2>1, FS_AddElement
  <2>3. \A a \in live' : a.id = PallocId(a.size)
    BY <1>1, <1>2 DEF Callers
  <2>4. QED
    BY <2>2, <2>3 DEF Callers
<1>5. ASSUME NEW d \in Classes, d # c
      PROVE  Carved(d)' = Carved(d) /\ Carving(d)' /\ Places(d)'
  <2>1. slab'[d] = slab[d] /\ chunk'[d] = chunk[d] /\ left'[d] = left[d] /\ freeChunk'[d] = freeChunk[d]
    BY <1>5
  <2>2. Carved(d)' = Carved(d) /\ Carving(d)'
    BY <1>2, <2>1, CarvingFrame
  <2>3. Places(d)'
    BY <1>1, <1>2, <1>5, <2>1, <2>2, PlacesFrame
  <2>4. QED
    BY <2>2, <2>3
<1>6. \A d \in Classes : Carving(d)' /\ Places(d)'
  BY <1>5
<1>7. Peaks'
  <2>1. peak \in [Classes -> Nat] /\ \A d \in Classes : peak[d] = Cardinality(Carved(d))
    BY <1>2 DEF Peaks, SlabsFollowPeak
  <2>2. Cardinality(LiveIn(c)) \in Nat
    BY <1>2, HeldCounts DEF Callers
  <2>3. peak' \in [Classes -> Nat] /\ \A d \in Classes : d # c => peak'[d] = peak[d]
    BY <2>1, <2>2, PeakEffects
  <2>4. ASSUME NEW d \in Classes PROVE Cardinality(Carved(d)') = peak'[d]
    <3>1. CASE d = c
      BY <3>1
    <3>2. CASE d # c
      BY <1>5, <2>1, <2>3, <3>2
    <3>3. QED
      BY <3>1, <3>2
  <2>5. SlabsFollowPeak'
    BY <2>4 DEF SlabsFollowPeak
  <2>6. QED
    BY <2>3, <2>5 DEF Peaks
<1>8. QED
  BY <1>3, <1>4, <1>6, <1>7 DEF PoolInv

LEMMA SlabsFrame ==
  ASSUME SlabsDisjoint, cur' = cur, freeSize' = freeSize, slab' = slab
  PROVE  SlabsDisjoint'
<1>1. UNION {UNION {Region(slab'[c][i], SlabBytes(c)) : i \in DOMAIN slab'[c]} : c \in Classes}
      = Region(0, cur')
  BY DEF SlabsDisjoint
<1>2. cur' + freeSize' = MaxSize
  BY DEF SlabsDisjoint
<1>3. \A c, d \in Classes : \A i \in DOMAIN slab'[c], j \in DOMAIN slab'[d] :
        <<c, i>> # <<d, j>> => Region(slab'[c][i], SlabBytes(c)) \cap Region(slab'[d][j], SlabBytes(d)) = {}
  BY Zenon DEF SlabsDisjoint
<1>4. QED
  BY <1>1, <1>2, <1>3, Zenon DEF SlabsDisjoint, SlabBytes

LEMMA ReuseKeeps ==
  ASSUME PoolInv, NEW size \in Requests, NEW c \in Classes, c = PallocId(size), Reuse(size, c)
  PROVE  PoolInv'
<1> DEFINE addr == Last(freeChunk[c])
<1>1. TypeOK /\ SlabsDisjoint /\ Callers /\ Peaks /\ \A d \in Classes : Carving(d) /\ Places(d)
  BY DEF PoolInv
<1>2. /\ Give(addr, size, c)
      /\ cur' = cur /\ freeSize' = freeSize /\ slab' = slab /\ chunk' = chunk /\ left' = left
  BY DEF Reuse
<1>3. /\ addr \in 0 .. MaxSize - 1
      /\ freeChunk' \in [Classes -> Seq(0 .. MaxSize - 1)]
      /\ \A d \in Classes : d # c => freeChunk'[d] = freeChunk[d]
      /\ addr \notin Held(c) /\ addr \in Carved(c)
      /\ Places(c)'
  BY <1>1, GivesFreed
<1> HIDE DEF addr
<1>4. PoolTyped'
  BY <1>1, <1>2, <1>3 DEF PoolTyped, TypeOK
<1>5. SlabsDisjoint'
  BY <1>1, <1>2, SlabsFrame
<1>6. Carved(c)' = Carved(c) /\ Carving(c)'
  BY <1>1, <1>2, CarvingFrame
<1>7. peak'[c] = Cardinality(Carved(c)')
  <2>1. peak'[c] = peak[c]
    BY <1>1, <1>2, <1>3, PeakAfterReuse
  <2>2. QED
    BY <1>1, <1>6, <2>1 DEF Peaks, SlabsFollowPeak
<1>8. QED
  BY <1>2, <1>3, <1>4, <1>5, <1>6, <1>7, GiveKeeps

LEMMA CarveKeeps ==
  ASSUME PoolInv, NEW size \in Requests, NEW c \in Classes, c = PallocId(size), Carve(size, c)
  PROVE  PoolInv'
<1> DEFINE addr == chunk[c]
<1>1. TypeOK /\ SlabsDisjoint /\ Callers /\ Peaks /\ \A d \in Classes : Carving(d) /\ Places(d)
  BY DEF PoolInv
<1>2. /\ Give(addr, size, c) /\ Take(addr, left[c], c) /\ freeChunk[c] = << >>
      /\ cur' = cur /\ freeSize' = freeSize /\ slab' = slab /\ freeChunk' = freeChunk
  BY DEF Carve
<1>3. /\ left[c] > 0 /\ addr \in Nat /\ addr < MaxSize
      /\ left'[c] \in 0 .. Count[c] - 1
      /\ left'[c] > 0 => chunk'[c] = addr + Size[c]
      /\ left'[c] = 0 => chunk'[c] = NoChunk
      /\ addr \notin Carved(c) /\ Carved(c)' = Carved(c) \cup {addr} /\ Carving(c)'
  BY <1>1, CarveGrows
<1>4. /\ cur \in Nat /\ cur <= MaxSize /\ MaxSize \in Nat /\ left[c] \in Nat
      /\ Count[c] \in Nat /\ Size[c] \in Nat
  BY <1>1, TypeOfClass, MaxSizeType, ClassProperties
<1>5. addr \in 0 .. MaxSize - 1
  BY <1>3, <1>4
<1>6. left'[c] > 0 => addr + Size[c] \in 0 .. MaxSize - 1
  <2> SUFFICES ASSUME left'[c] > 0 PROVE addr + Size[c] \in 0 .. MaxSize - 1
    OBVIOUS
  <2>1. left'[c] = left[c] - 1
    BY <1>1, <1>2 DEF Take, TypeOK
  <2>2. 1 \in 0 .. left[c] - 1 /\ 1 * Size[c] = Size[c]
    BY <1>4, <2>1
  <2>3. addr + Size[c] \in ChunksFrom(chunk[c], left[c], c)
    BY <2>2 DEF ChunksFrom
  <2>4. addr + Size[c] \in ChunksOf(slab[c], c)
    BY <1>1, <2>3, UncarvedAreChunks
  <2> HIDE DEF addr
  <2>5. addr + Size[c] \in Nat /\ addr + Size[c] < cur
    BY <1>1, <2>4, ChunkBelowCur
  <2>6. QED
    BY <1>4, <2>5
<1>7. chunk'[c] \in {NoChunk} \cup 0 .. MaxSize - 1
  <2>1. left'[c] = 0 \/ left'[c] > 0
    BY <1>3, <1>4
  <2>2. QED
    BY <1>3, <1>6, <2>1
<1>8. /\ chunk' \in [Classes -> {NoChunk} \cup 0 .. MaxSize - 1]
      /\ \A d \in Classes : d # c => chunk'[d] = chunk[d]
  BY <1>1, <1>2, <1>7 DEF Take, TypeOK
<1>9. /\ left' \in [Classes -> Nat] /\ \A d \in Classes : left'[d] < Count[d]
      /\ \A d \in Classes : d # c => left'[d] = left[d]
  <2>1. left'[c] \in Nat /\ left'[c] < Count[c]
    BY <1>3, <1>4
  <2>2. QED
    BY <1>1, <1>2, <2>1 DEF Take, TypeOK
<1> HIDE DEF addr
<1>10. PoolTyped'
  BY <1>1, <1>2, <1>8, <1>9 DEF PoolTyped, TypeOK
<1>11. SlabsDisjoint'
  BY <1>1, <1>2, SlabsFrame
<1>12. Places(c)'
  BY <1>1, <1>2, <1>3, GivesCarved
<1>13. peak'[c] = Cardinality(Carved(c)')
  BY <1>1, <1>2, <1>3, PeakAfterCarving
<1>14. QED
  BY <1>2, <1>3, <1>5, <1>8, <1>9, <1>10, <1>11, <1>12, <1>13, GiveKeeps

LEMMA NewSlabKeeps ==
  ASSUME PoolInv, NEW size \in Requests, NEW c \in Classes, c = PallocId(size), NewSlab(size, c)
  PROVE  PoolInv'
<1>1. TypeOK /\ SlabsDisjoint /\ Callers /\ Peaks /\ \A d \in Classes : Carving(d) /\ Places(d)
  BY DEF PoolInv
<1>2. /\ Give(cur, size, c) /\ Take(cur, Count[c], c) /\ freeChunk[c] = << >> /\ freeChunk' = freeChunk
  BY DEF NewSlab
<1>3. /\ cur \in 0 .. MaxSize - 1 /\ cur \in Nat
      /\ cur' = cur + SlabBytes(c)
      /\ cur' \in 0 .. MaxSize /\ freeSize' \in 0 .. MaxSize
      /\ \A d \in Classes : d # c => slab'[d] = slab[d]
      /\ slab' \in [Classes -> Seq(0 .. MaxSize - 1)]
  BY <1>1, NewSlabTypes
<1>4. /\ left'[c] \in 0 .. Count[c] - 1
      /\ left'[c] > 0 => chunk'[c] = cur + Size[c]
      /\ left'[c] = 0 => chunk'[c] = NoChunk
      /\ cur \notin Carved(c) /\ Carved(c)' = Carved(c) \cup {cur} /\ Carving(c)'
  BY <1>1, NewSlabGrows
<1>5. /\ MaxSize \in Nat /\ Count[c] \in Nat /\ Size[c] \in Nat /\ Size[c] > 0 /\ SlabBytes(c) \in Nat
  BY MaxSizeType, ClassProperties, SlabBytesType
<1>6. left'[c] > 0 => cur + Size[c] \in 0 .. MaxSize - 1
  <2> SUFFICES ASSUME left'[c] > 0 PROVE cur + Size[c] \in 0 .. MaxSize - 1
    OBVIOUS
  <2>1. 1 \in 0 .. Count[c] - 1 /\ 1 * Size[c] = Size[c]
    BY <1>4, <1>5
  <2>2. Size[c] + Size[c] <= SlabBytes(c)
    BY <2>1, ChunkFits
  <2>3. cur + SlabBytes(c) <= MaxSize
    BY <1>3, <1>5
  <2>4. QED
    BY <1>3, <1>5, <2>2, <2>3
<1>7. chunk'[c] \in {NoChunk} \cup 0 .. MaxSize - 1
  <2>1. left'[c] = 0 \/ left'[c] > 0
    BY <1>4, <1>5
  <2>2. QED
    BY <1>4, <1>6, <2>1
<1>8. /\ chunk' \in [Classes -> {NoChunk} \cup 0 .. MaxSize - 1]
      /\ \A d \in Classes : d # c => chunk'[d] = chunk[d]
  BY <1>1, <1>2, <1>7 DEF Take, TypeOK
<1>9. /\ left' \in [Classes -> Nat] /\ \A d \in Classes : left'[d] < Count[d]
      /\ \A d \in Classes : d # c => left'[d] = left[d]
  <2>1. left'[c] \in Nat /\ left'[c] < Count[c]
    BY <1>4, <1>5
  <2>2. QED
    BY <1>1, <1>2, <2>1 DEF Take, TypeOK
<1>10. PoolTyped'
  BY <1>1, <1>2, <1>3, <1>8, <1>9 DEF PoolTyped, TypeOK
<1>11. SlabsDisjoint'
  BY <1>1, NewSlabDisjoint
<1>12. Places(c)'
  BY <1>1, <1>2, <1>4, GivesCarved
<1>13. peak'[c] = Cardinality(Carved(c)')
  BY <1>1, <1>2, <1>4, PeakAfterCarving
<1>14. QED
  BY <1>2, <1>3, <1>4, <1>8, <1>9, <1>10, <1>11, <1>12, <1>13, GiveKeeps

LEMMA PfreeKeeps ==
  ASSUME PoolInv, NEW a \in live, Pfree(a)
  PROVE  PoolInv'
<1>1. TypeOK /\ SlabsDisjoint /\ Callers /\ Peaks /\ \A d \in Classes : Carving(d) /\ Places(d)
  BY DEF PoolInv
<1>2. /\ live' = live \ {a} /\ peak' = peak
      /\ cur' = cur /\ freeSize' = freeSize /\ slab' = slab /\ chunk' = chunk /\ left' = left
  BY DEF Pfree
<1>3. a.id \in Classes
  BY <1>1 DEF TypeOK
<1>4. /\ freeChunk' \in [Classes -> Seq(0 .. MaxSize - 1)]
      /\ \A d \in Classes : d # a.id => freeChunk'[d] = freeChunk[d] /\ LiveIn(d)' = LiveIn(d)
      /\ Places(a.id)'
  BY <1>1, <1>3, TakesBack
<1>5. TypeOK'
  BY <1>1, <1>2, <1>4 DEF TypeOK
<1>6. SlabsDisjoint'
  BY <1>1, <1>2, SlabsFrame
<1>7. Callers'
  <2>1. IsFiniteSet(live')
    BY <1>1, <1>2, FS_RemoveElement DEF Callers
  <2>2. QED
    BY <1>1, <1>2, <2>1 DEF Callers
<1>8. ASSUME NEW d \in Classes PROVE Carved(d)' = Carved(d) /\ Carving(d)' /\ Places(d)'
  <2>1. slab'[d] = slab[d] /\ chunk'[d] = chunk[d] /\ left'[d] = left[d]
    BY <1>2
  <2>2. Carved(d)' = Carved(d) /\ Carving(d)'
    BY <1>1, <2>1, CarvingFrame
  <2>3. CASE d = a.id
    BY <1>4, <2>2, <2>3
  <2>4. CASE d # a.id
    <3>1. Places(d)'
      BY <1>1, <1>4, <2>2, <2>4, PlacesFrame
    <3>2. QED
      BY <2>2, <3>1
  <2>5. QED
    BY <2>3, <2>4
<1>9. Peaks'
  BY <1>1, <1>2, <1>8 DEF Peaks, SlabsFollowPeak
<1>10. QED
  BY <1>5, <1>6, <1>7, <1>8, <1>9 DEF PoolInv

-----------------------------------------------------------------------------
(* The theorems.                                                           *)

LEMMA PoolInvInit == Init => PoolInv
<1> SUFFICES ASSUME Init PROVE PoolInv
  OBVIOUS
<1>1. MaxSize \in Nat /\ Range(<< >>) = {}
  BY MaxSizeType DEF Range
<1>2. /\ cur = 0 /\ freeSize = MaxSize /\ live = {}
      /\ slab = [c \in Classes |-> << >>] /\ freeChunk = [c \in Classes |-> << >>]
      /\ chunk = [c \in Classes |-> NoChunk] /\ left = [c \in Classes |-> 0]
      /\ peak = [c \in Classes |-> 0]
  BY DEF Init
<1>3. \A c \in Classes : /\ slab[c] = << >> /\ freeChunk[c] = << >> /\ DOMAIN slab[c] = {}
                         /\ chunk[c] = NoChunk /\ left[c] = 0 /\ peak[c] = 0
                         /\ Range(slab[c]) = {} /\ Range(freeChunk[c]) = {}
  BY <1>1, <1>2
<1>4. TypeOK
  <2>1. 0 \in 0 .. MaxSize /\ MaxSize \in 0 .. MaxSize
    BY <1>1
  <2>2. \A c \in Classes : left[c] < Count[c]
    BY <1>3, ClassProperties
  <2>3. << >> \in Seq(0 .. MaxSize - 1)
    OBVIOUS
  <2>4. QED
    BY <1>2, <2>1, <2>2, <2>3 DEF TypeOK
<1>5. SlabsDisjoint
  <2>1. UNION {UNION {Region(slab[c][i], SlabBytes(c)) : i \in DOMAIN slab[c]} : c \in Classes} = {}
    BY <1>3
  <2>2. Region(0, 0) = {}
    BY DEF Region
  <2>3. cur + freeSize = MaxSize
    BY <1>1, <1>2
  <2>4. \A c, d \in Classes : \A i \in DOMAIN slab[c], j \in DOMAIN slab[d] :
          <<c, i>> # <<d, j>> => Region(slab[c][i], SlabBytes(c)) \cap Region(slab[d][j], SlabBytes(d)) = {}
    BY <1>3
  <2>5. QED
    BY <1>2, <2>1, <2>2, <2>3, <2>4, Zenon DEF SlabsDisjoint
<1>6. Callers
  BY <1>2, FS_EmptySet DEF Callers
<1>7. \A c \in Classes : LiveIn(c) = {} /\ Held(c) = {} /\ Carved(c) = {}
  <2>1. \A c \in Classes : LiveIn(c) = {}
    BY <1>2 DEF LiveIn
  <2>2. \A c \in Classes : Held(c) = {}
    BY <2>1 DEF Held
  <2>3. ASSUME NEW c \in Classes PROVE Carved(c) = {}
    <3>1. ChunksOf(slab[c], c) = {}
      BY <1>3 DEF ChunksOf
    <3>2. QED
      BY <3>1, CarvedIs
  <2>4. QED
    BY <2>1, <2>2, <2>3
<1>8. ASSUME NEW c \in Classes PROVE Carving(c) /\ Places(c)
  <2>1. Carving(c)
    BY <1>3 DEF Carving
  <2>2. IsInjective(freeChunk[c])
    BY <1>3 DEF IsInjective
  <2>3. Places(c)
    BY <1>3, <1>7, <2>2 DEF Places
  <2>4. QED
    BY <2>1, <2>3
<1>9. Peaks
  BY <1>2, <1>3, <1>7, FS_EmptySet DEF Peaks, SlabsFollowPeak
<1>10. QED
  BY <1>4, <1>5, <1>6, <1>8, <1>9 DEF PoolInv

LEMMA PoolInvNext == PoolInv /\ [Next]_vars => PoolInv'
<1> SUFFICES ASSUME PoolInv, [Next]_vars PROVE PoolInv'
  OBVIOUS
<1>1. ASSUME NEW size \in Requests, Palloc(size) PROVE PoolInv'
  <2> DEFINE c == PallocId(size)
  <2>1. c \in Classes
    BY Constants, SearchFinds DEF Found
  <2>2. Reuse(size, c) \/ Carve(size, c) \/ NewSlab(size, c)
    BY <1>1, Zenon DEF Palloc
  <2>3. QED
    <3> HIDE DEF c
    <3>1. c = PallocId(size)
      BY DEF c
    <3>2. QED
      BY <2>1, <2>2, <3>1, ReuseKeeps, CarveKeeps, NewSlabKeeps
<1>2. ASSUME NEW a \in live, Pfree(a) PROVE PoolInv'
  BY <1>2, PfreeKeeps
<1>3. ASSUME UNCHANGED vars PROVE PoolInv'
  <2>1. /\ cur' = cur /\ freeSize' = freeSize /\ slab' = slab /\ chunk' = chunk /\ left' = left
        /\ freeChunk' = freeChunk /\ live' = live /\ peak' = peak
    BY <1>3 DEF vars, pool
  <2>2. TypeOK /\ SlabsDisjoint /\ Callers /\ Peaks /\ \A d \in Classes : Carving(d) /\ Places(d)
    BY DEF PoolInv
  <2>3. TypeOK' /\ Callers'
    BY <2>1, <2>2 DEF TypeOK, Callers
  <2>4. SlabsDisjoint'
    BY <2>1, <2>2, SlabsFrame
  <2>5. ASSUME NEW d \in Classes PROVE Carved(d)' = Carved(d) /\ Carving(d)' /\ Places(d)'
    <3>1. Carved(d)' = Carved(d) /\ Carving(d)'
      BY <2>1, <2>2, CarvingFrame
    <3>2. LiveIn(d)' = LiveIn(d)
      BY <2>1 DEF LiveIn
    <3>3. Places(d)'
      BY <2>1, <2>2, <3>1, <3>2, PlacesFrame
    <3>4. QED
      BY <3>1, <3>3
  <2>6. Peaks'
    BY <2>1, <2>2, <2>5 DEF Peaks, SlabsFollowPeak
  <2>7. QED
    BY <2>3, <2>4, <2>5, <2>6 DEF PoolInv
<1>4. QED
  BY <1>1, <1>2, <1>3 DEF Next

LEMMA PoolInvAlways == Spec => []PoolInv
BY PoolInvInit, PoolInvNext, PTL DEF Spec

\* The uncarved chunks of a class lie in its last slab.
LEMMA UncarvedInRegion ==
  ASSUME TypeOK, NEW c \in Classes, Carving(c)
  PROVE  Uncarved(c) \subseteq Region(IF slab[c] = << >> THEN 0 ELSE Last(slab[c]), SlabBytes(c))
<1> SUFFICES ASSUME NEW x \in Uncarved(c)
             PROVE  x \in Region(IF slab[c] = << >> THEN 0 ELSE Last(slab[c]), SlabBytes(c))
  OBVIOUS
<1>1. x \in ChunksFrom(chunk[c], left[c], c)
  BY CarvedIs
<1>2. left[c] > 0
  BY <1>1, UncarvedInLast
<1>3. PICK k \in 0 .. Count[c] - 1 : x = Last(slab[c]) + k * Size[c]
  BY <1>1, UncarvedInLast
<1>4. slab[c] # << >> /\ Last(slab[c]) \in Nat
  BY <1>2, NextChunk DEF Carving
<1>5. k * Size[c] \in Nat /\ k * Size[c] + Size[c] <= SlabBytes(c)
      /\ Size[c] \in Nat /\ Size[c] > 0 /\ SlabBytes(c) \in Nat
  BY ChunkFits, ClassProperties, SlabBytesType
<1>6. x \in Nat /\ Last(slab[c]) <= x /\ x < Last(slab[c]) + SlabBytes(c)
  BY <1>3, <1>4, <1>5
<1>7. x \in Region(Last(slab[c]), SlabBytes(c))
  BY <1>4, <1>5, <1>6, InRegion
<1>8. QED
  BY <1>4, <1>7

(* The slabs divide up what is used of the pool, and a chunk of a slab is  *)
(* with one caller, on the stack of its class, or still to be carved       *)
(* (rs_palloc(), rs_pfree(), rs_pmemalloc()).                              *)
THEOREM PoolIsPartitioned == Spec => []PoolPartition
<1>1. PoolInv => PoolPartition
  <2> SUFFICES ASSUME PoolInv PROVE PoolPartition
    OBVIOUS
  <2>1. TypeOK /\ SlabsDisjoint /\ Callers /\ \A c \in Classes : Carving(c) /\ Places(c)
    BY DEF PoolInv
  <2>2. ASSUME NEW c \in Classes
        PROVE  /\ Cardinality(Held(c)) = Cardinality(LiveIn(c))
               /\ IsInjective(freeChunk[c])
               /\ Held(c) \cap Range(freeChunk[c]) = {}
               /\ Held(c) \cup Range(freeChunk[c]) = Carved(c)
               /\ Uncarved(c) \subseteq Region(IF slab[c] = << >> THEN 0 ELSE Last(slab[c]), SlabBytes(c))
    <3>1. Cardinality(Held(c)) = Cardinality(LiveIn(c))
      BY <2>1, HeldCounts DEF Callers
    <3>2. Uncarved(c) \subseteq Region(IF slab[c] = << >> THEN 0 ELSE Last(slab[c]), SlabBytes(c))
      BY <2>1, UncarvedInRegion
    <3>3. QED
      BY <2>1, <3>1, <3>2 DEF Places
  <2>3. ChunksPartition
    BY <2>2, Zenon DEF ChunksPartition, Held
  <2>4. QED
    BY <2>1, <2>3 DEF PoolPartition
<1>2. QED
  BY <1>1, PoolInvAlways, PTL

(* A class takes a slab only for more allocations at once than it ever had *)
(* (rs_palloc() looks at the stack of freed chunks first).                 *)
THEOREM SlabsAreReused == Spec => []SlabsFollowPeak
<1>1. PoolInv => SlabsFollowPeak
  BY DEF PoolInv, Peaks
<1>2. QED
  BY <1>1, PoolInvAlways, PTL

\* The class of an allocation is what the binary search has found.
LEMMA FoundClass ==
  ASSUME PoolInv, NEW a \in live
  PROVE  a.size \in Nat /\ Found(a.size, a.id)
<1>1. a.id = PallocId(a.size) /\ a.size \in Requests
  BY DEF PoolInv, Callers, TypeOK
<1>2. QED
  BY <1>1, Constants, SearchFinds

(* The binary search of rs_palloc_id() ends at the smallest of the classes *)
(* that hold the size, if no class has exactly that size.  If one has, it  *)
(* stops at the lower end of its interval, and nothing is said.            *)
THEOREM ClassesAreBest == Spec => []ClassIsBest
<1>1. PoolInv => ClassIsBest
  <2> SUFFICES ASSUME PoolInv, NEW a \in live, ~ Exact(a.size)
               PROVE  Size[a.id] >= a.size /\ \A c \in Classes : Size[c] >= a.size => a.id <= c
    BY DEF ClassIsBest
  <2>1. a.size \in Nat /\ Found(a.size, a.id)
    BY FoundClass
  <2>2. /\ a.id \in Classes /\ Size[a.id] > a.size
        /\ \A c \in Classes : c < a.id => Size[c] < a.size
    BY <2>1 DEF Found
  <2>3. \A c \in Classes : c \in Nat /\ Size[c] \in Nat
    BY ClassProperties
  <2>4. ASSUME NEW c \in Classes, Size[c] >= a.size PROVE a.id <= c
    <3> DEFINE id == a.id
               size == a.size
               n == Size[c]
    <3>1. c \in Nat /\ id \in Nat /\ n \in Nat /\ size \in Nat /\ n >= size /\ (c < id => n < size)
      BY <2>1, <2>2, <2>3, <2>4
    <3> HIDE DEF id, size, n
    <3>2. id <= c
      BY <3>1
    <3>3. QED
      BY <3>2 DEF id
  <2>5. Size[a.id] >= a.size
    <3> DEFINE size == a.size
               n == Size[a.id]
    <3>1. n \in Nat /\ size \in Nat /\ n > size
      BY <2>1, <2>2, <2>3
    <3> HIDE DEF size, n
    <3>2. n >= size
      BY <3>1
    <3>3. QED
      BY <3>2 DEF n, size
  <2>6. QED
    BY <2>4, <2>5
<1>2. QED
  BY <1>1, PoolInvAlways, PTL

\* The chunks of two callers, of one class or of two, have no byte in common.
LEMMA ChunksDisjoint ==
  ASSUME PoolInv, NEW a \in live, NEW b \in live, a # b
  PROVE  Chunk(a) \cap Chunk(b) = {}
<1> SUFFICES ASSUME NEW x \in Region(a.addr, Size[a.id]), x \in Region(b.addr, Size[b.id])
             PROVE  FALSE
  BY DEF Chunk
<1>1. TypeOK /\ SlabsDisjoint /\ \A d \in Classes : Carving(d) /\ Places(d)
  BY DEF PoolInv
<1> DEFINE c == a.id
           d == b.id
<1>2. c \in Classes /\ d \in Classes
  BY <1>1 DEF TypeOK
<1>3. a.addr \in ChunksOf(slab[c], c) /\ b.addr \in ChunksOf(slab[d], d)
  <2>1. a.addr \in Held(c) /\ b.addr \in Held(d)
    BY DEF Held, LiveIn
  <2>2. a.addr \in Carved(c) /\ b.addr \in Carved(d)
    BY <1>1, <1>2, <2>1 DEF Places
  <2>3. QED
    BY <1>2, <2>2, CarvedIs
<1>4. c = d => a.addr # b.addr
  <2>1. SUFFICES ASSUME c = d, a.addr = b.addr PROVE FALSE
    OBVIOUS
  <2>2. a \in LiveIn(c) /\ b \in LiveIn(c)
    BY <2>1 DEF LiveIn
  <2>3. QED
    BY <1>1, <1>2, <2>1, <2>2 DEF Places
<1> HIDE DEF c, d
<1>5. PICK i \in DOMAIN slab[c], k \in 0 .. Count[c] - 1 : a.addr = slab[c][i] + k * Size[c]
  BY <1>3 DEF ChunksOf, Range
<1>6. PICK j \in DOMAIN slab[d], l \in 0 .. Count[d] - 1 : b.addr = slab[d][j] + l * Size[d]
  BY <1>3 DEF ChunksOf, Range
<1>7. /\ slab[c][i] \in Nat /\ k * Size[c] \in Nat /\ k * Size[c] + Size[c] <= SlabBytes(c)
      /\ slab[d][j] \in Nat /\ l * Size[d] \in Nat /\ l * Size[d] + Size[d] <= SlabBytes(d)
  BY <1>1, <1>2, SlabBelowCur, ChunkFits
<1>8. /\ Size[c] \in Nat /\ SlabBytes(c) \in Nat /\ Size[d] \in Nat /\ SlabBytes(d) \in Nat
      /\ k \in Nat /\ l \in Nat
  BY <1>2, ClassProperties, SlabBytesType
<1>9. /\ x \in Nat /\ slab[c][i] + k * Size[c] <= x /\ x < slab[c][i] + k * Size[c] + Size[c]
      /\ slab[d][j] + l * Size[d] <= x /\ x < slab[d][j] + l * Size[d] + Size[d]
  <2>1. a.addr \in Nat /\ b.addr \in Nat
    BY <1>5, <1>6, <1>7
  <2>2. /\ x \in Nat /\ a.addr <= x /\ x < a.addr + Size[c]
        /\ b.addr <= x /\ x < b.addr + Size[d]
    BY <1>8, <2>1, InRegion DEF c, d
  <2>3. QED
    BY <1>5, <1>6, <1>7, <1>8, <2>2
<1>10. CASE <<c, i>> # <<d, j>>
  <2>1. x \in SlabRegion(c, i) /\ x \in SlabRegion(d, j)
    <3>1. slab[c][i] <= x /\ x < slab[c][i] + SlabBytes(c)
      BY <1>7, <1>8, <1>9
    <3>2. slab[d][j] <= x /\ x < slab[d][j] + SlabBytes(d)
      BY <1>7, <1>8, <1>9
    <3>3. QED
      BY <1>7, <1>8, <1>9, <3>1, <3>2, InRegion DEF SlabRegion
  <2>2. SlabRegion(c, i) \cap SlabRegion(d, j) = {}
    BY <1>1, <1>2, <1>10, Zenon DEF SlabsDisjoint, SlabRegion
  <2>3. QED
    BY <2>1, <2>2
<1>11. CASE <<c, i>> = <<d, j>>
  <2>1. c = d /\ i = j
    BY <1>11
  <2>2. k # l
    BY <1>4, <1>5, <1>6, <2>1
  <2>3. k < l \/ l < k
    BY <1>8, <2>2
  <2>4. CASE k < l
    <3>1. k * Size[c] + Size[c] <= l * Size[c]
      BY <1>2, <1>8, <2>4, ChunksApart
    <3>2. QED
      BY <1>7, <1>8, <1>9, <2>1, <3>1
  <2>5. CASE l < k
    <3>1. l * Size[c] + Size[c] <= k * Size[c]
      BY <1>2, <1>8, <2>5, ChunksApart
    <3>2. QED
      BY <1>7, <1>8, <1>9, <2>1, <3>1
  <2>6. QED
    BY <2>3, <2>4, <2>5
<1>12. QED
  BY <1>10, <1>11

\* A chunk is a part of its slab, and that of the memory below cur.
LEMMA ChunkInPool ==
  ASSUME PoolInv, NEW a \in live
  PROVE  a.addr \in Nat /\ Chunk(a) \subseteq Region(0, MaxSize)
<1> DEFINE c == a.id
<1>1. TypeOK /\ SlabsDisjoint /\ \A d \in Classes : Places(d)
  BY DEF PoolInv
<1>2. c \in Classes /\ cur \in 0 .. MaxSize
  BY <1>1 DEF TypeOK
<1>3. a.addr \in ChunksOf(slab[c], c)
  <2>1. a.addr \in Held(c)
    BY DEF Held, LiveIn
  <2>2. a.addr \in Carved(c)
    BY <1>1, <1>2, <2>1 DEF Places
  <2>3. QED
    BY <1>2, <2>2, CarvedIs
<1> HIDE DEF c
<1>4. PICK i \in DOMAIN slab[c], k \in 0 .. Count[c] - 1 : a.addr = slab[c][i] + k * Size[c]
  BY <1>3 DEF ChunksOf, Range
<1>5. /\ slab[c][i] \in Nat /\ slab[c][i] + SlabBytes(c) <= cur
      /\ k * Size[c] \in Nat /\ k * Size[c] + Size[c] <= SlabBytes(c)
  BY <1>1, <1>2, SlabBelowCur, ChunkFits
<1>6. Size[c] \in Nat /\ SlabBytes(c) \in Nat /\ MaxSize \in Nat /\ cur \in Nat /\ cur <= MaxSize
  BY <1>2, ClassProperties, SlabBytesType, MaxSizeType
<1>7. a.addr \in Nat /\ a.addr + Size[c] <= MaxSize
  BY <1>4, <1>5, <1>6
<1>8. ASSUME NEW x \in Region(a.addr, Size[c]) PROVE x \in Region(0, MaxSize)
  <2>1. x \in Nat /\ x < a.addr + Size[c]
    BY <1>6, <1>7, InRegion
  <2>2. x < 0 + MaxSize
    BY <1>6, <1>7, <2>1
  <2>3. QED
    BY <1>6, <2>1, <2>2, InRegion
<1>9. QED
  BY <1>7, <1>8 DEF Chunk, c

\* What was asked for lies in the chunk, unless a class has exactly its size.
LEMMA AskedInChunk ==
  ASSUME PoolInv, NEW a \in live, ~ Exact(a.size)
  PROVE  Asked(a) \subseteq Chunk(a)
<1>1. a.size \in Nat /\ a.id \in Classes /\ a.size < Size[a.id]
  BY FoundClass DEF Found
<1>2. a.addr \in Nat /\ Size[a.id] \in Nat
  BY <1>1, ChunkInPool, ClassProperties
<1>3. ASSUME NEW x \in Region(a.addr, a.size) PROVE x \in Region(a.addr, Size[a.id])
  <2>1. x \in Nat /\ a.addr <= x /\ x < a.addr + a.size
    BY <1>1, <1>2, InRegion
  <2>2. x < a.addr + Size[a.id]
    BY <1>1, <1>2, <2>1
  <2>3. QED
    BY <1>2, <2>1, <2>2, InRegion
<1>4. QED
  BY <1>3 DEF Asked, Chunk

(* A chunk given to a caller lies in the memory of the pool and has no byte*)
(* in common with that of another, whatever their classes; and so the bytes*)
(* that callers asked for: what one writes, another never sees.  Sizes that*)
(* are exactly those of a class are excepted from the second half, as their*)
(* chunk can be too small.                                                 *)
THEOREM AllocationsAreDisjoint == Spec => []AllocationsDisjoint
<1>1. PoolInv => AllocationsDisjoint
  <2> SUFFICES ASSUME PoolInv, NEW a \in live
               PROVE  /\ Chunk(a) \subseteq Region(0, MaxSize)
                      /\ \A b \in live \ {a} : Chunk(a) \cap Chunk(b) = {}
                      /\ ~Exact(a.size) =>
                           /\ Asked(a) \subseteq Chunk(a)
                           /\ \A b \in live \ {a} : ~Exact(b.size) => Asked(a) \cap Asked(b) = {}
    BY DEF AllocationsDisjoint
  <2>1. Chunk(a) \subseteq Region(0, MaxSize)
    BY ChunkInPool
  <2>2. \A b \in live \ {a} : Chunk(a) \cap Chunk(b) = {}
    BY ChunksDisjoint
  <2>3. \A b \in live : ~Exact(b.size) => Asked(b) \subseteq Chunk(b)
    BY AskedInChunk
  <2>4. QED
    BY <2>1, <2>2, <2>3
<1>2. QED
  BY <1>1, PoolInvAlways, PTL
=============================================================================
