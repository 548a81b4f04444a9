-------------------------- MODULE DegradationProofs --------------------------
(***************************************************************************)
(* Proofs about Degradation, for histories of any length.  The average is  *)
(* defined by recursion over the history; the induction that takes is over *)
(* the least prefix for which a claim would fail.                          *)
(***************************************************************************)
EXTENDS Degradation, FiniteSetTheorems, WellFoundedInduction, TLAPS

History(n) == [1 .. n -> {0, 1}]

(* e holds the averages of the first m attempts of s.                       *)
IsAverage(e, s, m) ==
    e = [k \in 1 .. m |-> IF k = 1 THEN Unit * s[1]
                                   ELSE (Unit * s[k] + 3 * e[k - 1]) \div 4]

Averages(s) == CHOOSE e : IsAverage(e, s, Len(s))

LEMMA LeastElement ==
  ASSUME NEW T, T \subseteq Nat, T # {}
  PROVE  \E n \in T : \A m \in T : n <= m
<1>1. PICK n \in T : \A m \in T : ~(<<m, n>> \in OpToRel(<, Nat))
  BY NatLessThanWellFounded, WFMin, Zenon
<1>2. \A m \in T : ~(m < n)
  BY <1>1, Zenon DEF OpToRel
<1>3. \A m \in T : n <= m
  BY <1>2
<1> QED BY <1>3

LEMMA EwmaIsAverage ==
  ASSUME NEW s
  PROVE  Ewma(s) = Averages(s)[Len(s)]
  BY DEF Ewma, Averages, IsAverage

(* The averages of every history exist: the least prefix that has none      *)
(* would extend one that has.                                               *)
LEMMA AverageExists ==
  ASSUME NEW n \in Nat, NEW s \in History(n)
  PROVE  \A m \in 0 .. n : \E e : IsAverage(e, s, m)
<1> DEFINE T == {m \in 0 .. n : ~ \E e : IsAverage(e, s, m)}
<1>1. SUFFICES ASSUME T # {} PROVE FALSE
  OBVIOUS
<1>2. T \subseteq Nat
  OBVIOUS
<1>3. PICK m \in T : \A k \in T : m <= k
  <2> HIDE DEF T
  <2> QED BY <1>1, <1>2, LeastElement
<1>4. CASE m = 0
  <2>1. IsAverage([k \in 1 .. 0 |-> 0], s, 0)
    BY DEF IsAverage
  <2> QED BY <1>4, <2>1
<1>5. CASE m # 0
  <2>1. m - 1 \in 0 .. n /\ m \in 1 .. n /\ m - 1 < m
    BY <1>5
  <2>2. m - 1 \notin T
    BY <1>3, <2>1
  <2>3. PICK e : IsAverage(e, s, m - 1)
    BY <2>1, <2>2
  <2> DEFINE f == [k \in 1 .. m |->
                      IF k = m THEN IF m = 1 THEN Unit * s[1]
                                             ELSE (Unit * s[m] + 3 * e[m - 1]) \div 4
                               ELSE e[k]]
  <2>4. \A k \in 1 .. m - 1 : e[k] = IF k = 1 THEN Unit * s[1]
                                     ELSE (Unit * s[k] + 3 * e[k - 1]) \div 4
    BY <2>3 DEF IsAverage
  <2>5. \A k \in 1 .. m : f[k] = IF k = 1 THEN Unit * s[1]
                                 ELSE (Unit * s[k] + 3 * f[k - 1]) \div 4
    <3> SUFFICES ASSUME NEW k \in 1 .. m
                 PROVE  f[k] = IF k = 1 THEN Unit * s[1]
                               ELSE (Unit * s[k] + 3 * f[k - 1]) \div 4
      OBVIOUS
    <3>1. CASE k = m /\ m = 1
      BY <3>1
    <3>2. CASE k = m /\ m # 1
      <4>1. f[m - 1] = e[m - 1]
        BY <3>2, <2>1
      <4> QED BY <3>2, <4>1, <2>1
    <3>3. CASE k # m
      <4>1. k \in 1 .. m - 1 /\ f[k] = e[k]
        BY <3>3, <2>1
      <4>2. k # 1 => f[k - 1] = e[k - 1]
        BY <4>1, <2>1
      <4> QED BY <4>1, <4>2, <2>4
    <3> QED BY <3>1, <3>2, <3>3
  <2>6. IsAverage(f, s, m)
    <3>1. f = [k \in 1 .. m |-> f[k]]
      OBVIOUS
    <3> HIDE DEF f
    <3> QED BY <3>1, <2>5 DEF IsAverage
  <2> QED BY <2>6
<1> QED BY <1>4, <1>5

(* The average of a history is that of its last attempt.                    *)
LEMMA AveragesDef ==
  ASSUME NEW n \in Nat, NEW s \in History(n)
  PROVE  /\ Len(s) = n
         /\ IsAverage(Averages(s), s, n)
<1>1. Len(s) = n
  BY DEF History
<1>2. \E e : IsAverage(e, s, n)
  BY AverageExists
<1> QED BY <1>1, <1>2 DEF Averages

(* The weighted success rate lies between 0 and 1.                           *)
LEMMA AverageBounds ==
  ASSUME NEW n \in Nat, NEW s \in History(n)
  PROVE  \A k \in 1 .. n : Averages(s)[k] \in 0 .. Unit
<1> DEFINE e == Averages(s)
           T == {k \in 1 .. n : e[k] \notin 0 .. Unit}
<1>1. \A k \in 1 .. n : e[k] = IF k = 1 THEN Unit * s[1]
                               ELSE (Unit * s[k] + 3 * e[k - 1]) \div 4
  BY AveragesDef DEF IsAverage
<1> HIDE DEF e
<1>2. SUFFICES ASSUME T # {} PROVE FALSE
  BY DEF e
<1>3. T \subseteq Nat
  OBVIOUS
<1>4. PICK k \in T : \A j \in T : k <= j
  <2> HIDE DEF T
  <2> QED BY <1>2, <1>3, LeastElement
<1>5. s[k] \in {0, 1}
  BY <1>4 DEF History
<1>6. CASE k = 1
  BY <1>1, <1>4, <1>5, <1>6 DEF Unit
<1>7. CASE k # 1
  <2>1. k - 1 \in 1 .. n /\ k - 1 < k
    BY <1>7
  <2>2. e[k - 1] \in 0 .. Unit
    BY <2>1, <1>4
  <2>3. e[k] = (Unit * s[k] + 3 * e[k - 1]) \div 4 /\ e[k] \notin 0 .. Unit
    BY <1>1, <1>4, <1>7
  <2>4. \A a \in {0, 1}, b \in 0 .. Unit : (Unit * a + 3 * b) \div 4 \in 0 .. Unit
    BY DEF Unit
  <2> QED BY <1>5, <2>2, <2>3, <2>4
<1> QED BY <1>6, <1>7

(* It is 1 as long as every attempt has succeeded.                           *)
LEMMA AverageOfSuccesses ==
  ASSUME NEW n \in Nat, NEW s \in History(n), NEW m \in 0 .. n,
         \A i \in 1 .. m : s[i] = 1
  PROVE  \A k \in 1 .. m : Averages(s)[k] = Unit
<1> DEFINE e == Averages(s)
           T == {k \in 1 .. m : e[k] # Unit}
<1>1. \A k \in 1 .. n : e[k] = IF k = 1 THEN Unit * s[1]
                               ELSE (Unit * s[k] + 3 * e[k - 1]) \div 4
  BY AveragesDef DEF IsAverage
<1> HIDE DEF e
<1>2. SUFFICES ASSUME T # {} PROVE FALSE
  BY DEF e
<1>3. T \subseteq Nat
  OBVIOUS
<1>4. PICK k \in T : \A j \in T : k <= j
  <2> HIDE DEF T
  <2> QED BY <1>2, <1>3, LeastElement
<1>5. s[k] = 1 /\ k \in 1 .. n
  BY <1>4
<1>6. CASE k = 1
  BY <1>1, <1>4, <1>5, <1>6 DEF Unit
<1>7. CASE k # 1
  <2>1. k - 1 \in 1 .. m /\ k - 1 < k
    BY <1>7
  <2>2. e[k - 1] = Unit
    BY <2>1, <1>4
  <2> QED BY <1>1, <1>4, <1>5, <1>7, <2>2 DEF Unit
<1> QED BY <1>6, <1>7

(* The baseline of a history counts its successes before the last attempt.   *)
LEMMA BaselineCount ==
  ASSUME NEW n \in Nat \ {0}, NEW s \in History(n)
  PROVE  /\ Len(Baseline(s)) = n - 1
         /\ Successes(Baseline(s)) \in 0 .. n - 1
         /\ Successes(Baseline(s)) = n - 1 <=> \A i \in 1 .. n - 1 : s[i] = 1
<1> DEFINE P == {i \in 1 .. n - 1 : s[i] = 1}
<1>1. Len(s) = n /\ s \in Seq({0, 1})
  BY DEF History
<1>2. /\ Len(Baseline(s)) = n - 1
      /\ DOMAIN Baseline(s) = 1 .. n - 1
      /\ \A i \in 1 .. n - 1 : Baseline(s)[i] = s[i]
  BY <1>1 DEF Baseline, Front
<1>3. Successes(Baseline(s)) = Cardinality(P)
  <2>1. {i \in DOMAIN Baseline(s) : Baseline(s)[i] = 1} = P
    BY <1>2
  <2> QED BY <2>1 DEF Successes
<1>4. IsFiniteSet(1 .. n - 1) /\ Cardinality(1 .. n - 1) = n - 1
  BY FS_Interval
<1>5. /\ Cardinality(P) \in Nat
      /\ Cardinality(P) <= n - 1
      /\ Cardinality(P) = n - 1 => P = 1 .. n - 1
  <2>1. P \subseteq 1 .. n - 1
    OBVIOUS
  <2> HIDE DEF P
  <2> QED BY <1>4, <2>1, FS_Subset, FS_CardinalityType
<1>6. P = 1 .. n - 1 <=> \A i \in 1 .. n - 1 : s[i] = 1
  OBVIOUS
<1> QED
  <2> HIDE DEF P
  <2> QED BY <1>2, <1>3, <1>4, <1>5, <1>6

-----------------------------------------------------------------------------
(* The verdicts of the detector. *)

(* Every attempt but the last has succeeded.                                 *)
FirstToFail(s) == s[Len(s)] = 0 /\ \A i \in 1 .. Len(s) - 1 : s[i] = 1

(* What the verdict compares, for a baseline of m attempts with S successes. *)
LEMMA DegradedDef ==
  ASSUME NEW n \in Nat, n >= MinAttempts, NEW s \in History(n), NEW S, NEW a,
         S = Successes(Baseline(s)), a = Averages(s)[n]
  PROVE  /\ S \in 0 .. n - 1 /\ a \in 0 .. Unit
         /\ LET m    == n - 1
                drop == Unit * S - m * a
            IN  Degraded(s) <=>
                   IF S * (m - S) = 0 THEN 1000 * drop >= 35 * Unit * m
                   ELSE /\ drop >= 0
                        /\ 4 * (m - 1) * drop * drop >= 49 * S * (m - S) * m * Unit * Unit
<1>1. n \in Nat \ {0}
  BY DEF MinAttempts
<1>2. S \in 0 .. n - 1 /\ Len(Baseline(s)) = n - 1 /\ Len(s) = n
  BY <1>1, BaselineCount, AveragesDef
<1>3. a \in 0 .. Unit /\ Ewma(s) = a
  BY <1>1, <1>2, AverageBounds, EwmaIsAverage
<1> QED BY <1>2, <1>3 DEF Degraded

(* However long a method has worked without a failure, its first failure is  *)
(* reported by ewma_degradation (once there are eight attempts).             *)
THEOREM FirstFailureIsDegraded ==
  ASSUME NEW n \in Nat, n >= MinAttempts, NEW s \in History(n), FirstToFail(s)
  PROVE  Degraded(s)
<1> DEFINE S == Successes(Baseline(s))
           a == Averages(s)[n]
<1>1. n \in Nat \ {0} /\ Len(s) = n /\ n - 1 \in 1 .. n /\ n >= 8
  BY AveragesDef DEF MinAttempts
<1>2. S = n - 1
  BY <1>1, BaselineCount DEF FirstToFail
<1>3. Averages(s)[n - 1] = Unit
  BY <1>1, AverageOfSuccesses DEF FirstToFail
<1>4. a = (Unit * s[n] + 3 * Averages(s)[n - 1]) \div 4
  BY <1>1, AveragesDef DEF IsAverage
<1>5. a = 192
  BY <1>1, <1>3, <1>4 DEF FirstToFail, Unit
<1> HIDE DEF S, a
<1>6. S * (n - 1 - S) = 0 /\ 1000 * (Unit * S - (n - 1) * a) >= 35 * Unit * (n - 1)
  BY <1>1, <1>2, <1>5 DEF Unit
<1> QED BY <1>6, DegradedDef DEF S, a

(* A method that never failed is not reported, however long its history.     *)
THEOREM UnbrokenIsNotDegraded ==
  ASSUME NEW n \in Nat, NEW s \in History(n), \A i \in 1 .. n : s[i] = 1
  PROVE  ~Degraded(s)
<1> SUFFICES ASSUME n >= MinAttempts PROVE ~Degraded(s)
  BY AveragesDef DEF Degraded
<1> DEFINE S == Successes(Baseline(s))
           a == Averages(s)[n]
<1>1. n \in Nat \ {0} /\ n \in 1 .. n /\ n >= 8
  BY DEF MinAttempts
<1>2. S = n - 1
  BY <1>1, BaselineCount
<1>3. a = Unit
  BY <1>1, AverageOfSuccesses
<1> HIDE DEF S, a
<1>4. S * (n - 1 - S) = 0 /\ ~(1000 * (Unit * S - (n - 1) * a) >= 35 * Unit * (n - 1))
  BY <1>1, <1>2, <1>3 DEF Unit
<1> QED BY <1>4, DegradedDef DEF S, a

(* A method none of whose earlier attempts succeeded is not reported either. *)
THEOREM BrokenIsNotDegraded ==
  ASSUME NEW n \in Nat, NEW s \in History(n), \A i \in 1 .. n - 1 : s[i] = 0
  PROVE  ~Degraded(s)
<1> SUFFICES ASSUME n >= MinAttempts PROVE ~Degraded(s)
  BY AveragesDef DEF Degraded
<1> DEFINE S == Successes(Baseline(s))
           a == Averages(s)[n]
<1>1. n \in Nat \ {0} /\ n >= 8 /\ Len(s) = n
  BY AveragesDef DEF MinAttempts
<1>2. S = 0
  <2>1. Successes(Baseline(s)) = Cardinality({})
    <3>1. {i \in DOMAIN Baseline(s) : Baseline(s)[i] = 1} = {}
      BY <1>1 DEF Baseline, Front, History
    <3> QED BY <3>1 DEF Successes
  <2> QED BY <2>1, FS_EmptySet
<1>3. a \in 0 .. Unit
  BY <1>1, AverageBounds
<1> HIDE DEF S, a
<1>4. S * (n - 1 - S) = 0 /\ ~(1000 * (Unit * S - (n - 1) * a) >= 35 * Unit * (n - 1))
  BY <1>1, <1>2, <1>3 DEF Unit
<1> QED BY <1>4, DegradedDef DEF S, a

(* A mixed baseline of at most 14 attempts varies too much for the deviation *)
(* of the average from its mean to reach 3.5: even an average of 0 does not. *)
LEMMA MixedBaseline ==
  ASSUME NEW m \in 1 .. 14, NEW S \in 1 .. m - 1, NEW drop \in 0 .. Unit * S
  PROVE  ~(4 * (m - 1) * drop * drop >= 49 * S * (m - S) * m * Unit * Unit)
<1> DEFINE u == Unit * S
<1>1. m \in Nat /\ S \in Nat /\ drop \in Nat /\ u \in Nat /\ drop <= u
  BY DEF Unit
<1>2. 4 * (m - 1) * S < 49 * (m - S) * m
  <2>1. \A k \in {2, 3, 4, 5, 6, 7, 8, 9, 10, 11, 12, 13, 14}, i \in Int :
           i >= 1 /\ i <= k - 1 => 4 * (k - 1) * i < 49 * (k - i) * k
    OBVIOUS
  <2>2. m \in {2, 3, 4, 5, 6, 7, 8, 9, 10, 11, 12, 13, 14} /\ S \in Int
    OBVIOUS
  <2> QED BY <2>1, <2>2
<1>3. drop * drop <= u * u
  <2>1. \A x, y \in Nat : x <= y => x * x <= y * y
    OBVIOUS
  <2> HIDE DEF u
  <2> QED BY <1>1, <2>1
<1>4. 4 * (m - 1) * (drop * drop) <= 4 * (m - 1) * (u * u)
  <2>1. \A c, x, y \in Nat : x <= y => c * x <= c * y
    OBVIOUS
  <2>2. 4 * (m - 1) \in Nat /\ drop * drop \in Nat /\ u * u \in Nat
    BY <1>1
  <2> HIDE DEF u
  <2> QED BY <1>3, <2>1, <2>2
<1>5. 4 * (m - 1) * (u * u) < 49 * S * (m - S) * m * Unit * Unit
  <2> DEFINE x == 4 * (m - 1) * S
             y == 49 * (m - S) * m
             c == Unit * Unit * S
  <2>1. x \in Nat /\ y \in Nat /\ c \in Nat /\ c > 0
    BY <1>1 DEF Unit
  <2>2. \A i, j, k \in Nat : i < j /\ k > 0 => k * i < k * j
    OBVIOUS
  <2>3. c * x < c * y
    <3> HIDE DEF x, y, c
    <3>1. x < y
      BY <1>2 DEF x, y
    <3> QED BY <2>1, <2>2, <3>1
  <2>4. /\ 4 * (m - 1) * (u * u) = c * x
        /\ 49 * S * (m - S) * m * Unit * Unit = c * y
    BY <1>1 DEF Unit
  <2> QED BY <2>3, <2>4
<1>6. 4 * (m - 1) * drop * drop = 4 * (m - 1) * (drop * drop)
  BY <1>1
<1>7. /\ 4 * (m - 1) * (drop * drop) \in Int /\ 4 * (m - 1) * (u * u) \in Int
      /\ 49 * S * (m - S) * m * Unit * Unit \in Int
  BY <1>1 DEF Unit
<1> HIDE DEF u
<1> QED BY <1>4, <1>5, <1>6, <1>7

(* In histories of up to 15 attempts nothing but a first failure after       *)
(* unbroken successes is reported.                                           *)
LEMMA DegradedAtFirst ==
  ASSUME NEW n \in 0 .. 15, NEW s \in History(n), Degraded(s)
  PROVE  n >= MinAttempts /\ FirstToFail(s)
<1> DEFINE m == n - 1
           S == Successes(Baseline(s))
           a == Averages(s)[n]
           drop == Unit * S - m * a
<1>1. n \in Nat /\ n >= MinAttempts /\ Len(s) = n
  BY AveragesDef DEF Degraded
<1>2. n \in Nat \ {0} /\ n >= 8 /\ m \in 7 .. 14
  BY <1>1 DEF MinAttempts
<1>3. /\ S \in 0 .. m /\ a \in 0 .. Unit
      /\ IF S * (m - S) = 0 THEN 1000 * drop >= 35 * Unit * m
         ELSE /\ drop >= 0
              /\ 4 * (m - 1) * drop * drop >= 49 * S * (m - S) * m * Unit * Unit
  BY <1>1, DegradedDef
<1>4. S # 0
  <2>1. ASSUME S = 0 PROVE FALSE
    <3>1. m * a >= 0
      <4> HIDE DEF a
      <4> QED BY <1>2, <1>3 DEF Unit
    <3> HIDE DEF S, a
    <3> QED BY <1>2, <1>3, <2>1, <3>1 DEF Unit
  <2> QED BY <2>1
<1>5. ~(S \in 1 .. m - 1)
  <2>1. ASSUME S \in 1 .. m - 1 PROVE FALSE
    <3> HIDE DEF S, a
    <3>1. S * (m - S) # 0
      BY <1>2, <2>1
    <3>2. m * a >= 0 /\ m * a \in Int
      BY <1>2, <1>3 DEF Unit
    <3>3. drop \in 0 .. Unit * S
      BY <1>2, <1>3, <2>1, <3>1, <3>2 DEF Unit
    <3>4. m \in 1 .. 14
      BY <1>2
    <3> HIDE DEF drop, m
    <3>5. 4 * (m - 1) * drop * drop >= 49 * S * (m - S) * m * Unit * Unit
      BY <1>3, <3>1, Zenon
    <3>6. ~(4 * (m - 1) * drop * drop >= 49 * S * (m - S) * m * Unit * Unit)
      BY <2>1, <3>3, <3>4, MixedBaseline, Zenon
    <3> QED BY <3>5, <3>6, Zenon
  <2> QED BY <2>1
<1>6. S = m
  <2> HIDE DEF S
  <2> QED BY <1>2, <1>3, <1>4, <1>5
<1>7. \A i \in 1 .. n - 1 : s[i] = 1
  BY <1>2, <1>6, BaselineCount
<1>8. s[n] # 1
  <2>1. ASSUME s[n] = 1 PROVE FALSE
    <3>1. \A i \in 1 .. n : s[i] = 1
      BY <1>2, <1>7, <2>1
    <3> QED BY <1>1, <3>1, UnbrokenIsNotDegraded
  <2> QED BY <2>1
<1>9. s[n] = 0
  BY <1>2, <1>8 DEF History
<1> QED BY <1>1, <1>7, <1>9 DEF FirstToFail

(* The detector at the sample sizes it starts with.                          *)
LEMMA DegradedExactly ==
  ASSUME NEW n \in 0 .. 15, NEW s \in History(n)
  PROVE  Degraded(s) <=> n >= MinAttempts /\ FirstToFail(s)
  BY DegradedAtFirst, FirstFailureIsDegraded
=============================================================================
