-------------------------- MODULE SlaClockProofs --------------------------
(***************************************************************************)
(* Theorems about the clocks of SlaClock for every length of the day and    *)
(* the week, every set of teams, schedules and policies, and every bound.   *)
(***************************************************************************)
EXTENDS SlaClock, FiniteSetTheorems, TLAPS

--------------------------------------------------------------------------
(* Numbers *)

LEMMA Divided ==
    ASSUME NEW K \in Nat \ {0}, NEW x \in Int
    PROVE  x \div K \in Int /\ x % K \in 0..K-1 /\ x = K * (x \div K) + (x % K)
OBVIOUS

LEMMA Divides ==
    ASSUME NEW K \in Nat \ {0}, NEW q \in Int, NEW r \in 0..K-1
    PROVE  (K * q + r) \div K = q /\ (K * q + r) % K = r
OBVIOUS

LEMMA Scaled ==
    ASSUME NEW K \in Nat, NEW a \in Int, NEW b \in Int, a <= b
    PROVE  K * a <= K * b /\ K * a \in Int /\ K * b \in Int
OBVIOUS

--------------------------------------------------------------------------
(* Induction, and sets of numbers *)

\* Induction over a set of numbers.
LEMMA Induction ==
    ASSUME NEW T, 0 \in T, \A n \in Nat : n \in T => n + 1 \in T
    PROVE  \A n \in Nat : n \in T
<1> SUFFICES ASSUME Nat \ T # {} PROVE FALSE
  OBVIOUS
<1>1. PICK R : R = {p \in Nat \X Nat : p[1] < p[2]}
  OBVIOUS
<1>2. IsWellFoundedOn(R, Nat)
  BY <1>1, NatLessThanWellFounded DEF OpToRel
<1>3. PICK x \in Nat \ T : \A y \in Nat \ T : ~ (<<y, x>> \in R)
  BY <1>2, WFMin
<1>4. x - 1 \in Nat \ T \/ x = 0
  OBVIOUS
<1>5. x - 1 \in Nat => <<x - 1, x>> \in R
  BY <1>1
<1> QED BY <1>3, <1>4, <1>5

\* A set of numbers has a first one, and a bounded one has a last.
LEMMA Least ==
    ASSUME NEW S, S \subseteq Nat, S # {}
    PROVE  Min(S) \in S /\ \A n \in S : Min(S) <= n
<1>1. \E x \in S : \A y \in S : x <= y
  <2> SUFFICES ASSUME \A x \in S : \E y \in S : y < x
               PROVE  FALSE
    OBVIOUS
  <2>a. PICK T : T = {n \in Nat : \A x \in S : n <= x}
    OBVIOUS
  <2>1. 0 \in T
    BY <2>a
  <2>2. ASSUME NEW n \in Nat, n \in T
        PROVE  n + 1 \in T
    <3>1. \A x \in S : n <= x
      BY <2>2, <2>a
    <3>2. n \notin S
      BY <3>1
    <3>3. \A x \in S : n + 1 <= x
      BY <3>1, <3>2
    <3> QED BY <2>a, <3>3
  <2>3. \A n \in Nat : n \in T
    BY <2>1, <2>2, Induction
  <2>4. PICK x \in S : TRUE
    OBVIOUS
  <2>5. x + 1 \in T
    BY <2>3
  <2> QED BY <2>5, <2>a
<1> QED BY <1>1 DEF Min

LEMMA Largest ==
    ASSUME NEW S, NEW N \in Nat, S \subseteq 0..N, S # {}
    PROVE  Max(S) \in S /\ \A n \in S : n <= Max(S)
<1>a. PICK T : T = {N - n : n \in S}
  OBVIOUS
<1>1. T \subseteq Nat /\ T # {}
  <2>1. \A n \in S : N - n \in Nat
    OBVIOUS
  <2> QED BY <2>1, <1>a
<1>2. PICK x \in S : Min(T) = N - x
  BY <1>1, <1>a, Least
<1>3. \A n \in S : N - x <= N - n
  BY <1>1, <1>2, <1>a, Least
<1>4. \A n \in S : n <= x
  BY <1>3
<1>5. \E y \in S : \A n \in S : y >= n
  BY <1>4
<1> QED BY <1>5 DEF Max

\* Every place in a finite set of numbers is taken.
LEMMA Place ==
    ASSUME NEW S, IsFiniteSet(S), S \subseteq Nat, NEW k \in Nat, k < Cardinality(S)
    PROVE  \E x \in S : Cardinality({y \in S : y < x}) = k
<1> DEFINE Below(x) == {y \in S : y < x}
<1>a. PICK T : T = {n \in Nat : n < Cardinality(S) => \E x \in S : Cardinality(Below(x)) = n}
  OBVIOUS
<1>0. Cardinality(S) \in Nat
  BY FS_CardinalityType
<1>1. 0 \in T
  <2>1. CASE S = {}
    <3>1. Cardinality(S) = 0
      BY <2>1, FS_EmptySet
    <3> QED BY <1>a, <3>1
  <2>2. CASE S # {}
    <3>1. PICK x \in S : \A y \in S : x <= y
      BY <2>2, Least
    <3>2. \A y \in S : y \in Nat /\ x \in Nat /\ ~(y < x)
      BY <3>1
    <3>3. Below(x) = {}
      BY <3>2
    <3> HIDE DEF Below
    <3>4. Cardinality(Below(x)) = 0
      BY <3>3, FS_EmptySet
    <3>5. 0 \in Nat /\ \E z \in S : Cardinality(Below(z)) = 0
      BY <3>4
    <3> QED BY <1>a, <3>5, Zenon
  <2> QED BY <2>1, <2>2
<1>2. ASSUME NEW n \in Nat, n \in T
      PROVE  n + 1 \in T
  <2> SUFFICES ASSUME n + 1 < Cardinality(S)
               PROVE  \E x \in S : Cardinality(Below(x)) = n + 1
    BY <1>a
  <2>1. PICK x \in S : Cardinality(Below(x)) = n
    <3>1. n < Cardinality(S)
      BY <1>0
    <3> QED BY <1>2, <1>a, <3>1
  <2>b. PICK B, A : B = Below(x) /\ A = {y \in S : x < y}
    OBVIOUS
  <2>2. IsFiniteSet(B) /\ x \notin B /\ B \cup {x} \in SUBSET S
    <3>1. B \in SUBSET S
      BY <2>b
    <3>2. IsFiniteSet(B)
      BY <3>1, FS_Subset
    <3> QED BY <2>b, <3>2
  <2>3. IsFiniteSet(B \cup {x}) /\ Cardinality(B \cup {x}) = n + 1
    BY <2>1, <2>2, <2>b, FS_AddElement
  <2>4. A # {}
    <3> SUFFICES ASSUME A = {} PROVE FALSE
      OBVIOUS
    <3>1. \A y \in S : y < x \/ y = x
      BY <2>b
    <3>2. S = B \cup {x}
      BY <3>1, <2>2, <2>b
    <3> QED BY <2>3, <3>2
  <2>5. Min(A) \in S /\ x < Min(A) /\ \A y \in A : Min(A) <= y
    <3>1. A \subseteq Nat
      BY <2>b
    <3> QED BY <2>4, <2>b, <3>1, Least
  <2>6. Below(Min(A)) = B \cup {x}
    <3>1. \A y \in S : y \in Nat /\ x \in Nat /\ Min(A) \in Nat
      BY <2>5
    <3>2. \A y \in S : y < Min(A) <=> y < x \/ y = x
      BY <2>5, <2>b, <3>1
    <3> QED BY <2>b, <3>2
  <2> HIDE DEF Below
  <2> QED BY <2>3, <2>5, <2>6
<1>3. k \in T
  <2> HIDE DEF Below
  <2> QED BY <1>1, <1>2, Induction
<1> QED BY <1>3, <1>a

LEMMA FiniteImage ==
    ASSUME NEW S, IsFiniteSet(S), NEW f, DOMAIN f = S
    PROVE  IsFiniteSet({f[x] : x \in S})
<1>a. PICK T, g : T = {f[x] : x \in S} /\ g = [x \in S |-> f[x]]
  OBVIOUS
<1>1. g \in Surjection(S, T)
  BY <1>a DEF Surjection
<1> QED BY <1>a, <1>1, FS_Surjection

\* The numbers of an interval that are in another one.
LEMMA Overlap ==
    ASSUME NEW a \in Int, NEW b \in Int, NEW start \in Int, NEW end \in Int
    PROVE  /\ IsFiniteSet({m \in start..(end - 1) : a <= m /\ m < b})
           /\ Cardinality({m \in start..(end - 1) : a <= m /\ m < b})
                = AtLeast(0, AtMost(end, b) - AtLeast(start, a))
<1>a. PICK lo, hi : lo = AtLeast(start, a) /\ hi = AtMost(end, b) - 1
  OBVIOUS
<1>1. lo \in Int /\ hi \in Int
  BY <1>a DEF AtLeast, AtMost
<1>2. \A m \in Int : m \in lo..hi <=> m \in start..(end - 1) /\ a <= m /\ m < b
  BY <1>1, <1>a DEF AtLeast, AtMost
<1>3. lo..hi = {m \in start..(end - 1) : a <= m /\ m < b}
  <2>1. \A m : m \in lo..hi => m \in Int
    OBVIOUS
  <2>2. \A m : m \in start..(end - 1) => m \in Int
    OBVIOUS
  <2> QED BY <1>2, <2>1, <2>2, Zenon
<1>4. IsFiniteSet(lo..hi) /\ Cardinality(lo..hi) = IF lo > hi THEN 0 ELSE hi - lo + 1
  BY <1>1, FS_Interval
<1>5. (IF lo > hi THEN 0 ELSE hi - lo + 1) = AtLeast(0, AtMost(end, b) - AtLeast(start, a))
  BY <1>1, <1>a DEF AtLeast, AtMost
<1> QED BY <1>3, <1>4, <1>5

\* The sum of the sizes of disjoint parts is the size of what they are parts of.
LEMMA SumOfParts ==
    ASSUME NEW D, IsFiniteSet(D), NEW W, IsFiniteSet(W),
           NEW part, \A k \in D : part[k] \in SUBSET W,
           \A j, k \in D : j # k => part[j] \cap part[k] = {},
           NEW counts, DOMAIN counts = D, \A k \in D : counts[k] = Cardinality(part[k])
    PROVE  SumOver(counts) = Cardinality(UNION {part[k] : k \in D})
<1> DEFINE One(s) == CHOOSE x \in s : TRUE
           All_(s) == UNION {part[k] : k \in s}
           Step(f) == [s \in SUBSET D |-> IF s = {} THEN 0 ELSE counts[One(s)] + f[s \ {One(s)}]]
           sizes == [s \in SUBSET D |-> Cardinality(All_(s))]
           sum == CHOOSE f : f = Step(f)
<1>1. SumOver(counts) = sum[D]
  BY DEF SumOver, MapThenSumSet, MapThenFoldSet
<1>2. \A s : s # {} => One(s) \in s
  OBVIOUS
<1> HIDE DEF One
<1>3. ASSUME NEW s \in SUBSET D
      PROVE  IsFiniteSet(All_(s)) /\ Cardinality(All_(s)) \in Nat
  <2>1. All_(s) \in SUBSET W
    OBVIOUS
  <2> HIDE DEF All_
  <2> QED BY <2>1, FS_Subset, FS_CardinalityType
<1>4. ASSUME NEW s \in SUBSET D, s # {}
      PROVE  Cardinality(All_(s)) = counts[One(s)] + Cardinality(All_(s \ {One(s)}))
  <2>a. PICK x, rest : x = One(s) /\ rest = s \ {x}
    OBVIOUS
  <2>1. x \in D /\ x \in s /\ rest \in SUBSET D
    BY <1>2, <1>4, <2>a
  <2>2. All_(s) = part[x] \cup All_(rest) /\ part[x] \cap All_(rest) = {}
    BY <2>1, <2>a
  <2>3. IsFiniteSet(part[x])
    BY <2>1, FS_Subset
  <2>4. IsFiniteSet(All_(rest))
    BY <1>3, <2>1
  <2> HIDE DEF All_
  <2>5. Cardinality(All_(s)) = Cardinality(part[x]) + Cardinality(All_(rest)) - Cardinality({})
    BY <2>2, <2>3, <2>4, FS_Union
  <2>6. Cardinality({}) = 0 /\ Cardinality(part[x]) \in Nat /\ Cardinality(All_(rest)) \in Nat
    BY <2>3, <2>4, FS_EmptySet, FS_CardinalityType
  <2>7. counts[x] = Cardinality(part[x])
    BY <2>1
  <2> QED BY <2>5, <2>6, <2>7, <2>a
<1>5. All_({}) = {}
  OBVIOUS
<1> HIDE DEF All_
<1>6. sizes = Step(sizes)
  <2>1. ASSUME NEW s \in SUBSET D
        PROVE  sizes[s] = IF s = {} THEN 0 ELSE counts[One(s)] + sizes[s \ {One(s)}]
    <3>1. CASE s = {}
      BY <1>5, <3>1, FS_EmptySet
    <3>2. CASE s # {}
      BY <1>4, <3>2
    <3> QED BY <3>1, <3>2
  <2> QED BY <2>1
<1> HIDE DEF Step
<1>7. sum = Step(sum)
  BY <1>6
<1>8. \A s \in SUBSET D : sum[s] = IF s = {} THEN 0 ELSE counts[One(s)] + sum[s \ {One(s)}]
  <2> HIDE DEF sum
  <2> QED BY <1>7 DEF Step
<1> HIDE DEF sum
<1> DEFINE T == {n \in Nat : \A s \in SUBSET D : Cardinality(s) = n => sum[s] = Cardinality(All_(s))}
<1>9. \A s \in SUBSET D : IsFiniteSet(s) /\ Cardinality(s) \in Nat
  BY FS_Subset, FS_CardinalityType
<1>10. 0 \in T
  <2>1. \A s \in SUBSET D : Cardinality(s) = 0 => s = {}
    BY <1>9, FS_EmptySet
  <2>2. Cardinality({}) = 0
    BY FS_EmptySet
  <2>3. sum[{}] = 0
    BY <1>8
  <2> QED BY <1>5, <2>1, <2>2, <2>3
<1>11. ASSUME NEW n \in Nat, n \in T
       PROVE  n + 1 \in T
  <2> SUFFICES ASSUME NEW s \in SUBSET D, Cardinality(s) = n + 1
               PROVE  sum[s] = Cardinality(All_(s))
    OBVIOUS
  <2>1. s # {}
    BY FS_EmptySet
  <2>a. PICK rest : rest = s \ {One(s)}
    OBVIOUS
  <2>2. rest \in SUBSET D /\ One(s) \in s
    BY <1>2, <2>1, <2>a
  <2>3. Cardinality(rest) = n
    <3>1. IsFiniteSet(s)
      BY <1>9
    <3>2. Cardinality(s \ {One(s)}) = Cardinality(s) - 1
      BY <2>2, <3>1, FS_RemoveElement
    <3> QED BY <2>a, <3>2
  <2>4. sum[rest] = Cardinality(All_(rest))
    BY <1>11, <2>2, <2>3
  <2> QED BY <1>4, <1>8, <2>1, <2>4, <2>a
<1>12. \A n \in Nat : n \in T
  <2> HIDE DEF T
  <2> QED BY <1>10, <1>11, Induction
<1>13. sum[D] = Cardinality(All_(D))
  BY <1>9, <1>12
<1> QED BY <1>1, <1>13 DEF All_

--------------------------------------------------------------------------
(* The hours of a weekday and the rows they come from *)

M == DayLength
L == WeekLength

\* Minute t of the day is in window w.
In(w, t) == w.from <= t /\ t < w.to

\* Whether a row covers minute t of the weekday that is k days after its own.
Covers(e, k, t) ==
    \/ k = 0 /\ e.start <= t /\ (Overnight(e) \/ t < e.end)
    \/ Overnight(e) /\ k = 1 % L /\ t < e.end

\* The minutes, modulo a week, since the start s on weekday b; it is minute t of weekday a.
Since(q, a, t, b, s) == ((M * (L * q + a) + t) - (b * M + s)) % (L * M)

SinceIs(q, a, t, b, s, k) ==
    /\ k \in 0..L-1
    /\ ~(k = 0 /\ t < s) => Since(q, a, t, b, s) = k * M + t - s
    /\ k = 0 /\ t < s => Since(q, a, t, b, s) = L * M + t - s

LEMMA Offset ==
    ASSUME NEW a \in 0..L-1, NEW b \in 0..L-1, NEW s \in 0..M-1, NEW t \in 0..M-1, NEW q \in Int,
           L \in Nat \ {0}, M \in Nat \ {0}
    PROVE  SinceIs(q, a, t, b, s, (a - b) % L)
<1>k. PICK k : k = (a - b) % L
  OBVIOUS
<1>a. PICK p : p = (a - b) \div L
  OBVIOUS
<1>1. a - b \in Int /\ p \in Int /\ k \in 0..L-1 /\ a - b = L * p + k
  BY <1>a, <1>k, Divided
<1>2. L * M \in Nat \ {0} /\ M * L = L * M
  OBVIOUS
<1>3. (M * (L * q + a) + t) - (b * M + s) = (L * M) * (q + p) + (k * M + t - s)
  <2>1. M * (L * q + a) = (L * M) * q + M * a
    OBVIOUS
  <2>2. M * a - b * M = M * (a - b)
    OBVIOUS
  <2>3. M * (L * p + k) = (L * M) * p + k * M
    BY <1>1
  <2>4. (L * M) * (q + p) = (L * M) * q + (L * M) * p
    BY <1>1
  <2> QED BY <1>1, <2>1, <2>2, <2>3, <2>4
<1>4. q + p \in Int /\ k * M \in Int /\ (L * M) * (q + p) \in Int
  BY <1>1, <1>2
<1>5. (L - 1) * M = L * M - M /\ k * M <= (L - 1) * M /\ 0 <= k * M
  <2>1. k <= L - 1 /\ 0 <= k
    BY <1>1
  <2>2. M * k <= M * (L - 1) /\ M * 0 <= M * k
    BY <1>1, <2>1, Scaled
  <2> QED BY <2>2, <1>1
<1>6. ASSUME ~(k = 0 /\ t < s)
      PROVE  ((M * (L * q + a) + t) - (b * M + s)) % (L * M) = k * M + t - s
  <2>1. k * M + t - s \in 0..(L * M) - 1
    <3>1. k * M + t - s < L * M
      BY <1>2, <1>4, <1>5
    <3>2. 0 <= k * M + t - s
      <4>1. CASE k = 0
        BY <1>6, <4>1
      <4>2. CASE k # 0
        <5>1. M * 1 <= M * k
          BY <1>1, <4>2, Scaled
        <5> QED BY <1>1, <1>4, <5>1
      <4> QED BY <4>1, <4>2
    <3> QED BY <1>2, <1>4, <3>1, <3>2
  <2>a. PICK K, j, r : K = L * M /\ j = q + p /\ r = k * M + t - s
    OBVIOUS
  <2>2. K \in Nat \ {0} /\ j \in Int /\ r \in 0..K-1
    BY <1>2, <1>4, <2>1, <2>a
  <2>3. (K * j + r) % K = r
    BY <2>2, Divides
  <2> QED BY <1>3, <2>3, <2>a, Zenon
<1>7. ASSUME k = 0, t < s
      PROVE  ((M * (L * q + a) + t) - (b * M + s)) % (L * M) = L * M + t - s
  <2>1. L * M + t - s \in 0..(L * M) - 1
    <3>1. M * 1 <= M * L
      BY Scaled
    <3> QED BY <1>2, <1>7, <3>1
  <2>2. (L * M) * (q + p) + (k * M + t - s) = (L * M) * (q + p - 1) + (L * M + t - s)
    <3>1. (L * M) * (q + p - 1) = (L * M) * (q + p) - L * M
      BY <1>1, <1>2
    <3>2. k * M = 0
      BY <1>7
    <3> QED BY <1>2, <1>4, <3>1, <3>2
  <2>3. ((L * M) * (q + p - 1) + (L * M + t - s)) % (L * M) = L * M + t - s
    <3>a. PICK K, j, r : K = L * M /\ j = q + p - 1 /\ r = L * M + t - s
      OBVIOUS
    <3>1. K \in Nat \ {0} /\ j \in Int /\ r \in 0..K-1
      BY <1>1, <1>2, <2>1, <3>a
    <3>2. (K * j + r) % K = r
      BY <3>1, Divides
    <3> QED BY <3>2, <3>a, Zenon
  <2> QED BY <1>3, <2>2, <2>3
<1>8. k \in 0..L-1
  BY <1>1
<1>9. SinceIs(q, a, t, b, s, k)
  BY <1>6, <1>7, <1>8, Zenon DEF Since, SinceIs
<1> QED BY <1>9, <1>k, Zenon
LEMMA NextDay ==
    ASSUME NEW a \in 0..L-1, NEW b \in 0..L-1, L \in Nat \ {0}
    PROVE  /\ (b + 1) % L = a <=> (a - b) % L = 1 % L
           /\ a = b <=> (a - b) % L = 0
           /\ L = 1 => 1 % L = 0
           /\ L # 1 => 1 % L = 1
<1>1. L = 1 => 1 % L = 0
  OBVIOUS
<1>2. ASSUME NEW x \in 0..L-1
      PROVE  (L * 0 + x) % L = x /\ (L * 1 + x) % L = x /\ (L * (-1) + x) % L = x
  BY Divides
<1>3. \A x \in 0..L-1 : x % L = x /\ (L + x) % L = x /\ (x - L) % L = x
  BY <1>2
<1>4. L # 1 => 1 % L = 1
  BY <1>3
<1>5. (b + 1) % L = IF b = L - 1 THEN 0 ELSE b + 1
  <2>1. b = L - 1 => b + 1 = L + 0 /\ 0 \in 0..L-1
    OBVIOUS
  <2>2. b # L - 1 => b + 1 \in 0..L-1
    OBVIOUS
  <2> QED BY <1>3, <2>1, <2>2
<1>6. (a - b) % L = IF a >= b THEN a - b ELSE a - b + L
  <2>1. a >= b => a - b \in 0..L-1
    OBVIOUS
  <2>2. ~(a >= b) => a - b = (a - b + L) - L /\ a - b + L \in 0..L-1
    OBVIOUS
  <2> QED BY <1>3, <2>1, <2>2
<1>7. (b + 1) % L = a <=> (a - b) % L = 1 % L
  <2>1. CASE L = 1
    BY <1>1, <1>5, <1>6, <2>1
  <2>2. CASE L # 1
    BY <1>4, <1>5, <1>6, <2>2
  <2> QED BY <2>1, <2>2
<1>8. a = b <=> (a - b) % L = 0
  BY <1>6
<1> QED BY <1>1, <1>4, <1>7, <1>8

\* A row claims the minutes it covers.
LEMMA ClaimsCover ==
    ASSUME NEW e \in ScheduleEntry, NEW wd \in Weekday, NEW t \in TimeOfDay, NEW q \in Int
    PROVE  Since(q, wd, t, e.weekday, e.start) < ShiftLength(e)
             <=> Covers(e, (wd - e.weekday) % L, t)
<1>a. PICK b, k, s, f, x : /\ b = e.weekday /\ k = (wd - b) % L /\ s = e.start /\ f = e.end
                           /\ x = Since(q, wd, t, b, s)
  OBVIOUS
<1>1. /\ L \in Nat \ {0} /\ M \in Nat \ {0}
      /\ b \in 0..L-1 /\ s \in 0..M-1 /\ f \in 0..M-1 /\ wd \in 0..L-1 /\ t \in 0..M-1
  BY <1>a, TimeAssumption DEF ScheduleEntry, Weekday, TimeOfDay, L, M
<1>2. /\ k \in 0..L-1
      /\ ~(k = 0 /\ t < s) => x = k * M + t - s
      /\ k = 0 /\ t < s => x = L * M + t - s
  <2>1. x = Since(q, wd, t, b, s) /\ k = (wd - b) % L
    BY <1>a
  <2>2. SinceIs(q, wd, t, b, s, k)
    BY <1>1, <2>1, Offset
  <2> QED BY <2>1, <2>2, Zenon DEF SinceIs
<1>3. (L = 1 => 1 % L = 0) /\ (L # 1 => 1 % L = 1)
  BY <1>1, NextDay
<1>4. M * 1 <= M * L /\ (L # 1 => M * 2 <= M * L) /\ (1 <= k => M * 1 <= M * k) /\ (2 <= k => M * 2 <= M * k)
  BY <1>1, <1>2, Scaled
<1>5. M * L = L * M /\ M * k = k * M /\ L * M \in Int /\ k * M \in Int
  BY <1>1, <1>2
<1>6. CASE k = 0 /\ s <= t
  <2>1. x = t - s
    BY <1>1, <1>2, <1>6
  <2>2. CASE f <= s
    <3>1. x < M - s + f
      BY <1>1, <2>1, <2>2
    <3> QED BY <1>a, <1>6, <2>2, <3>1 DEF Covers, ShiftLength, Overnight, M, L
  <2>3. CASE s < f
    <3>1. x < f - s <=> t < f
      BY <1>1, <2>1
    <3>2. ~(f <= s)
      BY <1>1, <2>3
    <3> QED BY <1>a, <1>6, <3>1, <3>2 DEF Covers, ShiftLength, Overnight, M, L
  <2> QED BY <1>1, <2>2, <2>3
<1>7. CASE k = 0 /\ t < s
  <2>1. x = L * M + t - s /\ ~(s <= t)
    BY <1>1, <1>2, <1>7
  <2>2. CASE s < f
    <3>1. ~(x < f - s) /\ ~(f <= s)
      BY <1>1, <1>4, <1>5, <2>1, <2>2
    <3> QED BY <1>a, <2>1, <3>1 DEF Covers, ShiftLength, Overnight, M, L
  <2>3. CASE f <= s /\ L = 1
    <3>1. x < M - s + f <=> t < f
      BY <1>1, <2>1, <2>3
    <3> QED BY <1>a, <1>3, <1>7, <2>1, <2>3, <3>1 DEF Covers, ShiftLength, Overnight, M
  <2>4. CASE f <= s /\ L # 1
    <3>1. ~(x < M - s + f)
      BY <1>1, <1>4, <1>5, <2>1, <2>4
    <3>2. k # 1 % L
      BY <1>3, <1>7, <2>4
    <3> QED BY <1>a, <2>1, <2>4, <3>1, <3>2 DEF Covers, ShiftLength, Overnight, M
  <2> QED BY <1>1, <2>2, <2>3, <2>4
<1>8. CASE k # 0
  <2>1. x = k * M + t - s /\ 1 <= k /\ L # 1
    BY <1>1, <1>2, <1>8
  <2>2. CASE s < f
    <3>1. ~(x < f - s) /\ ~(f <= s)
      BY <1>1, <1>4, <1>5, <2>1, <2>2
    <3> QED BY <1>a, <1>8, <3>1 DEF Covers, ShiftLength, Overnight, M, L
  <2>3. CASE f <= s /\ k = 1
    <3>1. x < M - s + f <=> t < f
      BY <1>1, <2>1, <2>3
    <3> QED BY <1>a, <1>3, <1>8, <2>1, <2>3, <3>1 DEF Covers, ShiftLength, Overnight, M
  <2>4. CASE f <= s /\ k # 1
    <3>1. ~(x < M - s + f)
      <4>1. 2 <= k
        BY <1>2, <2>1, <2>4
      <4>2. M * 2 <= k * M
        BY <1>4, <1>5, <4>1
      <4> QED BY <1>1, <1>5, <2>1, <4>2
    <3>2. k # 1 % L
      BY <1>3, <2>1, <2>4
    <3> QED BY <1>a, <1>8, <2>4, <3>1, <3>2 DEF Covers, ShiftLength, Overnight, M
  <2> QED BY <1>1, <2>2, <2>3, <2>4
<1> QED BY <1>1, <1>6, <1>7, <1>8

\* The windows of a weekday are those of the rows that cover it.
LEMMA WindowsCover ==
    ASSUME NEW s \in SUBSET ScheduleEntry, NEW wd \in Weekday, NEW t \in TimeOfDay, NEW e
    PROVE  (\E w \in WindowsOn(s, wd) : w.of = e /\ In(w, t))
             <=> e \in s /\ Covers(e, (wd - e.weekday) % L, t)
<1> DEFINE First == [from |-> e.start, to |-> IF Overnight(e) THEN DayLength ELSE e.end, of |-> e]
           Rest == [from |-> 0, to |-> e.end, of |-> e]
<1>1. \A w : w \in WindowsOn(s, wd) /\ w.of = e <=>
              \/ e \in s /\ w = First /\ e.weekday = wd
              \/ e \in s /\ w = Rest /\ Overnight(e) /\ (e.weekday + 1) % L = wd
  <2> DEFINE FirstOf(r) == [from |-> r.start, to |-> IF Overnight(r) THEN DayLength ELSE r.end, of |-> r]
             RestOf(r) == [from |-> 0, to |-> r.end, of |-> r]
  <2>1. \A w : w \in WindowsOn(s, wd) <=>
              \/ \E r \in s : r.weekday = wd /\ w = FirstOf(r)
              \/ \E r \in s : Overnight(r) /\ (r.weekday + 1) % L = wd /\ w = RestOf(r)
    BY DEF WindowsOn, L
  <2>2. \A r : FirstOf(r).of = r /\ RestOf(r).of = r
    OBVIOUS
  <2>3. First = FirstOf(e) /\ Rest = RestOf(e)
    OBVIOUS
  <2> HIDE DEF First, Rest, FirstOf, RestOf
  <2> QED BY <2>1, <2>2, <2>3
<1>2. In(First, t) <=> e.start <= t /\ t < IF Overnight(e) THEN DayLength ELSE e.end
  BY DEF In
<1>3. In(Rest, t) <=> t < e.end
  BY DEF In, TimeOfDay
<1> HIDE DEF First, Rest
<1>4. ASSUME e \in s
      PROVE  (e.weekday = wd <=> (wd - e.weekday) % L = 0)
             /\ ((e.weekday + 1) % L = wd <=> (wd - e.weekday) % L = 1 % L)
  <2>1. L \in Nat \ {0} /\ e.weekday \in 0..L-1 /\ wd \in 0..L-1
    BY <1>4, TimeAssumption DEF ScheduleEntry, Weekday, L
  <2> QED BY <2>1, NextDay
<1>5. t < DayLength
  BY TimeAssumption DEF TimeOfDay
<1> QED BY <1>1, <1>2, <1>3, <1>4, <1>5 DEF Covers

LEMMA Times ==
    /\ M \in Nat \ {0} /\ L \in Nat \ {0} /\ M = DayLength /\ L = WeekLength
    /\ Weekday = 0..L-1 /\ TimeOfDay = 0..M-1
BY TimeAssumption DEF M, L, Weekday, TimeOfDay

\* Every instant is a minute of a weekday.
LEMMA Calendar ==
    ASSUME NEW m \in Int
    PROVE  /\ Day(m) \in Int /\ Day(m) % L \in Weekday /\ m % M \in TimeOfDay
           /\ m = M * Day(m) + (m % M)
           /\ \E q \in Int : m = M * (L * q + (Day(m) % L)) + (m % M)
<1>1. Day(m) \in Int /\ m % M \in 0..M-1 /\ m = M * Day(m) + (m % M)
  BY Times, Divided DEF Day
<1>2. Day(m) \div L \in Int /\ Day(m) % L \in 0..L-1 /\ Day(m) = L * (Day(m) \div L) + (Day(m) % L)
  BY <1>1, Times, Divided
<1> QED BY <1>1, <1>2, Times

LEMMA WindowsTyped ==
    ASSUME NEW s \in SUBSET ScheduleEntry, NEW wd
    PROVE  \A w \in WindowsOn(s, wd) :
             /\ w \in Window /\ w.of \in s /\ w.from \in 0..M /\ w.to \in 0..M /\ w.from <= w.to
             /\ w = [from |-> w.from, to |-> w.to, of |-> w.of]
<1> SUFFICES ASSUME NEW w \in WindowsOn(s, wd)
             PROVE  /\ w \in Window /\ w.of \in s /\ w.from \in 0..M /\ w.to \in 0..M /\ w.from <= w.to
                    /\ w = [from |-> w.from, to |-> w.to, of |-> w.of]
  OBVIOUS
<1>1. PICK e \in s :
        \/ w = [from |-> e.start, to |-> IF Overnight(e) THEN DayLength ELSE e.end, of |-> e]
        \/ w = [from |-> 0, to |-> e.end, of |-> e]
  BY DEF WindowsOn
<1>2. e \in ScheduleEntry /\ e.start \in 0..M-1 /\ e.end \in 0..M-1
  BY Times DEF ScheduleEntry
<1>3. CASE w = [from |-> e.start, to |-> IF Overnight(e) THEN DayLength ELSE e.end, of |-> e]
  <2>1. CASE Overnight(e)
    BY <1>2, <1>3, <2>1, Times DEF Window
  <2>2. CASE ~Overnight(e)
    BY <1>2, <1>3, <2>2, Times DEF Window, Overnight
  <2> QED BY <2>1, <2>2
<1>4. CASE w = [from |-> 0, to |-> e.end, of |-> e]
  BY <1>2, <1>4, Times DEF Window
<1> QED BY <1>1, <1>3, <1>4

\* The windows of a schedule that has rows.
LEMMA Expanded ==
    ASSUME NEW s \in SUBSET ScheduleEntry, s # {}
    PROVE  Expand(s) # AllDay /\ \A wd \in Weekday : Expand(s)[wd] = WindowsOn(s, wd)
<1>1. \A wd : WindowsOn(s, wd) \in SUBSET Window
  BY WindowsTyped
<1>2. Expand(s) = [d \in Weekday |-> WindowsOn(s, d)]
  BY DEF Expand
<1>3. Expand(s) \in [Weekday -> SUBSET Window]
  BY <1>1, <1>2
<1> QED BY <1>2, <1>3, TimeAssumption

\* A row claims the minutes that are in its windows.
LEMMA ClaimsAreWindows ==
    ASSUME NEW s \in SUBSET ScheduleEntry, NEW m \in Int
    PROVE  \A e : e \in Claims(m, s) <=> \E w \in WindowsOn(s, Day(m) % L) : w.of = e /\ In(w, m % M)
<1>a. PICK wd, t : wd = Day(m) % L /\ t = m % M
  OBVIOUS
<1>1. wd \in Weekday /\ t \in TimeOfDay
  BY <1>a, Calendar
<1>2. PICK q \in Int : m = M * (L * q + wd) + t
  BY <1>a, Calendar
<1>3. ASSUME NEW e
      PROVE  e \in Claims(m, s) <=> e \in s /\ Covers(e, (wd - e.weekday) % L, t)
  <2>1. e \in Claims(m, s) <=> e \in s /\ Since(q, wd, t, e.weekday, e.start) < ShiftLength(e)
    BY <1>2, Zenon DEF Claims, Since, M, L
  <2>2. e \in s => (Since(q, wd, t, e.weekday, e.start) < ShiftLength(e)
                       <=> Covers(e, (wd - e.weekday) % L, t))
    BY <1>1, ClaimsCover
  <2> QED BY <2>1, <2>2
<1>4. ASSUME NEW e
      PROVE  (\E w \in WindowsOn(s, wd) : w.of = e /\ In(w, t))
               <=> e \in s /\ Covers(e, (wd - e.weekday) % L, t)
  BY <1>1, WindowsCover
<1> QED BY <1>3, <1>4, <1>a

LEMMA HoursOfRows ==
    ASSUME NEW s \in SUBSET ScheduleEntry, NEW m \in Int
    PROVE  IsWithinHours(m, Expand(s)) <=> Working(m, s)
<1>1. CASE s = {}
  BY <1>1 DEF IsWithinHours, Expand, Working
<1>2. CASE s # {}
  <2>1. Working(m, s) <=> \E w \in WindowsOn(s, Day(m) % L) : In(w, m % M)
    BY <1>2, ClaimsAreWindows DEF Working
  <2>2. Day(m) % L \in Weekday
    BY Calendar
  <2>3. IsWithinHours(m, Expand(s)) <=> \E w \in Expand(s)[Day(m) % L] : In(w, m % M)
    BY <1>2, Expanded, Zenon DEF IsWithinHours, In, M, L
  <2> QED BY <1>2, <2>1, <2>2, <2>3, Expanded
<1> QED BY <1>1, <1>2

--------------------------------------------------------------------------
(* The windows of some days *)

\* No minute belongs to two rows.
Apart(s) == \A m \in Int : \A e, f \in Claims(m, s) : e = f

\* Minute m is in a window of its day.
Within(slot, m) == In(Bounds(slot), m)

\* The working minutes from one instant to another.
Hours(s, from, to) == {m \in from..(to - 1) : Working(m, s)}

LEMMA HoursFinite ==
    ASSUME NEW s, NEW from \in Int, NEW to \in Int
    PROVE  IsFiniteSet(Hours(s, from, to)) /\ Cardinality(Hours(s, from, to)) \in Nat
<1>1. IsFiniteSet(from..(to - 1)) /\ Hours(s, from, to) \in SUBSET (from..(to - 1))
  BY FS_Interval DEF Hours
<1>2. IsFiniteSet(Hours(s, from, to))
  BY <1>1, FS_Subset
<1> QED BY <1>2, FS_CardinalityType

LEMMA SlotsOf ==
    ASSUME NEW s \in SUBSET ScheduleEntry, s # {}, NEW days, days \subseteq Int,
           NEW slots, slots = Slots(Expand(s), days)
    PROVE  /\ \A slot \in slots : /\ slot = <<slot[1], slot[2]>> /\ slot[1] \in days
                                  /\ slot[2] \in WindowsOn(s, slot[1] % L)
           /\ \A day \in days : \A w \in WindowsOn(s, day % L) : <<day, w>> \in slots
<1>1. \A day \in days : day % L \in Weekday
  BY Times, Divided
<1>2. \A day \in days : Expand(s)[day % L] = WindowsOn(s, day % L)
  BY <1>1, Expanded
<1>3. \A slot : slot \in slots <=> \E day \in days : slot \in {day} \X WindowsOn(s, day % L)
  BY <1>2, Zenon DEF Slots, L
<1> QED BY <1>3

LEMMA SlotBounds ==
    ASSUME NEW s \in SUBSET ScheduleEntry, NEW slot, slot[1] \in Int,
           slot[2] \in WindowsOn(s, slot[1] % L)
    PROVE  /\ Bounds(slot).from \in Int /\ Bounds(slot).to \in Int
           /\ M * slot[1] <= Bounds(slot).from /\ Bounds(slot).from <= Bounds(slot).to
           /\ Bounds(slot).to <= M * slot[1] + M /\ M * slot[1] \in Int
           /\ Bounds(slot).from = M * slot[1] + slot[2].from
           /\ Bounds(slot).to = M * slot[1] + slot[2].to
           /\ \A m \in Int : Within(slot, m) <=> Day(m) = slot[1] /\ In(slot[2], m % M)
<1>1. /\ slot[2].from \in 0..M /\ slot[2].to \in 0..M /\ slot[2].from <= slot[2].to
  BY WindowsTyped
<1>2. Bounds(slot).from = M * slot[1] + slot[2].from /\ Bounds(slot).to = M * slot[1] + slot[2].to
  BY <1>1, Times DEF Bounds
<1>3. M * slot[1] \in Int
  BY <1>1, Times
<1>4. ASSUME NEW m \in Int
      PROVE  Within(slot, m) <=> Day(m) = slot[1] /\ In(slot[2], m % M)
  <2>a. PICK d, day, t, a, b, c, e : /\ d = slot[1] /\ day = Day(m) /\ t = m % M
                                     /\ a = slot[2].from /\ b = slot[2].to
                                     /\ c = M * slot[1] /\ e = M * Day(m)
    OBVIOUS
  <2>1. /\ d \in Int /\ c \in Int /\ c = M * d /\ a \in 0..M /\ b \in 0..M
    BY <1>1, <1>3, <2>a
  <2>2. day \in Int /\ t \in 0..M-1 /\ m = e + t /\ e = M * day
    BY <2>a, Calendar, Times
  <2>3. e \in Int /\ M \in Nat \ {0}
    BY <2>2, Times
  <2>4. Within(slot, m) <=> c + a <= m /\ m < c + b
    BY <1>2, <2>a DEF Within, In
  <2>5. In(slot[2], t) <=> a <= t /\ t < b
    BY <2>a DEF In
  <2>6. CASE day = d
    BY <2>1, <2>2, <2>3, <2>4, <2>5, <2>6, <2>a
  <2>7. CASE day < d
    <3>1. M * (day + 1) <= M * d /\ M * (day + 1) = M * day + M
      BY <2>1, <2>2, <2>7, Times, Scaled
    <3>2. m < c
      BY <2>1, <2>2, <2>3, <3>1
    <3>3. ~(c + a <= m)
      BY <2>1, <3>2
    <3> QED BY <2>1, <2>2, <2>4, <2>7, <2>a, <3>3
  <2>8. CASE d < day
    <3>1. M * (d + 1) <= M * day /\ M * (d + 1) = M * d + M
      BY <2>1, <2>2, <2>8, Times, Scaled
    <3>2. c + M <= m
      BY <2>1, <2>2, <2>3, <3>1
    <3>3. ~(m < c + b)
      BY <2>1, <2>3, <3>2
    <3> QED BY <2>1, <2>2, <2>4, <2>8, <2>a, <3>3
  <2> QED BY <2>1, <2>2, <2>6, <2>7, <2>8
<1>5. /\ Bounds(slot).from \in Int /\ Bounds(slot).to \in Int
      /\ M * slot[1] <= Bounds(slot).from /\ Bounds(slot).from <= Bounds(slot).to
      /\ Bounds(slot).to <= M * slot[1] + M
  BY <1>1, <1>2, <1>3, Times
<1> QED BY <1>2, <1>3, <1>4, <1>5

\* The working minutes of some days are those in their windows ...
LEMMA WorkingIsWithin ==
    ASSUME NEW s \in SUBSET ScheduleEntry, s # {}, NEW days, days \subseteq Int,
           NEW slots, slots = Slots(Expand(s), days), NEW m \in Int, Day(m) \in days
    PROVE  Working(m, s) <=> \E slot \in slots : Within(slot, m)
<1>1. Working(m, s) <=> \E w \in WindowsOn(s, Day(m) % L) : In(w, m % M)
  BY ClaimsAreWindows DEF Working
<1>2. ASSUME NEW slot \in slots, Within(slot, m)
      PROVE  slot[2] \in WindowsOn(s, Day(m) % L) /\ In(slot[2], m % M)
  <2>1. slot[1] \in Int /\ slot[2] \in WindowsOn(s, slot[1] % L)
    BY SlotsOf
  <2> QED BY <1>2, <2>1, SlotBounds
<1>3. ASSUME NEW w \in WindowsOn(s, Day(m) % L), In(w, m % M)
      PROVE  \E slot \in slots : Within(slot, m)
  <2>a. PICK slot : slot = <<Day(m), w>>
    OBVIOUS
  <2>1. slot \in slots /\ slot[1] = Day(m) /\ slot[2] = w /\ Day(m) \in Int
    BY <2>a, SlotsOf, Calendar
  <2>2. Within(slot, m)
    BY <1>3, <2>1, SlotBounds
  <2> QED BY <2>1, <2>2
<1> QED BY <1>1, <1>2, <1>3

\* ... each in one only.
LEMMA OneWindow ==
    ASSUME NEW s \in SUBSET ScheduleEntry, NEW wd, NEW v \in WindowsOn(s, wd),
           NEW w \in WindowsOn(s, wd), v.of = w.of, NEW t \in Int, In(v, t), In(w, t)
    PROVE  v = w
<1> DEFINE First(e) == [from |-> e.start, to |-> IF Overnight(e) THEN DayLength ELSE e.end, of |-> e]
           Rest(e) == [from |-> 0, to |-> e.end, of |-> e]
<1>1. \A x \in WindowsOn(s, wd) : \/ x = First(x.of)
                                  \/ x = Rest(x.of) /\ Overnight(x.of)
  BY DEF WindowsOn
<1>2. ASSUME NEW x, NEW y, x.of = y.of, x.of \in ScheduleEntry, x = First(x.of),
             y = Rest(y.of), Overnight(y.of), In(x, t), In(y, t)
      PROVE  FALSE
  <2>a. PICK e, a, b : e = x.of /\ a = e.start /\ b = e.end
    OBVIOUS
  <2>1. x.from = a /\ y.to = b /\ b <= a /\ a \in Int /\ b \in Int
    BY <1>2, <2>a, Times DEF Overnight, ScheduleEntry
  <2>2. a <= t /\ t < b
    BY <1>2, <2>1 DEF In
  <2> QED BY <2>1, <2>2
<1>3. v.of \in ScheduleEntry /\ w.of \in ScheduleEntry
  BY WindowsTyped
<1> HIDE DEF First, Rest
<1> QED BY <1>1, <1>2, <1>3

LEMMA SlotsApart ==
    ASSUME NEW s \in SUBSET ScheduleEntry, s # {}, Apart(s), NEW days, days \subseteq Int,
           NEW slots, slots = Slots(Expand(s), days), NEW m \in Int,
           NEW p \in slots, NEW q \in slots, Within(p, m), Within(q, m)
    PROVE  p = q
<1>1. /\ p = <<p[1], p[2]>> /\ p[1] \in Int /\ p[2] \in WindowsOn(s, p[1] % L)
      /\ q = <<q[1], q[2]>> /\ q[1] \in Int /\ q[2] \in WindowsOn(s, q[1] % L)
  BY SlotsOf
<1>2. /\ p[1] = Day(m) /\ q[1] = Day(m) /\ In(p[2], m % M) /\ In(q[2], m % M)
  BY <1>1, SlotBounds
<1>3. p[2].of \in Claims(m, s) /\ q[2].of \in Claims(m, s)
  BY <1>1, <1>2, ClaimsAreWindows
<1>4. p[2].of = q[2].of
  BY <1>3 DEF Apart
<1>5. m % M \in Int
  BY Times
<1>6. p[2] = q[2]
  BY <1>1, <1>2, <1>4, <1>5, OneWindow
<1> QED BY <1>1, <1>2, <1>6

LEMMA RowsFinite ==
    ASSUME NEW s \in SUBSET ScheduleEntry
    PROVE  IsFiniteSet(s)
<1>a. PICK P : P = Weekday \X (TimeOfDay \X TimeOfDay)
  OBVIOUS
<1>b. PICK f : f = [x \in P |-> [weekday |-> x[1], start |-> x[2][1], end |-> x[2][2]]]
  OBVIOUS
<1>1. IsFiniteSet(P)
  <2>1. IsFiniteSet(Weekday) /\ IsFiniteSet(TimeOfDay)
    BY Times, FS_Interval
  <2>2. IsFiniteSet(TimeOfDay \X TimeOfDay)
    BY <2>1, FS_Product
  <2> QED BY <1>a, <2>1, <2>2, FS_Product
<1>2. IsFiniteSet({f[x] : x \in P})
  BY <1>1, <1>b, FiniteImage
<1>3. s \in SUBSET {f[x] : x \in P}
  <2> SUFFICES ASSUME NEW e \in s PROVE \E x \in P : e = f[x]
    OBVIOUS
  <2>a. PICK x : x = <<e.weekday, <<e.start, e.end>>>>
    OBVIOUS
  <2>1. x \in P /\ e = [weekday |-> e.weekday, start |-> e.start, end |-> e.end]
    BY <1>a, <2>a DEF ScheduleEntry
  <2> QED BY <1>b, <2>1, <2>a
<1> QED BY <1>2, <1>3, FS_Subset

LEMMA SlotsFinite ==
    ASSUME NEW s \in SUBSET ScheduleEntry, s # {}, NEW from \in Int, NEW to \in Int
    PROVE  IsFiniteSet(Slots(Expand(s), from..to))
<1>a. PICK slots, D : slots = Slots(Expand(s), D) /\ D = from..to
  OBVIOUS
<1>b. PICK P : P = (0..M) \X ((0..M) \X s)
  OBVIOUS
<1>c. PICK f : f = [x \in P |-> [from |-> x[1], to |-> x[2][1], of |-> x[2][2]]]
  OBVIOUS
<1>1. IsFiniteSet(P)
  <2>1. IsFiniteSet(0..M) /\ IsFiniteSet(s)
    BY Times, FS_Interval, RowsFinite
  <2>2. IsFiniteSet((0..M) \X s)
    BY <2>1, FS_Product
  <2> QED BY <1>b, <2>1, <2>2, FS_Product
<1>d. PICK W : W = {f[x] : x \in P}
  OBVIOUS
<1>2. IsFiniteSet(W)
  BY <1>1, <1>c, <1>d, FiniteImage
<1>3. IsFiniteSet(D \X W)
  BY <1>2, <1>a, FS_Interval, FS_Product
<1>4. ASSUME NEW wd, NEW w \in WindowsOn(s, wd)
      PROVE  w \in W
  <2>a. PICK x : x = <<w.from, <<w.to, w.of>>>>
    OBVIOUS
  <2>1. /\ w.of \in s /\ w.from \in 0..M /\ w.to \in 0..M
        /\ w = [from |-> w.from, to |-> w.to, of |-> w.of]
    BY WindowsTyped
  <2>2. x \in P
    BY <1>b, <2>1, <2>a
  <2> QED BY <1>c, <1>d, <2>1, <2>2, <2>a
<1>5. slots \in SUBSET (D \X W)
  BY <1>4, <1>a, SlotsOf
<1> QED BY <1>3, <1>5, <1>a, FS_Subset

--------------------------------------------------------------------------
(* The elapsed minutes *)

\* The minutes of an interval that are in one of some windows.
Covered(slots, from, to) == {m \in from..(to - 1) : \E slot \in slots : Within(slot, m)}

\* What disjoint windows have in common with an interval, added up.
LEMMA SumOfSlots ==
    ASSUME NEW slots, IsFiniteSet(slots), NEW from \in Int, NEW to \in Int,
           \A m \in Int : \A p, q \in slots : Within(p, m) /\ Within(q, m) => p = q,
           NEW counts, DOMAIN counts = slots,
           \A slot \in slots : counts[slot] = Cardinality({m \in from..(to - 1) : Within(slot, m)})
    PROVE  SumOver(counts) = Cardinality(Covered(slots, from, to))
<1>a. PICK part : part = [slot \in slots |-> {m \in from..(to - 1) : Within(slot, m)}]
  OBVIOUS
<1>1. IsFiniteSet(from..(to - 1))
  BY FS_Interval
<1>2. /\ \A slot \in slots : part[slot] \in SUBSET (from..(to - 1))
      /\ \A slot \in slots : counts[slot] = Cardinality(part[slot])
  BY <1>a
<1>3. \A p, q \in slots : p # q => part[p] \cap part[q] = {}
  <2> SUFFICES ASSUME NEW p \in slots, NEW q \in slots, NEW m, m \in part[p], m \in part[q]
               PROVE  p = q
    OBVIOUS
  <2>1. m \in Int /\ Within(p, m) /\ Within(q, m)
    BY <1>a
  <2> QED BY <2>1
<1>4. SumOver(counts) = Cardinality(UNION {part[slot] : slot \in slots})
  BY <1>1, <1>2, <1>3, SumOfParts
<1>5. UNION {part[slot] : slot \in slots} = Covered(slots, from, to)
  BY <1>a DEF Covered
<1> QED BY <1>4, <1>5

LEMMA DayGrows ==
    ASSUME NEW a \in Int, NEW b \in Int, a <= b
    PROVE  Day(a) <= Day(b)
<1>1. /\ Day(a) \in Int /\ Day(b) \in Int /\ a % M \in 0..M-1 /\ b % M \in 0..M-1
      /\ a = M * Day(a) + (a % M) /\ b = M * Day(b) + (b % M) /\ M \in Nat \ {0}
  BY Times, Calendar
<1> SUFFICES ASSUME Day(b) < Day(a) PROVE FALSE
  BY <1>1
<1>2. M * (Day(b) + 1) <= M * Day(a) /\ M * (Day(b) + 1) = M * Day(b) + M
  BY <1>1, Scaled
<1> QED BY <1>1, <1>2

\* business_minutes_between counts the working minutes, if none belongs to two rows.
LEMMA MinutesAreHours ==
    ASSUME NEW s \in SUBSET ScheduleEntry, Apart(s), NEW from \in Int, NEW to \in Int
    PROVE  MinutesBetween(from, to, Expand(s)) = Cardinality(Hours(s, from, to))
<1>1. CASE to <= from
  <2>1. Hours(s, from, to) = {}
    BY <1>1 DEF Hours
  <2> QED BY <1>1, <2>1, FS_EmptySet DEF MinutesBetween
<1>2. CASE from < to /\ s = {}
  <2>1. Hours(s, from, to) = from..(to - 1)
    BY <1>2 DEF Hours, Working
  <2>2. Cardinality(from..(to - 1)) = to - from
    BY <1>2, FS_Interval
  <2>3. MinutesBetween(from, to, Expand(s)) = to - from
    BY <1>2 DEF MinutesBetween, Expand
  <2> QED BY <2>1, <2>2, <2>3
<1>3. CASE from < to /\ s # {}
  <2>a. PICK days, slots : days = Day(from)..Day(to) /\ slots = Slots(Expand(s), days)
    OBVIOUS
  <2>b. PICK counts : counts = [slot \in slots |-> Common(Bounds(slot), from, to)]
    OBVIOUS
  <2>1. Day(from) \in Int /\ Day(to) \in Int /\ days \subseteq Int
    BY <2>a, Calendar
  <2>2. IsFiniteSet(slots)
    BY <1>3, <2>1, <2>a, SlotsFinite
  <2>3. \A m \in Int : \A p, q \in slots : Within(p, m) /\ Within(q, m) => p = q
    BY <1>3, <2>1, <2>a, SlotsApart
  <2>4. ASSUME NEW slot \in slots
        PROVE  counts[slot] = Cardinality({m \in from..(to - 1) : Within(slot, m)})
    <3>a. PICK b, a, c : b = Bounds(slot) /\ a = b.from /\ c = b.to
      OBVIOUS
    <3>1. slot[1] \in Int /\ slot[2] \in WindowsOn(s, slot[1] % L)
      BY <1>3, <2>1, <2>a, SlotsOf
    <3>2. a \in Int /\ c \in Int
      BY <3>1, <3>a, SlotBounds
    <3>3. Cardinality({m \in from..(to - 1) : a <= m /\ m < c})
            = AtLeast(0, AtMost(to, c) - AtLeast(from, a))
      BY <3>2, Overlap
    <3>4. counts[slot] = AtLeast(0, AtMost(to, c) - AtLeast(from, a))
      BY <2>b, <3>a DEF Common
    <3>5. {m \in from..(to - 1) : Within(slot, m)} = {m \in from..(to - 1) : a <= m /\ m < c}
      BY <3>a DEF Within, In
    <3> QED BY <3>3, <3>4, <3>5
  <2>5. SumOver(counts) = Cardinality(Covered(slots, from, to))
    <3>1. DOMAIN counts = slots
      BY <2>b
    <3> QED BY <2>2, <2>3, <2>4, <3>1, SumOfSlots
  <2>6. Covered(slots, from, to) = Hours(s, from, to)
    <3>1. ASSUME NEW m \in from..(to - 1)
          PROVE  Working(m, s) <=> \E slot \in slots : Within(slot, m)
      <4>1. Day(from) <= Day(m) /\ Day(m) <= Day(to) /\ Day(m) \in Int
        BY DayGrows, Calendar
      <4>2. Day(m) \in days
        BY <2>1, <2>a, <4>1
      <4> QED BY <1>3, <2>1, <2>a, <4>2, WorkingIsWithin
    <3> QED BY <3>1 DEF Covered, Hours
  <2>7. MinutesBetween(from, to, Expand(s)) = SumOver(counts)
    <3>1. ~(to <= from) /\ Expand(s) # AllDay
      BY <1>3, Expanded
    <3> QED BY <2>a, <2>b, <3>1 DEF MinutesBetween
  <2> QED BY <2>5, <2>6, <2>7
<1> QED BY <1>1, <1>2, <1>3

\* What a week says of the rows, it says of all time.
LEMMA ClaimsWeekly ==
    ASSUME NEW m \in Int, NEW s \in SUBSET ScheduleEntry
    PROVE  m % (L * M) \in Week /\ Claims(m, s) = Claims(m % (L * M), s)
<1>a. PICK K, q, r : K = L * M /\ q = m \div K /\ r = m % K
  OBVIOUS
<1>0. K \in Nat \ {0} /\ K = WeekLength * DayLength
  BY Times, <1>a
<1>1. q \in Int /\ r \in 0..K-1 /\ m = K * q + r
  BY <1>0, <1>a, Divided
<1>2. ASSUME NEW x \in Int
      PROVE  (m - x) % K = (r - x) % K
  <2>a. PICK p, t : p = (r - x) \div K /\ t = (r - x) % K
    OBVIOUS
  <2>1. p \in Int /\ t \in 0..K-1 /\ r - x = K * p + t
    <3>a. PICK y : y = r - x
      OBVIOUS
    <3>1. y \in Int
      BY <1>0, <1>1, <3>a
    <3>2. y \div K \in Int /\ y % K \in 0..K-1 /\ y = K * (y \div K) + (y % K)
      BY <1>0, <3>1, Divided
    <3> QED BY <2>a, <3>2, <3>a, Zenon
  <2>2. m - x = K * (q + p) + t /\ q + p \in Int
    <3>1. K * (q + p) = K * q + K * p /\ K * q \in Int /\ K * p \in Int
      BY <1>0, <1>1, <2>1
    <3> QED BY <1>1, <2>1, <3>1
  <2>3. (K * (q + p) + t) % K = t
    BY <1>0, <2>1, <2>2, Divides
  <2> QED BY <2>2, <2>3, <2>a
<1>3. ASSUME NEW e \in s
      PROVE  (m - (e.weekday * DayLength + e.start)) % K = (r - (e.weekday * DayLength + e.start)) % K
  <2>1. e.weekday * DayLength + e.start \in Int
    BY Times DEF ScheduleEntry
  <2> QED BY <1>2, <2>1
<1>4. Claims(m, s) = Claims(r, s)
  BY <1>0, <1>3, Zenon DEF Claims
<1>5. r \in Week
  BY <1>0, <1>1 DEF Week
<1> QED BY <1>4, <1>5, <1>a

\* The schedules of the teams; a ticket without team has the one without rows.
Kept == {s \in Schedules \cup {{}} : s = {} \/ \E t \in Team : s = schedule[t]}

LEMMA KeptApart ==
    ASSUME RowsApart, NEW s \in Kept
    PROVE  s \in SUBSET ScheduleEntry /\ Apart(s)
<1>1. s \in SUBSET ScheduleEntry
  BY ClockAssumption DEF Kept
<1>2. CASE s = {}
  BY <1>1, <1>2 DEF Apart, Claims
<1>3. CASE s # {}
  <2>1. \A m \in Week : \A e, f \in Claims(m, s) : e = f
    BY <1>3 DEF RowsApart, Kept
  <2> QED BY <1>1, <2>1, ClaimsWeekly DEF Apart
<1> QED BY <1>1, <1>2, <1>3

--------------------------------------------------------------------------
(* The segments of a ticket's life *)

\* The last change of a field gave it the value it has.
Current(field, value) ==
    \A i \in ChangesOf(field) : (\A j \in ChangesOf(field) : j <= i) => history[i].new = value

HistoryOK ==
    /\ history \in Seq(HistoryRow)
    /\ \A i \in DOMAIN history : history[i].at <= now
    /\ \A i, j \in DOMAIN history : i < j => history[i].at < history[j].at
    /\ \A i \in ChangesOf("team_id") :
         history[i].old \in Team \cup {None} /\ history[i].new \in Team \cup {None}
    /\ Current("status", status) /\ Current("team_id", team)

Typed ==
    /\ now \in Created..MaxNow
    /\ status \in StatusChamado
    /\ team \in Team \cup {None}
    /\ resolved_at \in Created..now \cup {None}
    /\ schedule \in [Team -> Schedules]
    /\ target \in Targets
    /\ lived \in [Clock -> Nat]
    /\ reached \in [Clock -> Nat \cup {None}]

\* A minute counts if the ticket was not paused and the team it was with worked.
Counts(m) ==
    /\ ValueAt("status", status, m) \notin Pausing
    /\ Working(m, ScheduleOf(ValueAt("team_id", team, m)))

Counted(from, to) == {m \in from..(to - 1) : Counts(m)}

LEMMA IsCounted ==
    ASSUME NEW from \in Int, NEW to \in Int
    PROVE  \A m : m \in Counted(from, to) <=> m \in Int /\ from <= m /\ m < to /\ Counts(m)
<1>1. \A m : m \in from..(to - 1) <=> m \in Int /\ from <= m /\ m < to
  OBVIOUS
<1> QED BY <1>1, Zenon DEF Counted

LEMMA CountedFinite ==
    ASSUME NEW from \in Int, NEW to \in Int
    PROVE  IsFiniteSet(Counted(from, to)) /\ Cardinality(Counted(from, to)) \in Nat
<1>1. IsFiniteSet(from..(to - 1)) /\ Counted(from, to) \in SUBSET (from..(to - 1))
  BY FS_Interval DEF Counted
<1>2. IsFiniteSet(Counted(from, to))
  BY <1>1, FS_Subset
<1> QED BY <1>2, FS_CardinalityType

LEMMA HistoryShape ==
    ASSUME HistoryOK, Typed
    PROVE  /\ DOMAIN history = 1..Len(history) /\ Len(history) \in Nat
           /\ \A i \in DOMAIN history : history[i] \in HistoryRow /\ history[i].at \in Created..now
           /\ now \in Int /\ Created \in Nat
<1>1. DOMAIN history = 1..Len(history) /\ Len(history) \in Nat
      /\ \A i \in DOMAIN history : history[i] \in HistoryRow
  BY DEF HistoryOK
<1>2. \A i \in DOMAIN history : history[i].at \in Created..MaxNow
  BY <1>1 DEF HistoryRow
<1>3. now \in Int /\ Created \in Nat
  BY ClockAssumption DEF Typed
<1> QED BY <1>1, <1>2, <1>3 DEF HistoryOK

\* The schedule of the team at any moment is one of those there are.
LEMMA TeamThen ==
    ASSUME HistoryOK, Typed, NEW m
    PROVE  ScheduleOf(ValueAt("team_id", team, m)) \in Kept
<1>a. PICK C, K : /\ C = ChangesOf("team_id")
                  /\ K = {i \in C : history[i].at <= m}
  OBVIOUS
<1>1. C \subseteq 1..Len(history) /\ Len(history) \in Nat /\ K \subseteq C
  BY <1>a, HistoryShape DEF ChangesOf
<1>2. C # {} => Min(C) \in C
  <2>1. C \subseteq Nat
    BY <1>1
  <2> QED BY <2>1, Least
<1>3. K # {} => Max(K) \in C
  <2>1. K \subseteq 0..Len(history)
    BY <1>1
  <2> QED BY <1>1, <2>1, Largest
<1>4. \A i \in C : history[i].old \in Team \cup {None} /\ history[i].new \in Team \cup {None}
  BY <1>a DEF HistoryOK
<1>5. ValueAt("team_id", team, m) =
        IF C = {} THEN team ELSE IF K = {} THEN history[Min(C)].old ELSE history[Max(K)].new
  BY <1>a DEF ValueAt
<1>6. ValueAt("team_id", team, m) \in Team \cup {None}
  BY <1>2, <1>3, <1>4, <1>5 DEF Typed
<1> QED BY <1>6 DEF ScheduleOf, Kept, Typed

\* The end of the segment that begins at p.
EndOf(points, p, end) ==
    LET later == {b \in points : b > p} IN IF later = {} THEN end ELSE Min(later)

SegmentAt(points, p, end) ==
    Segment(p, EndOf(points, p, end), Expand(ScheduleOf(ValueAt("team_id", team, p))),
            ValueAt("status", status, p) \in Pausing)

LEMMA SegmentsFrom ==
    ASSUME NEW end, NEW points, points = Breakpoints(Instants, end)
    PROVE  /\ \A s \in Segments(end) : \E p \in points : s = SegmentAt(points, p, end)
           /\ \A p \in points : SegmentAt(points, p, end) \in Segments(end)
           /\ Segments(end) = {SegmentAt(points, p, end) : p \in points}
<1>1. Segments(end) = {SegmentAt(points, p, end) : p \in points}
  BY Zenon DEF Segments, SegmentAt, EndOf
<1> QED BY <1>1

LEMMA PointsOK ==
    ASSUME HistoryOK, Typed, NEW end \in Int, Created <= end,
           NEW points, points = Breakpoints(Instants, end)
    PROVE  /\ points \subseteq Created..end /\ Created \in points /\ IsFiniteSet(points)
           /\ \A i \in ChangesOf("team_id") \cup ChangesOf("status") :
                history[i].at < end => history[i].at \in points
<1>a. PICK before : before = {b \in Instants : b < end}
  OBVIOUS
<1>1. /\ Created \in Instants /\ \A b \in Instants : b \in Created..now
      /\ \A i \in ChangesOf("team_id") \cup ChangesOf("status") : history[i].at \in Instants
  BY HistoryShape, ClockAssumption DEF Instants, ChangesOf, Typed
<1>2. points = IF before = {} THEN {Created} ELSE before
  BY <1>a DEF Breakpoints
<1>3. CASE before = {}
  <2>1. points = {Created} /\ Created \in Int
    BY <1>2, <1>3, ClockAssumption
  <2>2. \A i \in ChangesOf("team_id") \cup ChangesOf("status") : ~(history[i].at < end)
    BY <1>1, <1>3, <1>a
  <2>3. IsFiniteSet(points)
    BY <2>1, FS_Singleton
  <2>4. points \subseteq Created..end /\ Created \in points
    BY <2>1
  <2> QED BY <2>2, <2>3, <2>4
<1>4. CASE before # {}
  <2>1. points = before
    BY <1>2, <1>4
  <2>2. points \in SUBSET (Created..end) /\ Created \in Int
    <3>1. now \in Int /\ Created \in Int
      BY HistoryShape
    <3>2. \A b \in before : b \in Created..now /\ b < end
      BY <1>1, <1>a
    <3>3. \A b \in before : b \in Created..end
      BY <3>1, <3>2
    <3> QED BY <2>1, <3>1, <3>3
  <2>3. Created < end
    <3>1. PICK b \in before : TRUE
      BY <1>4
    <3>2. b \in Created..now /\ b < end
      BY <1>1, <1>a
    <3> QED BY <2>2, <3>2
  <2>4. IsFiniteSet(points)
    BY <2>2, FS_Interval, FS_Subset
  <2>5. Created \in points
    BY <1>1, <1>a, <2>1, <2>3
  <2>6. \A i \in ChangesOf("team_id") \cup ChangesOf("status") :
          history[i].at < end => history[i].at \in points
    BY <1>1, <1>a, <2>1
  <2> QED BY <2>2, <2>4, <2>5, <2>6
<1> QED BY <1>3, <1>4

LEMMA EndsOK ==
    ASSUME NEW end \in Int, NEW points, points \subseteq Nat, \A q \in points : q <= end,
           NEW p \in points
    PROVE  /\ EndOf(points, p, end) \in Int /\ p <= EndOf(points, p, end)
           /\ EndOf(points, p, end) <= end
           /\ \A q \in points : p < q => EndOf(points, p, end) <= q
<1>a. PICK later : later = {b \in points : b > p}
  OBVIOUS
<1>1. EndOf(points, p, end) = IF later = {} THEN end ELSE Min(later)
  BY <1>a DEF EndOf
<1>2. CASE later = {}
  BY <1>1, <1>2, <1>a
<1>3. CASE later # {}
  <2>1. later \subseteq Nat
    BY <1>a
  <2>2. Min(later) \in later /\ \A q \in later : Min(later) <= q
    BY <1>3, <2>1, Least
  <2>a. PICK x : x = Min(later)
    OBVIOUS
  <2>3. x \in points /\ p < x /\ \A q \in points : p < q => x <= q
    <3>1. \A q \in points : q \in Nat /\ (q > p <=> p < q)
      OBVIOUS
    <3> QED BY <2>2, <1>a, <2>a, <3>1
  <2>4. EndOf(points, p, end) = x
    BY <1>1, <1>3, <2>a
  <2>5. x \in Int /\ p \in Int /\ p <= x /\ x <= end
    BY <2>3
  <2> QED BY <2>3, <2>4, <2>5
<1> QED BY <1>2, <1>3

\* A field does not change between two moments that have no change between them.
LEMMA NothingBetween ==
    ASSUME NEW field, NEW current, NEW a \in Int, NEW b \in Int, a <= b,
           \A i \in ChangesOf(field) : history[i].at \in Int /\ ~(a < history[i].at /\ history[i].at <= b)
    PROVE  ValueAt(field, current, b) = ValueAt(field, current, a)
<1>1. \A i \in ChangesOf(field) : history[i].at <= b <=> history[i].at <= a
  OBVIOUS
<1>2. {i \in ChangesOf(field) : history[i].at <= b} = {i \in ChangesOf(field) : history[i].at <= a}
  BY <1>1
<1> QED BY <1>2 DEF ValueAt

LEMMA Steady ==
    ASSUME HistoryOK, Typed, NEW end \in Int, Created <= end,
           NEW points, points = Breakpoints(Instants, end), NEW p \in points,
           NEW m \in p..(EndOf(points, p, end) - 1)
    PROVE  /\ ValueAt("status", status, m) = ValueAt("status", status, p)
           /\ ValueAt("team_id", team, m) = ValueAt("team_id", team, p)
<1>1. points \subseteq Nat /\ \A q \in points : q <= end
  BY PointsOK, ClockAssumption
<1>2. /\ EndOf(points, p, end) \in Int /\ EndOf(points, p, end) <= end
      /\ \A q \in points : p < q => EndOf(points, p, end) <= q
  BY <1>1, EndsOK
<1>3. m \in Int /\ p \in Int /\ p <= m /\ m < EndOf(points, p, end) /\ m < end
  BY <1>1, <1>2
<1>4. ASSUME NEW i \in ChangesOf("team_id") \cup ChangesOf("status")
      PROVE  history[i].at \in Int /\ ~(p < history[i].at /\ history[i].at <= m)
  <2>1. history[i].at \in Int
    BY HistoryShape, ClockAssumption DEF ChangesOf
  <2> SUFFICES ASSUME p < history[i].at, history[i].at <= m PROVE FALSE
    BY <2>1
  <2>2. history[i].at < end
    BY <1>3, <2>1
  <2>3. history[i].at \in points
    BY <2>2, PointsOK
  <2> QED BY <1>2, <1>3, <2>1, <2>3
<1> QED BY <1>3, <1>4, NothingBetween

\* The segments up to an end: they follow each other without a gap, and each holds the
\* minutes that count in it.
Follows(s, sch) ==
    /\ s.windows = Expand(sch)
    /\ \A m \in s.start..(s.end - 1) : Counts(m) <=> ~s.paused /\ Working(m, sch)

SegmentsOK(segments, end) ==
    /\ IsFiniteSet(segments) /\ segments # {}
    /\ \A s \in segments : /\ s.start \in Int /\ s.end \in Int /\ s.paused \in BOOLEAN
                           /\ Created <= s.start /\ s.start <= s.end /\ s.end <= end
                           /\ s.minutes = Cardinality(Counted(s.start, s.end))
                           /\ \E sch \in Kept : Follows(s, sch)
    /\ \A r, s \in segments : /\ r.start < s.start => r.end <= s.start
                              /\ r.start = s.start => r = s
    /\ \A m \in Created..(end - 1) : \E s \in segments : s.start <= m /\ m < s.end

LEMMA SegmentHolds ==
    ASSUME HistoryOK, Typed, RowsApart, NEW end \in Int, Created <= end,
           NEW points, points = Breakpoints(Instants, end), NEW p \in points,
           NEW s, s = SegmentAt(points, p, end)
    PROVE  /\ s.start = p /\ s.end = EndOf(points, p, end)
           /\ s.paused = (ValueAt("status", status, p) \in Pausing) /\ s.paused \in BOOLEAN
           /\ s.minutes = Cardinality(Counted(s.start, s.end))
           /\ ScheduleOf(ValueAt("team_id", team, p)) \in Kept
           /\ Follows(s, ScheduleOf(ValueAt("team_id", team, p)))
<1>a. PICK e, sch, w, x : /\ e = EndOf(points, p, end) /\ sch = ScheduleOf(ValueAt("team_id", team, p))
                          /\ w = Expand(sch) /\ x = (ValueAt("status", status, p) \in Pausing)
  OBVIOUS
<1>1. s = Segment(p, e, w, x)
  BY <1>a, Zenon DEF SegmentAt
<1>2. /\ s.start = p /\ s.end = e /\ s.windows = w /\ s.paused = x
      /\ s.minutes = IF x THEN 0 ELSE MinutesBetween(p, e, w)
  BY <1>1 DEF Segment
<1>3. sch \in Kept
  BY <1>a, TeamThen
<1>4. points \subseteq Nat /\ \A q \in points : q <= end
  BY PointsOK, ClockAssumption
<1>5. p \in Int /\ e \in Int
  BY <1>4, <1>a, EndsOK
<1>6. ASSUME NEW m \in p..(e - 1)
      PROVE  Counts(m) <=> ~x /\ Working(m, sch)
  <2>1. /\ ValueAt("status", status, m) = ValueAt("status", status, p)
        /\ ValueAt("team_id", team, m) = ValueAt("team_id", team, p)
    BY <1>a, Steady
  <2> QED BY <2>1, <1>a DEF Counts
<1>7. s.minutes = Cardinality(Counted(p, e))
  <2>1. CASE x
    <3>1. Counted(p, e) = {}
      BY <1>6, <2>1 DEF Counted
    <3> QED BY <1>2, <2>1, <3>1, FS_EmptySet
  <2>2. CASE ~x
    <3>1. Counted(p, e) = Hours(sch, p, e)
      BY <1>6, <2>2 DEF Counted, Hours
    <3>2. MinutesBetween(p, e, Expand(sch)) = Cardinality(Hours(sch, p, e))
      BY <1>3, <1>5, KeptApart, MinutesAreHours
    <3> QED BY <1>2, <1>a, <2>2, <3>1, <3>2
  <2> QED BY <2>1, <2>2
<1>8. x \in BOOLEAN
  BY <1>a
<1> QED BY <1>2, <1>3, <1>6, <1>7, <1>8, <1>a DEF Follows

LEMMA SegmentsHold ==
    ASSUME HistoryOK, Typed, RowsApart, NEW end \in Int, Created <= end
    PROVE  SegmentsOK(Segments(end), end)
<1>a. PICK points, S : points = Breakpoints(Instants, end) /\ S = Segments(end)
  OBVIOUS
<1>b. PICK f : f = [p \in points |-> SegmentAt(points, p, end)]
  OBVIOUS
<1>1. points \subseteq Nat /\ points \subseteq Created..end /\ Created \in points /\ IsFiniteSet(points)
  BY <1>a, PointsOK, ClockAssumption
<1>2. S = {f[p] : p \in points}
  BY <1>a, <1>b, SegmentsFrom
<1>3. IsFiniteSet(S) /\ S # {}
  <2>1. DOMAIN f = points
    BY <1>b
  <2>2. IsFiniteSet({f[p] : p \in points})
    BY <1>1, <2>1, FiniteImage
  <2> QED BY <1>1, <1>2, <2>2
<1>4. \A p \in points :
        /\ f[p].start = p /\ f[p].end = EndOf(points, p, end) /\ f[p].paused \in BOOLEAN
        /\ f[p].minutes = Cardinality(Counted(f[p].start, f[p].end))
        /\ \E sch \in Kept : Follows(f[p], sch)
  BY <1>a, <1>b, SegmentHolds
<1>5. \A p \in points :
        /\ p \in Int /\ EndOf(points, p, end) \in Int
        /\ Created <= p /\ p <= EndOf(points, p, end) /\ EndOf(points, p, end) <= end
        /\ \A q \in points : p < q => EndOf(points, p, end) <= q
  <2>1. \A p \in points : p \in Int /\ Created <= p /\ p <= end
    <3>1. Created \in Int /\ end \in Int
      BY ClockAssumption
    <3>2. \A p \in points : p \in Created..end
      BY <1>1
    <3> QED BY ONLY <3>1, <3>2
  <2> QED BY <1>1, <2>1, EndsOK
<1>6. \A s \in S : /\ s.start \in Int /\ s.end \in Int /\ s.paused \in BOOLEAN
                   /\ Created <= s.start /\ s.start <= s.end /\ s.end <= end
                   /\ s.minutes = Cardinality(Counted(s.start, s.end))
                   /\ \E sch \in Kept : Follows(s, sch)
  BY <1>2, <1>4, <1>5
<1>7. \A r, s \in S : /\ r.start < s.start => r.end <= s.start
                      /\ r.start = s.start => r = s
  BY <1>2, <1>4, <1>5
<1>8. ASSUME NEW m \in Created..(end - 1)
      PROVE  \E s \in S : s.start <= m /\ m < s.end
  <2>a. PICK T, p : T = {b \in points : b <= m} /\ p = Max(T)
    OBVIOUS
  <2>1. T # {} /\ T \subseteq 0..m /\ m \in Nat
    <3>1. m \in Nat /\ Created <= m
      BY ClockAssumption
    <3>2. Created \in T
      BY <1>1, <2>a, <3>1
    <3>3. \A b \in T : b \in Nat /\ b <= m
      BY <1>1, <2>a
    <3> QED BY <3>1, <3>2, <3>3
  <2>2. p \in T /\ \A q \in T : q <= p
    BY <2>1, <2>a, Largest
  <2>3. p \in points /\ p <= m /\ \A q \in points : q <= m => q <= p
    BY <2>2, <2>a
  <2>4. m < EndOf(points, p, end)
    <3>b. PICK later : later = {b \in points : b > p}
      OBVIOUS
    <3>1. EndOf(points, p, end) = IF later = {} THEN end ELSE Min(later)
      BY <3>b DEF EndOf
    <3>2. CASE later = {}
      BY <2>1, <3>1, <3>2
    <3>3. CASE later # {}
      <4>1. later \subseteq Nat
        BY <1>1, <3>b
      <4>2. Min(later) \in points /\ Min(later) > p /\ Min(later) \in Nat
        BY <3>3, <3>b, <4>1, Least
      <4>3. ~(Min(later) <= m)
        <5>1. p \in Nat
          BY <1>1, <2>3
        <5> QED BY <2>3, <4>2, <5>1
      <4> QED BY <2>1, <3>1, <3>3, <4>2, <4>3
    <3> QED BY <3>2, <3>3
  <2> QED BY <1>2, <1>4, <2>3, <2>4
<1> QED BY <1>3, <1>6, <1>7, <1>8, <1>a DEF SegmentsOK

\* What segments hold is what counts up to where they reach.
LEMMA ElapsedTo ==
    ASSUME NEW end \in Int, NEW segments, SegmentsOK(segments, end), NEW D \in SUBSET segments,
           NEW to \in Int, \A s \in D : s.end <= to,
           \A m \in Created..(to - 1) : \E s \in D : s.start <= m /\ m < s.end
    PROVE  Elapsed(D) = Cardinality(Counted(Created, to))
<1>a. PICK part, counts : /\ part = [s \in D |-> Counted(s.start, s.end)]
                          /\ counts = [s \in D |-> s.minutes]
  OBVIOUS
<1>0. Created \in Int
  BY ClockAssumption
<1>1. IsFiniteSet(D) /\ IsFiniteSet(Counted(Created, to))
  <2>1. IsFiniteSet(segments)
    BY DEF SegmentsOK
  <2> QED BY <1>0, <2>1, FS_Subset, CountedFinite
<1>2. \A s \in D : /\ s.start \in Int /\ s.end \in Int /\ Created <= s.start /\ s.end <= to
                   /\ s.minutes = Cardinality(Counted(s.start, s.end))
  BY DEF SegmentsOK
<1>3. \A s \in D : part[s] \in SUBSET Counted(Created, to) /\ counts[s] = Cardinality(part[s])
  <2>1. \A s \in D : Counted(s.start, s.end) \subseteq Counted(Created, to)
    <3> SUFFICES ASSUME NEW s \in D, NEW m \in Counted(s.start, s.end)
                 PROVE  m \in Counted(Created, to)
      OBVIOUS
    <3>1. m \in Int /\ s.start <= m /\ m < s.end /\ Counts(m)
      BY <1>2, IsCounted
    <3>2. Created <= m /\ m < to
      BY <1>0, <1>2, <3>1
    <3> QED BY <1>0, <3>1, <3>2, IsCounted
  <2> QED BY <1>2, <1>a, <2>1
<1>4. ASSUME NEW r \in D, NEW s \in D, r # s
      PROVE  part[r] \cap part[s] = {}
  <2> SUFFICES ASSUME NEW m, m \in Counted(r.start, r.end), m \in Counted(s.start, s.end)
               PROVE  FALSE
    BY <1>a
  <2>1. m \in Int /\ r.start <= m /\ m < r.end /\ s.start <= m /\ m < s.end
    BY <1>2, IsCounted
  <2>2. /\ r.start < s.start => r.end <= s.start
        /\ s.start < r.start => s.end <= r.start
        /\ r.start # s.start
    BY <1>4 DEF SegmentsOK
  <2> QED BY <1>2, <2>1, <2>2
<1>5. UNION {part[s] : s \in D} = Counted(Created, to)
  <2>1. ASSUME NEW m \in Counted(Created, to)
        PROVE  \E s \in D : m \in part[s]
    <3>1. m \in Created..(to - 1) /\ Counts(m)
      BY DEF Counted
    <3>2. PICK s \in D : s.start <= m /\ m < s.end
      BY <3>1
    <3>3. m \in Counted(s.start, s.end)
      <4>1. m \in Int
        BY <1>0, <3>1
      <4> QED BY <1>2, <3>1, <3>2, <4>1, IsCounted
    <3> QED BY <1>a, <3>3
  <2>2. UNION {part[s] : s \in D} \subseteq Counted(Created, to)
    BY <1>3
  <2> QED BY <2>1, <2>2
<1>6. DOMAIN counts = D
  BY <1>a
<1>7. SumOver(counts) = Cardinality(UNION {part[s] : s \in D})
  BY <1>1, <1>3, <1>4, <1>6, SumOfParts
<1>8. Elapsed(D) = SumOver(counts)
  BY <1>a DEF Elapsed
<1> QED BY <1>5, <1>7, <1>8

LEMMA ElapsedIsCounted ==
    ASSUME NEW end \in Int, NEW segments, SegmentsOK(segments, end)
    PROVE  /\ Elapsed(segments) = Cardinality(Counted(Created, end))
           /\ \A s \in segments :
                ElapsedBefore(segments, s) = Cardinality(Counted(Created, s.start))
<1>1. Elapsed(segments) = Cardinality(Counted(Created, end))
  <2>1. \A s \in segments : s.end <= end
    BY DEF SegmentsOK
  <2>2. \A m \in Created..(end - 1) : \E s \in segments : s.start <= m /\ m < s.end
    BY DEF SegmentsOK
  <2> QED BY <2>1, <2>2, ElapsedTo
<1>2. ASSUME NEW s \in segments
      PROVE  ElapsedBefore(segments, s) = Cardinality(Counted(Created, s.start))
  <2>a. PICK D, to : D = {r \in segments : r.start < s.start} /\ to = s.start
    OBVIOUS
  <2>1. to \in Int /\ to <= end /\ D \in SUBSET segments
    <3>1. s.start \in Int /\ s.end \in Int /\ s.start <= s.end /\ s.end <= end
      BY DEF SegmentsOK
    <3> QED BY <2>a, <3>1
  <2>2. \A r \in D : r.end <= to
    BY <2>a DEF SegmentsOK
  <2>3. \A m \in Created..(to - 1) : \E r \in D : r.start <= m /\ m < r.end
    <3> SUFFICES ASSUME NEW m \in Created..(to - 1)
                 PROVE  \E r \in D : r.start <= m /\ m < r.end
      OBVIOUS
    <3>1. m \in Created..(end - 1) /\ m < to /\ m \in Int
      BY <2>1, ClockAssumption
    <3>2. PICK r \in segments : r.start <= m /\ m < r.end
      BY <3>1 DEF SegmentsOK
    <3>3. r.start \in Int
      BY DEF SegmentsOK
    <3> QED BY <2>1, <2>a, <3>1, <3>2, <3>3
  <2>4. Elapsed(D) = Cardinality(Counted(Created, to))
    BY <2>1, <2>2, <2>3, ElapsedTo
  <2> QED BY <2>4, <2>a DEF ElapsedBefore
<1> QED BY <1>1, <1>2

--------------------------------------------------------------------------
(* The inductive invariant *)

\* Up to here a clock counts.
EndAt(c) == IF DoneAt(c) = None THEN now ELSE DoneAt(c)

LivedOK == \A c \in Clock : lived[c] = Cardinality(Counted(Created, EndAt(c)))

\* The target was reached with the minute that made it whole.
ReachedOK ==
    \A c \in Clock :
        IF lived[c] < target[c] THEN reached[c] = None
        ELSE /\ reached[c] \in Int /\ reached[c] - 1 \in Counted(Created, EndAt(c))
             /\ Cardinality(Counted(Created, reached[c])) = target[c]

IInv == Typed /\ HistoryOK /\ LivedOK /\ ReachedOK

LEMMA DoneOK ==
    ASSUME HistoryOK, Typed, NEW c \in Clock
    PROVE  /\ DoneAt(c) \in Created..now \cup {None} /\ None \notin Nat
           /\ EndAt(c) \in Created..now /\ EndAt(c) \in Int /\ Created \in Nat /\ now \in Int
           /\ DoneAt("resolution") = resolved_at
<1>1. Responses # {} => history[Min(Responses)].at \in Created..now
  <2>1. Responses \subseteq DOMAIN history /\ Responses \subseteq Nat
    BY HistoryShape DEF Responses
  <2> QED BY <2>1, Least, HistoryShape
<1>2. DoneAt(c) \in Created..now \cup {None}
  BY <1>1 DEF DoneAt, Typed
<1>3. Created \in Nat /\ now \in Int /\ Created <= now /\ Created..now \subseteq Nat
  BY ClockAssumption DEF Typed
<1>4. EndAt(c) \in Created..now
  BY <1>2, <1>3 DEF EndAt
<1>5. None \notin Nat
  BY ClockAssumption
<1> QED BY <1>2, <1>3, <1>4, <1>5 DEF DoneAt

\* The value of a field at a moment, from a history h that may be the next one.
Of(h, field) == {i \in DOMAIN h : h[i].field = field}

Was(h, field, current, m) ==
    LET changes == Of(h, field)
        known == {i \in changes : h[i].at <= m}
    IN  IF changes = {} THEN current
        ELSE IF known = {} THEN h[Min(changes)].old
        ELSE h[Max(known)].new

LEMMA ValueWas ==
    ASSUME NEW m
    PROVE  /\ ValueAt("status", status, m) = Was(history, "status", status, m)
           /\ ValueAt("team_id", team, m) = Was(history, "team_id", team, m)
           /\ ValueAt("status", status, m)' = Was(history', "status", status', m)
           /\ ValueAt("team_id", team, m)' = Was(history', "team_id", team', m)
BY DEF ValueAt, Was, ChangesOf, Of

\* Now the fields have the values they have.
LEMMA NowIs ==
    ASSUME HistoryOK, Typed, NEW field, NEW current, Current(field, current)
    PROVE  ValueAt(field, current, now) = current
<1>a. PICK C, K : C = ChangesOf(field) /\ K = {i \in C : history[i].at <= now}
  OBVIOUS
<1>1. K = C
  BY <1>a DEF HistoryOK, ChangesOf
<1>2. C \subseteq 0..Len(history) /\ Len(history) \in Nat
  BY <1>a, HistoryShape DEF ChangesOf
<1>3. C # {} => Max(C) \in C /\ \A j \in C : j <= Max(C)
  BY <1>2, Largest
<1>4. C # {} => history[Max(C)].new = current
  BY <1>3, <1>a DEF Current
<1>5. ValueAt(field, current, now) =
        IF C = {} THEN current ELSE IF K = {} THEN history[Min(C)].old ELSE history[Max(K)].new
  BY <1>a DEF ValueAt
<1> QED BY <1>1, <1>4, <1>5

LEMMA CountsNow ==
    ASSUME HistoryOK, Typed
    PROVE  Counts(now) <=> status \notin Pausing /\ Working(now, ScheduleOf(team))
<1>1. ValueAt("status", status, now) = status /\ ValueAt("team_id", team, now) = team
  BY NowIs DEF HistoryOK
<1> QED BY <1>1 DEF Counts

\* A row that is added says nothing new of the time before it.
Adds(h, g, row, n) ==
    \A field : Of(g, field) = IF row.field = field THEN Of(h, field) \cup {n} ELSE Of(h, field)

LEMMA Appended ==
    ASSUME NEW h \in Seq(HistoryRow), NEW row \in HistoryRow, NEW g, g = Append(h, row), NEW n, n = Len(h) + 1
    PROVE  /\ DOMAIN h = 1..Len(h) /\ Len(h) \in Nat /\ DOMAIN g = DOMAIN h \cup {n} /\ n \notin DOMAIN h
           /\ \A i \in DOMAIN h : g[i] = h[i] /\ i < n /\ i \in Nat
           /\ g[n] = row /\ n \in Nat
           /\ Adds(h, g, row, n)
<1>1. DOMAIN h = 1..Len(h) /\ Len(h) \in Nat /\ DOMAIN g = 1..n /\ n \in Nat
  OBVIOUS
<1>2. DOMAIN g = DOMAIN h \cup {n} /\ n \notin DOMAIN h
  BY <1>1
<1>3. \A i \in DOMAIN h : g[i] = h[i] /\ i < n /\ i \in Nat
  BY <1>1
<1>4. g[n] = row
  OBVIOUS
<1>5. \A field : Of(g, field) = IF row.field = field THEN Of(h, field) \cup {n} ELSE Of(h, field)
  BY <1>2, <1>3, <1>4 DEF Of
<1> QED BY <1>1, <1>2, <1>3, <1>4, <1>5 DEF Adds

LEMMA SameMin ==
    ASSUME NEW S, S \subseteq Nat, S # {}, NEW n \in Nat, \A i \in S : i < n
    PROVE  Min(S \cup {n}) = Min(S)
<1>1. Min(S) \in S /\ \A i \in S : Min(S) <= i
  BY Least
<1>2. Min(S \cup {n}) \in S \cup {n} /\ \A i \in S \cup {n} : Min(S \cup {n}) <= i
  <2>1. S \cup {n} \subseteq Nat /\ S \cup {n} # {}
    OBVIOUS
  <2> HIDE DEF Min
  <2> QED BY <2>1, Least
<1>a. PICK a, b : a = Min(S) /\ b = Min(S \cup {n})
  OBVIOUS
<1>3. a \in Nat /\ b \in Nat /\ a \in S /\ b \in S \cup {n} /\ b <= a /\ \A i \in S : a <= i
  BY <1>1, <1>2, <1>a
<1> QED BY <1>3, <1>a

\* g is h with a row more, later than m.
Follow(h, g, row, m) ==
    /\ h \in Seq(HistoryRow) /\ row \in HistoryRow /\ g = Append(h, row)
    /\ m \in Int /\ row.at \in Int /\ m < row.at

\* A field that had the value current has the value new after the row.
Fits(row, field, current, new) ==
    /\ row.field = field => row.old = current
    /\ row.field # field => new = current

LEMMA WasKept ==
    ASSUME NEW h, NEW g, NEW row, NEW m, NEW field, NEW current, NEW new,
           Follow(h, g, row, m), Fits(row, field, current, new)
    PROVE  Was(g, field, new, m) = Was(h, field, current, m)
<1>0. /\ h \in Seq(HistoryRow) /\ row \in HistoryRow /\ g = Append(h, row)
      /\ m \in Int /\ row.at \in Int /\ m < row.at
  BY DEF Follow
<1>a. PICK n, C, K, D, J : /\ n = Len(h) + 1
                           /\ C = Of(h, field) /\ K = {i \in C : h[i].at <= m}
                           /\ D = Of(g, field) /\ J = {i \in D : g[i].at <= m}
  OBVIOUS
<1>1. /\ \A i \in DOMAIN h : g[i] = h[i] /\ i < n /\ i \in Nat
      /\ g[n] = row /\ n \in Nat /\ C \subseteq DOMAIN h
      /\ D = IF row.field = field THEN C \cup {n} ELSE C
  BY <1>0, <1>a, Appended DEF Of, Adds
<1>2. ~(row.at <= m) /\ (row.field = field => row.old = current) /\ (row.field # field => new = current)
  BY <1>0 DEF Fits
<1>3. J = K
  BY <1>0, <1>1, <1>2, <1>a
<1>4. Was(h, field, current, m) =
        IF C = {} THEN current ELSE IF K = {} THEN h[Min(C)].old ELSE h[Max(K)].new
  BY <1>a DEF Was
<1>5. Was(g, field, new, m) =
        IF D = {} THEN new ELSE IF J = {} THEN g[Min(D)].old ELSE g[Max(J)].new
  BY <1>a DEF Was
<1>6. K # {} => Max(K) \in K
  <2>1. K \subseteq 0..Len(h) /\ Len(h) \in Nat
    <3>1. DOMAIN h = 1..Len(h) /\ Len(h) \in Nat
      BY <1>0
    <3> QED BY <1>1, <1>a, <3>1
  <2> QED BY <2>1, Largest
<1>7. C \subseteq Nat /\ (C # {} => Min(C) \in C)
  <2>1. C \subseteq Nat
    BY <1>1
  <2> QED BY <2>1, Least
<1>8. CASE row.field # field
  <2>1. D = C /\ J = K
    BY <1>1, <1>3, <1>8
  <2>2. CASE C = {}
    BY <1>2, <1>4, <1>5, <1>8, <2>1, <2>2
  <2>3. CASE C # {} /\ K = {}
    <3>1. Min(C) \in DOMAIN h
      BY <1>1, <1>7, <2>3
    <3> QED BY <1>1, <1>4, <1>5, <2>1, <2>3, <3>1
  <2>4. CASE K # {}
    <3>1. Max(K) \in DOMAIN h /\ C # {}
      BY <1>1, <1>6, <1>a, <2>4
    <3> QED BY <1>1, <1>4, <1>5, <2>1, <2>4, <3>1
  <2> QED BY <2>2, <2>3, <2>4
<1>9. CASE row.field = field /\ C = {}
  <2>1. D = {n} /\ K = {}
    BY <1>1, <1>9, <1>a
  <2>2. Min({n}) = n
    BY <1>1 DEF Min
  <2>3. J = {} /\ Was(g, field, new, m) = g[n].old
    BY <1>3, <1>5, <2>1, <2>2
  <2> QED BY <1>1, <1>2, <1>4, <1>9, <2>3
<1>10. CASE row.field = field /\ C # {}
  <2>1. D = C \cup {n}
    BY <1>1, <1>10
  <2>2. \A i \in C : i < n
    BY <1>1
  <2>3. Min(D) = Min(C)
    BY <1>1, <1>7, <1>10, <2>1, <2>2, SameMin
  <2> QED BY <1>1, <1>2, <1>3, <1>4, <1>5, <1>6, <1>7, <1>10, <1>a, <2>1, <2>3
<1> QED BY <1>8, <1>9, <1>10

\* A change is recorded; everything before it stays as it was.
Records(row) ==
    /\ history' = Append(history, row)
    /\ row \in HistoryRow /\ row.at = now
    /\ row.field = "status" => row.old = status /\ row.new = status' /\ team' = team
    /\ row.field = "team_id" => /\ row.old = team /\ row.new = team' /\ status' = status
                                /\ row.old \in Team \cup {None} /\ row.new \in Team \cup {None}
    /\ resolved_at' = resolved_at \/ (resolved_at = None /\ resolved_at' = now)
    /\ UNCHANGED <<now, schedule, target, lived, reached>>

LEMMA PastStays ==
    ASSUME IInv, NEW row, Records(row)
    PROVE  /\ \A m \in Int : m < now => (Counts(m)' <=> Counts(m))
           /\ \A to \in Int : to <= now => Counted(Created, to)' = Counted(Created, to)
<1>1. history \in Seq(HistoryRow) /\ row \in HistoryRow /\ now \in Int /\ row.field \in {"status", "team_id"}
  BY HistoryShape DEF IInv, HistoryOK, Records, HistoryRow
<1>2. ASSUME NEW m \in Int, m < now
      PROVE  Counts(m)' <=> Counts(m)
  <2>a. PICK h, g, s, t, u, v : /\ h = history /\ g = history' /\ s = status /\ t = status'
                                /\ u = team /\ v = team'
    OBVIOUS
  <2>1. Follow(h, g, row, m) /\ Fits(row, "status", s, t) /\ Fits(row, "team_id", u, v)
    BY <1>1, <1>2, <2>a DEF Records, Fits, Follow
  <2>2. Was(g, "status", t, m) = Was(h, "status", s, m)
    BY <2>1, WasKept
  <2>3. Was(g, "team_id", v, m) = Was(h, "team_id", u, m)
    BY <2>1, WasKept
  <2>4. /\ ValueAt("status", status, m)' = ValueAt("status", status, m)
        /\ ValueAt("team_id", team, m)' = ValueAt("team_id", team, m)
    BY <2>2, <2>3, <2>a, ValueWas
  <2>5. schedule' = schedule
    BY DEF Records
  <2> QED BY <2>4, <2>5 DEF Counts, ScheduleOf
<1>3. ASSUME NEW to \in Int, to <= now
      PROVE  Counted(Created, to)' = Counted(Created, to)
  <2>1. \A m \in Created..(to - 1) : Counts(m)' <=> Counts(m)
    <3> SUFFICES ASSUME NEW m \in Created..(to - 1) PROVE Counts(m)' <=> Counts(m)
      OBVIOUS
    <3>1. m \in Int /\ m < now
      BY <1>1, <1>3, ClockAssumption
    <3> QED BY <1>2, <3>1
  <2> QED BY <2>1 DEF Counted
<1> QED BY <1>2, <1>3

LEMMA EndStays ==
    ASSUME IInv, Later, NEW row, Records(row), NEW c \in Clock
    PROVE  EndAt(c)' = EndAt(c)
<1>1. history \in Seq(HistoryRow) /\ row \in HistoryRow /\ now' = now /\ HistoryOK /\ Typed
  BY DEF IInv, HistoryOK, Records
<1>0. None \notin Nat /\ now \in Nat
  BY <1>1, ClockAssumption DEF Typed
<1>2. CASE c = "resolution"
  <2>1. resolved_at' = resolved_at \/ (resolved_at = None /\ resolved_at' = now)
    BY DEF Records
  <2>2. DoneAt(c) = resolved_at /\ DoneAt(c)' = resolved_at'
    BY <1>2 DEF DoneAt
  <2> QED BY <1>0, <1>1, <2>1, <2>2 DEF EndAt
<1>3. CASE c = "response"
  <2>a. PICK h, g, n, R, Q : /\ h = history /\ g = history' /\ n = Len(h) + 1
                             /\ R = Responses /\ Q = Responses'
    OBVIOUS
  <2>1. g = Append(h, row) /\ h \in Seq(HistoryRow)
    BY <1>1, <2>a DEF Records
  <2>2. /\ DOMAIN g = DOMAIN h \cup {n} /\ n \notin DOMAIN h /\ g[n] = row /\ n \in Nat
        /\ \A i \in DOMAIN h : g[i] = h[i] /\ i < n /\ i \in Nat
    BY <1>1, <2>1, <2>a, Appended
  <2>3. /\ R = {i \in DOMAIN h : h[i].field = "status" /\ h[i].old = "aberto"}
        /\ Q = {i \in DOMAIN g : g[i].field = "status" /\ g[i].old = "aberto"}
    BY <2>a DEF Responses
  <2>4. R \subseteq Nat /\ R \subseteq DOMAIN h /\ (Q = R \/ Q = R \cup {n})
    BY <2>2, <2>3
  <2>5. /\ DoneAt(c) = IF R = {} THEN None ELSE h[Min(R)].at
        /\ DoneAt(c)' = IF Q = {} THEN None ELSE g[Min(Q)].at
    BY <1>3, <2>a DEF DoneAt
  <2>6. g[n].at = now
    BY <2>2 DEF Records
  <2>7. CASE R = {}
    <3>1. Q = {} \/ Q = {n}
      BY <2>4, <2>7
    <3>2. Min({n}) = n
      BY <2>2 DEF Min
    <3>3. DoneAt(c) = None /\ (DoneAt(c)' = None \/ DoneAt(c)' = now)
      BY <2>5, <2>6, <2>7, <3>1, <3>2
    <3> QED BY <1>1, <3>3 DEF EndAt
  <2>8. CASE R # {}
    <3>1. Min(R) \in R
      BY <2>4, <2>8, Least
    <3>2. Min(Q) = Min(R) /\ Q # {}
      <4>1. \A i \in R : i < n
        BY <2>2, <2>4
      <4>2. Min(R \cup {n}) = Min(R)
        BY <2>2, <2>4, <2>8, <4>1, SameMin
      <4> QED BY <2>4, <2>8, <4>2
    <3>3. DoneAt(c)' = DoneAt(c)
      BY <2>2, <2>4, <2>5, <2>8, <3>1, <3>2
    <3> QED BY <1>1, <3>3 DEF EndAt
  <2> QED BY <2>7, <2>8
<1> QED BY <1>2, <1>3 DEF Clock

LEMMA HistoryStep ==
    ASSUME IInv, Later, NEW row, Records(row)
    PROVE  HistoryOK'
<1>a. PICK h, g, n : h = history /\ g = history' /\ n = Len(h) + 1
  OBVIOUS
<1>1. HistoryOK /\ Typed /\ row \in HistoryRow /\ row.at = now /\ now' = now
  BY DEF IInv, Records
<1>2. g = Append(h, row) /\ h \in Seq(HistoryRow)
  BY <1>a DEF IInv, HistoryOK, Records
<1>3. /\ DOMAIN g = DOMAIN h \cup {n} /\ n \notin DOMAIN h /\ g[n] = row /\ n \in Nat
      /\ \A i \in DOMAIN h : g[i] = h[i] /\ i < n /\ i \in Nat
      /\ \A field : Of(g, field) = IF row.field = field THEN Of(h, field) \cup {n} ELSE Of(h, field)
  <2>1. /\ DOMAIN g = DOMAIN h \cup {n} /\ n \notin DOMAIN h /\ g[n] = row /\ n \in Nat
        /\ \A i \in DOMAIN h : g[i] = h[i] /\ i < n /\ i \in Nat
    BY <1>1, <1>2, <1>a, Appended
  <2>2. Adds(h, g, row, n)
    BY <1>1, <1>2, <1>a, Appended
  <2> QED BY <2>1, <2>2 DEF Adds
<1>4. \A i \in DOMAIN h : h[i].at \in Int /\ h[i].at < now
  BY <1>1, <1>a, HistoryShape DEF Later
<1>5. history' \in Seq(HistoryRow)
  BY <1>1, <1>2, <1>a
<1>6. \A i \in DOMAIN g : g[i].at <= now'
  <2>1. now \in Int
    BY <1>1, HistoryShape
  <2> QED BY <1>1, <1>3, <1>4, <2>1
<1>7. \A i, j \in DOMAIN g : i < j => g[i].at < g[j].at
  <2> SUFFICES ASSUME NEW i \in DOMAIN g, NEW j \in DOMAIN g, i < j
               PROVE  g[i].at < g[j].at
    OBVIOUS
  <2>1. CASE j = n
    <3>1. i \in DOMAIN h
      BY <1>3, <2>1
    <3> QED BY <1>1, <1>3, <1>4, <2>1, <3>1
  <2>2. CASE j # n
    <3>1. i \in DOMAIN h /\ j \in DOMAIN h
      BY <1>3, <2>2
    <3>2. h[i].at < h[j].at
      BY <1>1, <1>a, <3>1 DEF HistoryOK
    <3> QED BY <1>3, <3>1, <3>2
  <2> QED BY <2>1, <2>2
<1>8. /\ ChangesOf("status") = Of(h, "status") /\ ChangesOf("status")' = Of(g, "status")
      /\ ChangesOf("team_id") = Of(h, "team_id") /\ ChangesOf("team_id")' = Of(g, "team_id")
  BY <1>a DEF ChangesOf, Of
<1>b. PICK C, D : C = Of(h, "team_id") /\ D = Of(h, "status")
  OBVIOUS
<1>9. C \subseteq DOMAIN h /\ D \subseteq DOMAIN h
  BY <1>b DEF Of
<1>10. /\ \A i \in C : h[i].old \in Team \cup {None} /\ h[i].new \in Team \cup {None}
       /\ \A i \in C : (\A j \in C : j <= i) => h[i].new = team
       /\ \A i \in D : (\A j \in D : j <= i) => h[i].new = status
  BY <1>1, <1>8, <1>a, <1>b DEF HistoryOK, Current
<1>11. /\ row.field = "status" => row.new = status' /\ team' = team
       /\ row.field = "team_id" => /\ row.new = team' /\ status' = status
                                   /\ row.old \in Team \cup {None} /\ row.new \in Team \cup {None}
       /\ row.field \in {"status", "team_id"}
  BY <1>1 DEF Records, HistoryRow
<1>c. PICK E, F : E = Of(g, "team_id") /\ F = Of(g, "status")
  OBVIOUS
<1>12. CASE row.field = "status"
  <2>1. E = C /\ F = D \cup {n}
    BY <1>3, <1>12, <1>b, <1>c
  <2>2. \A i \in E : g[i].old \in Team \cup {None} /\ g[i].new \in Team \cup {None}
    BY <1>3, <1>9, <1>10, <2>1
  <2>3. \A i \in E : (\A j \in E : j <= i) => g[i].new = team'
    BY <1>3, <1>9, <1>10, <1>11, <1>12, <2>1
  <2>4. \A i \in F : (\A j \in F : j <= i) => g[i].new = status'
    <3> SUFFICES ASSUME NEW i \in F, \A j \in F : j <= i PROVE g[i].new = status'
      OBVIOUS
    <3>1. n <= i
      BY <2>1
    <3>2. i = n
      BY <1>3, <1>9, <2>1, <3>1
    <3> QED BY <1>3, <1>11, <1>12, <3>2
  <2> QED BY <1>5, <1>6, <1>7, <1>8, <1>a, <1>c, <2>2, <2>3, <2>4 DEF HistoryOK, Current
<1>13. CASE row.field = "team_id"
  <2>1. F = D /\ E = C \cup {n}
    BY <1>3, <1>13, <1>b, <1>c
  <2>2. \A i \in E : g[i].old \in Team \cup {None} /\ g[i].new \in Team \cup {None}
    BY <1>3, <1>9, <1>10, <1>11, <1>13, <2>1
  <2>3. \A i \in F : (\A j \in F : j <= i) => g[i].new = status'
    BY <1>3, <1>9, <1>10, <1>11, <1>13, <2>1
  <2>4. \A i \in E : (\A j \in E : j <= i) => g[i].new = team'
    <3> SUFFICES ASSUME NEW i \in E, \A j \in E : j <= i PROVE g[i].new = team'
      OBVIOUS
    <3>1. n <= i
      BY <2>1
    <3>2. i = n
      BY <1>3, <1>9, <2>1, <3>1
    <3> QED BY <1>3, <1>11, <1>13, <3>2
  <2> QED BY <1>5, <1>6, <1>7, <1>8, <1>a, <1>c, <2>2, <2>3, <2>4 DEF HistoryOK, Current
<1> QED BY <1>11, <1>12, <1>13

LEMMA RecordStep ==
    ASSUME IInv, Later, NEW row, Records(row), status' \in StatusChamado, team' \in Team \cup {None}
    PROVE  IInv'
<1>1. Typed /\ HistoryOK /\ LivedOK /\ ReachedOK
  BY DEF IInv
<1>2. UNCHANGED <<now, schedule, target, lived, reached>>
  BY DEF Records
<1>3. Typed'
  <2>1. now \in Created..now
    BY <1>1, ClockAssumption DEF Typed
  <2>2. resolved_at' \in Created..now \cup {None}
    BY <1>1, <2>1 DEF Records, Typed
  <2> QED BY <1>1, <1>2, <2>2 DEF Typed
<1>4. HistoryOK'
  BY HistoryStep
<1>5. \A c \in Clock : EndAt(c)' = EndAt(c) /\ EndAt(c) \in Int /\ EndAt(c) <= now
  BY <1>1, EndStays, DoneOK
<1>6. \A to \in Int : to <= now => Counted(Created, to)' = Counted(Created, to)
  BY PastStays
<1>7. \A c \in Clock : Counted(Created, EndAt(c))' = Counted(Created, EndAt(c))
  <2> SUFFICES ASSUME NEW c \in Clock
               PROVE  Counted(Created, EndAt(c))' = Counted(Created, EndAt(c))
    OBVIOUS
  <2>a. PICK e : e = EndAt(c)
    OBVIOUS
  <2>1. e \in Int /\ e <= now /\ EndAt(c)' = e
    BY <1>5, <2>a
  <2>2. Counted(Created, e)' = Counted(Created, e)
    BY <1>6, <2>1
  <2> QED BY <2>1, <2>2, <2>a DEF Counted
<1>8. LivedOK'
  BY <1>1, <1>2, <1>7 DEF LivedOK
<1>9. ReachedOK'
  <2> SUFFICES ASSUME NEW c \in Clock, ~(lived[c] < target[c])
               PROVE  /\ reached[c] \in Int /\ reached[c] - 1 \in Counted(Created, EndAt(c))'
                      /\ Cardinality(Counted(Created, reached[c])') = target[c]
    BY <1>1, <1>2 DEF ReachedOK, Counted
  <2>a. PICK r : r = reached[c]
    OBVIOUS
  <2>1. /\ r \in Int /\ r - 1 \in Counted(Created, EndAt(c))
        /\ Cardinality(Counted(Created, r)) = target[c]
    BY <1>1, <2>a DEF ReachedOK
  <2>2. r <= now
    <3>1. Created \in Int /\ EndAt(c) \in Int /\ EndAt(c) <= now /\ now \in Int
      BY <1>1, <1>5, DoneOK
    <3>2. r - 1 < EndAt(c)
      BY <2>1, <3>1, IsCounted
    <3> QED BY <2>1, <3>1, <3>2
  <2>3. Counted(Created, r)' = Counted(Created, r)
    BY <1>6, <2>1, <2>2
  <2>4. Counted(Created, reached[c])' = Counted(Created, r)'
    BY <1>2, <2>a DEF Counted
  <2> QED BY <1>7, <2>1, <2>3, <2>4, <2>a
<1> QED BY <1>3, <1>4, <1>8, <1>9 DEF IInv

LEMMA ClocksTyped ==
    ASSUME Typed, NEW c \in Clock
    PROVE  lived[c] \in Nat /\ target[c] \in Nat \ {0} /\ reached[c] \in Nat \cup {None} /\ None \notin Nat
BY ClockAssumption DEF Typed

LEMMA ReachedThen ==
    ASSUME IInv, NEW c \in Clock, ~(lived[c] < target[c])
    PROVE  /\ reached[c] \in Nat /\ reached[c] # None /\ reached[c] <= EndAt(c) /\ reached[c] > Created
           /\ reached[c] - 1 \in Int /\ reached[c] - 1 < EndAt(c) /\ Counts(reached[c] - 1)
           /\ Cardinality(Counted(Created, reached[c])) = target[c]
<1>a. PICK r : r = reached[c]
  OBVIOUS
<1>1. r \in Int /\ r - 1 \in Counted(Created, EndAt(c)) /\ Cardinality(Counted(Created, r)) = target[c]
  BY <1>a DEF IInv, ReachedOK
<1>2. Created \in Nat /\ EndAt(c) \in Int /\ None \notin Nat
  BY DoneOK DEF IInv
<1>3. r - 1 \in Int /\ Created <= r - 1 /\ r - 1 < EndAt(c) /\ Counts(r - 1)
  BY <1>1, <1>2, IsCounted
<1>4. r \in Nat /\ r # None /\ r <= EndAt(c) /\ r > Created
  BY <1>1, <1>2, <1>3
<1> QED BY <1>1, <1>3, <1>4, <1>a

LEMMA InitOK ==
    ASSUME Init
    PROVE  IInv
<1>0. Created \in Nat /\ MaxNow \in Nat /\ Created <= MaxNow
  BY ClockAssumption
<1>1. Typed
  BY <1>0 DEF Init, Typed, StatusChamado
<1>2. HistoryOK
  <2>1. DOMAIN history = {}
    BY DEF Init
  <2>2. ChangesOf("status") = {} /\ ChangesOf("team_id") = {}
    BY <2>1 DEF ChangesOf
  <2>3. history \in Seq(HistoryRow)
    BY DEF Init
  <2> QED BY <2>1, <2>2, <2>3 DEF HistoryOK, Current
<1>3. ASSUME NEW c \in Clock
      PROVE  lived[c] = 0 /\ reached[c] = None /\ EndAt(c) = Created
  <2>1. Responses = {}
    BY DEF Responses, Init
  <2> QED BY <2>1 DEF Init, EndAt, DoneAt
<1>4. Counted(Created, Created) = {}
  BY <1>0 DEF Counted
<1>5. LivedOK
  BY <1>3, <1>4, FS_EmptySet DEF LivedOK
<1>6. ReachedOK
  BY <1>1, <1>3, ClocksTyped DEF ReachedOK
<1> QED BY <1>1, <1>2, <1>5, <1>6 DEF IInv

LEMMA TickStep ==
    ASSUME IInv, Tick
    PROVE  IInv'
<1>1. Typed /\ HistoryOK /\ LivedOK /\ ReachedOK
  BY DEF IInv
<1>2. /\ UNCHANGED <<status, team, resolved_at, history, schedule, target>>
      /\ now' = now + 1 /\ now < MaxNow
  BY DEF Tick
<1>0. Created \in Nat /\ now \in Int /\ Created <= now /\ now \in Nat
  BY <1>1, ClockAssumption DEF Typed
<1>3. \A m : Counts(m)' <=> Counts(m)
  BY <1>2 DEF Counts, ValueAt, ChangesOf, ScheduleOf
<1>4. \A to : Counted(Created, to)' = Counted(Created, to)
  BY <1>3 DEF Counted
<1>5. \A c \in Clock : DoneAt(c)' = DoneAt(c)
  BY <1>2 DEF DoneAt, Responses
<1>6. HistoryOK'
  <2>1. \A i \in DOMAIN history : history[i].at <= now'
    <3>1. \A i \in DOMAIN history : history[i].at \in Created..now
      BY <1>1, HistoryShape
    <3> QED BY <1>0, <1>2, <3>1
  <2> QED BY <1>1, <1>2, <2>1 DEF HistoryOK, Current, ChangesOf
<1>b. PICK inc : inc = [c \in Clock |-> IF /\ DoneAt(c) = None
                                           /\ status \notin Pausing
                                           /\ Working(now, ScheduleOf(team))
                                        THEN 1 ELSE 0]
  OBVIOUS
<1>7. /\ lived' = [c \in Clock |-> lived[c] + inc[c]]
      /\ reached' = [c \in Clock |-> IF reached[c] = None /\ lived'[c] >= target[c]
                                     THEN now + 1 ELSE reached[c]]
  BY <1>b DEF Tick
<1>8. \A c \in Clock : inc[c] = IF DoneAt(c) = None /\ Counts(now) THEN 1 ELSE 0
  BY <1>1, <1>b, CountsNow
<1>9. /\ Counts(now) => Counted(Created, now + 1) = Counted(Created, now) \cup {now}
      /\ ~Counts(now) => Counted(Created, now + 1) = Counted(Created, now)
      /\ now \notin Counted(Created, now)
  <2>1. \A m : m \in Counted(Created, now) <=> m \in Int /\ Created <= m /\ m < now /\ Counts(m)
    BY <1>0, IsCounted
  <2>2. \A m : m \in Counted(Created, now + 1) <=> m \in Int /\ Created <= m /\ m < now + 1 /\ Counts(m)
    BY <1>0, IsCounted
  <2>3. \A m \in Int : m < now + 1 <=> m < now \/ m = now
    BY <1>0
  <2>4. ~(now < now)
    BY <1>0
  <2> QED BY <1>0, <2>1, <2>2, <2>3, <2>4
<1>10. Cardinality(Counted(Created, now + 1))
         = Cardinality(Counted(Created, now)) + IF Counts(now) THEN 1 ELSE 0
  <2>1. IsFiniteSet(Counted(Created, now)) /\ Cardinality(Counted(Created, now)) \in Nat
    BY <1>0, CountedFinite
  <2>2. Cardinality(Counted(Created, now) \cup {now}) = Cardinality(Counted(Created, now)) + 1
    BY <1>9, <2>1, FS_AddElement
  <2> QED BY <1>9, <2>1, <2>2
<1>11. ASSUME NEW c \in Clock
       PROVE  /\ lived'[c] = Cardinality(Counted(Created, EndAt(c))')
              /\ lived'[c] \in Nat /\ reached'[c] \in Nat \cup {None}
              /\ IF lived'[c] < target'[c] THEN reached'[c] = None
                 ELSE /\ reached'[c] \in Int /\ reached'[c] - 1 \in Counted(Created, EndAt(c))'
                      /\ Cardinality(Counted(Created, reached[c])') = target'[c]
  <2>a. PICK a, b, r, q, g : /\ a = lived[c] /\ b = lived'[c] /\ r = reached[c] /\ q = reached'[c]
                             /\ g = target[c]
    OBVIOUS
  <2>1. /\ a \in Nat /\ g \in Nat \ {0} /\ r \in Nat \cup {None} /\ None \notin Nat /\ target'[c] = g
    BY <1>1, <1>2, <2>a, ClocksTyped
  <2>2. b = a + inc[c] /\ q = IF r = None /\ b >= g THEN now + 1 ELSE r
    BY <1>7, <2>a
  <2>3. a = Cardinality(Counted(Created, EndAt(c))) /\ (a < g => r = None)
    BY <1>1, <2>a DEF LivedOK, ReachedOK
  <2>4. a >= g => /\ r \in Nat /\ r # None /\ r - 1 \in Counted(Created, EndAt(c))
                  /\ Cardinality(Counted(Created, r)) = g
    <3> SUFFICES ASSUME a >= g
                 PROVE  /\ r \in Nat /\ r # None /\ r - 1 \in Counted(Created, EndAt(c))
                        /\ Cardinality(Counted(Created, r)) = g
      OBVIOUS
    <3>1. ~(lived[c] < target[c])
      BY <2>1, <2>a
    <3>2. r \in Nat /\ r # None
      BY <2>a, <3>1, ReachedThen
    <3> QED BY <1>1, <2>a, <3>1, <3>2 DEF ReachedOK
  <2>b. PICK e, f : e = EndAt(c) /\ f = EndAt(c)'
    OBVIOUS
  <2>5. \A x : Counted(Created, EndAt(c))' = Counted(Created, f) /\ (x = reached' => Counted(Created, reached[c])' = Counted(Created, x[c]))
    BY <1>4, <2>b DEF Counted
  <2>6. Counted(Created, EndAt(c))' = Counted(Created, f) /\ Counted(Created, reached[c])' = Counted(Created, q)
    <3>1. \A m : Counts(m)' = Counts(m)
      BY <1>3 DEF Counts
    <3> QED BY <3>1, <2>a, <2>b, <2>5
  <2>7. CASE DoneAt(c) # None
    <3>1. e = f /\ b = a /\ inc[c] = 0
      BY <1>5, <1>8, <2>1, <2>2, <2>7, <2>b DEF EndAt
    <3>2. q = r
      BY <2>1, <2>2, <2>3, <2>4, <3>1
    <3>3. b = Cardinality(Counted(Created, f)) /\ b \in Nat
      BY <2>1, <2>3, <2>b, <3>1
    <3>4. CASE a >= g
      <4>1. r \in Nat /\ Cardinality(Counted(Created, r)) = g /\ r - 1 \in Counted(Created, f)
        BY <2>4, <2>b, <3>1, <3>4
      <4>2. ~(b < g)
        BY <2>1, <3>1, <3>4
      <4> QED BY <2>1, <2>6, <2>a, <3>2, <3>3, <4>1, <4>2
    <3>5. CASE a < g
      <4>1. b < g /\ q = None
        BY <2>3, <3>1, <3>2, <3>5
      <4> QED BY <2>1, <2>6, <2>a, <3>3, <4>1
    <3> QED BY <2>1, <3>4, <3>5
  <2>8. CASE DoneAt(c) = None
    <3>1. e = now /\ f = now + 1 /\ inc[c] = IF Counts(now) THEN 1 ELSE 0
      BY <1>2, <1>5, <1>8, <2>8, <2>b DEF EndAt
    <3>2. b = Cardinality(Counted(Created, f)) /\ b \in Nat
      BY <1>10, <2>1, <2>2, <2>3, <2>b, <3>1
    <3>3. CASE a >= g
      <4>1. b >= g /\ q = r /\ r - 1 \in Counted(Created, f)
        <5>1. r - 1 \in Counted(Created, now)
          BY <2>4, <2>b, <3>1, <3>3
        <5> QED BY <1>9, <2>1, <2>2, <2>4, <3>1, <3>3, <5>1
      <4>2. r \in Nat /\ Cardinality(Counted(Created, r)) = g /\ ~(b < g)
        BY <2>1, <2>4, <3>2, <3>3, <4>1
      <4> QED BY <2>1, <2>6, <2>a, <3>2, <4>1, <4>2
    <3>4. CASE a < g /\ b >= g
      <4>1. b = g /\ Counts(now) /\ q = now + 1
        BY <2>1, <2>2, <2>3, <3>1, <3>4
      <4>2. q - 1 = now /\ now \in Counted(Created, f) /\ q \in Nat
        BY <1>0, <1>9, <3>1, <4>1
      <4> QED BY <2>1, <2>6, <2>a, <3>1, <3>2, <4>1, <4>2
    <3>5. CASE b < g
      <4>1. a < g /\ q = None
        BY <2>1, <2>2, <2>3, <3>1, <3>5
      <4> QED BY <2>1, <2>6, <2>a, <3>2, <3>5, <4>1
    <3> QED BY <2>1, <3>2, <3>3, <3>4, <3>5
  <2> QED BY <2>7, <2>8
<1>12. Typed'
  <2>1. lived' \in [Clock -> Nat] /\ reached' \in [Clock -> Nat \cup {None}]
    BY <1>7, <1>11
  <2>2. now' \in Created..MaxNow /\ resolved_at' \in Created..now' \cup {None}
    BY <1>0, <1>1, <1>2, ClockAssumption DEF Typed
  <2> QED BY <1>1, <1>2, <2>1, <2>2 DEF Typed
<1>13. LivedOK'
  BY <1>11 DEF LivedOK
<1>14. ReachedOK'
  BY <1>11 DEF ReachedOK
<1> QED BY <1>6, <1>12, <1>13, <1>14 DEF IInv

LEMMA SetStatusStep ==
    ASSUME IInv, SetStatus
    PROVE  IInv'
<1>1. PICK new \in Moves \ {status} : /\ status' = new /\ Recorded("status", status, new)
                                      /\ resolved_at' = Stamp(new)
  BY DEF SetStatus
<1>a. PICK row : row = [at |-> now, field |-> "status", old |-> status, new |-> new]
  OBVIOUS
<1>2. new \in StatusChamado /\ status \in StatusChamado /\ team \in Team \cup {None} /\ now \in Created..MaxNow
  BY <1>1, ClockAssumption DEF IInv, Typed
<1>3. Records(row)
  <2>1. row \in HistoryRow /\ row.at = now /\ row.field = "status" /\ row.old = status /\ row.new = status'
    BY <1>1, <1>2, <1>a DEF HistoryRow
  <2>2. resolved_at' = resolved_at \/ (resolved_at = None /\ resolved_at' = now)
    BY <1>1 DEF Stamp
  <2>3. history' = Append(history, row)
    BY <1>1, <1>a DEF Recorded
  <2>4. UNCHANGED <<now, team, schedule, target, lived, reached>>
    BY DEF SetStatus
  <2> QED BY <2>1, <2>2, <2>3, <2>4 DEF Records
<1>4. Later /\ team' = team
  BY DEF SetStatus, MayChange
<1> QED BY <1>1, <1>2, <1>3, <1>4, RecordStep

LEMMA SetTeamStep ==
    ASSUME IInv, SetTeam
    PROVE  IInv'
<1>1. PICK new \in (Team \cup {None}) \ {team} : team' = new /\ Recorded("team_id", team, new)
  BY DEF SetTeam
<1>a. PICK row : row = [at |-> now, field |-> "team_id", old |-> team, new |-> new]
  OBVIOUS
<1>2. status \in StatusChamado /\ team \in Team \cup {None} /\ now \in Created..MaxNow
  BY DEF IInv, Typed
<1>3. Records(row)
  <2>1. row \in HistoryRow /\ row.at = now /\ row.field = "team_id" /\ row.old = team /\ row.new = team'
    BY <1>1, <1>2, <1>a DEF HistoryRow
  <2>2. history' = Append(history, row)
    BY <1>1, <1>a DEF Recorded
  <2>3. UNCHANGED <<now, status, resolved_at, schedule, target, lived, reached>>
    BY DEF SetTeam
  <2> QED BY <1>1, <1>2, <2>1, <2>2, <2>3 DEF Records
<1>4. Later /\ status' \in StatusChamado /\ team' \in Team \cup {None}
  BY <1>1, <1>2 DEF SetTeam, MayChange
<1> QED BY <1>3, <1>4, RecordStep

LEMMA NextOK ==
    ASSUME IInv, [Next]_vars
    PROVE  IInv'
<1>1. CASE Next
  BY <1>1, TickStep, SetStatusStep, SetTeamStep DEF Next
<1>2. CASE UNCHANGED vars
  <2>1. UNCHANGED <<now, status, team, resolved_at, history, schedule, target, lived, reached>>
    BY <1>2 DEF vars
  <2>2. \A m : Counts(m)' <=> Counts(m)
    BY <2>1 DEF Counts, ValueAt, ChangesOf, ScheduleOf
  <2>3. \A to : Counted(Created, to)' = Counted(Created, to)
    BY <2>2 DEF Counted
  <2>4. \A c : EndAt(c)' = EndAt(c)
    BY <2>1 DEF EndAt, DoneAt, Responses
  <2>5. Typed'
    BY <2>1 DEF IInv, Typed
  <2>6. HistoryOK'
    BY <2>1 DEF IInv, HistoryOK, Current, ChangesOf
  <2>7. \A c : Counted(Created, EndAt(c))' = Counted(Created, EndAt(c))
    <3> SUFFICES ASSUME NEW c PROVE Counted(Created, EndAt(c))' = Counted(Created, EndAt(c))
      OBVIOUS
    <3>a. PICK e : e = EndAt(c)
      OBVIOUS
    <3>1. Counted(Created, e)' = Counted(Created, e) /\ EndAt(c)' = e
      BY <2>3, <2>4, <3>a
    <3> QED BY <3>1, <3>a DEF Counted
  <2>8. \A c : Counted(Created, reached[c])' = Counted(Created, reached[c])
    BY <2>1, <2>2 DEF Counted
  <2>9. LivedOK'
    BY <2>1, <2>7 DEF IInv, LivedOK
  <2>10. ReachedOK'
    BY <2>1, <2>7, <2>8 DEF IInv, ReachedOK
  <2> QED BY <2>5, <2>6, <2>9, <2>10 DEF IInv
<1> QED BY <1>1, <1>2

LEMMA Invariance == Spec => []IInv
<1>1. Init => IInv
  BY InitOK
<1>2. IInv /\ [Next]_vars => IInv'
  BY NextOK
<1> QED BY <1>1, <1>2, PTL DEF Spec

--------------------------------------------------------------------------
(* Hours and elapsed minutes *)

LEMMA HoursFromInvariant ==
    ASSUME IInv
    PROVE  HoursAreRows
<1> SUFFICES ASSUME NEW t \in Team
             PROVE  IsWithinHours(now, Expand(schedule[t])) <=> Working(now, schedule[t])
  BY DEF HoursAreRows
<1>1. schedule[t] \in SUBSET ScheduleEntry /\ now \in Int
  BY ClockAssumption DEF IInv, Typed
<1> QED BY <1>1, HoursOfRows

\* Whatever rows the teams have, overlapping ones included, is_within_business_hours
\* accepts a minute if and only if one of them claims it: nothing is lost where a shift
\* is split at midnight or goes over the end of the week.
THEOREM HoursAlwaysAreRows == Spec => []HoursAreRows
BY Invariance, HoursFromInvariant, PTL

LEMMA EndCounts ==
    ASSUME IInv, RowsApart, NEW c \in Clock, NEW end, end = EndAt(c)
    PROVE  /\ end \in Nat /\ Created <= end /\ end <= now
           /\ SegmentsOK(Segments(end), end)
           /\ Elapsed(Segments(end)) = lived[c]
<1>1. end \in Nat /\ Created <= end /\ end <= now
  BY DoneOK DEF IInv
<1>2. SegmentsOK(Segments(end), end)
  BY <1>1, SegmentsHold DEF IInv
<1>3. Elapsed(Segments(end)) = Cardinality(Counted(Created, end))
  BY <1>1, <1>2, ElapsedIsCounted
<1>4. lived[c] = Cardinality(Counted(Created, end))
  BY DEF IInv, LivedOK
<1> QED BY <1>1, <1>2, <1>3, <1>4

\* The result of a clock, with its end and its segments named.
LEMMA ResultIs ==
    ASSUME NEW c, NEW end, end = EndAt(c), NEW segments, segments = Segments(end),
           NEW elapsed, elapsed = Elapsed(segments), NEW due, due = DueAt(segments, end, target[c])
    PROVE  Result(c) = [elapsed |-> elapsed, due |-> due,
                        status |-> ClockStatus(DoneAt(c), elapsed, due, target[c])]
BY Zenon DEF Result, EndAt

\* What is calculated, if nothing fails, are the results of the clocks.
LEMMA Calculated ==
    /\ status = "cancelado" => calculate_sla = None
    /\ status # "cancelado" /\ (\E c \in Clock : Result(c).due = Unreachable) => calculate_sla = Unreachable
    /\ status # "cancelado" /\ ~(\E c \in Clock : Result(c).due = Unreachable) =>
         /\ calculate_sla = [c \in Clock |-> Result(c)]
         /\ \A c \in Clock : calculate_sla[c] = Result(c)
<1>a. PICK R : R = [c \in Clock |-> Result(c)]
  OBVIOUS
<1>1. \A c \in Clock : R[c] = Result(c)
  BY <1>a
<1>2. calculate_sla = IF status = "cancelado" THEN None
                      ELSE IF \E c \in Clock : R[c].due = Unreachable THEN Unreachable ELSE R
  BY <1>a, Zenon DEF calculate_sla
<1>3. (\E c \in Clock : R[c].due = Unreachable) <=> (\E c \in Clock : Result(c).due = Unreachable)
  BY <1>1
<1> QED BY <1>1, <1>2, <1>3, <1>a

LEMMA ElapsedFromInvariant ==
    ASSUME IInv, RowsApart
    PROVE  ElapsedIsLived
<1> SUFFICES ASSUME calculate_sla \notin {None, Unreachable}, NEW c \in Clock
             PROVE  calculate_sla[c].elapsed = lived[c]
  BY DEF ElapsedIsLived
<1>a. PICK end, segments, due : /\ end = EndAt(c) /\ segments = Segments(end)
                                /\ due = DueAt(segments, end, target[c])
  OBVIOUS
<1>1. Elapsed(segments) = lived[c]
  BY <1>a, EndCounts
<1>2. Result(c) = [elapsed |-> lived[c], due |-> due,
                   status |-> ClockStatus(DoneAt(c), lived[c], due, target[c])]
  BY <1>1, <1>a, ResultIs
<1>3. calculate_sla[c] = Result(c)
  BY Calculated
<1> QED BY <1>2, <1>3

\* Nothing stored tells how long a clock has run: calculate_sla rebuilds it from the
\* history.  If no minute belongs to two rows of a team, what it finds is what the ticket
\* really lived through, minute by minute, however often its team, its pauses and its
\* status changed.
THEOREM ElapsedAlwaysLived ==
    ASSUME RowsApart
    PROVE  Spec => []ElapsedIsLived
<1>1. IInv => ElapsedIsLived
  BY ElapsedFromInvariant
<1> QED BY <1>1, Invariance, PTL

--------------------------------------------------------------------------
(* The projection of a due date *)

LEMMA MaxIs ==
    ASSUME NEW S, S \subseteq Int, NEW x \in S, \A y \in S : y <= x
    PROVE  Max(S) = x
<1>1. \A y \in S : (\A z \in S : y >= z) => y = x
  OBVIOUS
<1>2. \A z \in S : x >= z
  OBVIOUS
<1> QED BY <1>1, <1>2 DEF Max

\* A window ends before the ones that come after it begin.
LEMMA InTurn ==
    ASSUME NEW s \in SUBSET ScheduleEntry, s # {}, Apart(s), NEW days, days \subseteq Int,
           NEW slots, slots = Slots(Expand(s), days), NEW p \in slots, NEW q \in slots, Precedes(p, q)
    PROVE  Bounds(p).to <= Bounds(q).from
<1>a. PICK a, b, v, w : a = p[1] /\ b = q[1] /\ v = p[2] /\ w = q[2]
  OBVIOUS
<1>1. /\ p = <<a, v>> /\ a \in Int /\ v \in WindowsOn(s, a % L)
      /\ q = <<b, w>> /\ b \in Int /\ w \in WindowsOn(s, b % L)
  BY <1>a, SlotsOf
<1>b. PICK pf, pt, qf, qt : /\ pf = Bounds(p).from /\ pt = Bounds(p).to
                            /\ qf = Bounds(q).from /\ qt = Bounds(q).to
  OBVIOUS
<1>2. /\ pf \in Int /\ pt \in Int /\ pf <= pt /\ M * a <= pf /\ pt <= M * a + M
      /\ pf = M * a + v.from /\ pt = M * a + v.to /\ M * a \in Int
  BY <1>1, <1>a, <1>b, SlotBounds
<1>3. /\ qf \in Int /\ qt \in Int /\ qf <= qt /\ M * b <= qf /\ qt <= M * b + M
      /\ qf = M * b + w.from /\ qt = M * b + w.to /\ M * b \in Int
  BY <1>1, <1>a, <1>b, SlotBounds
<1>4. /\ v.from \in Int /\ v.to \in Int /\ w.from \in Int /\ w.to \in Int
      /\ 0 <= v.from /\ v.from <= v.to /\ 0 <= w.from /\ w.from <= w.to
  <2>1. /\ v.from \in 0..M /\ v.to \in 0..M /\ v.from <= v.to
        /\ w.from \in 0..M /\ w.to \in 0..M /\ w.from <= w.to
    BY <1>1, WindowsTyped
  <2> QED BY <2>1, Times
<1>5. a < b \/ (a = b /\ Earlier(v, w))
  BY <1>a DEF Precedes
<1>6. CASE a < b
  <2>1. M * (a + 1) <= M * b /\ M * (a + 1) = M * a + M
    BY <1>1, <1>6, Times, Scaled
  <2>a. PICK c, d : c = M * a /\ d = M * b
    OBVIOUS
  <2>2. c + M <= d /\ pt <= c + M /\ d <= qf /\ c \in Int /\ d \in Int
    BY <1>2, <1>3, <2>1, <2>a
  <2> QED BY <1>2, <1>3, <1>b, <2>2, Times
<1>7. CASE a = b /\ Earlier(v, w)
  <2>1. v.from <= w.from /\ (v.from = w.from => v.to <= w.to)
    BY <1>4, <1>7 DEF Earlier
  <2>2. CASE w.from = w.to
    <3>1. w.from = 0
      <4>1. PICK e \in s : \/ w = [from |-> e.start, to |-> IF Overnight(e) THEN DayLength ELSE e.end, of |-> e]
                           \/ w = [from |-> 0, to |-> e.end, of |-> e]
        BY <1>1 DEF WindowsOn
      <4>2. e.start \in 0..M-1 /\ e.end \in 0..M-1
        BY Times DEF ScheduleEntry
      <4>3. CASE w = [from |-> e.start, to |-> IF Overnight(e) THEN DayLength ELSE e.end, of |-> e]
        <5>1. \E d \in ScheduleEntry : Overnight(d) <=> d.end <= d.start
          BY DEF Overnight
        <5>2. CASE Overnight(e)
          BY <2>2, <4>2, <4>3, <5>2, Times
        <5>3. CASE ~Overnight(e)
          BY <2>2, <4>2, <4>3, <5>3 DEF Overnight
        <5> QED BY <5>2, <5>3
      <4>4. CASE w = [from |-> 0, to |-> e.end, of |-> e]
        BY <4>4
      <4> QED BY <4>1, <4>3, <4>4
    <3>2. v.to <= w.from
      BY <1>4, <2>1, <2>2, <3>1
    <3> QED BY <1>2, <1>3, <1>7, <1>b, <3>2, <1>4
  <2>3. CASE v.from = v.to
    BY <1>2, <1>3, <1>4, <1>7, <1>b, <2>1, <2>3
  <2>4. CASE w.from < w.to /\ v.from < v.to
    <3> SUFFICES ASSUME qf < pt PROVE FALSE
      BY <1>2, <1>3, <1>b
    <3>1. pf <= qf /\ qf < qt
      BY <1>2, <1>3, <1>4, <1>7, <2>1, <2>4
    <3>2. Within(p, qf) /\ Within(q, qf)
      BY <1>b, <1>2, <1>3, <3>1 DEF Within, In
    <3>3. p = q
      <4>1. qf \in Int
        BY <1>3
      <4> QED BY <3>2, <4>1, SlotsApart
    <3>4. v = w
      BY <1>a, <3>3
    <3>5. v.of \in ScheduleEntry
      BY <1>1, WindowsTyped
    <3>6. ~RowBefore(v.of, v.of)
      <4>1. v.of.weekday \in Int /\ v.of.start \in Int /\ v.of.end \in Int
        BY <3>5, Times DEF ScheduleEntry
      <4> QED BY <4>1 DEF RowBefore
    <3>7. ~Earlier(v, v)
      BY <1>4, <3>6 DEF Earlier
    <3> QED BY <1>7, <3>4, <3>7
  <2> QED BY <1>4, <2>2, <2>3, <2>4
<1> QED BY <1>5, <1>6, <1>7

\* A window that holds a minute before another window comes before that one.
LEMMA HoldsBefore ==
    ASSUME NEW s \in SUBSET ScheduleEntry, s # {}, NEW days, days \subseteq Int,
           NEW slots, slots = Slots(Expand(s), days), NEW p \in slots, NEW q \in slots,
           NEW m \in Int, Within(p, m), m < Bounds(q).from
    PROVE  Precedes(p, q)
<1>a. PICK a, b, v, w : a = p[1] /\ b = q[1] /\ v = p[2] /\ w = q[2]
  OBVIOUS
<1>1. /\ p = <<a, v>> /\ a \in Int /\ v \in WindowsOn(s, a % L)
      /\ q = <<b, w>> /\ b \in Int /\ w \in WindowsOn(s, b % L)
  BY <1>a, SlotsOf
<1>b. PICK pf, pt, qf, qt : /\ pf = Bounds(p).from /\ pt = Bounds(p).to
                            /\ qf = Bounds(q).from /\ qt = Bounds(q).to
  OBVIOUS
<1>2. /\ pf \in Int /\ M * a <= pf /\ pf = M * a + v.from /\ M * a \in Int
      /\ qf \in Int /\ qt \in Int /\ qf <= qt /\ qt <= M * b + M /\ qf = M * b + w.from /\ M * b \in Int
  BY <1>1, <1>a, <1>b, SlotBounds
<1>3. pf <= m /\ m < qf
  BY <1>b DEF Within, In
<1>4. v.from \in Int /\ w.from \in Int
  <2>1. v.from \in 0..M /\ w.from \in 0..M
    BY <1>1, WindowsTyped
  <2> QED BY <2>1, Times
<1>5. a <= b
  <2> SUFFICES ASSUME b < a PROVE FALSE
    BY <1>1
  <2>1. M * (b + 1) <= M * a /\ M * (b + 1) = M * b + M
    BY <1>1, Times, Scaled
  <2> QED BY <1>2, <1>3, <2>1, Times
<1>6. CASE a < b
  BY <1>6, <1>a DEF Precedes
<1>7. CASE a = b
  <2>1. v.from < w.from
    BY <1>2, <1>3, <1>4, <1>7
  <2> QED BY <1>7, <1>a, <2>1 DEF Precedes, Earlier
<1> QED BY <1>1, <1>5, <1>6, <1>7

\* The cursor enters a window where it begins, or where the count does.
LEMMA EnteredAt ==
    ASSUME NEW s \in SUBSET ScheduleEntry, s # {}, Apart(s), NEW days, days \subseteq Int,
           NEW slots, slots = Slots(Expand(s), days), NEW p \in slots, NEW start \in Int
    PROVE  /\ Entered(slots, p, start) = AtLeast(start, Bounds(p).from)
           /\ Entered(slots, p, start) \in Int
<1>a. PICK S, f, x : /\ S = {start, Bounds(p).from}
                              \cup {Bounds(r).to : r \in {t \in slots : t[1] = p[1] /\ Precedes(t, p)}}
                     /\ f = Bounds(p).from /\ x = AtLeast(start, f)
  OBVIOUS
<1>1. \A r \in slots : r[1] \in Int /\ r[2] \in WindowsOn(s, r[1] % L)
  BY SlotsOf
<1>2. f \in Int /\ \A r \in slots : Bounds(r).to \in Int
  BY <1>1, <1>a, SlotBounds
<1>3. x \in Int /\ x \in S /\ start <= x /\ f <= x
  BY <1>2, <1>a DEF AtLeast
<1>4. \A r \in slots : Precedes(r, p) => Bounds(r).to <= f
  BY <1>a, InTurn
<1>5. \A y \in S : y \in Int /\ y <= x
  <2> SUFFICES ASSUME NEW y \in S PROVE y \in Int /\ y <= x
    OBVIOUS
  <2>1. CASE y = start \/ y = f
    BY <1>2, <1>3, <2>1
  <2>2. CASE \E r \in slots : Precedes(r, p) /\ y = Bounds(r).to
    <3>1. y \in Int /\ y <= f
      BY <1>2, <1>4, <2>2
    <3> QED BY <1>2, <1>3, <3>1
  <2> QED BY <2>1, <2>2, <1>a
<1>6. Max(S) = x
  BY <1>3, <1>5, MaxIs
<1> QED BY <1>3, <1>6, <1>a DEF Entered

\* What has been found before a window are the working minutes up to it.
LEMMA FoundIsHours ==
    ASSUME NEW s \in SUBSET ScheduleEntry, s # {}, Apart(s), NEW start \in Int, NEW last \in Int,
           NEW slots, slots = Slots(Expand(s), Day(start)..last), NEW p \in slots
    PROVE  FoundBefore(slots, p, start) = Cardinality(Hours(s, start, Entered(slots, p, start)))
<1>a. PICK e, f, before, counts :
        /\ e = Entered(slots, p, start) /\ f = Bounds(p).from
        /\ before = {t \in slots : Precedes(t, p)}
        /\ counts = [r \in before |-> Room(slots, r, start)]
  OBVIOUS
<1>b. PICK days : days = Day(start)..last
  OBVIOUS
<1>1. days \subseteq Int /\ slots = Slots(Expand(s), days) /\ Day(start) \in Int
  BY <1>b, Calendar
<1>2. e = AtLeast(start, f) /\ e \in Int
  BY <1>1, <1>a, EnteredAt
<1>3. /\ p[1] \in days /\ p[1] \in Int /\ p[2] \in WindowsOn(s, p[1] % L)
      /\ \A r \in slots : r[1] \in Int /\ r[2] \in WindowsOn(s, r[1] % L)
  BY <1>1, SlotsOf
<1>4. f \in Int /\ f <= M * p[1] + M /\ M * p[1] \in Int
  <2>1. /\ f \in Int /\ Bounds(p).to \in Int /\ M * p[1] \in Int
        /\ f <= Bounds(p).to /\ Bounds(p).to <= M * p[1] + M
    BY <1>3, <1>a, SlotBounds
  <2> QED BY <2>1, Times
<1>5. ASSUME NEW r \in before
      PROVE  counts[r] = Cardinality({m \in start..(e - 1) : Within(r, m)})
  <2>a. PICK g, h : g = Bounds(r).from /\ h = Bounds(r).to
    OBVIOUS
  <2>1. r \in slots /\ Precedes(r, p)
    BY <1>a
  <2>2. g \in Int /\ h \in Int /\ h <= f
    BY <1>1, <1>3, <1>a, <2>1, <2>a, SlotBounds, InTurn
  <2>3. h <= e
    BY <1>2, <1>4, <2>2 DEF AtLeast
  <2>4. Entered(slots, r, start) = AtLeast(start, g)
    BY <1>1, <2>1, <2>a, EnteredAt
  <2>5. counts[r] = AtLeast(0, h - AtLeast(start, g))
    BY <1>a, <2>4, <2>a DEF Room
  <2>6. Cardinality({m \in start..(e - 1) : g <= m /\ m < h}) = AtLeast(0, AtMost(e, h) - AtLeast(start, g))
    BY <1>2, <2>2, Overlap
  <2>7. AtMost(e, h) = h
    BY <1>2, <2>2, <2>3 DEF AtMost
  <2>8. {m \in start..(e - 1) : Within(r, m)} = {m \in start..(e - 1) : g <= m /\ m < h}
    BY <2>a DEF Within, In
  <2> QED BY <2>5, <2>6, <2>7, <2>8
<1>6. IsFiniteSet(before)
  <2>1. IsFiniteSet(slots)
    BY <1>1, SlotsFinite
  <2> QED BY <1>a, <2>1, FS_Subset
<1>7. \A m \in Int : \A r, q \in before : Within(r, m) /\ Within(q, m) => r = q
  BY <1>1, <1>a, SlotsApart
<1>8. SumOver(counts) = Cardinality(Covered(before, start, e))
  <2>1. DOMAIN counts = before
    BY <1>a
  <2>2. e \in Int
    BY <1>2
  <2> QED BY <1>5, <1>6, <1>7, <2>1, <2>2, SumOfSlots
<1>9. Covered(before, start, e) = Hours(s, start, e)
  <2>1. ASSUME NEW m \in start..(e - 1)
        PROVE  Working(m, s) <=> \E r \in before : Within(r, m)
    <3>1. m \in Int /\ start <= m /\ m < f
      BY <1>2, <1>4 DEF AtLeast
    <3>2. Day(m) \in days
      <4>1. Day(start) <= Day(m) /\ Day(m) \in Int /\ m = M * Day(m) + (m % M) /\ m % M \in 0..M-1
        BY <3>1, DayGrows, Calendar, Times
      <4>2. Day(m) <= p[1]
        <5> SUFFICES ASSUME p[1] < Day(m) PROVE FALSE
          BY <1>3, <4>1
        <5>a. PICK a, b : a = p[1] /\ b = Day(m)
          OBVIOUS
        <5>1. a \in Int /\ b \in Int /\ a + 1 <= b
          BY <1>3, <4>1, <5>a
        <5>2. M * (a + 1) <= M * b /\ M * (a + 1) = M * a + M /\ M * b \in Int
          BY <5>1, Times, Scaled
        <5> QED BY <1>4, <3>1, <4>1, <5>2, <5>a, Times
      <4> QED BY <1>1, <1>3, <1>b, <4>1, <4>2
    <3>3. Working(m, s) <=> \E r \in slots : Within(r, m)
      BY <1>1, <3>1, <3>2, WorkingIsWithin
    <3>4. \A r \in slots : Within(r, m) => Precedes(r, p)
      BY <1>1, <1>a, <3>1, HoldsBefore
    <3> QED BY <1>a, <3>3, <3>4
  <2> QED BY <2>1 DEF Covered, Hours
<1> QED BY <1>8, <1>9, <1>a DEF FoundBefore

\* k is the minute with which n working minutes from a start on are whole.
Finds(s, start, n, k) ==
    /\ k \in Int /\ start <= k /\ Working(k, s)
    /\ Cardinality(Hours(s, start, k)) = n - 1

LEMMA HoursGrow ==
    ASSUME NEW s, NEW start \in Int, NEW j \in Int, NEW k \in Int, start <= j, j < k, Working(j, s)
    PROVE  Cardinality(Hours(s, start, j)) < Cardinality(Hours(s, start, k))
<1>a. PICK J, K : J = Hours(s, start, j) /\ K = Hours(s, start, k)
  OBVIOUS
<1>1. IsFiniteSet(J) /\ IsFiniteSet(K) /\ Cardinality(J) \in Nat /\ Cardinality(K) \in Nat
  BY <1>a, HoursFinite
<1>2. J \cup {j} \subseteq K /\ j \notin J
  BY <1>a DEF Hours
<1>3. Cardinality(J \cup {j}) = Cardinality(J) + 1
  BY <1>1, <1>2, FS_AddElement
<1>4. Cardinality(J \cup {j}) <= Cardinality(K)
  BY <1>1, <1>2, FS_Subset
<1> QED BY <1>1, <1>3, <1>4, <1>a

LEMMA FoundOnce ==
    ASSUME NEW s, NEW start \in Int, NEW n \in Int, NEW j, NEW k, Finds(s, start, n, j), Finds(s, start, n, k)
    PROVE  j = k
<1>1. /\ j \in Int /\ start <= j /\ Working(j, s) /\ Cardinality(Hours(s, start, j)) = n - 1
      /\ k \in Int /\ start <= k /\ Working(k, s) /\ Cardinality(Hours(s, start, k)) = n - 1
  BY DEF Finds
<1>2. n - 1 \in Int
  OBVIOUS
<1>3. ~(j < k) /\ ~(k < j)
  BY <1>1, <1>2, HoursGrow
<1> QED BY <1>1, <1>3

\* With the minute it counts the working minutes go on by one.
LEMMA FoundWhole ==
    ASSUME NEW s, NEW start \in Int, NEW n \in Int, NEW k, Finds(s, start, n, k)
    PROVE  k \in Hours(s, start, k + 1) /\ Cardinality(Hours(s, start, k + 1)) = n
<1>1. k \in Int /\ start <= k /\ Working(k, s) /\ Cardinality(Hours(s, start, k)) = n - 1
  BY DEF Finds
<1>a. PICK J, K : J = Hours(s, start, k) /\ K = Hours(s, start, k + 1)
  OBVIOUS
<1>2. IsFiniteSet(J) /\ k + 1 \in Int
  BY <1>1, <1>a, HoursFinite
<1>3. K = J \cup {k} /\ k \notin J
  <2>1. \A m \in Int : m <= (k + 1) - 1 <=> m <= k - 1 \/ m = k
    BY <1>1
  <2> QED BY <1>1, <1>a, <2>1 DEF Hours
<1>4. Cardinality(K) = Cardinality(J) + 1
  BY <1>2, <1>3, FS_AddElement
<1> QED BY <1>1, <1>3, <1>4, <1>a

\* From where a window is entered to its end every minute is worked.
LEMMA HoursInside ==
    ASSUME NEW s \in SUBSET ScheduleEntry, s # {}, Apart(s), NEW start \in Int, NEW last \in Int,
           NEW slots, slots = Slots(Expand(s), Day(start)..last), NEW p \in slots,
           NEW e, e = Entered(slots, p, start), NEW k \in Int, e <= k, k < Bounds(p).to
    PROVE  /\ e \in Int /\ start <= e /\ start <= k /\ Working(k, s) /\ Within(p, k)
           /\ FoundBefore(slots, p, start) \in Nat
           /\ Cardinality(Hours(s, start, k)) = FoundBefore(slots, p, start) + (k - e)
<1>a. PICK days, f : days = Day(start)..last /\ f = Bounds(p).from
  OBVIOUS
<1>1. days \subseteq Int /\ slots = Slots(Expand(s), days)
  BY <1>a, Calendar
<1>2. p[1] \in days /\ p[1] \in Int /\ p[2] \in WindowsOn(s, p[1] % L)
  BY <1>1, SlotsOf
<1>3. f \in Int /\ Bounds(p).to \in Int /\ \A m \in Int : Within(p, m) => Day(m) = p[1]
  BY <1>2, <1>a, SlotBounds
<1>4. e = AtLeast(start, f) /\ e \in Int
  <2>1. Entered(slots, p, start) = AtLeast(start, Bounds(p).from) /\ Entered(slots, p, start) \in Int
    BY <1>1, EnteredAt
  <2> QED BY <1>a, <2>1
<1>5. start <= e /\ f <= e
  BY <1>3, <1>4 DEF AtLeast
<1>6. ASSUME NEW m \in Int, e <= m, m <= k
      PROVE  Working(m, s) /\ Within(p, m)
  <2>1. Within(p, m)
    BY <1>3, <1>4, <1>5, <1>6, <1>a DEF Within, In
  <2>2. Day(m) \in days
    BY <1>2, <1>3, <2>1
  <2> QED BY <1>1, <2>1, <2>2, WorkingIsWithin
<1>7. Working(k, s) /\ Within(p, k) /\ start <= k
  BY <1>4, <1>5, <1>6
<1>b. PICK J, K, N : J = Hours(s, start, e) /\ K = Hours(s, start, k) /\ N = e..(k - 1)
  OBVIOUS
<1>8. K = J \cup N /\ J \cap N = {}
  <2>1. \A m \in N : m \in start..(k - 1) /\ Working(m, s)
    BY <1>4, <1>5, <1>6, <1>b
  <2>2. \A m \in start..(k - 1) : m \in start..(e - 1) \/ m \in N
    BY <1>4, <1>b
  <2>3. \A m \in start..(e - 1) : m \in start..(k - 1) /\ m \notin N
    BY <1>4, <1>b
  <2> QED BY <1>b, <2>1, <2>2, <2>3 DEF Hours
<1>9. IsFiniteSet(J) /\ Cardinality(J) \in Nat
  BY <1>4, <1>b, HoursFinite
<1>10. IsFiniteSet(N) /\ Cardinality(N) = k - e
  <2>a. PICK h : h = k - 1
    OBVIOUS
  <2>1. h \in Int /\ N = e..h
    BY <1>b, <2>a
  <2>2. IsFiniteSet(N) /\ Cardinality(N) = IF e > h THEN 0 ELSE h - e + 1
    BY <1>4, <2>1, FS_Interval
  <2> QED BY <1>4, <2>2, <2>a
<1>11. Cardinality(K) = Cardinality(J) + Cardinality(N)
  <2>1. Cardinality(J \cup N) = Cardinality(J) + Cardinality(N) - Cardinality(J \cap N)
    BY <1>9, <1>10, FS_Union
  <2>2. Cardinality(J \cap N) = 0
    BY <1>8, FS_EmptySet
  <2>3. Cardinality(J) \in Int /\ Cardinality(N) \in Int
    BY <1>4, <1>9, <1>10
  <2> QED BY <1>8, <2>1, <2>2, <2>3
<1>12. FoundBefore(slots, p, start) = Cardinality(J)
  BY <1>b, FoundIsHours
<1> QED BY <1>4, <1>5, <1>7, <1>9, <1>10, <1>11, <1>12, <1>b

\* add_business_minutes stops behind the minute that makes the count whole, if it comes
\* that far.
LEMMA AddFinds ==
    ASSUME NEW s \in SUBSET ScheduleEntry, Apart(s), NEW start \in Int, NEW n \in Nat \ {0}, NEW k,
           Finds(s, start, n, k), s = {} \/ Day(k) < Day(start) + Lookahead
    PROVE  AddMinutes(start, n, Expand(s)) = k + 1
<1>0. k \in Int /\ start <= k /\ Working(k, s) /\ Cardinality(Hours(s, start, k)) = n - 1
  BY DEF Finds
<1>1. CASE s = {}
  <2>1. Hours(s, start, k) = start..(k - 1)
    BY <1>1 DEF Hours, Working
  <2>2. Cardinality(start..(k - 1)) = IF start > k - 1 THEN 0 ELSE (k - 1) - start + 1
    BY <1>0, FS_Interval
  <2>3. k - start = n - 1
    BY <1>0, <2>1, <2>2
  <2>4. AddMinutes(start, n, Expand(s)) = start + n
    BY <1>1 DEF AddMinutes, Expand
  <2> QED BY <1>0, <2>3, <2>4
<1>2. CASE s # {}
  <2>a. PICK last, slots : last = Day(start) + Lookahead - 1 /\ slots = Slots(Expand(s), Day(start)..last)
    OBVIOUS
  <2>1. last \in Int /\ Day(start) \in Int /\ Day(k) \in Int /\ Day(start) <= Day(k)
    <3>1. Day(start) \in Int /\ Day(k) \in Int
      BY <1>0, Calendar
    <3>2. Day(start) <= Day(k)
      BY <1>0, DayGrows
    <3>3. Lookahead \in Int
      BY TimeAssumption
    <3> QED BY <2>a, <3>1, <3>2, <3>3
  <2>2. Day(k) \in Day(start)..last /\ Day(start)..last \subseteq Int
    BY <1>2, <2>1, <2>a, TimeAssumption
  <2> DEFINE found(slot) == FoundBefore(slots, slot, start)
             Last(slot) == found(slot) < n /\ n <= found(slot) + Room(slots, slot, start)
             there == CHOOSE slot \in slots : Last(slot)
  <2>3. PICK p \in slots : Within(p, k)
    BY <1>0, <1>2, <2>2, <2>a, WorkingIsWithin
  <2>4. \A slot \in slots : /\ Bounds(slot).from \in Int /\ Bounds(slot).to \in Int
                            /\ Entered(slots, slot, start) = AtLeast(start, Bounds(slot).from)
                            /\ Entered(slots, slot, start) \in Int
    <3>1. \A slot \in slots : slot[1] \in Int /\ slot[2] \in WindowsOn(s, slot[1] % L)
      BY <1>2, <2>2, <2>a, SlotsOf
    <3>2. \A slot \in slots : Bounds(slot).from \in Int /\ Bounds(slot).to \in Int
      BY <3>1, SlotBounds
    <3>3. ASSUME NEW slot \in slots
          PROVE  /\ Entered(slots, slot, start) = AtLeast(start, Bounds(slot).from)
                 /\ Entered(slots, slot, start) \in Int
      <4>a. PICK days : days = Day(start)..last
        OBVIOUS
      <4>1. days \subseteq Int /\ slots = Slots(Expand(s), days)
        BY <2>2, <2>a, <4>a
      <4> QED BY <1>2, <4>1, EnteredAt
    <3> QED BY <3>2, <3>3
  <2>5. Last(p)
    <3>a. PICK e, t : e = Entered(slots, p, start) /\ t = Bounds(p).to
      OBVIOUS
    <3>1. e \in Int /\ t \in Int /\ e <= k /\ k < t
      BY <1>0, <2>3, <2>4, <3>a DEF Within, In, AtLeast
    <3>2. found(p) \in Nat /\ n - 1 = found(p) + (k - e)
      BY <1>0, <1>2, <2>1, <2>a, <3>1, <3>a, HoursInside
    <3>3. Room(slots, p, start) = t - e
      <4>1. Room(slots, p, start) = AtLeast(0, t - e)
        BY <3>a DEF Room
      <4> QED BY <1>0, <3>1, <4>1 DEF AtLeast
    <3> QED BY <1>0, <3>1, <3>2, <3>3
  <2>6. ASSUME NEW q \in slots, Last(q)
        PROVE  Entered(slots, q, start) + (n - found(q)) = k + 1
    <3>a. PICK e, t, g : e = Entered(slots, q, start) /\ t = Bounds(q).to /\ g = found(q)
      OBVIOUS
    <3>1. e \in Int /\ t \in Int
      BY <2>4, <3>a
    <3>2. g \in Nat
      <4>1. g = Cardinality(Hours(s, start, e))
        BY <1>2, <2>1, <2>a, <3>a, FoundIsHours
      <4> QED BY <3>1, <4>1, HoursFinite
    <3>3. g < n /\ n <= g + AtLeast(0, t - e)
      BY <2>6, <3>a DEF Room
    <3>4. n <= g + (t - e)
      BY <3>1, <3>2, <3>3 DEF AtLeast
    <3>b. PICK j : j = e + (n - g) - 1
      OBVIOUS
    <3>5. j \in Int /\ e <= j /\ j < t
      BY <3>1, <3>2, <3>3, <3>4, <3>b
    <3>6. start <= j /\ Working(j, s) /\ Cardinality(Hours(s, start, j)) = g + (j - e)
      BY <1>2, <2>1, <2>a, <3>5, <3>a, HoursInside
    <3>7. g + (j - e) = n - 1
      BY <3>1, <3>2, <3>b
    <3>8. Finds(s, start, n, j)
      BY <3>5, <3>6, <3>7 DEF Finds
    <3>9. j = k
      BY <3>8, FoundOnce
    <3> QED BY <3>1, <3>2, <3>9, <3>a, <3>b
  <2>7. there \in slots /\ Last(there)
    BY <2>3, <2>5
  <2>8. AddMinutes(start, n, Expand(s)) = Entered(slots, there, start) + (n - found(there))
    <3>1. Expand(s) # AllDay /\ ~(n <= 0)
      BY <1>2, Expanded
    <3>2. \E slot \in slots : Last(slot)
      BY <2>7
    <3> QED BY <2>a, <3>1, <3>2, Zenon DEF AddMinutes
  <2> HIDE DEF there, Last
  <2> QED BY <2>6, <2>7, <2>8
<1> QED BY <1>1, <1>2

--------------------------------------------------------------------------
(* The lookahead *)

\* The minutes ahead are the working minutes of the days that are looked at.
LEMMA AheadIs ==
    ASSUME NEW s \in SUBSET ScheduleEntry, NEW start \in Int
    PROVE  /\ IsFiniteSet(Ahead(s, start)) /\ Cardinality(Ahead(s, start)) \in Nat
           /\ \A m : m \in Ahead(s, start) <=>
                     m \in Int /\ start <= m /\ Day(m) < Day(start) + Lookahead /\ Working(m, s)
<1>a. PICK d, to : d = Day(start) + Lookahead /\ to = d * DayLength
  OBVIOUS
<1>1. d \in Int /\ M \in Nat \ {0} /\ DayLength = M /\ to = M * d /\ to \in Int
  <2>1. d \in Int /\ M \in Nat \ {0} /\ DayLength = M
    <3>1. Day(start) \in Int
      BY Calendar
    <3>2. Lookahead \in Nat
      BY TimeAssumption
    <3> QED BY <1>a, <3>1, <3>2, Times
  <2>2. d * M = M * d /\ d * M \in Int
    BY <2>1
  <2> QED BY <1>a, <2>1, <2>2
<1>2. Ahead(s, start) = Hours(s, start, to)
  BY <1>a DEF Ahead, Hours
<1>3. ASSUME NEW m \in Int
      PROVE  m < to <=> Day(m) < d
  <2>a. PICK b, t : b = Day(m) /\ t = m % M
    OBVIOUS
  <2>1. b \in Int /\ t \in 0..M-1 /\ m = M * b + t
    <3>1. Day(m) \in Int /\ m % M \in 0..M-1 /\ m = M * Day(m) + (m % M)
      BY Calendar, Times
    <3> QED BY <2>a, <3>1
  <2>2. CASE b < d
    <3>1. M * (b + 1) <= M * d /\ M * (b + 1) = M * b + M /\ M * b \in Int
      BY <1>1, <2>1, <2>2, Scaled
    <3> QED BY <1>1, <2>1, <2>2, <2>a, <3>1
  <2>3. CASE ~(b < d)
    <3>1. M * d <= M * b /\ M * b \in Int
      BY <1>1, <2>1, <2>3, Scaled
    <3> QED BY <1>1, <2>1, <2>3, <2>a, <3>1
  <2> QED BY <2>2, <2>3
<1>4. \A m : m \in Hours(s, start, to) <=> m \in Int /\ start <= m /\ m < to /\ Working(m, s)
  <2>1. \A m : m \in start..(to - 1) <=> m \in Int /\ start <= m /\ m < to
    BY <1>1
  <2> QED BY <2>1, Zenon DEF Hours
<1> QED BY <1>1, <1>2, <1>3, <1>4, <1>a, HoursFinite

\* The minute that makes a count whole is among those ahead, if these are as many.
LEMMA LookaheadHolds ==
    ASSUME NEW s \in Kept, NEW start \in Nat, NEW n \in Nat \ {0}, ~OutOfReach(s, start, n)
    PROVE  \E k : Finds(s, start, n, k) /\ (s = {} \/ Day(k) < Day(start) + Lookahead)
<1>0. s \in SUBSET ScheduleEntry
  BY ClockAssumption DEF Kept
<1>1. CASE s = {}
  <2>a. PICK k : k = start + (n - 1)
    OBVIOUS
  <2>1. k \in Int /\ start <= k
    BY <2>a
  <2>2. Hours(s, start, k) = start..(k - 1)
    BY <1>1 DEF Hours, Working
  <2>3. Cardinality(start..(k - 1)) = IF start > k - 1 THEN 0 ELSE (k - 1) - start + 1
    <3>a. PICK h : h = k - 1
      OBVIOUS
    <3>1. Cardinality(start..h) = IF start > h THEN 0 ELSE h - start + 1
      BY <2>1, <3>a, FS_Interval
    <3> QED BY <3>1, <3>a
  <2>4. Cardinality(Hours(s, start, k)) = n - 1
    BY <2>1, <2>2, <2>3, <2>a
  <2> QED BY <1>1, <2>1, <2>4 DEF Finds, Working
<1>2. CASE s # {}
  <2>a. PICK W, p : W = Ahead(s, start) /\ p = n - 1
    OBVIOUS
  <2>1. /\ IsFiniteSet(W) /\ Cardinality(W) \in Nat
        /\ \A m : m \in W <=>
                  m \in Int /\ start <= m /\ Day(m) < Day(start) + Lookahead /\ Working(m, s)
    BY <1>0, <2>a, AheadIs
  <2>2. p \in Nat /\ p < Cardinality(W)
    BY <1>2, <2>1, <2>a DEF OutOfReach
  <2>3. W \subseteq Nat
    BY <2>1
  <2>4. PICK k \in W : Cardinality({m \in W : m < k}) = p
    BY <2>1, <2>2, <2>3, Place
  <2>5. k \in Int /\ start <= k /\ Day(k) < Day(start) + Lookahead /\ Working(k, s)
    BY <2>1
  <2>6. {m \in W : m < k} = Hours(s, start, k)
    <3>1. \A m : m \in start..(k - 1) <=> m \in Int /\ start <= m /\ m < k
      BY <2>5
    <3>2. \A m : m \in Hours(s, start, k) <=> m \in Int /\ start <= m /\ m < k /\ Working(m, s)
      BY <3>1, Zenon DEF Hours
    <3>3. \A m \in Int : m < k => Day(m) < Day(start) + Lookahead
      <4> SUFFICES ASSUME NEW m \in Int, m < k PROVE Day(m) < Day(start) + Lookahead
        OBVIOUS
      <4>1. Day(m) <= Day(k)
        BY <2>5, DayGrows
      <4>2. Day(m) \in Int /\ Day(k) \in Int /\ Day(start) \in Int
        BY <2>5, Calendar
      <4>3. Lookahead \in Int
        BY TimeAssumption
      <4> QED BY <2>5, <4>1, <4>2, <4>3
    <3> QED BY <2>1, <3>2, <3>3, Zenon
  <2> QED BY <2>4, <2>5, <2>6, <2>a DEF Finds
<1> QED BY <1>1, <1>2

\* What is found among the minutes ahead is no more than these are.
LEMMA FoundAhead ==
    ASSUME NEW s \in SUBSET ScheduleEntry, NEW start \in Int, NEW n \in Nat \ {0}, NEW k,
           Finds(s, start, n, k), Day(k) < Day(start) + Lookahead
    PROVE  ~OutOfReach(s, start, n)
<1>a. PICK W, H : W = Ahead(s, start) /\ H = Hours(s, start, k + 1)
  OBVIOUS
<1>1. k \in Int /\ start <= k
  BY DEF Finds
<1>2. /\ IsFiniteSet(W) /\ Cardinality(W) \in Nat
      /\ \A m : m \in W <=>
                m \in Int /\ start <= m /\ Day(m) < Day(start) + Lookahead /\ Working(m, s)
  BY <1>a, AheadIs
<1>3. Cardinality(H) = n
  BY <1>a, FoundWhole
<1>4. H \subseteq W
  <2> SUFFICES ASSUME NEW m \in H PROVE m \in W
    OBVIOUS
  <2>1. m \in Int /\ start <= m /\ m <= k /\ Working(m, s)
    BY <1>1, <1>a DEF Hours
  <2>2. Day(m) <= Day(k) /\ Day(m) \in Int /\ Day(k) \in Int /\ Day(start) \in Int /\ Lookahead \in Nat
    BY <1>1, <2>1, DayGrows, Calendar, TimeAssumption
  <2> QED BY <1>2, <2>1, <2>2
<1>5. Cardinality(H) <= Cardinality(W)
  BY <1>2, <1>4, FS_Subset
<1> QED BY <1>2, <1>3, <1>5, <1>a DEF OutOfReach

\* In whatever window add_business_minutes stops, it has found the minute it looks for.
LEMMA StopsFound ==
    ASSUME NEW s \in SUBSET ScheduleEntry, s # {}, Apart(s), NEW start \in Int, NEW n \in Nat \ {0},
           NEW slots, slots = Slots(Expand(s), Day(start)..(Day(start) + Lookahead - 1)), NEW q \in slots,
           FoundBefore(slots, q, start) < n, n <= FoundBefore(slots, q, start) + Room(slots, q, start)
    PROVE  \E k : Finds(s, start, n, k) /\ Day(k) < Day(start) + Lookahead
<1>a. PICK e, t, g, last : /\ e = Entered(slots, q, start) /\ t = Bounds(q).to
                           /\ g = FoundBefore(slots, q, start) /\ last = Day(start) + Lookahead - 1
  OBVIOUS
<1>1. last \in Int /\ Day(start) \in Int
  BY <1>a, Calendar, TimeAssumption
<1>2. q[1] \in Day(start)..last /\ q[1] \in Int /\ q[2] \in WindowsOn(s, q[1] % L)
  <2>a. PICK days : days = Day(start)..last
    OBVIOUS
  <2>1. days \subseteq Int /\ slots = Slots(Expand(s), days)
    BY <1>1, <1>a, <2>a
  <2> QED BY <2>1, <2>a, SlotsOf
<1>3. e \in Int /\ t \in Int /\ \A m \in Int : Within(q, m) => Day(m) = q[1]
  <2>1. Bounds(q).to \in Int /\ \A m \in Int : Within(q, m) => Day(m) = q[1]
    BY <1>2, SlotBounds
  <2>2. Entered(slots, q, start) \in Int
    <3>a. PICK days : days = Day(start)..last
      OBVIOUS
    <3>1. days \subseteq Int /\ slots = Slots(Expand(s), days)
      BY <1>1, <1>a, <3>a
    <3> QED BY <3>1, EnteredAt
  <2> QED BY <1>a, <2>1, <2>2
<1>4. g \in Nat
  <2>1. g = Cardinality(Hours(s, start, e))
    BY <1>1, <1>a, FoundIsHours
  <2> QED BY <1>3, <2>1, HoursFinite
<1>5. g < n /\ n <= g + AtLeast(0, t - e)
  BY <1>a DEF Room
<1>6. n <= g + (t - e)
  BY <1>3, <1>4, <1>5 DEF AtLeast
<1>b. PICK j : j = e + (n - g) - 1
  OBVIOUS
<1>7. j \in Int /\ e <= j /\ j < t
  BY <1>3, <1>4, <1>5, <1>6, <1>b
<1>8. start <= j /\ Working(j, s) /\ Within(q, j) /\ Cardinality(Hours(s, start, j)) = g + (j - e)
  BY <1>1, <1>7, <1>a, HoursInside
<1>9. g + (j - e) = n - 1
  BY <1>3, <1>4, <1>b
<1>10. Day(j) < Day(start) + Lookahead
  <2>1. Day(j) \in Day(start)..last
    BY <1>2, <1>3, <1>7, <1>8
  <2> QED BY <1>1, <1>a, <2>1, TimeAssumption
<1> QED BY <1>7, <1>8, <1>9, <1>10 DEF Finds

\* add_business_minutes finds what is within reach, and gives up for nothing else.
LEMMA AddReaches ==
    ASSUME RowsApart, NEW s \in Kept, NEW start \in Nat, NEW n \in Nat \ {0}
    PROVE  IF OutOfReach(s, start, n) THEN AddMinutes(start, n, Expand(s)) = Unreachable
           ELSE \E k : Finds(s, start, n, k) /\ AddMinutes(start, n, Expand(s)) = k + 1
<1>0. s \in SUBSET ScheduleEntry /\ Apart(s)
  BY KeptApart
<1>1. CASE ~OutOfReach(s, start, n)
  <2>1. PICK k : Finds(s, start, n, k) /\ (s = {} \/ Day(k) < Day(start) + Lookahead)
    BY <1>1, LookaheadHolds
  <2>2. AddMinutes(start, n, Expand(s)) = k + 1
    BY <1>0, <2>1, AddFinds
  <2> QED BY <1>1, <2>1, <2>2
<1>2. CASE OutOfReach(s, start, n)
  <2>a. PICK slots : slots = Slots(Expand(s), Day(start)..(Day(start) + Lookahead - 1))
    OBVIOUS
  <2> DEFINE Last(slot) == /\ FoundBefore(slots, slot, start) < n
                           /\ n <= FoundBefore(slots, slot, start) + Room(slots, slot, start)
  <2>1. s # {}
    BY <1>2 DEF OutOfReach
  <2>2. ~\E slot \in slots : Last(slot)
    <3> SUFFICES ASSUME NEW q \in slots, Last(q) PROVE FALSE
      OBVIOUS
    <3>1. PICK k : Finds(s, start, n, k) /\ Day(k) < Day(start) + Lookahead
      BY <1>0, <2>1, <2>a, StopsFound
    <3> QED BY <1>0, <1>2, <3>1, FoundAhead
  <2>3. Expand(s) # AllDay /\ ~(n <= 0)
    BY <1>0, <2>1, Expanded
  <2> QED BY <1>2, <2>2, <2>3, <2>a, Zenon DEF AddMinutes
<1> QED BY <1>1, <1>2

\* The same where the minute is known: it is beyond the days that are looked at, or found.
LEMMA AddThen ==
    ASSUME RowsApart, NEW s \in Kept, NEW start \in Nat, NEW n \in Nat \ {0}, NEW k, Finds(s, start, n, k)
    PROVE  \/ AddMinutes(start, n, Expand(s)) = k + 1
           \/ /\ AddMinutes(start, n, Expand(s)) = Unreachable
              /\ OutOfReach(s, start, n) /\ Day(k) >= Day(start) + Lookahead
<1>0. s \in SUBSET ScheduleEntry /\ k \in Int /\ Day(k) \in Int /\ Day(start) \in Int /\ Lookahead \in Nat
  <2>1. k \in Int /\ start \in Int
    BY DEF Finds
  <2>2. Day(k) \in Int /\ Day(start) \in Int
    BY <2>1, Calendar
  <2>3. Lookahead \in Nat
    BY TimeAssumption
  <2>4. s \in SUBSET ScheduleEntry
    BY KeptApart
  <2> QED BY <2>1, <2>2, <2>3, <2>4
<1>1. CASE OutOfReach(s, start, n)
  <2>1. ~(Day(k) < Day(start) + Lookahead)
    BY <1>0, <1>1, FoundAhead
  <2> QED BY <1>0, <1>1, <2>1, AddReaches
<1>2. CASE ~OutOfReach(s, start, n)
  <2>1. PICK j : Finds(s, start, n, j) /\ AddMinutes(start, n, Expand(s)) = j + 1
    BY <1>2, AddReaches
  <2>2. j = k
    <3>1. n \in Int
      OBVIOUS
    <3> QED BY <2>1, <3>1, FoundOnce
  <2> QED BY <2>1, <2>2
<1> QED BY <1>1, <1>2

--------------------------------------------------------------------------
(* The due date *)

LEMMA CountedSplit ==
    ASSUME NEW a \in Int, NEW b \in Int, Created <= a, a <= b
    PROVE  /\ Cardinality(Counted(Created, b))
                = Cardinality(Counted(Created, a)) + Cardinality(Counted(a, b))
           /\ Cardinality(Counted(Created, a)) \in Nat /\ Cardinality(Counted(a, b)) \in Nat
           /\ Cardinality(Counted(Created, b)) \in Nat
<1>a. PICK A, B, C : A = Counted(Created, a) /\ B = Counted(Created, b) /\ C = Counted(a, b)
  OBVIOUS
<1>0. Created \in Int
  BY ClockAssumption
<1>1. /\ IsFiniteSet(A) /\ IsFiniteSet(C)
      /\ Cardinality(A) \in Nat /\ Cardinality(C) \in Nat /\ Cardinality(B) \in Nat
  BY <1>0, <1>a, CountedFinite
<1>2. /\ \A m : m \in A <=> m \in Int /\ Created <= m /\ m < a /\ Counts(m)
      /\ \A m : m \in B <=> m \in Int /\ Created <= m /\ m < b /\ Counts(m)
      /\ \A m : m \in C <=> m \in Int /\ a <= m /\ m < b /\ Counts(m)
  BY <1>0, <1>a, IsCounted
<1>3. B = A \cup C /\ A \cap C = {}
  <2>1. \A m \in Int : /\ Created <= m /\ m < b <=> (Created <= m /\ m < a) \/ (a <= m /\ m < b)
                       /\ ~(m < a /\ a <= m)
    BY <1>0
  <2> QED BY <1>2, <2>1
<1>4. Cardinality(A \cup C) = Cardinality(A) + Cardinality(C) - Cardinality(A \cap C)
  BY <1>1, FS_Union
<1>5. Cardinality(A \cap C) = 0
  BY <1>3, FS_EmptySet
<1>b. PICK x, y, z, i : /\ x = Cardinality(A) /\ y = Cardinality(B) /\ z = Cardinality(C)
                        /\ i = Cardinality(A \cap C)
  OBVIOUS
<1>6. x \in Nat /\ y \in Nat /\ z \in Nat /\ y = x + z
  <2>1. x \in Nat /\ y \in Nat /\ z \in Nat /\ i = 0
    BY <1>1, <1>5, <1>b
  <2>2. y = x + z - i
    BY <1>3, <1>4, <1>b
  <2> QED BY <2>1, <2>2
<1> QED BY <1>6, <1>a, <1>b

\* What a segment holds up to some minute of it are the working minutes of its team.
LEMMA HeldIsHours ==
    ASSUME NEW s, NEW sch, Follows(s, sch), s.start \in Int, s.end \in Int, ~s.paused,
           NEW k \in Int, k <= s.end
    PROVE  Counted(s.start, k) = Hours(sch, s.start, k)
<1>a. PICK a, b : a = s.start /\ b = s.end
  OBVIOUS
<1>1. \A m \in a..(b - 1) : Counts(m) <=> Working(m, sch)
  BY <1>a DEF Follows
<1>2. \A m \in a..(k - 1) : m \in a..(b - 1)
  BY <1>a
<1> QED BY <1>1, <1>2, <1>a DEF Counted, Hours

\* Before and with a segment, what counts up to its end has elapsed.
LEMMA ElapsedWith ==
    ASSUME NEW end \in Int, NEW segments, SegmentsOK(segments, end), NEW s \in segments
    PROVE  /\ ElapsedBefore(segments, s) + s.minutes = Cardinality(Counted(Created, s.end))
           /\ ElapsedBefore(segments, s) = Cardinality(Counted(Created, s.start))
           /\ s.start \in Int /\ s.end \in Int /\ Created <= s.start /\ s.start <= s.end /\ s.end <= end
           /\ s.paused \in BOOLEAN /\ \E sch \in Kept : Follows(s, sch)
           /\ Cardinality(Counted(Created, s.start)) \in Nat /\ Cardinality(Counted(Created, s.end)) \in Nat
<1>1. /\ s.start \in Int /\ s.end \in Int /\ Created <= s.start /\ s.start <= s.end /\ s.end <= end
      /\ s.minutes = Cardinality(Counted(s.start, s.end))
      /\ s.paused \in BOOLEAN /\ \E sch \in Kept : Follows(s, sch)
  BY DEF SegmentsOK
<1>2. ElapsedBefore(segments, s) = Cardinality(Counted(Created, s.start))
  BY ElapsedIsCounted
<1>a. PICK a, b : a = s.start /\ b = s.end
  OBVIOUS
<1>3. /\ Cardinality(Counted(Created, b))
           = Cardinality(Counted(Created, a)) + Cardinality(Counted(a, b))
      /\ Cardinality(Counted(Created, a)) \in Nat /\ Cardinality(Counted(Created, b)) \in Nat
  BY <1>1, <1>a, CountedSplit
<1> QED BY <1>1, <1>2, <1>3, <1>a

LEMMA OpenLast ==
    ASSUME NEW end \in Nat, NEW segments, SegmentsOK(segments, end)
    PROVE  Open(segments) \in segments /\ \A r \in segments : r.start <= Open(segments).start
<1>a. PICK starts : starts = {s.start : s \in segments}
  OBVIOUS
<1>1. \A s \in segments : s.start \in 0..end
  <2>1. \A s \in segments : s.start \in Int /\ s.end \in Int /\ Created <= s.start /\ s.start <= s.end
                            /\ s.end <= end
    BY DEF SegmentsOK
  <2>2. Created \in Nat
    BY ClockAssumption
  <2> QED BY <2>1, <2>2
<1>2. starts \subseteq 0..end /\ starts # {}
  BY <1>1, <1>a DEF SegmentsOK
<1>3. PICK s \in segments : \A r \in segments : r.start <= s.start
  <2>a. PICK x : x = Max(starts)
    OBVIOUS
  <2>1. x \in starts /\ \A n \in starts : n <= x
    BY <1>2, <2>a, Largest
  <2> QED BY <1>a, <2>1
<1> QED BY <1>3 DEF Open

\* What is out of reach is no nearer for more minutes.
LEMMA FartherStill ==
    ASSUME NEW s \in Kept, NEW start \in Nat, NEW n \in Nat, NEW g \in Nat, n <= g, OutOfReach(s, start, n)
    PROVE  OutOfReach(s, start, g)
<1>1. s \in SUBSET ScheduleEntry
  BY ClockAssumption DEF Kept
<1>2. Cardinality(Ahead(s, start)) \in Nat
  BY <1>1, AheadIs
<1> QED BY <1>2 DEF OutOfReach

\* Some team's hours did not reach for a target.
Missed(end, g) == \E s \in Kept, start \in Created..end : OutOfReach(s, start, g)

\* A target that has been reached was due when the minute that made it whole was over.
LEMMA DueReached ==
    ASSUME RowsApart, NEW end \in Int, NEW segments, SegmentsOK(segments, end),
           NEW goal \in Targets, NEW c \in Clock, NEW due \in Int, due - 1 \in Counted(Created, end),
           Cardinality(Counted(Created, due)) = goal[c]
    PROVE  \/ DueAt(segments, end, goal[c]) = due
           \/ /\ DueAt(segments, end, goal[c]) = Unreachable /\ Missed(end, goal[c])
              /\ Day(due - 1) >= Day(Created) + Lookahead
<1>a. PICK g, k : g = goal[c] /\ k = due - 1
  OBVIOUS
<1>0. Created \in Nat /\ g \in Nat \ {0}
  BY <1>a, ClockAssumption
<1>1. k \in Int /\ Created <= k /\ k < end /\ Counts(k) /\ due = k + 1
  BY <1>0, <1>a, IsCounted
<1>2. Cardinality(Counted(Created, k)) = g - 1
  <2>1. /\ Cardinality(Counted(Created, due))
             = Cardinality(Counted(Created, k)) + Cardinality(Counted(k, due))
        /\ Cardinality(Counted(Created, k)) \in Nat
    BY <1>1, CountedSplit
  <2>2. Counted(k, due) = {k}
    <3>1. \A m : m \in Counted(k, due) <=> m \in Int /\ k <= m /\ m < due /\ Counts(m)
      BY <1>1, IsCounted
    <3>2. \A m \in Int : k <= m /\ m < due <=> m = k
      BY <1>1
    <3> QED BY <1>1, <3>1, <3>2
  <2>3. Cardinality(Counted(k, due)) = 1
    BY <2>2, FS_Singleton
  <2> QED BY <1>0, <1>a, <2>1, <2>3
<1>3. PICK s \in segments : s.start <= k /\ k < s.end
  BY <1>0, <1>1 DEF SegmentsOK
<1>4. \A r \in segments :
        /\ ElapsedBefore(segments, r) + r.minutes = Cardinality(Counted(Created, r.end))
        /\ r.start \in Int /\ r.end \in Int /\ Created <= r.start /\ r.start <= r.end
        /\ r.end <= end /\ Cardinality(Counted(Created, r.end)) \in Nat
  BY ElapsedWith
<1>5. PICK sch \in Kept : Follows(s, sch)
  BY ElapsedWith
<1>6. ~s.paused /\ Working(k, sch)
  BY <1>1, <1>3, <1>4, <1>5 DEF Follows
<1>b. PICK reaching : reaching = Reaching(segments, g)
  OBVIOUS
<1>7. s \in reaching
  <2>a. PICK e : e = s.end
    OBVIOUS
  <2>1. e \in Int /\ due <= e /\ Created <= due
    BY <1>0, <1>1, <1>3, <1>4, <2>a
  <2>2. /\ Cardinality(Counted(Created, e))
             = Cardinality(Counted(Created, due)) + Cardinality(Counted(due, e))
        /\ Cardinality(Counted(due, e)) \in Nat
    BY <2>1, CountedSplit
  <2>3. Cardinality(Counted(Created, e)) >= g
    BY <1>0, <1>a, <2>2
  <2> QED BY <1>4, <1>6, <1>b, <2>3, <2>a DEF Reaching
<1>8. ASSUME NEW r \in reaching
      PROVE  s.start <= r.start
  <2>1. r \in segments /\ ElapsedBefore(segments, r) + r.minutes >= g
    BY <1>b DEF Reaching
  <2> SUFFICES ASSUME r.start < s.start PROVE FALSE
    BY <1>4, <2>1
  <2>2. r.end <= s.start
    BY <2>1 DEF SegmentsOK
  <2>a. PICK e : e = r.end
    OBVIOUS
  <2>3. e \in Int /\ Created <= e /\ e <= k
    BY <1>0, <1>1, <1>3, <1>4, <2>1, <2>2, <2>a
  <2>4. /\ Cardinality(Counted(Created, k))
             = Cardinality(Counted(Created, e)) + Cardinality(Counted(e, k))
        /\ Cardinality(Counted(e, k)) \in Nat /\ Cardinality(Counted(Created, e)) \in Nat
    BY <1>1, <2>3, CountedSplit
  <2>5. Cardinality(Counted(Created, e)) >= g
    BY <1>4, <2>1, <2>a
  <2> QED BY <1>0, <1>2, <2>4, <2>5
<1>c. PICK first : first = CHOOSE x \in reaching : \A r \in reaching : x.start <= r.start
  OBVIOUS
<1>9. first = s
  <2>1. first \in reaching /\ \A r \in reaching : first.start <= r.start
    BY <1>7, <1>8, <1>c
  <2>2. first.start = s.start /\ first \in segments
    <3>1. first \in segments
      BY <1>b, <2>1 DEF Reaching
    <3> QED BY <1>4, <1>7, <1>8, <2>1, <3>1
  <2> QED BY <2>2 DEF SegmentsOK
<1>d. PICK before, start, n : before = ElapsedBefore(segments, s) /\ start = s.start /\ n = g - before
  OBVIOUS
<1>10. DueAt(segments, end, g) = AddMinutes(start, n, Expand(sch))
  <2>1. DueAt(segments, end, g) = AddMinutes(first.start, g - ElapsedBefore(segments, first), first.windows)
    BY <1>7, <1>b, <1>c, Zenon DEF DueAt
  <2>2. s.windows = Expand(sch)
    BY <1>5 DEF Follows
  <2> QED BY <1>9, <1>d, <2>1, <2>2
<1>11. /\ before = Cardinality(Counted(Created, start)) /\ before \in Nat
       /\ start \in Int /\ Created <= start /\ start <= k
  BY <1>3, <1>d, ElapsedWith
<1>12. Cardinality(Hours(sch, start, k)) = n - 1
  <2>1. /\ Cardinality(Counted(Created, k)) = before + Cardinality(Counted(start, k))
        /\ Cardinality(Counted(start, k)) \in Nat
    BY <1>1, <1>11, CountedSplit
  <2>2. Counted(start, k) = Hours(sch, start, k)
    <3>1. k <= s.end
      BY <1>1, <1>3, <1>4
    <3> QED BY <1>1, <1>4, <1>5, <1>6, <1>d, <3>1, HeldIsHours
  <2> QED BY <1>0, <1>2, <1>11, <1>d, <2>1, <2>2
<1>13. n \in Nat \ {0} /\ n <= g
  <2>1. Cardinality(Hours(sch, start, k)) \in Nat
    BY <1>1, <1>11, HoursFinite
  <2> QED BY <1>0, <1>11, <1>12, <1>d, <2>1
<1>14. Finds(sch, start, n, k)
  BY <1>1, <1>6, <1>11, <1>12 DEF Finds
<1>15. \/ AddMinutes(start, n, Expand(sch)) = k + 1
       \/ /\ AddMinutes(start, n, Expand(sch)) = Unreachable
          /\ OutOfReach(sch, start, n) /\ Day(k) >= Day(start) + Lookahead
  <2>1. start \in Nat
    BY <1>0, <1>11
  <2> QED BY <1>13, <1>14, <2>1, AddThen
<1>16. ASSUME OutOfReach(sch, start, n), Day(k) >= Day(start) + Lookahead
       PROVE  Missed(end, g) /\ Day(k) >= Day(Created) + Lookahead
  <2>1. start \in Nat /\ start \in Created..end
    BY <1>0, <1>1, <1>11
  <2>2. OutOfReach(sch, start, g)
    BY <1>0, <1>13, <1>16, <2>1, FartherStill
  <2>3. /\ Day(Created) <= Day(start) /\ Day(Created) \in Int /\ Day(start) \in Int /\ Day(k) \in Int
        /\ Lookahead \in Nat
    BY <1>0, <1>1, <1>11, DayGrows, Calendar, TimeAssumption
  <2> QED BY <1>16, <2>1, <2>2, <2>3 DEF Missed
<1> QED BY <1>1, <1>10, <1>15, <1>16, <1>a

\* A target that has not been reached is due when the working minutes from the end on will
\* have made it whole, if the clock goes on.
LEMMA DueAhead ==
    ASSUME RowsApart, NEW end \in Nat, NEW segments, SegmentsOK(segments, end), Created <= end,
           NEW goal \in Targets, NEW c \in Clock, NEW n, n = goal[c] - Elapsed(segments),
           Elapsed(segments) < goal[c], NEW due, due = DueAt(segments, end, goal[c])
    PROVE  /\ Open(segments).paused => due = None
           /\ ~Open(segments).paused =>
                \E sch \in Kept :
                   /\ Follows(Open(segments), sch)
                   /\ IF OutOfReach(sch, end, n) THEN due = Unreachable /\ Missed(end, goal[c])
                      ELSE due \in Nat /\ end < due /\ Finds(sch, end, n, due - 1)
<1>a. PICK g, open, elapsed : g = goal[c] /\ open = Open(segments) /\ elapsed = Elapsed(segments)
  OBVIOUS
<1>0. g \in Nat \ {0} /\ Created \in Nat
  BY <1>a, ClockAssumption
<1>1. elapsed = Cardinality(Counted(Created, end)) /\ elapsed < g
  BY <1>a, ElapsedIsCounted
<1>2. Reaching(segments, g) = {}
  <2> SUFFICES ASSUME NEW s \in segments, ElapsedBefore(segments, s) + s.minutes >= g PROVE FALSE
    BY DEF Reaching
  <2>a. PICK e : e = s.end
    OBVIOUS
  <2>1. /\ e \in Int /\ Created <= e /\ e <= end
        /\ ElapsedBefore(segments, s) + s.minutes = Cardinality(Counted(Created, e))
    <3>1. /\ s.start \in Int /\ s.end \in Int /\ Created <= s.start /\ s.start <= s.end /\ s.end <= end
          /\ ElapsedBefore(segments, s) + s.minutes = Cardinality(Counted(Created, s.end))
      BY ElapsedWith
    <3> QED BY <1>0, <2>a, <3>1
  <2>2. /\ Cardinality(Counted(Created, end))
             = Cardinality(Counted(Created, e)) + Cardinality(Counted(e, end))
        /\ Cardinality(Counted(e, end)) \in Nat /\ Cardinality(Counted(Created, e)) \in Nat
    BY <2>1, CountedSplit
  <2> QED BY <1>0, <1>1, <2>1, <2>2
<1>3. due = IF GoesOn(open) THEN AddMinutes(end, n, open.windows) ELSE None
  BY <1>2, <1>a DEF DueAt
<1>4. open \in segments /\ open.paused \in BOOLEAN
  BY <1>a, OpenLast, ElapsedWith
<1>5. CASE open.paused
  BY <1>3, <1>5, <1>a DEF GoesOn
<1>6. CASE ~open.paused
  <2>1. PICK sch \in Kept : Follows(open, sch)
    BY <1>4, ElapsedWith
  <2>2. due = AddMinutes(end, n, Expand(sch))
    BY <1>3, <1>6, <2>1 DEF GoesOn, Follows
  <2>3. n \in Nat \ {0} /\ n <= g
    <3>1. elapsed \in Nat
      BY <1>0, <1>1, CountedFinite
    <3> QED BY <1>0, <1>1, <1>a, <3>1
  <2>4. CASE OutOfReach(sch, end, n)
    <3>1. due = Unreachable
      BY <2>2, <2>3, <2>4, AddReaches
    <3>2. OutOfReach(sch, end, g)
      BY <1>0, <2>3, <2>4, FartherStill
    <3>3. end \in Created..end
      BY <1>0
    <3> QED BY <1>6, <1>a, <2>1, <2>4, <3>1, <3>2, <3>3 DEF Missed
  <2>5. CASE ~OutOfReach(sch, end, n)
    <3>1. PICK k : Finds(sch, end, n, k) /\ due = k + 1
      BY <2>2, <2>3, <2>5, AddReaches
    <3>2. k \in Int /\ end <= k
      BY <3>1 DEF Finds
    <3>3. due \in Nat /\ end < due /\ due - 1 = k
      BY <3>1, <3>2
    <3> QED BY <1>6, <1>a, <2>1, <2>5, <3>1, <3>3
  <2> QED BY <2>4, <2>5
<1> QED BY <1>4, <1>5, <1>6

LEMMA ResultHolds ==
    ASSUME IInv, RowsApart, NEW c \in Clock, NEW end, end = EndAt(c),
           NEW open, open = Open(Segments(end)), NEW due, due = Result(c).due
    PROVE  /\ Result(c) = [elapsed |-> lived[c], due |-> due,
                           status |-> ClockStatus(DoneAt(c), lived[c], due, target[c])]
           /\ ~(lived[c] < target[c]) =>
                \/ due = reached[c]
                \/ /\ due = Unreachable /\ Missed(end, target[c])
                   /\ Day(reached[c] - 1) >= Day(Created) + Lookahead
           /\ lived[c] < target[c] =>
                /\ open.paused => due = None
                /\ ~open.paused =>
                     \E sch \in Kept :
                        /\ Follows(open, sch)
                        /\ IF OutOfReach(sch, end, target[c] - lived[c])
                           THEN due = Unreachable /\ Missed(end, target[c])
                           ELSE due \in Nat /\ end < due /\ Finds(sch, end, target[c] - lived[c], due - 1)
<1>a. PICK segments, then : segments = Segments(end) /\ then = DueAt(segments, end, target[c])
  OBVIOUS
<1>1. /\ end \in Nat /\ Created <= end /\ SegmentsOK(segments, end) /\ Elapsed(segments) = lived[c]
  BY <1>a, EndCounts
<1>2. Result(c) = [elapsed |-> lived[c], due |-> then,
                   status |-> ClockStatus(DoneAt(c), lived[c], then, target[c])]
  BY <1>1, <1>a, ResultIs
<1>3. due = then
  BY <1>2
<1>b. PICK goal : goal = target
  OBVIOUS
<1>4. goal \in Targets
  BY <1>b DEF IInv, Typed
<1>5. ASSUME ~(lived[c] < target[c])
      PROVE  \/ due = reached[c]
             \/ /\ due = Unreachable /\ Missed(end, target[c])
                /\ Day(reached[c] - 1) >= Day(Created) + Lookahead
  <2>a. PICK r : r = reached[c]
    OBVIOUS
  <2>1. /\ r \in Int /\ r - 1 \in Counted(Created, end)
        /\ Cardinality(Counted(Created, r)) = goal[c]
    BY <1>5, <1>b, <2>a DEF IInv, ReachedOK
  <2>2. end \in Int
    BY <1>1
  <2>3. \/ DueAt(segments, end, goal[c]) = r
        \/ /\ DueAt(segments, end, goal[c]) = Unreachable /\ Missed(end, goal[c])
           /\ Day(r - 1) >= Day(Created) + Lookahead
    BY <1>1, <1>4, <2>1, <2>2, DueReached
  <2> QED BY <1>3, <1>a, <1>b, <2>3, <2>a
<1>6. ASSUME lived[c] < target[c]
      PROVE  /\ open.paused => due = None
             /\ ~open.paused =>
                  \E sch \in Kept :
                     /\ Follows(open, sch)
                     /\ IF OutOfReach(sch, end, target[c] - lived[c])
                        THEN due = Unreachable /\ Missed(end, target[c])
                        ELSE due \in Nat /\ end < due /\ Finds(sch, end, target[c] - lived[c], due - 1)
  <2>a. PICK n : n = goal[c] - Elapsed(segments)
    OBVIOUS
  <2>1. Elapsed(segments) < goal[c] /\ due = DueAt(segments, end, goal[c])
    BY <1>1, <1>3, <1>6, <1>a, <1>b
  <2>2. /\ Open(segments).paused => due = None
        /\ ~Open(segments).paused =>
             \E sch \in Kept :
                /\ Follows(Open(segments), sch)
                /\ IF OutOfReach(sch, end, n) THEN due = Unreachable /\ Missed(end, goal[c])
                   ELSE due \in Nat /\ end < due /\ Finds(sch, end, n, due - 1)
    BY <1>1, <1>4, <2>1, <2>a, DueAhead
  <2>3. n = target[c] - lived[c] /\ Open(segments) = open /\ goal[c] = target[c]
    BY <1>1, <1>a, <1>b, <2>a
  <2> QED BY <2>2, <2>3
<1> QED BY <1>2, <1>3, <1>5, <1>6

\* The last segment has the values of now, if nothing has changed this minute.
LEMMA OpenIsNow ==
    ASSUME IInv, RowsApart, Later, NEW open, open = Open(Segments(now))
    PROVE  /\ open.paused <=> status \in Pausing
           /\ open.windows = Expand(ScheduleOf(team))
<1>a. PICK end, points : end = now /\ points = Breakpoints(Instants, end)
  OBVIOUS
<1>0. HistoryOK /\ Typed /\ end \in Nat /\ end \in Int /\ Created <= end /\ Created \in Nat
  BY <1>a, ClockAssumption DEF IInv, Typed
<1>1. open \in Segments(end) /\ \A r \in Segments(end) : r.start <= open.start
  BY <1>0, <1>a, SegmentsHold, OpenLast
<1>2. PICK p \in points : open = SegmentAt(points, p, end)
  BY <1>1, <1>a, SegmentsFrom
<1>3. \A q \in points : SegmentAt(points, q, end) \in Segments(end) /\ SegmentAt(points, q, end).start = q
  BY <1>0, <1>a, SegmentsFrom, SegmentHolds
<1>4. \A q \in points : q <= p
  BY <1>1, <1>2, <1>3
<1>5. /\ points \subseteq Created..end
      /\ \A i \in ChangesOf("team_id") \cup ChangesOf("status") :
           history[i].at < end => history[i].at \in points
  BY <1>0, <1>a, PointsOK
<1>6. p \in Int /\ p <= end
  BY <1>0, <1>5
<1>7. \A i \in ChangesOf("team_id") \cup ChangesOf("status") :
        history[i].at \in Int /\ ~(p < history[i].at /\ history[i].at <= end)
  <2> SUFFICES ASSUME NEW i \in ChangesOf("team_id") \cup ChangesOf("status")
               PROVE  history[i].at \in Int /\ ~(p < history[i].at /\ history[i].at <= end)
    OBVIOUS
  <2>1. i \in DOMAIN history
    BY DEF ChangesOf
  <2>2. history[i].at \in Int /\ history[i].at < end
    BY <1>0, <1>a, <2>1, HistoryShape DEF Later
  <2>3. history[i].at <= p
    BY <1>4, <1>5, <2>2
  <2> QED BY <1>6, <2>2, <2>3
<1>8. /\ ValueAt("status", status, end) = ValueAt("status", status, p)
      /\ ValueAt("team_id", team, end) = ValueAt("team_id", team, p)
  BY <1>0, <1>6, <1>7, NothingBetween
<1>9. ValueAt("status", status, end) = status /\ ValueAt("team_id", team, end) = team
  BY <1>0, <1>a, NowIs DEF HistoryOK
<1>10. /\ open.paused = (ValueAt("status", status, p) \in Pausing)
       /\ Follows(open, ScheduleOf(ValueAt("team_id", team, p)))
  BY <1>0, <1>2, <1>a, SegmentHolds
<1> QED BY <1>8, <1>9, <1>10 DEF Follows

\* Schedules with the same windows claim the same minutes.
LEMMA SameHours ==
    ASSUME NEW s \in Kept, NEW r \in Kept, Expand(s) = Expand(r), NEW start \in Int, NEW n, NEW k,
           Finds(s, start, n, k)
    PROVE  Finds(r, start, n, k)
<1>0. s \in SUBSET ScheduleEntry /\ r \in SUBSET ScheduleEntry
  BY ClockAssumption DEF Kept
<1>1. \A m \in Int : Working(m, s) <=> Working(m, r)
  <2> SUFFICES ASSUME NEW m \in Int PROVE Working(m, s) <=> Working(m, r)
    OBVIOUS
  <2>1. Working(m, s) <=> IsWithinHours(m, Expand(s))
    BY <1>0, HoursOfRows
  <2>2. Working(m, r) <=> IsWithinHours(m, Expand(r))
    BY <1>0, HoursOfRows
  <2> QED BY <2>1, <2>2
<1>2. k \in Int
  BY DEF Finds
<1>3. Hours(s, start, k) = Hours(r, start, k)
  <2>1. \A m \in start..(k - 1) : m \in Int
    OBVIOUS
  <2> QED BY <1>1, <2>1 DEF Hours
<1> QED BY <1>1, <1>2, <1>3 DEF Finds

\* And they reach equally far.
LEMMA SameReach ==
    ASSUME NEW s \in Kept, NEW r \in Kept, Expand(s) = Expand(r), NEW start \in Int, NEW n
    PROVE  OutOfReach(s, start, n) <=> OutOfReach(r, start, n)
<1>0. s \in SUBSET ScheduleEntry /\ r \in SUBSET ScheduleEntry
  BY ClockAssumption DEF Kept
<1>1. s = {} <=> r = {}
  <2>1. Expand({}) = AllDay
    BY DEF Expand
  <2> QED BY <1>0, <2>1, Expanded
<1>2. \A m \in Int : Working(m, s) <=> Working(m, r)
  <2> SUFFICES ASSUME NEW m \in Int PROVE Working(m, s) <=> Working(m, r)
    OBVIOUS
  <2>1. Working(m, s) <=> IsWithinHours(m, Expand(s))
    BY <1>0, HoursOfRows
  <2>2. Working(m, r) <=> IsWithinHours(m, Expand(r))
    BY <1>0, HoursOfRows
  <2> QED BY <2>1, <2>2
<1>3. Ahead(s, start) = Ahead(r, start)
  <2>1. \A m \in start..((Day(start) + Lookahead) * DayLength - 1) : m \in Int
    OBVIOUS
  <2> QED BY <1>2, <2>1 DEF Ahead
<1> QED BY <1>1, <1>3 DEF OutOfReach

LEMMA TypedFromInvariant ==
    ASSUME IInv, RowsApart
    PROVE  TypeOK
<1>1. ASSUME NEW c \in Clock
      PROVE  /\ Result(c).due # Unreachable => Result(c) \in ClockResult
             /\ Result(c).due = Unreachable => Missed(now, target[c])
  <2>a. PICK end, open, due : end = EndAt(c) /\ open = Open(Segments(end)) /\ due = Result(c).due
    OBVIOUS
  <2>1. /\ Result(c) = [elapsed |-> lived[c], due |-> due,
                        status |-> ClockStatus(DoneAt(c), lived[c], due, target[c])]
        /\ ~(lived[c] < target[c]) => due = reached[c] \/ (due = Unreachable /\ Missed(end, target[c]))
        /\ lived[c] < target[c] =>
             /\ open.paused => due = None
             /\ ~open.paused => due \in Nat \/ (due = Unreachable /\ Missed(end, target[c]))
    BY <2>a, ResultHolds
  <2>2. /\ lived[c] \in Nat /\ reached[c] \in Nat \cup {None}
        /\ Unreachable \notin Nat /\ None # Unreachable
    BY ClocksTyped, ClockAssumption, TimeAssumption DEF IInv
  <2>3. due \in Nat \cup {None} \/ (due = Unreachable /\ Missed(end, target[c]))
    BY <2>1, <2>2
  <2>4. ClockStatus(DoneAt(c), lived[c], due, target[c])
          \in {"met", "breached", "at_risk", "pending", "paused"}
    BY Zenon DEF ClockStatus
  <2>5. due # Unreachable => Result(c) \in ClockResult
    BY <2>1, <2>2, <2>3, <2>4 DEF ClockResult
  <2>6. Missed(end, target[c]) => Missed(now, target[c])
    <3>1. end \in Nat /\ end <= now /\ now \in Int /\ Created \in Nat
      BY <2>a, DoneOK, ClockAssumption DEF IInv, Typed
    <3>2. Created..end \subseteq Created..now
      BY <3>1
    <3> QED BY <3>2 DEF Missed
  <2>7. due = Unreachable => Missed(now, target[c])
    BY <2>2, <2>3, <2>6
  <2> QED BY <2>5, <2>7, <2>a
<1>2. /\ calculate_sla \in [Clock -> ClockResult] \cup {None, Unreachable}
      /\ calculate_sla = Unreachable => \E c \in Clock : Missed(now, target[c])
  <2>1. CASE status = "cancelado"
    BY <2>1, Calculated, ClockAssumption
  <2>2. CASE status # "cancelado" /\ \E c \in Clock : Result(c).due = Unreachable
    BY <1>1, <2>2, Calculated
  <2>3. CASE status # "cancelado" /\ ~\E c \in Clock : Result(c).due = Unreachable
    <3>1. calculate_sla = [c \in Clock |-> Result(c)] /\ \A c \in Clock : calculate_sla[c] = Result(c)
      BY <2>3, Calculated
    <3>2. \A c \in Clock : Result(c) \in ClockResult
      BY <1>1, <2>3
    <3>3. calculate_sla \in [Clock -> ClockResult]
      BY <3>1, <3>2
    <3>4. calculate_sla # Unreachable
      BY <3>3, ClockAssumption
    <3> QED BY <3>3, <3>4
  <2> QED BY <2>1, <2>2, <2>3
<1>3. Created..now \subseteq Created..MaxNow
  <2>1. now \in Created..MaxNow /\ Created \in Nat /\ MaxNow \in Nat
    BY ClockAssumption DEF IInv, Typed
  <2> QED BY <2>1
<1>4. calculate_sla = Unreachable =>
        \E c \in Clock, t \in Team, start \in Created..now : OutOfReach(schedule[t], start, target[c])
  BY <1>2 DEF Missed, Kept, OutOfReach
<1> QED BY <1>2, <1>3, <1>4 DEF TypeOK, IInv, Typed, HistoryOK

LEMMA DueFromInvariant ==
    ASSUME IInv, RowsApart
    PROVE  DueIsExact
<1> SUFFICES ASSUME Later, NEW c \in Clock, NEW due, due = Result(c).due, NEW left, left = target[c] - lived[c]
             PROVE  IF reached[c] # None
                    THEN \/ due = reached[c]
                         \/ due = Unreachable /\ Day(reached[c] - 1) >= Day(Created) + Lookahead
                    ELSE DoneAt(c) = None =>
                           IF status \in Pausing THEN due = None
                           ELSE IF OutOfReach(ScheduleOf(team), now, left) THEN due = Unreachable
                           ELSE /\ due \notin {None, Unreachable}
                                /\ due - 1 \in WorkingMinutes(now, due)
                                /\ Cardinality(WorkingMinutes(now, due)) = left
  BY Zenon DEF DueIsExact
<1>a. PICK end, open : end = EndAt(c) /\ open = Open(Segments(end))
  OBVIOUS
<1>1. /\ ~(lived[c] < target[c]) =>
           \/ due = reached[c]
           \/ due = Unreachable /\ Day(reached[c] - 1) >= Day(Created) + Lookahead
      /\ lived[c] < target[c] =>
           /\ open.paused => due = None
           /\ ~open.paused =>
                \E sch \in Kept :
                   /\ Follows(open, sch)
                   /\ IF OutOfReach(sch, end, left) THEN due = Unreachable
                      ELSE due \in Nat /\ end < due /\ Finds(sch, end, left, due - 1)
  BY <1>a, ResultHolds
<1>2. lived[c] < target[c] <=> reached[c] = None
  BY ReachedThen DEF IInv, ReachedOK
<1>3. CASE reached[c] # None
  BY <1>1, <1>2, <1>3
<1>4. CASE reached[c] = None /\ DoneAt(c) = None
  <2>1. end = now
    BY <1>4, <1>a DEF EndAt
  <2>2. (open.paused <=> status \in Pausing) /\ open.windows = Expand(ScheduleOf(team))
    BY <1>a, <2>1, OpenIsNow
  <2>3. CASE status \in Pausing
    BY <1>1, <1>2, <1>4, <2>2, <2>3
  <2>4. CASE status \notin Pausing
    <3>a. PICK s, k : s = ScheduleOf(team) /\ k = due - 1
      OBVIOUS
    <3>1. PICK sch \in Kept : /\ Follows(open, sch)
                              /\ IF OutOfReach(sch, end, left) THEN due = Unreachable
                                 ELSE due \in Nat /\ end < due /\ Finds(sch, end, left, k)
      BY <1>1, <1>2, <1>4, <2>2, <2>4, <3>a
    <3>2. s \in Kept
      BY <3>a DEF ScheduleOf, Kept, IInv, Typed
    <3>3. Expand(sch) = Expand(s)
      BY <2>2, <3>1, <3>a DEF Follows
    <3>4. end \in Int /\ left \in Int
      BY <2>1, ClocksTyped, ClockAssumption DEF IInv, Typed
    <3>5. OutOfReach(s, end, left) <=> OutOfReach(sch, end, left)
      BY <3>2, <3>3, <3>4, SameReach
    <3>6. CASE OutOfReach(s, end, left)
      BY <1>4, <2>1, <2>4, <3>1, <3>5, <3>6, <3>a
    <3>7. CASE ~OutOfReach(s, end, left)
      <4>1. due \in Nat /\ end < due /\ Finds(s, end, left, k)
        BY <3>1, <3>2, <3>3, <3>4, <3>5, <3>7, SameHours
      <4>2. k \in Hours(s, end, k + 1) /\ Cardinality(Hours(s, end, k + 1)) = left
        BY <3>4, <4>1, FoundWhole
      <4>3. k + 1 = due
        BY <3>a, <4>1
      <4>4. WorkingMinutes(now, due) = Hours(s, end, due)
        BY <2>1, <3>a DEF WorkingMinutes, Hours
      <4>5. due \notin {None, Unreachable}
        BY <4>1, ClockAssumption, TimeAssumption
      <4> QED BY <1>4, <2>1, <2>4, <3>7, <3>a, <4>2, <4>3, <4>4, <4>5
    <3> QED BY <3>6, <3>7
  <2> QED BY <2>3, <2>4
<1> QED BY <1>3, <1>4

LEMMA BreachedFromInvariant ==
    ASSUME IInv, RowsApart
    PROVE  BreachedWhenDue
<1> SUFFICES ASSUME NEW c \in Clock, DoneAt(c) = None, Result(c).due # Unreachable
             PROVE  Result(c).status = "breached" <=> Result(c).due # None /\ Result(c).due <= now
  <2>1. calculate_sla \notin {None, Unreachable} =>
          \A c \in Clock : calculate_sla[c] = Result(c) /\ Result(c).due # Unreachable
    BY Calculated
  <2> QED BY <2>1 DEF BreachedWhenDue
<1>a. PICK end, open, due, a, g : /\ end = EndAt(c) /\ open = Open(Segments(end)) /\ due = Result(c).due
                                  /\ a = lived[c] /\ g = target[c]
  OBVIOUS
<1>1. /\ Result(c) = [elapsed |-> a, due |-> due, status |-> ClockStatus(DoneAt(c), a, due, g)]
      /\ ~(a < g) => due = reached[c]
      /\ a < g => /\ open.paused => due = None
                  /\ ~open.paused => due \in Nat /\ end < due
  BY <1>a, ResultHolds
<1>2. end = now /\ now \in Nat
  BY <1>a, ClockAssumption DEF EndAt, IInv, Typed
<1>3. a \in Nat /\ g \in Nat \ {0} /\ None \notin Nat
  BY <1>a, ClocksTyped DEF IInv
<1>4. Result(c).status = IF due = None THEN "paused"
                         ELSE IF a >= g THEN "breached"
                         ELSE IF a * 100 >= Threshold * g THEN "at_risk" ELSE "pending"
  <2>1. Result(c).status = ClockStatus(None, a, due, g)
    BY <1>1
  <2>2. ClockStatus(None, a, due, g) = IF due = None THEN "paused"
                                       ELSE IF a >= g THEN "breached"
                                       ELSE IF a * 100 >= Threshold * g THEN "at_risk" ELSE "pending"
    BY Zenon DEF ClockStatus
  <2> QED BY <2>1, <2>2
<1>5. CASE a >= g
  <2>1. reached[c] \in Nat /\ reached[c] # None /\ reached[c] <= end
    BY <1>3, <1>5, <1>a, ReachedThen
  <2> QED BY <1>1, <1>2, <1>3, <1>4, <1>5, <1>a, <2>1
<1>6. CASE a < g
  <2>1. ~(a >= g) /\ (due = None \/ ~(due <= now))
    <3>1. open.paused \/ ~open.paused
      OBVIOUS
    <3> QED BY <1>1, <1>2, <1>3, <1>6, <3>1
  <2> QED BY <1>4, <1>a, <2>1
<1> QED BY <1>3, <1>5, <1>6

\* The variables hold what they should, and calculate_sla gives a result for every clock or
\* fails for one reason: whatever the policies ask for, whatever hours the teams keep, a
\* RuntimeError of add_business_minutes means that the days it looks at from some moment of
\* the ticket's life on hold fewer minutes of a team's hours than a target.
THEOREM ClocksAreTyped ==
    ASSUME RowsApart
    PROVE  Spec => []TypeOK
<1>1. IInv => TypeOK
  BY TypedFromInvariant
<1> QED BY <1>1, Invariance, PTL

\* The due date of a clock is the very minute at which its target was reached, and until
\* then the minute at which it will be if nobody touches the ticket: walking the windows of
\* the days ahead, add_business_minutes neither misses a working minute nor counts one twice,
\* wherever the segments begin and end.  It gives up if these days hold too few minutes, and
\* for nothing else.
THEOREM DueIsAlwaysExact ==
    ASSUME RowsApart
    PROVE  Spec => []DueIsExact
<1>1. IInv => DueIsExact
  BY DueFromInvariant
<1> QED BY <1>1, Invariance, PTL

\* The status of a running clock is computed from its elapsed minutes and its due date from
\* a projection over the windows, and they never contradict each other: the clock is breached
\* from the minute on at which it is due.
THEOREM AlwaysBreachedWhenDue ==
    ASSUME RowsApart
    PROVE  Spec => []BreachedWhenDue
<1>1. IInv => BreachedWhenDue
  BY BreachedFromInvariant
<1> QED BY <1>1, Invariance, PTL
==========================================================================
