----------------------------- MODULE Arithmetic -----------------------------
(***************************************************************************)
(* Facts about numbers that the proofs of several components need.         *)
(*                                                                         *)
(* Time stamps that wrap around: the firmware computes every delay as      *)
(* (now - then) on uint32_t ticks; the Wrapped lemmas say how far that     *)
(* difference agrees with the time that has really passed.  m is the       *)
(* number of values of the tick, a the time now and b the time then.       *)
(*                                                                         *)
(* Division without wrapping, as the flash's addresses are split into      *)
(* pages and sectors, and induction, for walks along those.                *)
(***************************************************************************)
EXTENDS Integers, TLAPS

FS == INSTANCE FiniteSetTheorems

\* The range of a residue, and what division leaves.
LEMMA ModFacts ==
  ASSUME NEW a \in Int, NEW m \in Nat, m > 0
  PROVE  /\ a % m \in 0 .. m - 1
         /\ a \div m \in Int
         /\ a = ((a \div m) * m) + (a % m)
BY SMT

\* A residue is the only number in range that a multiple of m leads to.
LEMMA ModUnique ==
  ASSUME NEW m \in Nat, m > 0, NEW q \in Int, NEW r \in 0 .. m - 1
  PROVE  ((q * m) + r) % m = r
BY SMT

\* The wrapped difference is the time that has passed, if that is less than a
\* full turn of the tick.
LEMMA WrappedElapsedExact ==
  ASSUME NEW m \in Nat, m > 0, NEW a \in Nat, NEW b \in 0 .. a, a - b < m
  PROVE  ((a % m) - (b % m)) % m = a - b
<1> DEFINE q == (b \div m) - (a \div m)
           u == (a \div m) * m
           v == (b \div m) * m
<1>1. a % m \in Int /\ a \div m \in Int /\ a = u + (a % m)
  BY ModFacts
<1>2. b % m \in Int /\ b \div m \in Int /\ b = v + (b % m)
  BY ModFacts
<1>3. q \in Int /\ (a % m) - (b % m) = (q * m) + (a - b)
  <2>1. \A x, y, z \in Int : (x - y) * z = (x * z) - (y * z)
    OBVIOUS
  <2>2. q * m = v - u
    BY <1>1, <1>2, <2>1
  <2>3. q \in Int /\ u \in Int /\ v \in Int
    BY <1>1, <1>2
  <2> HIDE DEF q, u, v
  <2> QED BY <1>1, <1>2, <2>2, <2>3
<1>4. a - b \in 0 .. m - 1
  OBVIOUS
<1> HIDE DEF q
<1> QED BY <1>3, <1>4, ModUnique

\* The wrapped difference never exceeds the time that has passed.
LEMMA WrappedElapsedBound ==
  ASSUME NEW m \in Nat, m > 0, NEW a \in Nat, NEW b \in 0 .. a
  PROVE  /\ ((a % m) - (b % m)) % m \in 0 .. m - 1
         /\ ((a % m) - (b % m)) % m <= a - b
<1>1. a % m \in Int /\ b % m \in Int
  BY ModFacts
<1>2. ((a % m) - (b % m)) % m \in 0 .. m - 1
  BY <1>1, ModFacts
<1>3. a - b < m => ((a % m) - (b % m)) % m = a - b
  BY WrappedElapsedExact
<1> DEFINE e == ((a % m) - (b % m)) % m
<1>4. e \in 0 .. m - 1 /\ (a - b < m => e = a - b)
  BY <1>2, <1>3
<1> HIDE DEF e
<1>5. e <= a - b
  BY <1>4
<1> QED BY <1>4, <1>5 DEF e

\* One more tick makes the wrapped difference one larger, until it wraps itself.
LEMMA WrappedTick ==
  ASSUME NEW m \in Nat, m > 0, NEW n \in Int, NEW l \in Int, ((n - l) % m) + 1 < m
  PROVE  (((n + 1) % m) - l) % m = ((n - l) % m) + 1
<1> DEFINE q == ((n - l) \div m) - ((n + 1) \div m)
           u == ((n - l) \div m) * m
           v == ((n + 1) \div m) * m
           e == (n - l) % m
           r == (n + 1) % m
<1>1. e \in 0 .. m - 1 /\ (n - l) \div m \in Int /\ n - l = u + e
  BY ModFacts
<1>2. r \in 0 .. m - 1 /\ (n + 1) \div m \in Int /\ n + 1 = v + r
  BY ModFacts
<1>3. q \in Int /\ r - l = (q * m) + (e + 1)
  <2>1. \A x, y, z \in Int : (x - y) * z = (x * z) - (y * z)
    OBVIOUS
  <2>2. q * m = u - v
    BY <1>1, <1>2, <2>1
  <2>3. q \in Int /\ u \in Int /\ v \in Int
    BY <1>1, <1>2
  <2> HIDE DEF q, u, v, e, r
  <2> QED BY <1>1, <1>2, <2>2, <2>3
<1>4. e + 1 \in 0 .. m - 1
  BY <1>1
<1> HIDE DEF q
<1> QED BY <1>3, <1>4, ModUnique

\* No time has passed since now.
LEMMA WrappedZero ==
  ASSUME NEW m \in Nat, m > 0, NEW n \in Int
  PROVE  (n - n) % m = 0
<1>1. ((0 * m) + 0) % m = 0
  BY ModUnique
<1> QED BY <1>1

\* Division with a rest.
LEMMA Division ==
  ASSUME NEW n \in Nat, NEW d \in Nat, 0 < d
  PROVE  /\ n \div d \in Nat /\ n % d \in Nat /\ n % d < d
         /\ n = (n \div d) * d + (n % d)
  BY Z3

LEMMA Times ==
  ASSUME NEW m \in Nat, NEW n \in Nat, NEW d \in Nat, m <= n
  PROVE  m * d <= n * d
  BY Z3

LEMMA Quotient ==
  ASSUME NEW n \in Nat, NEW k \in Nat, NEW d \in Nat, 0 < d, k * d <= n, n < (k + 1) * d
  PROVE  n \div d = k
<1> DEFINE q == n \div d
<1>1. /\ q \in Nat /\ n % d \in Nat /\ n % d < d
      /\ n = q * d + (n % d)
  BY Division
<1>2. q * d \in Nat /\ k * d \in Nat /\ (q + 1) * d = q * d + d /\ (k + 1) * d = k * d + d
  BY <1>1, Z3
<1> HIDE DEF q
<1>3. ~ q < k
  <2> SUFFICES ASSUME q < k PROVE FALSE
    OBVIOUS
  <2>1. (q + 1) * d <= k * d
    BY <1>1, Times
  <2> QED BY <1>1, <1>2, <2>1
<1>4. ~ k < q
  <2> SUFFICES ASSUME k < q PROVE FALSE
    OBVIOUS
  <2>1. (k + 1) * d <= q * d
    BY <1>1, Times
  <2> QED BY <1>1, <1>2, <2>1
<1> QED BY <1>1, <1>3, <1>4 DEF q

-----------------------------------------------------------------------------
\* Mathematical induction, in the form of a set: what holds of zero, and of a number's
\* successor whenever of the number, holds of every number.  Going down by one from
\* the numbers up to n that are not in S would map them into fewer.
LEMMA Induction ==
  ASSUME NEW S \in SUBSET Nat, 0 \in S, \A n \in S : n + 1 \in S
  PROVE  S = Nat
<1> SUFFICES ASSUME NEW n \in Nat, n \notin S PROVE FALSE
  OBVIOUS
<1> DEFINE T == (0 .. n) \ S
           f == [x \in T |-> x - 1]
<1>1. FS!IsFiniteSet(T) /\ n \in T
  <2>1. FS!IsFiniteSet(0 .. n)
    BY FS!FS_Interval
  <2> QED BY <2>1, FS!FS_Subset
<1>2. FS!IsFiniteSet(T \ {n}) /\ FS!Cardinality(T \ {n}) < FS!Cardinality(T)
  <2>1. /\ FS!IsFiniteSet(T \ {n})
        /\ FS!Cardinality(T \ {n}) = FS!Cardinality(T) - 1
        /\ FS!Cardinality(T) \in Nat
    BY <1>1, FS!FS_RemoveElement, FS!FS_CardinalityType
  <2> QED BY <2>1
<1>3. f \in [T -> T \ {n}]
  <2> SUFFICES ASSUME NEW x \in T PROVE x - 1 \in T \ {n}
    OBVIOUS
  <2>1. x # 0 /\ x \in 0 .. n /\ x \notin S
    OBVIOUS
  <2>2. x - 1 \notin S
    <3> SUFFICES ASSUME x - 1 \in S PROVE FALSE
      OBVIOUS
    <3>1. (x - 1) + 1 \in S
      OBVIOUS
    <3> QED BY <2>1, <3>1
  <2> QED BY <2>1, <2>2
<1>4. PICK x \in T, y \in T : x # y /\ f[x] = f[y]
  <2> HIDE DEF T, f
  <2> QED BY <1>1, <1>2, <1>3, FS!FS_PigeonHole
<1> QED BY <1>4

\* f has this first value, and a step leads from each of its values to the next.
Walks(f, N, first, step) == f[0] = first /\ \A k \in 1 .. N : f[k] = step[k][f[k - 1]]

\* What is defined by its first value and by a step from each value to the next, exists.
LEMMA Recursion ==
  ASSUME NEW S, NEW N \in Nat, NEW first \in S, NEW step \in [1 .. N -> [S -> S]]
  PROVE  \E f \in [0 .. N -> S] : Walks(f, N, first, step)
<1> DEFINE Upto(n) ==
             \E f \in [0 .. n -> S] : f[0] = first /\ \A k \in 1 .. n : f[k] = step[k][f[k - 1]]
           Reached == {n \in Nat : n <= N => Upto(n)}
<1>1. 0 \in Reached
  <2> DEFINE f == [k \in 0 .. 0 |-> first]
  <2>1. f \in [0 .. 0 -> S] /\ f[0] = first
    OBVIOUS
  <2> HIDE DEF f
  <2>2. \A k \in 1 .. 0 : f[k] = step[k][f[k - 1]]
    OBVIOUS
  <2>3. Upto(0)
    BY <2>1, <2>2
  <2> HIDE DEF Upto
  <2> QED BY <2>3
<1>2. ASSUME NEW n \in Reached PROVE n + 1 \in Reached
  <2> SUFFICES ASSUME n + 1 <= N PROVE Upto(n + 1)
    OBVIOUS
  <2>1. n \in Nat /\ n + 1 \in 1 .. N
    OBVIOUS
  <2>2. PICK f \in [0 .. n -> S] : f[0] = first /\ \A k \in 1 .. n : f[k] = step[k][f[k - 1]]
    OBVIOUS
  <2> DEFINE g == [k \in 0 .. n + 1 |-> IF k = n + 1 THEN step[n + 1][f[n]] ELSE f[k]]
  <2>3. g \in [0 .. n + 1 -> S]
    <3>1. step[n + 1] \in [S -> S] /\ f[n] \in S
      BY <2>1, <2>2
    <3>2. \A k \in 0 .. n + 1 : k # n + 1 => k \in 0 .. n
      BY <2>1
    <3> QED BY <2>2, <3>1, <3>2
  <2>4. g[0] = first
    BY <2>1, <2>2
  <2>5. ASSUME NEW k \in 1 .. n + 1 PROVE g[k] = step[k][g[k - 1]]
    <3>1. k \in 0 .. n + 1 /\ k - 1 \in 0 .. n + 1 /\ k - 1 # n + 1
      BY <2>1
    <3>2. g[k - 1] = f[k - 1]
      BY <3>1
    <3>3. CASE k = n + 1
      <4>1. k - 1 = n
        BY <2>1, <3>3
      <4> QED BY <3>1, <3>2, <3>3, <4>1
    <3>4. CASE k # n + 1
      <4>1. k \in 1 .. n /\ g[k] = f[k]
        BY <2>1, <3>1, <3>4
      <4> QED BY <2>2, <3>2, <4>1
    <3> QED BY <3>3, <3>4
  <2> HIDE DEF g
  <2> QED BY <2>3, <2>4, <2>5
<1>3. Reached = Nat
  <2> HIDE DEF Upto
  <2>1. Reached \in SUBSET Nat
    OBVIOUS
  <2> HIDE DEF Reached
  <2> QED BY <1>1, <1>2, <2>1, Induction
<1>4. Upto(N)
  BY <1>3
<1> QED BY <1>4 DEF Walks

=============================================================================
