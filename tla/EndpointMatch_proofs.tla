------------------------ MODULE EndpointMatch_proofs ------------------------
(***************************************************************************)
(* Durations and instants survive the wire, and so does what an endpoint   *)
(* announces of itself: both participants then decide a match alike, and   *)
(* find the other where it listens.                                        *)
(***************************************************************************)
EXTENDS DiscoveryWire, FiniteSetTheorems, SequenceTheorems, WellFoundedInduction, TLAPS

-----------------------------------------------------------------------------
(* Durations                                                               *)

\* The quotient is determined by the multiple it rounds down to.
LEMMA QuotientIs ==
  ASSUME NEW d \in Nat \ {0}, NEW k \in Int, NEW a \in Int,
         k * d <= a, a < k * d + d
  PROVE  a \div d = k
<1> DEFINE q == a \div d
<1>1. q \in Int /\ q * d <= a /\ a < q * d + d
  BY Z3
<1>2. CASE q > k
  <2>1. q >= k + 1
    BY <1>1, <1>2
  <2>2. q * d >= (k + 1) * d
    BY <2>1, <1>1
  <2> QED
    BY <2>2, <1>1
<1>3. CASE q < k
  <2>1. k >= q + 1
    BY <1>1, <1>3
  <2>2. k * d >= (q + 1) * d
    BY <2>1, <1>1
  <2> QED
    BY <2>2, <1>1
<1> QED
  BY <1>1, <1>2, <1>3

\* Out and back, on the sub-second part alone.
LEMMA FractionSurvives ==
  ASSUME NEW n \in 0 .. NanosPerSec - 1
  PROVE  LET f == (n * FractionsPerSec) \div NanosPerSec
         IN  /\ f \in Int
             /\ f < MaxU32
             /\ (f * NanosPerSec + FractionsPerSec \div 2) \div FractionsPerSec = n
<1> DEFINE f == (n * FractionsPerSec) \div NanosPerSec
           a == f * NanosPerSec + FractionsPerSec \div 2
<1>1. f \in Int /\ f * NanosPerSec <= n * FractionsPerSec
                /\ n * FractionsPerSec < f * NanosPerSec + NanosPerSec
  BY WireTimeAssumption, Z3
<1>2. /\ FractionsPerSec \div 2 \in Nat
      /\ FractionsPerSec = 2 * (FractionsPerSec \div 2)
      /\ FractionsPerSec \div 2 >= NanosPerSec
  BY WireTimeAssumption, Z3
<1>3. n * FractionsPerSec <= a /\ a < n * FractionsPerSec + FractionsPerSec
  BY <1>1, <1>2, WireTimeAssumption, Z3
<1>4. a \div FractionsPerSec = n
  <2>1. a \in Int /\ n \in Int /\ FractionsPerSec \in Nat \ {0}
    BY <1>1, <1>2, WireTimeAssumption
  <2> QED
    BY <2>1, <1>3, QuotientIs
<1>5. f < MaxU32
  <2>1. (n + 1) * FractionsPerSec <= NanosPerSec * FractionsPerSec
    BY WireTimeAssumption, Z3
  <2>2. f * NanosPerSec <= NanosPerSec * FractionsPerSec - FractionsPerSec
    BY <2>1, <1>1, WireTimeAssumption, Z3
  <2>3. f * NanosPerSec <= NanosPerSec * FractionsPerSec - 2 * NanosPerSec
    BY <2>2, <1>1, WireTimeAssumption, Z3
  <2>4. SUFFICES ASSUME f >= FractionsPerSec - 1
                 PROVE  FALSE
    BY <1>1, WireTimeAssumption DEF MaxU32
  <2>5. f * NanosPerSec >= (FractionsPerSec - 1) * NanosPerSec
    BY <2>4, <1>1, WireTimeAssumption, Z3
  <2> QED
    BY <2>3, <2>5, <1>1, WireTimeAssumption, Z3
<1> QED
  BY <1>1, <1>4, <1>5

(***************************************************************************)
(* What to_rtps_wire writes, from_rtps_wire reads back: for every          *)
(* Duration, INFINITE included, which no finite one is mistaken for.       *)
(***************************************************************************)
THEOREM DurationSurvivesWire ==
  \A d \in Duration : FromWire(ToWire(d)) = d
<1> SUFFICES ASSUME NEW d \in Duration
             PROVE  FromWire(ToWire(d)) = d
  OBVIOUS
<1>1. CASE d = Infinite
  BY <1>1 DEF FromWire, ToWire
<1>2. CASE d # Infinite
  <2>1. d \in FiniteDuration
    BY <1>2 DEF Duration
  <2>2. PICK s \in Int, n \in 0 .. NanosPerSec - 1 :
           d = [seconds |-> s, nanoseconds |-> n]
    BY <2>1, WireTimeAssumption DEF FiniteDuration
  <2> DEFINE f == (n * FractionsPerSec) \div NanosPerSec
  <2>3. ToWire(d) = [seconds |-> s, fraction |-> f]
    BY <1>2, <2>2 DEF ToWire
  <2>4. /\ f \in Int /\ f < MaxU32
        /\ (f * NanosPerSec + FractionsPerSec \div 2) \div FractionsPerSec = n
    BY FractionSurvives
  <2>5. f # MaxU32
    BY <2>4, WireTimeAssumption DEF MaxU32
  <2> HIDE DEF f
  <2>6. [seconds |-> s, fraction |-> f] # [seconds |-> MaxSeconds, fraction |-> MaxU32]
    BY <2>5
  <2> QED
    BY <2>2, <2>3, <2>4, <2>6 DEF FromWire
<1> QED
  BY <1>1, <1>2

-----------------------------------------------------------------------------
(* Instants                                                                *)

\* What carries into the seconds is at most one.
LEMMA CarryIs ==
  ASSUME NEW a \in 0..NanosPerSec - 1, NEW b \in 0..NanosPerSec - 1
  PROVE  /\ a + b < NanosPerSec => (a + b) \div NanosPerSec = 0 /\ (a + b) % NanosPerSec = a + b
         /\ a + b >= NanosPerSec => /\ (a + b) \div NanosPerSec = 1
                                    /\ (a + b) % NanosPerSec = a + b - NanosPerSec
<1>1. NanosPerSec \in Nat \ {0} /\ a + b < 2 * NanosPerSec /\ a + b \in Nat
  BY WireTimeAssumption
<1>2. a + b = (((a + b) \div NanosPerSec) * NanosPerSec) + ((a + b) % NanosPerSec)
      /\ (a + b) % NanosPerSec \in 0..NanosPerSec - 1
  BY <1>1, Z3
<1>3. CASE a + b < NanosPerSec
  <2>1. (a + b) \div NanosPerSec = 0
    BY <1>1, <1>3, QuotientIs
  <2> QED BY <1>1, <1>2, <1>3, <2>1
<1>4. CASE a + b >= NanosPerSec
  <2>1. (a + b) \div NanosPerSec = 1
    BY <1>1, <1>4, QuotientIs
  <2> QED BY <1>1, <1>2, <1>4, <2>1
<1> QED BY <1>1, <1>3, <1>4

\* Neither operation meets INVALID or wraps.
LEMMA PlusIs ==
  ASSUME NEW t \in Instant, NEW s \in Nat, NEW n \in 0..NanosPerSec - 1,
         s <= MaxSeconds, t.seconds + s < MaxU32
  PROVE  Plus(t, [seconds |-> s, nanoseconds |-> n])
           = IF t.nanoseconds + n < NanosPerSec
             THEN [seconds |-> t.seconds + s, nanoseconds |-> t.nanoseconds + n]
             ELSE [seconds |-> t.seconds + s + 1,
                   nanoseconds |-> t.nanoseconds + n - NanosPerSec]
<1> DEFINE a == t.seconds
           b == t.nanoseconds
           carry == (b + n) \div NanosPerSec
           rest == (b + n) % NanosPerSec
<1>1. /\ a \in 0..MaxU32 /\ b \in 0..NanosPerSec - 1
      /\ NanosPerSec \in Nat \ {0} /\ FractionsPerSec \in Nat
      /\ MaxU32 = FractionsPerSec - 1 /\ NanosPerSec - 1 < MaxU32
  BY WireTimeAssumption DEF Instant, MaxU32
<1>2. t # Invalid /\ [seconds |-> s, nanoseconds |-> n] # Infinite
  BY <1>1 DEF Invalid, Infinite
<1>3. Plus(t, [seconds |-> s, nanoseconds |-> n])
        = [seconds |-> (a + s + carry) % FractionsPerSec, nanoseconds |-> rest]
  BY <1>2 DEF Plus
<1>4. a + s < MaxU32
  OBVIOUS
<1>5. SUFFICES Plus(t, [seconds |-> s, nanoseconds |-> n])
                 = IF b + n < NanosPerSec
                   THEN [seconds |-> a + s, nanoseconds |-> b + n]
                   ELSE [seconds |-> a + s + 1, nanoseconds |-> b + n - NanosPerSec]
  OBVIOUS
<1> HIDE DEF a, b
<1>6. /\ b + n < NanosPerSec => carry = 0 /\ rest = b + n
      /\ b + n >= NanosPerSec => carry = 1 /\ rest = b + n - NanosPerSec
  BY <1>1, CarryIs
<1> HIDE DEF carry, rest
<1>7. ASSUME NEW k \in 0..FractionsPerSec - 1 PROVE k % FractionsPerSec = k
  BY <1>1
<1>8. CASE b + n < NanosPerSec
  <2>1. (a + s + carry) % FractionsPerSec = a + s
    BY <1>1, <1>4, <1>6, <1>7, <1>8
  <2> QED BY <1>3, <1>6, <1>8, <2>1
<1>9. CASE ~(b + n < NanosPerSec)
  <2>1. carry = 1 /\ rest = b + n - NanosPerSec
    BY <1>1, <1>6, <1>9
  <2>2. (a + s + carry) % FractionsPerSec = a + s + 1
    BY <1>1, <1>4, <1>7, <2>1
  <2> QED BY <1>3, <1>9, <2>1, <2>2
<1> QED BY <1>8, <1>9

LEMMA MinusIs ==
  ASSUME NEW t \in Instant, NEW u \in Instant,
         NEW borrow, borrow = IF t.nanoseconds < u.nanoseconds THEN 1 ELSE 0,
         t.seconds - u.seconds - borrow \in 0..MaxSeconds
  PROVE  Minus(t, u) = [seconds |-> t.seconds - u.seconds - borrow,
                        nanoseconds |-> t.nanoseconds - u.nanoseconds + borrow * NanosPerSec]
<1>1. /\ NanosPerSec \in Nat \ {0} /\ FractionsPerSec \in Nat /\ MaxSeconds \in Nat
      /\ MaxU32 = FractionsPerSec - 1 /\ NanosPerSec - 1 < MaxU32
  BY WireTimeAssumption DEF MaxU32
<1>2. t # Invalid /\ u # Invalid
  BY <1>1 DEF Instant, Invalid
<1>3. t.seconds - u.seconds - borrow \in (-MaxSeconds - 1)..MaxSeconds
  BY <1>1
<1> QED BY <1>2, <1>3 DEF Minus

(***************************************************************************)
(* The time between two instants is the Duration that was added, and       *)
(* adding the time between them to the earlier gives the later, for every  *)
(* carry and borrow of nanoseconds, as long as the seconds stay below      *)
(* 2^32 - 1 and the Duration is not negative and fits an i32: the minimum  *)
(* separation, lifespan and lease tests compare such differences.          *)
(***************************************************************************)
THEOREM ElapsedIsAdded ==
  /\ \A t \in Instant, d \in FiniteDuration :
       d.seconds >= 0 /\ t.seconds + d.seconds < MaxU32 => Minus(Plus(t, d), t) = d
  /\ \A t, u \in Instant :
       /\ t.seconds < MaxU32 /\ t.seconds - u.seconds <= MaxSeconds
       /\ u.seconds < t.seconds \/ (u.seconds = t.seconds /\ u.nanoseconds <= t.nanoseconds)
       => Plus(u, Minus(t, u)) = t
<1>0. /\ NanosPerSec \in Nat \ {0} /\ FractionsPerSec \in Nat /\ MaxSeconds \in Nat
      /\ MaxU32 = FractionsPerSec - 1 /\ MaxU32 \in Int
  BY WireTimeAssumption DEF MaxU32
<1>1. ASSUME NEW t \in Instant, NEW d \in FiniteDuration,
             d.seconds >= 0, t.seconds + d.seconds < MaxU32
      PROVE  Minus(Plus(t, d), t) = d
  <2>1. PICK s \in Int, n \in 0..NanosPerSec - 1 :
          d = [seconds |-> s, nanoseconds |-> n] /\ s <= MaxSeconds
    BY <1>0 DEF FiniteDuration
  <2>2. PICK a \in 0..MaxU32, b \in 0..NanosPerSec - 1 : t = [seconds |-> a, nanoseconds |-> b]
    BY DEF Instant
  <2>3. s \in Nat /\ a + s < MaxU32 /\ a \in Nat /\ b \in Nat /\ n \in Nat
        /\ b < NanosPerSec /\ n < NanosPerSec
    BY <1>0, <1>1, <2>1, <2>2
  <2>4. CASE b + n < NanosPerSec
    <3> DEFINE e == [seconds |-> a + s, nanoseconds |-> b + n]
    <3>1. Plus(t, d) = e
      BY <2>1, <2>2, <2>3, <2>4, PlusIs
    <3>2. e \in Instant
      BY <1>0, <2>3, <2>4 DEF Instant
    <3>3. ~(e.nanoseconds < t.nanoseconds) /\ e.seconds - t.seconds - 0 = s
          /\ e.nanoseconds - t.nanoseconds + 0 * NanosPerSec = n
      BY <1>0, <2>2, <2>3
    <3> HIDE DEF e
    <3>4. Minus(e, t) = [seconds |-> s, nanoseconds |-> n]
      BY <1>0, <2>1, <2>3, <3>2, <3>3, MinusIs
    <3> QED BY <2>1, <3>1, <3>4
  <2>5. CASE ~(b + n < NanosPerSec)
    <3> DEFINE e == [seconds |-> a + s + 1, nanoseconds |-> b + n - NanosPerSec]
    <3>1. Plus(t, d) = e
      BY <2>1, <2>2, <2>3, <2>5, PlusIs
    <3>2. e \in Instant
      BY <1>0, <2>3, <2>5 DEF Instant
    <3>3. e.nanoseconds < t.nanoseconds /\ e.seconds - t.seconds - 1 = s
          /\ e.nanoseconds - t.nanoseconds + 1 * NanosPerSec = n
      BY <1>0, <2>2, <2>3, <2>5
    <3> HIDE DEF e
    <3>4. Minus(e, t) = [seconds |-> s, nanoseconds |-> n]
      BY <1>0, <2>1, <2>3, <3>2, <3>3, MinusIs
    <3> QED BY <2>1, <3>1, <3>4
  <2> QED BY <2>4, <2>5
<1>2. ASSUME NEW t \in Instant, NEW u \in Instant,
             t.seconds < MaxU32, t.seconds - u.seconds <= MaxSeconds,
             u.seconds < t.seconds \/ (u.seconds = t.seconds /\ u.nanoseconds <= t.nanoseconds)
      PROVE  Plus(u, Minus(t, u)) = t
  <2>1. PICK a \in 0..MaxU32, b \in 0..NanosPerSec - 1 : t = [seconds |-> a, nanoseconds |-> b]
    BY DEF Instant
  <2>2. PICK p \in 0..MaxU32, q \in 0..NanosPerSec - 1 : u = [seconds |-> p, nanoseconds |-> q]
    BY DEF Instant
  <2>3. a \in Nat /\ b \in Nat /\ p \in Nat /\ q \in Nat /\ b < NanosPerSec /\ q < NanosPerSec
        /\ a < MaxU32 /\ a - p <= MaxSeconds /\ (p < a \/ (p = a /\ q <= b))
    BY <1>0, <1>2, <2>1, <2>2
  <2>4. CASE b < q
    <3> DEFINE d == [seconds |-> a - p - 1, nanoseconds |-> b - q + NanosPerSec]
    <3>1. t.nanoseconds < u.nanoseconds /\ t.seconds - u.seconds - 1 = a - p - 1
          /\ t.nanoseconds - u.nanoseconds + 1 * NanosPerSec = b - q + NanosPerSec
          /\ a - p - 1 \in 0..MaxSeconds
      BY <1>0, <2>1, <2>2, <2>3, <2>4
    <3>2. Minus(t, u) = d
      BY <3>1, MinusIs
    <3>3. a - p - 1 \in Nat /\ b - q + NanosPerSec \in 0..NanosPerSec - 1
          /\ a - p - 1 <= MaxSeconds /\ u.seconds + (a - p - 1) < MaxU32
          /\ ~(u.nanoseconds + (b - q + NanosPerSec) < NanosPerSec)
          /\ u.seconds + (a - p - 1) + 1 = a
          /\ u.nanoseconds + (b - q + NanosPerSec) - NanosPerSec = b
      BY <1>0, <2>1, <2>2, <2>3, <2>4
    <3>4. Plus(u, d) = [seconds |-> u.seconds + (a - p - 1) + 1,
                        nanoseconds |-> u.nanoseconds + (b - q + NanosPerSec) - NanosPerSec]
      BY <3>3, PlusIs
    <3> QED BY <2>1, <3>2, <3>3, <3>4
  <2>5. CASE ~(b < q)
    <3> DEFINE d == [seconds |-> a - p, nanoseconds |-> b - q]
    <3>1. ~(t.nanoseconds < u.nanoseconds) /\ t.seconds - u.seconds - 0 = a - p
          /\ t.nanoseconds - u.nanoseconds + 0 * NanosPerSec = b - q
          /\ a - p \in 0..MaxSeconds
      BY <1>0, <2>1, <2>2, <2>3, <2>5
    <3>2. Minus(t, u) = d
      BY <3>1, MinusIs
    <3>3. a - p \in Nat /\ b - q \in 0..NanosPerSec - 1
          /\ a - p <= MaxSeconds /\ u.seconds + (a - p) < MaxU32
          /\ u.nanoseconds + (b - q) < NanosPerSec
          /\ u.seconds + (a - p) = a
          /\ u.nanoseconds + (b - q) = b
      BY <1>0, <2>1, <2>2, <2>3, <2>5
    <3> QED BY <2>1, <3>2, <3>3, PlusIs
  <2> QED BY <2>4, <2>5
<1> QED BY <1>1, <1>2

-----------------------------------------------------------------------------
(* Counting up                                                             *)

\* What holds of 0 and of the successor of what it holds of, holds up to n.
LEMMA UpTo ==
  ASSUME NEW n \in Nat, NEW Good, 0 \in Good,
         \A k \in 1..n : k - 1 \in Good => k \in Good
  PROVE  \A k \in 0..n : k \in Good
<1> DEFINE Bad == {k \in 0..n : k \notin Good}
<1> SUFFICES ASSUME Bad # {} PROVE FALSE
  OBVIOUS
<1>1. PICK m \in Bad : \A k \in Bad : ~(<<k, m>> \in OpToRel(<, Nat))
  <2>1. Bad \subseteq Nat
    OBVIOUS
  <2> HIDE DEF Bad
  <2> QED BY <2>1, NatLessThanWellFounded, WFMin
<1>2. m \in 0..n /\ m \notin Good
  BY <1>1
<1>3. m \in 1..n /\ m - 1 \in 0..n
  <2>1. m # 0
    BY <1>2
  <2> QED BY <1>2, <2>1
<1>4. <<m - 1, m>> \in OpToRel(<, Nat)
  BY <1>3 DEF OpToRel
<1>5. m - 1 \notin Bad
  BY <1>1, <1>4
<1>6. m - 1 \in Good
  BY <1>3, <1>5
<1> QED BY <1>2, <1>3, <1>6

\* Two functions that start alike and step alike are alike.
LEMMA SameByStep ==
  ASSUME NEW n \in Nat, NEW f, NEW g, f[0] = g[0],
         \A k \in 1..n : f[k - 1] = g[k - 1] => f[k] = g[k]
  PROVE  \A k \in 0..n : f[k] = g[k]
<1> DEFINE Same == {k \in 0..n : f[k] = g[k]}
<1>1. 0 \in Same
  OBVIOUS
<1>2. ASSUME NEW k \in 1..n, k - 1 \in Same
      PROVE  k \in Same
  BY <1>2
<1>3. \A k \in 0..n : k \in Same
  <2> HIDE DEF Same
  <2> QED BY <1>1, <1>2, UpTo
<1> QED BY <1>3

LEMMA Climb ==
  ASSUME NEW n \in Nat, NEW f \in [0..n -> Nat], \A k \in 1..n : f[k - 1] <= f[k]
  PROVE  \A i, j \in 0..n : i <= j => f[i] <= f[j]
<1> DEFINE Good == {j \in 0..n : \A i \in 0..n : i <= j => f[i] <= f[j]}
<1>1. 0 \in Good
  <2>1. \A i \in 0..n : i <= 0 => i = 0
    OBVIOUS
  <2>2. f[0] \in Nat /\ 0 \in 0..n
    OBVIOUS
  <2> QED BY <2>1, <2>2
<1>2. ASSUME NEW k \in 1..n, k - 1 \in Good
      PROVE  k \in Good
  <2> SUFFICES ASSUME NEW i \in 0..n, i <= k PROVE f[i] <= f[k]
    OBVIOUS
  <2>1. f[k - 1] <= f[k] /\ k - 1 \in 0..n /\ f[i] \in Nat /\ f[k] \in Nat /\ f[k - 1] \in Nat
    OBVIOUS
  <2>2. i <= k - 1 \/ i = k
    OBVIOUS
  <2>3. i <= k - 1 => f[i] <= f[k - 1]
    BY <1>2
  <2> QED BY <2>1, <2>2, <2>3
<1> HIDE DEF Good
<1>3. \A k \in 0..n : k \in Good
  BY <1>1, <1>2, UpTo
<1> QED BY <1>3 DEF Good

-----------------------------------------------------------------------------
(* Items in a buffer                                                       *)

\* The first m items end where g says.
EndAt(from, sizes, m, g) ==
  /\ g \in [0..m -> Nat]
  /\ g[0] = from
  /\ \A k \in 1..m : g[k] = g[k - 1] + sizes[k]

LEMMA EndsExist ==
  ASSUME NEW from \in Nat, NEW n \in Nat, NEW sizes \in [1..n -> Nat]
  PROVE  \E g : EndAt(from, sizes, n, g)
<1> DEFINE Good == {m \in 0..n : \E g : EndAt(from, sizes, m, g)}
<1>1. 0 \in Good
  <2>1. EndAt(from, sizes, 0, [k \in 0..0 |-> from])
    BY DEF EndAt
  <2> QED BY <2>1
<1>2. ASSUME NEW m \in 1..n, m - 1 \in Good
      PROVE  m \in Good
  <2>1. PICK g : EndAt(from, sizes, m - 1, g)
    BY <1>2
  <2> DEFINE h == [k \in 0..m |-> IF k = m THEN g[m - 1] + sizes[m] ELSE g[k]]
  <2>2. m \in Nat /\ m - 1 \in Nat /\ m # 0 /\ m - 1 # m /\ g[m - 1] \in Nat /\ sizes[m] \in Nat
    BY <2>1 DEF EndAt
  <2>3. h \in [0..m -> Nat]
    BY <2>1, <2>2 DEF EndAt
  <2>4. h[0] = from
    BY <2>1, <2>2 DEF EndAt
  <2>5. ASSUME NEW k \in 1..m PROVE h[k] = h[k - 1] + sizes[k]
    <3>1. k - 1 \in 0..m /\ k - 1 # m /\ k \in 0..m /\ h[k - 1] = g[k - 1]
      BY <2>2
    <3>2. CASE k = m
      BY <3>1, <3>2
    <3>3. CASE k # m
      <4>1. k \in 1..m - 1 /\ h[k] = g[k]
        BY <3>1, <3>3, <2>2
      <4> QED BY <3>1, <4>1, <2>1 DEF EndAt
    <3> QED BY <3>2, <3>3
  <2> HIDE DEF h
  <2>6. EndAt(from, sizes, m, h)
    BY <2>3, <2>4, <2>5 DEF EndAt
  <2> QED BY <2>6
<1>3. n \in Good
  <2> HIDE DEF Good
  <2>1. \A k \in 1..n : k - 1 \in Good => k \in Good
    BY <1>2
  <2>2. \A k \in 0..n : k \in Good
    BY Zenon, <1>1, <2>1, UpTo
  <2> QED BY <2>2
<1> QED BY <1>3

LEMMA EndsAre ==
  ASSUME NEW from \in Nat, NEW sizes \in Seq(Nat)
  PROVE  EndAt(from, sizes, Len(sizes), Ends(from, sizes))
<1> DEFINE n == Len(sizes)
           e == Ends(from, sizes)
           Step(f) == f = [k \in 0..n |-> IF k = 0 THEN from ELSE f[k - 1] + sizes[k]]
<1>0. n \in Nat /\ sizes \in [1..n -> Nat]
  OBVIOUS
<1>1. PICK g : EndAt(from, sizes, n, g)
  BY <1>0, EndsExist
<1>2. Step(g)
  BY <1>1, <1>0 DEF EndAt
<1>3. e = CHOOSE f : Step(f)
  BY DEF Ends
<1>4. Step(e)
  <2> HIDE DEF Step
  <2> QED BY <1>2, <1>3
<1> HIDE DEF e, n
<1>5. e[0] = from /\ \A k \in 1..n : e[k] = e[k - 1] + sizes[k]
  <2>1. \A k \in 0..n : e[k] = IF k = 0 THEN from ELSE e[k - 1] + sizes[k]
    BY <1>4
  <2> QED BY <2>1, <1>0
<1>6. \A k \in 0..n : e[k] = g[k]
  <2> DEFINE Same == {k \in 0..n : e[k] = g[k]}
  <2>1. n \in Nat
    BY <1>0
  <2>2. 0 \in Same
    BY <1>1, <1>5, <2>1 DEF EndAt
  <2>3. ASSUME NEW k \in 1..n, k - 1 \in Same PROVE k \in Same
    BY <1>1, <1>5, <2>1, <2>3 DEF EndAt
  <2> HIDE DEF Same
  <2>4. \A k \in 0..n : k \in Same
    BY <2>1, <2>2, <2>3, UpTo
  <2> QED BY <2>4 DEF Same
<1>7. e \in [0..n -> Nat]
  <2>1. e = [k \in 0..n |-> e[k]]
    BY <1>4
  <2>2. \A k \in 0..n : e[k] \in Nat
    BY <1>1, <1>6 DEF EndAt
  <2> HIDE DEF Step
  <2> QED BY <2>1, <2>2
<1> QED BY <1>5, <1>7 DEF EndAt, e, n

LEMMA Pad4Is ==
  ASSUME NEW x \in Nat
  PROVE  /\ Pad4(x) \in Nat
         /\ Pad4(4 + x) \in Nat \ {0}
         /\ Pad4(4 + Pad4(x)) = 4 + Pad4(x)
<1>1. (x + 3) \div 4 \in Nat /\ (4 + x + 3) \div 4 \in Nat \ {0}
  BY Z3
<1>2. \A k \in Nat : (k * 4 + 7) \div 4 = k + 1
  BY Z3
<1>3. ((((x + 3) \div 4) * 4) + 7) \div 4 = ((x + 3) \div 4) + 1
  BY <1>1, <1>2
<1> QED BY <1>1, <1>3 DEF Pad4

\* No two items that have bytes begin alike.
LEMMA EndsApart ==
  ASSUME NEW from \in Nat, NEW sizes \in Seq(Nat)
  PROVE  LET n == Len(sizes)
             e == Ends(from, sizes)
         IN  /\ EndAt(from, sizes, n, e)
             /\ \A i, j \in 0..n : i <= j => e[i] <= e[j]
             /\ \A j, k \in 1..n : /\ sizes[j] > 0 /\ sizes[k] > 0
                                   /\ e[j - 1] = e[k - 1]
                                   => j = k
<1> DEFINE n == Len(sizes)
           e == Ends(from, sizes)
<1>0. n \in Nat /\ \A k \in 1..n : sizes[k] \in Nat
  OBVIOUS
<1>1. EndAt(from, sizes, n, e)
  BY <1>0, EndsAre
<1> HIDE DEF e, n
<1>2. e \in [0..n -> Nat] /\ n \in Nat
  BY <1>0, <1>1 DEF EndAt
<1>3. ASSUME NEW k \in 1..n
      PROVE  /\ e[k - 1] <= e[k] /\ (sizes[k] > 0 => e[k - 1] < e[k])
             /\ k - 1 \in 0..n /\ k \in 0..n /\ e[k - 1] \in Nat /\ e[k] \in Nat
  <2>1. e[k] = e[k - 1] + sizes[k] /\ sizes[k] \in Nat
    BY <1>0, <1>1 DEF EndAt
  <2>2. k - 1 \in 0..n /\ k \in 0..n
    BY <1>2
  <2>3. e[k - 1] \in Nat /\ e[k] \in Nat
    BY <1>2, <2>2
  <2> QED BY <2>1, <2>2, <2>3
<1>4. \A i, j \in 0..n : i <= j => e[i] <= e[j]
  <2>1. \A k \in 1..n : e[k - 1] <= e[k]
    BY <1>3
  <2> QED BY <1>2, <2>1, Climb
<1>5. ASSUME NEW j \in 1..n, NEW k \in 1..n, j < k, sizes[j] > 0
      PROVE  e[j - 1] < e[k - 1]
  <2>1. e[j - 1] < e[j] /\ {e[j - 1], e[j], e[k - 1]} \subseteq Nat /\ k - 1 \in 0..n /\ j \in 0..n
    BY <1>3, <1>5
  <2>2. j <= k - 1
    BY <1>5
  <2>3. e[j] <= e[k - 1]
    BY <1>4, <2>1, <2>2
  <2> QED BY <2>1, <2>3
<1>6. \A j, k \in 1..n : /\ sizes[j] > 0 /\ sizes[k] > 0 /\ e[j - 1] = e[k - 1]
                         => j = k
  <2> SUFFICES ASSUME NEW j \in 1..n, NEW k \in 1..n, sizes[j] > 0, sizes[k] > 0,
                      e[j - 1] = e[k - 1], j # k
               PROVE  FALSE
    OBVIOUS
  <2>1. j < k \/ k < j
    BY <1>2
  <2>2. e[j - 1] \in Nat /\ e[k - 1] \in Nat
    BY <1>3
  <2> QED BY <1>5, <2>1, <2>2
<1> QED BY <1>1, <1>4, <1>6 DEF e, n

\* Every item that has bytes is found where it begins.
LEMMA LayOutIs ==
  ASSUME NEW from \in Nat, NEW sizes \in Seq(Nat), NEW items
  PROVE  LET wire == LayOut(from, sizes, items)
             end  == Ends(from, sizes)
             n    == Len(sizes)
         IN  /\ wire.size = end[n]
             /\ \A k \in 1..n : sizes[k] > 0 => /\ end[k - 1] \in DOMAIN wire.at
                                                /\ wire.at[end[k - 1]] = items[k]
             /\ (\A k \in 1..n : sizes[k] > 0) => Cardinality(DOMAIN wire.at) = n
<1> DEFINE n == Len(sizes)
           end == Ends(from, sizes)
           put == {k \in 1..n : sizes[k] > 0}
           starts == {end[k - 1] : k \in put}
           begin == [k \in put |-> end[k - 1]]
           at == LayOut(from, sizes, items).at
<1>1. \A j, k \in put : end[j - 1] = end[k - 1] => j = k
  BY EndsApart
<1>2. /\ LayOut(from, sizes, items).size = end[n]
      /\ at = [o \in starts |-> items[CHOOSE k \in put : end[k - 1] = o]]
  BY DEF LayOut
<1>0. n \in Nat
  OBVIOUS
<1> HIDE DEF end, at, n
<1>3. ASSUME NEW k \in 1..n, sizes[k] > 0
      PROVE  end[k - 1] \in DOMAIN at /\ at[end[k - 1]] = items[k]
  <2>1. k \in put
    BY <1>3
  <2> HIDE DEF put
  <2>2. (CHOOSE j \in put : end[j - 1] = end[k - 1]) = k
    BY <1>1, <2>1
  <2> QED BY <1>2, <2>1, <2>2
<1>4. ASSUME \A k \in 1..n : sizes[k] > 0 PROVE Cardinality(DOMAIN at) = n
  <2>1. begin \in Bijection(put, starts)
    <3> HIDE DEF put
    <3>1. begin \in [put -> starts]
      OBVIOUS
    <3>2. \A j, k \in put : begin[j] = begin[k] => j = k
      BY <1>1
    <3>3. \A o \in starts : \E k \in put : begin[k] = o
      OBVIOUS
    <3> HIDE DEF begin, starts
    <3> QED BY <3>1, <3>2, <3>3 DEF Bijection, Injection, Surjection, IsInjective
  <2>2. put = 1..n
    BY <1>4
  <2>3. IsFiniteSet(put) /\ Cardinality(put) = n
    <3>1. IsFiniteSet(1..n) /\ Cardinality(1..n) = n
      BY <1>0, FS_Interval
    <3> HIDE DEF put
    <3> QED BY <2>2, <3>1
  <2>4. DOMAIN at = starts
    BY <1>2
  <2> HIDE DEF begin, starts, put
  <2> QED BY <2>1, <2>3, <2>4, FS_Bijection DEF ExistsBijection
<1> QED BY <1>2, <1>3, <1>4 DEF end, at, n

-----------------------------------------------------------------------------
(* Lists on the wire                                                       *)

\* A sequence is put together from its front.
LEMMA FrontAppended ==
  ASSUME NEW n \in Nat, NEW values, NEW k \in 1..n
  PROVE  Append([i \in 1..k - 1 |-> values[i]], values[k]) = [i \in 1..k |-> values[i]]
<1> DEFINE S == {values[i] : i \in 1..k}
           front == [i \in 1..k - 1 |-> values[i]]
           whole == [i \in 1..k |-> values[i]]
           grown == Append(front, values[k])
<1>0. k \in Nat /\ k - 1 \in Nat
  OBVIOUS
<1>1. front \in [1..k - 1 -> S] /\ whole \in [1..k -> S] /\ values[k] \in S
  OBVIOUS
<1>2. front \in Seq(S) /\ whole \in Seq(S)
  <2> HIDE DEF front, whole, S
  <2> QED BY <1>0, <1>1
<1>3. Len(front) = k - 1 /\ Len(whole) = k
  BY <1>0
<1>4. \A i \in 1..k - 1 : front[i] = whole[i]
  OBVIOUS
<1>5. whole[k] = values[k]
  OBVIOUS
<1> HIDE DEF front, whole, S, grown
<1>6. /\ grown \in Seq(S) /\ Len(grown) = k
      /\ \A i \in 1..k - 1 : grown[i] = front[i]
      /\ grown[k] = values[k]
  BY <1>0, <1>1, <1>2, <1>3, AppendProperties DEF grown
<1>7. \A i \in 1..k : grown[i] = whole[i]
  BY <1>0, <1>4, <1>5, <1>6
<1>8. grown = whole
  BY <1>2, <1>3, <1>6, <1>7
<1> QED BY <1>8 DEF grown, front, whole

\* The reader steps from item to item when each begins where the last ends.
LEMMA WalkReads ==
  ASSUME NEW n \in Nat, NEW wire, NEW end, NEW items, end[0] = 4,
         \A k \in 1..n : /\ end[k - 1] \in DOMAIN wire.at
                         /\ wire.at[end[k - 1]] = items[k]
                         /\ end[k] = end[k - 1] + Pad4(4 + items[k].length)
  PROVE  ReadOut(wire, n) = [k \in 1..n |-> items[k].value]
<1> DEFINE values == [k \in 1..n |-> items[k].value]
           first == [offset |-> 4, read |-> <<>>]
           next(w) == IF w.offset \notin DOMAIN wire.at THEN w
                      ELSE [offset |-> w.offset + Pad4(4 + wire.at[w.offset].length),
                            read |-> Append(w.read, wire.at[w.offset].value)]
           Step(f) == f = [k \in 0..n |-> IF k = 0 THEN first ELSE next(f[k - 1])]
           Read(k) == [offset |-> end[k], read |-> [i \in 1..k |-> values[i]]]
           read == [k \in 0..n |-> Read(k)]
           walk == Walk(wire, n)
<1>1. walk = CHOOSE f : Step(f)
  BY DEF Walk
<1>2. first = Read(0)
  OBVIOUS
<1>3. ASSUME NEW k \in 1..n PROVE next(Read(k - 1)) = Read(k)
  <2>1. Append([i \in 1..k - 1 |-> values[i]], values[k]) = [i \in 1..k |-> values[i]]
    BY FrontAppended
  <2>2. values[k] = items[k].value
    OBVIOUS
  <2> HIDE DEF values
  <2> QED BY <2>1, <2>2
<1>4. values = [i \in 1..n |-> values[i]] /\ Read(n).read = [i \in 1..n |-> values[i]]
  OBVIOUS
<1> HIDE DEF first, next, Read, values
<1>5. \A k \in 0..n : read[k] = Read(k)
  OBVIOUS
<1>6. ASSUME NEW k \in 1..n PROVE read[k] = next(read[k - 1])
  <2>1. k - 1 \in 0..n /\ k \in 0..n
    OBVIOUS
  <2> HIDE DEF read
  <2> QED BY <1>3, <1>5, <2>1
<1>7. Step(read)
  <2>1. ASSUME NEW k \in 0..n PROVE Read(k) = IF k = 0 THEN first ELSE next(read[k - 1])
    <3>1. CASE k = 0
      BY <1>2, <3>1
    <3>2. CASE k \in 1..n
      <4>1. k # 0
        BY <3>2
      <4> HIDE DEF read
      <4>2. read[k] = Read(k) /\ read[k] = next(read[k - 1])
        BY <1>5, <1>6, <3>2
      <4> QED BY <4>1, <4>2
    <3> QED BY <3>1, <3>2
  <2> QED BY <2>1
<1>8. Step(walk)
  <2> HIDE DEF Step, walk
  <2> QED BY <1>1, <1>7
<1>9. walk[0] = first /\ \A k \in 1..n : walk[k] = next(walk[k - 1])
  <2> HIDE DEF walk
  <2>1. \A k \in 0..n : walk[k] = IF k = 0 THEN first ELSE next(walk[k - 1])
    BY <1>8
  <2> QED BY <2>1
<1> HIDE DEF walk, read, Step
<1>10. walk[0] = read[0] /\ n \in 0..n
  BY <1>2, <1>5, <1>9
<1>11. \A k \in 1..n : walk[k - 1] = read[k - 1] => walk[k] = read[k]
  BY <1>6, <1>9
<1>12. \A k \in 0..n : walk[k] = read[k]
  BY <1>10, <1>11, SameByStep
<1>13. walk[n].read = values
  BY <1>4, <1>5, <1>10, <1>12
<1> QED BY <1>13 DEF ReadOut, walk, values

(***************************************************************************)
(* What is laid out is read back, value by value.                          *)
(***************************************************************************)
LEMMA ReadOutIs ==
  ASSUME NEW sizes \in Seq(Nat), NEW items,
         \A k \in 1..Len(sizes) : sizes[k] > 0 /\ Pad4(4 + items[k].length) = sizes[k]
  PROVE  ReadOut(LayOut(4, sizes, items), Len(sizes))
           = [k \in 1..Len(sizes) |-> items[k].value]
<1> DEFINE n == Len(sizes)
           wire == LayOut(4, sizes, items)
           end == Ends(4, sizes)
<1>1. n \in Nat /\ end[0] = 4 /\ \A k \in 1..n : end[k] = end[k - 1] + sizes[k]
  BY EndsApart DEF EndAt
<1>2. \A k \in 1..n : end[k - 1] \in DOMAIN wire.at /\ wire.at[end[k - 1]] = items[k]
  BY LayOutIs
<1> HIDE DEF wire, end
<1>3. \A k \in 1..n : /\ end[k - 1] \in DOMAIN wire.at
                      /\ wire.at[end[k - 1]] = items[k]
                      /\ end[k] = end[k - 1] + Pad4(4 + items[k].length)
  BY <1>1, <1>2
<1> HIDE DEF n
<1>4. ReadOut(wire, n) = [k \in 1..n |-> items[k].value]
  <2>1. n \in Nat
    BY <1>1
  <2>2. end[0] = 4
    BY <1>1
  <2> QED BY ONLY <2>1, <2>2, <1>3, WalkReads, SMTT(60)
<1> QED BY <1>4 DEF wire, n

LEMMA SizesAre ==
  ASSUME NEW n \in Nat, NEW sizes, sizes = [k \in 1..n |-> sizes[k]],
         \A k \in 1..n : sizes[k] \in Nat
  PROVE  sizes \in Seq(Nat) /\ Len(sizes) = n
<1>1. sizes \in [1..n -> Nat]
  OBVIOUS
<1> QED BY <1>1

\* The names of a partition.
LEMMA NamesSurvive ==
  ASSUME NEW names \in Seq(Seq(Nat))
  PROVE  /\ ParseNames(StringSequence(names)) = names
         /\ StringSequence(names).strings.size \in Nat
<1> DEFINE n == Len(names)
           sizes == [i \in 1..n |-> StringSize(names[i])]
           items == [i \in 1..n |-> [length |-> Len(names[i]) + 1, value |-> names[i]]]
<1>1. n \in Nat /\ DOMAIN names = 1..n /\ names = [i \in 1..n |-> names[i]]
  OBVIOUS
<1>2. \A i \in 1..n : Len(names[i]) + 1 \in Nat /\ 4 + Len(names[i]) + 1 = 4 + (Len(names[i]) + 1)
  OBVIOUS
<1>3. StringSequence(names) = [count |-> n, strings |-> LayOut(4, sizes, items)]
  BY <1>1 DEF StringSequence
<1>4. ParseNames(StringSequence(names)) = ReadOut(LayOut(4, sizes, items), n)
  BY <1>3 DEF ParseNames
<1> HIDE DEF n
<1>5. \A i \in 1..n : sizes[i] = Pad4(4 + items[i].length) /\ items[i].value = names[i]
                      /\ sizes[i] \in Nat \ {0}
  BY <1>2, Pad4Is DEF StringSize
<1>6. sizes = [k \in 1..n |-> sizes[k]]
  OBVIOUS
<1> HIDE DEF sizes, items
<1>7. sizes \in Seq(Nat) /\ Len(sizes) = n
  BY <1>1, <1>5, <1>6, SizesAre
<1>8. ReadOut(LayOut(4, sizes, items), Len(sizes)) = [k \in 1..Len(sizes) |-> items[k].value]
  <2>1. \A k \in 1..Len(sizes) : sizes[k] > 0 /\ Pad4(4 + items[k].length) = sizes[k]
    BY <1>5, <1>7
  <2> QED BY <1>7, <2>1, ReadOutIs
<1>9. LayOut(4, sizes, items).size \in Nat
  <2>1. LayOut(4, sizes, items).size = Ends(4, sizes)[Len(sizes)]
    BY <1>7, LayOutIs
  <2>2. Ends(4, sizes) \in [0..Len(sizes) -> Nat] /\ Len(sizes) \in 0..Len(sizes)
    BY <1>7, EndsApart DEF EndAt
  <2> QED BY <2>1, <2>2
<1>10. [k \in 1..n |-> items[k].value] = names
  BY <1>1, <1>5
<1>11. StringSequence(names).strings = LayOut(4, sizes, items)
  BY <1>3
<1>12. ParseNames(StringSequence(names)) = names
  BY <1>4, <1>7, <1>8, <1>10
<1> QED BY <1>9, <1>11, <1>12

LEMMA U16Holds ==
  ASSUME NEW x \in Nat, x <= MaxU16
  PROVE  x % (MaxU16 + 1) = x
BY DEF MaxU16

\* A parameter list, when a u16 holds every length.
LEMMA ParametersSurvive ==
  ASSUME NEW S, NEW ps \in Seq(S),
         \A k \in 1..Len(ps) : ValueSize(ps[k]) \in Nat /\ Pad4(ValueSize(ps[k])) <= MaxU16
  PROVE  Unframe(Frame(ps)) = ps
<1> DEFINE n == Len(ps)
           padded(k) == Pad4(ValueSize(ps[k]))
           sizes == [k \in 1..n |-> 4 + padded(k)]
           items == [k \in 1..n |-> [length |-> padded(k) % (MaxU16 + 1), value |-> ps[k]]]
<1>1. n \in Nat /\ DOMAIN ps = 1..n /\ ps = [k \in 1..n |-> ps[k]]
  OBVIOUS
<1>2. Frame(ps) = LayOut(4, sizes, items)
  BY <1>1 DEF Frame
<1> HIDE DEF n
<1>3. ASSUME NEW k \in 1..n
      PROVE  sizes[k] = Pad4(4 + items[k].length) /\ items[k].value = ps[k] /\ sizes[k] \in Nat \ {0}
  <2>1. ValueSize(ps[k]) \in Nat /\ padded(k) <= MaxU16
    BY DEF n
  <2>2. padded(k) \in Nat /\ Pad4(4 + padded(k)) = 4 + padded(k)
    BY <2>1, Pad4Is
  <2>3. padded(k) % (MaxU16 + 1) = padded(k)
    <3> HIDE DEF padded
    <3> QED BY <2>1, <2>2, U16Holds
  <2> HIDE DEF padded
  <2> QED BY <2>2, <2>3
<1>4. sizes = [k \in 1..n |-> sizes[k]]
  OBVIOUS
<1> HIDE DEF sizes, items
<1>5. sizes \in Seq(Nat) /\ Len(sizes) = n
  BY <1>1, <1>3, <1>4, SizesAre
<1>6. ReadOut(LayOut(4, sizes, items), Len(sizes)) = [k \in 1..Len(sizes) |-> items[k].value]
  <2>1. \A k \in 1..Len(sizes) : sizes[k] > 0 /\ Pad4(4 + items[k].length) = sizes[k]
    BY <1>3, <1>5
  <2> QED BY <1>5, <2>1, ReadOutIs
<1>7. Cardinality(DOMAIN LayOut(4, sizes, items).at) = n
  <2>1. 4 \in Nat /\ \A k \in 1..Len(sizes) : sizes[k] > 0
    BY <1>3, <1>5
  <2> QED BY <1>5, <2>1, LayOutIs
<1>8. [k \in 1..n |-> items[k].value] = ps
  BY <1>1, <1>3
<1> QED BY <1>2, <1>5, <1>6, <1>7, <1>8 DEF Unframe

-----------------------------------------------------------------------------
(* Policies                                                                *)

(***************************************************************************)
(* The policies read after j of the parameters of q: those are q's own,    *)
(* the others still the defaults.                                          *)
(***************************************************************************)
Stage(q, j) ==
  [durability  |-> IF j >= 1 THEN q.durability ELSE DefaultQos.durability,
   reliability |-> IF j >= 2 THEN q.reliability ELSE DefaultQos.reliability,
   blocking    |-> IF j >= 2 THEN q.blocking ELSE DefaultQos.blocking,
   history     |-> IF j >= 3 THEN q.history ELSE DefaultQos.history,
   depth       |-> IF j >= 3 THEN q.depth ELSE DefaultQos.depth,
   liveliness  |-> IF j >= 4 THEN q.liveliness ELSE DefaultQos.liveliness,
   lease       |-> IF j >= 4 THEN q.lease ELSE DefaultQos.lease,
   deadline    |-> IF j >= 5 THEN q.deadline ELSE DefaultQos.deadline,
   latency     |-> IF j >= 6 THEN q.latency ELSE DefaultQos.latency,
   ownership   |-> IF j >= 7 THEN q.ownership ELSE DefaultQos.ownership,
   order       |-> IF j >= 8 THEN q.order ELSE DefaultQos.order]

LEMMA StageBounds ==
  ASSUME NEW q \in Qos, NEW j \in Int
  PROVE  (j <= 0 => Stage(q, j) = DefaultQos) /\ (j >= 8 => Stage(q, j) = q)
BY DEF Stage, DefaultQos, Qos

LEMMA PolicyApplied ==
  ASSUME NEW q \in Qos, NEW j \in 1..8
  PROVE  ApplyQos(Stage(q, j - 1), QosParameters(q)[j]) = Stage(q, j)
<1> DEFINE p == QosParameters(q)
<1>0. /\ q.durability \in 0..3 /\ q.reliability \in 0..1 /\ q.history \in 0..1
      /\ q.liveliness \in 0..2 /\ q.ownership \in 0..1 /\ q.order \in 0..1
      /\ {q.blocking, q.lease, q.deadline, q.latency} \subseteq Duration
  BY DEF Qos
<1>1. CASE j = 1
  <2>1. p[1] = [pid |-> "Durability", kind |-> q.durability]
    BY DEF QosParameters
  <2>2. ApplyQos(Stage(q, 0), p[1]) = [Stage(q, 0) EXCEPT !.durability = q.durability]
    BY <1>0, <2>1 DEF ApplyQos, Known
  <2>3. [Stage(q, 0) EXCEPT !.durability = q.durability] = Stage(q, 1)
    BY DEF Stage
  <2> QED BY <1>1, <2>2, <2>3
<1>2. CASE j = 2
  <2> DEFINE s == Stage(q, 1)
  <2>1. p[2] = [pid |-> "Reliability", kind |-> q.reliability + 1, time |-> ToWire(q.blocking)]
    BY DEF QosParameters
  <2>2. ApplyQos(s, p[2]) = [s EXCEPT !.reliability = q.reliability, !.blocking = q.blocking]
    <3>1. FromWire(p[2].time) = q.blocking /\ p[2].pid = "Reliability"
      BY <1>0, <2>1, DurationSurvivesWire
    <3>2. (IF p[2].kind = 2 THEN 1 ELSE 0) = q.reliability
      BY <1>0, <2>1
    <3> HIDE DEF s, p
    <3> QED BY <3>1, <3>2 DEF ApplyQos
  <2>3. [s EXCEPT !.reliability = q.reliability, !.blocking = q.blocking] = Stage(q, 2)
    <3> DEFINE half == [Stage(q, 2) EXCEPT !.blocking = DefaultQos.blocking]
    <3>1. [s EXCEPT !.reliability = q.reliability] = half
      BY DEF Stage
    <3>2. [half EXCEPT !.blocking = q.blocking] = [Stage(q, 2) EXCEPT !.blocking = q.blocking]
      OBVIOUS
    <3>3. [Stage(q, 2) EXCEPT !.blocking = q.blocking] = Stage(q, 2)
      BY DEF Stage
    <3> HIDE DEF s, half
    <3> QED BY <3>1, <3>2, <3>3
  <2> QED BY <1>2, <2>2, <2>3
<1>3. CASE j = 3
  <2> DEFINE s == Stage(q, 2)
  <2>1. p[3] = [pid |-> "History", kind |-> q.history, depth |-> q.depth]
    BY DEF QosParameters
  <2>2. ApplyQos(s, p[3]) = [s EXCEPT !.history = q.history, !.depth = q.depth]
    <3>1. Known(p[3].kind, 1) = q.history /\ p[3].depth = q.depth /\ p[3].pid = "History"
      BY <1>0, <2>1 DEF Known
    <3> HIDE DEF s, p
    <3> QED BY <3>1 DEF ApplyQos
  <2>3. [s EXCEPT !.history = q.history, !.depth = q.depth] = Stage(q, 3)
    <3> DEFINE half == [Stage(q, 3) EXCEPT !.depth = DefaultQos.depth]
    <3>1. [s EXCEPT !.history = q.history] = half
      BY DEF Stage
    <3>2. [half EXCEPT !.depth = q.depth] = [Stage(q, 3) EXCEPT !.depth = q.depth]
      OBVIOUS
    <3>3. [Stage(q, 3) EXCEPT !.depth = q.depth] = Stage(q, 3)
      BY DEF Stage
    <3> HIDE DEF s, half
    <3> QED BY <3>1, <3>2, <3>3
  <2> QED BY <1>3, <2>2, <2>3
<1>4. CASE j = 4
  <2> DEFINE s == Stage(q, 3)
  <2>1. p[4] = [pid |-> "Liveliness", kind |-> q.liveliness, time |-> ToWire(q.lease)]
    BY DEF QosParameters
  <2>2. ApplyQos(s, p[4]) = [s EXCEPT !.liveliness = q.liveliness, !.lease = q.lease]
    <3>1. /\ FromWire(p[4].time) = q.lease /\ p[4].pid = "Liveliness"
          /\ Known(p[4].kind, 2) = q.liveliness
      BY <1>0, <2>1, DurationSurvivesWire DEF Known
    <3> HIDE DEF s, p
    <3> QED BY <3>1 DEF ApplyQos
  <2>3. [s EXCEPT !.liveliness = q.liveliness, !.lease = q.lease] = Stage(q, 4)
    <3> DEFINE half == [Stage(q, 4) EXCEPT !.lease = DefaultQos.lease]
    <3>1. [s EXCEPT !.liveliness = q.liveliness] = half
      BY DEF Stage
    <3>2. [half EXCEPT !.lease = q.lease] = [Stage(q, 4) EXCEPT !.lease = q.lease]
      OBVIOUS
    <3>3. [Stage(q, 4) EXCEPT !.lease = q.lease] = Stage(q, 4)
      BY DEF Stage
    <3> HIDE DEF s, half
    <3> QED BY <3>1, <3>2, <3>3
  <2> QED BY <1>4, <2>2, <2>3
<1>5. CASE j = 5
  <2> DEFINE s == Stage(q, 4)
  <2>1. p[5] = [pid |-> "Deadline", time |-> ToWire(q.deadline)]
    BY DEF QosParameters
  <2>2. ApplyQos(s, p[5]) = [s EXCEPT !.deadline = q.deadline]
    <3>1. FromWire(p[5].time) = q.deadline /\ p[5].pid = "Deadline"
      BY <1>0, <2>1, DurationSurvivesWire
    <3> HIDE DEF s, p
    <3> QED BY <3>1 DEF ApplyQos
  <2>3. [s EXCEPT !.deadline = q.deadline] = Stage(q, 5)
    BY DEF Stage
  <2> QED BY <1>5, <2>2, <2>3
<1>6. CASE j = 6
  <2> DEFINE s == Stage(q, 5)
  <2>1. p[6] = [pid |-> "LatencyBudget", time |-> ToWire(q.latency)]
    BY DEF QosParameters
  <2>2. ApplyQos(s, p[6]) = [s EXCEPT !.latency = q.latency]
    <3>1. FromWire(p[6].time) = q.latency /\ p[6].pid = "LatencyBudget"
      BY <1>0, <2>1, DurationSurvivesWire
    <3> HIDE DEF s, p
    <3> QED BY <3>1 DEF ApplyQos
  <2>3. [s EXCEPT !.latency = q.latency] = Stage(q, 6)
    BY DEF Stage
  <2> QED BY <1>6, <2>2, <2>3
<1>7. CASE j = 7
  <2> DEFINE s == Stage(q, 6)
  <2>1. p[7] = [pid |-> "Ownership", kind |-> q.ownership]
    BY DEF QosParameters
  <2>2. ApplyQos(s, p[7]) = [s EXCEPT !.ownership = q.ownership]
    BY <1>0, <2>1 DEF ApplyQos, Known
  <2>3. [s EXCEPT !.ownership = q.ownership] = Stage(q, 7)
    BY DEF Stage
  <2> QED BY <1>7, <2>2, <2>3
<1>8. CASE j = 8
  <2> DEFINE s == Stage(q, 7)
  <2>1. p[8] = [pid |-> "DestinationOrder", kind |-> q.order]
    BY DEF QosParameters
  <2>2. ApplyQos(s, p[8]) = [s EXCEPT !.order = q.order]
    BY <1>0, <2>1 DEF ApplyQos, Known
  <2>3. [s EXCEPT !.order = q.order] = Stage(q, 8)
    BY DEF Stage
  <2> QED BY <1>8, <2>2, <2>3
<1> QED BY <1>1, <1>2, <1>3, <1>4, <1>5, <1>6, <1>7, <1>8

-----------------------------------------------------------------------------
(* What an endpoint announces                                              *)

\* Where in an endpoint's parameters its type's name is: behind the information, if it has any.
TypeAt(ep) == IF ep.info = <<>> THEN 2 ELSE 3

LEMMA EightInOrder ==
  ASSUME NEW S, NEW a1 \in S, NEW a2 \in S, NEW a3 \in S, NEW a4 \in S,
         NEW a5 \in S, NEW a6 \in S, NEW a7 \in S, NEW a8 \in S
  PROVE  << a1, a2, a3, a4, a5, a6, a7, a8 >> \in Seq(S)
OBVIOUS

LEMMA FiveJoined ==
  ASSUME NEW S, NEW a \in Seq(S), NEW b \in Seq(S), NEW c \in Seq(S),
         NEW d \in Seq(S), NEW e \in Seq(S)
  PROVE  a \o b \o c \o d \o e \in Seq(S)
OBVIOUS

\* The parameters are a sequence of some set.
LEMMA ParametersAreSeq ==
  ASSUME NEW ep
  PROVE  \E S : SedpParameters(ep) \in Seq(S)
<1> DEFINE q == QosParameters(ep.qos)
           topic == [pid |-> "TopicName", name |-> ep.topic]
           info == [pid |-> "TypeInformation", wire |-> ep.info]
           type == [pid |-> "TypeName", name |-> ep.type]
           data == [pid |-> "DataRepresentation"]
           guid == [pid |-> "EndpointGuid"]
           part == [pid |-> "Partition", names |-> StringSequence(OrDefault(ep.partition))]
           S == {topic, info, type, data, guid, part} \cup {q[j] : j \in 1..8}
           second == IF ep.info = <<>> THEN <<>> ELSE << info >>
<1>1. SedpParameters(ep) = << topic >> \o second \o << type >> \o q \o << data, guid, part >>
  BY DEF SedpParameters
<1>2. q = << q[1], q[2], q[3], q[4], q[5], q[6], q[7], q[8] >>
  BY DEF QosParameters
<1>3. topic \in S /\ info \in S /\ type \in S /\ data \in S /\ guid \in S /\ part \in S
  OBVIOUS
<1>4. /\ q[1] \in S /\ q[2] \in S /\ q[3] \in S /\ q[4] \in S
      /\ q[5] \in S /\ q[6] \in S /\ q[7] \in S /\ q[8] \in S
  <2>1. \A j \in 1..8 : q[j] \in S
    OBVIOUS
  <2> HIDE DEF q, S
  <2> QED BY <2>1
<1> HIDE DEF q, S, topic, info, type, data, guid, part
<1>5. q \in Seq(S)
  <2>1. << q[1], q[2], q[3], q[4], q[5], q[6], q[7], q[8] >> \in Seq(S)
    BY <1>4, EightInOrder
  <2> QED BY Zenon, <1>2, <2>1
<1>6. << topic >> \in Seq(S) /\ << type >> \in Seq(S) /\ << data, guid, part >> \in Seq(S)
  BY <1>3
<1>7. second \in Seq(S)
  <2>1. << info >> \in Seq(S) /\ <<>> \in Seq(S)
    BY <1>3
  <2> QED BY <2>1
<1> HIDE DEF second
<1>8. << topic >> \o second \o << type >> \o q \o << data, guid, part >> \in Seq(S)
  BY <1>5, <1>6, <1>7, FiveJoined
<1> QED BY <1>1, <1>8

LEMMA ParametersAre ==
  ASSUME NEW ep
  PROVE  LET ps == SedpParameters(ep)
             m  == TypeAt(ep)
         IN  /\ Len(ps) = m + 11
             /\ ps[1] = [pid |-> "TopicName", name |-> ep.topic]
             /\ m = 3 => ps[2] = [pid |-> "TypeInformation", wire |-> ep.info]
             /\ ps[m] = [pid |-> "TypeName", name |-> ep.type]
             /\ \A j \in 1..8 : ps[m + j] = QosParameters(ep.qos)[j]
             /\ ps[m + 9] = [pid |-> "DataRepresentation"]
             /\ ps[m + 10] = [pid |-> "EndpointGuid"]
             /\ ps[m + 11] = [pid |-> "Partition",
                              names |-> StringSequence(OrDefault(ep.partition))]
<1> DEFINE ps == SedpParameters(ep)
           q == QosParameters(ep.qos)
           names == StringSequence(OrDefault(ep.partition))
<1>1. CASE ep.info = <<>>
  <2>1. Len(ps) = 13
    BY <1>1 DEF SedpParameters, QosParameters
  <2>2. /\ ps[1] = [pid |-> "TopicName", name |-> ep.topic]
        /\ ps[2] = [pid |-> "TypeName", name |-> ep.type]
    BY <1>1 DEF SedpParameters, QosParameters
  <2>3. /\ ps[3] = q[1] /\ ps[4] = q[2] /\ ps[5] = q[3] /\ ps[6] = q[4]
        /\ ps[7] = q[5] /\ ps[8] = q[6] /\ ps[9] = q[7] /\ ps[10] = q[8]
    BY <1>1 DEF SedpParameters, QosParameters
  <2>4. /\ ps[11] = [pid |-> "DataRepresentation"] /\ ps[12] = [pid |-> "EndpointGuid"]
        /\ ps[13] = [pid |-> "Partition", names |-> names]
    BY <1>1 DEF SedpParameters, QosParameters
  <2>5. TypeAt(ep) = 2
    BY <1>1 DEF TypeAt
  <2> QED BY <2>1, <2>2, <2>3, <2>4, <2>5
<1>2. CASE ep.info # <<>>
  <2>1. Len(ps) = 14
    BY <1>2 DEF SedpParameters, QosParameters
  <2>2. /\ ps[1] = [pid |-> "TopicName", name |-> ep.topic]
        /\ ps[2] = [pid |-> "TypeInformation", wire |-> ep.info]
        /\ ps[3] = [pid |-> "TypeName", name |-> ep.type]
    BY <1>2 DEF SedpParameters, QosParameters
  <2>3. /\ ps[4] = q[1] /\ ps[5] = q[2] /\ ps[6] = q[3] /\ ps[7] = q[4]
        /\ ps[8] = q[5] /\ ps[9] = q[6] /\ ps[10] = q[7] /\ ps[11] = q[8]
    BY <1>2 DEF SedpParameters, QosParameters
  <2>4. /\ ps[12] = [pid |-> "DataRepresentation"] /\ ps[13] = [pid |-> "EndpointGuid"]
        /\ ps[14] = [pid |-> "Partition", names |-> names]
    BY <1>2 DEF SedpParameters, QosParameters
  <2>5. TypeAt(ep) = 3
    BY <1>2 DEF TypeAt
  <2> QED BY <2>1, <2>2, <2>3, <2>4, <2>5
<1> QED BY <1>1, <1>2

\* What register_writer and register_reader take keeps its types.
LEMMA Registered ==
  ASSUME NEW e, IsEntity(e)
  PROVE  LET ep == Register(e)
         IN  /\ ep.topic = e.topic /\ ep.type = e.type /\ ep.qos = e.qos /\ ep.info = e.info
             /\ ep.partition = OrDefault(e.partition) /\ OrDefault(ep.partition) = ep.partition
             /\ ep.topic \in Seq(Nat) /\ ep.type \in Seq(Nat) /\ ep.info \in Seq(Nat)
             /\ ep.qos \in Qos /\ ep.partition \in Seq(Seq(Nat))
<1>1. /\ e.topic \in Seq(Nat) /\ e.type \in Seq(Nat) /\ e.info \in Seq(Nat)
      /\ e.qos \in Qos /\ e.partition \in Seq(Seq(Nat))
  BY DEF IsEntity
<1>2. OrDefault(e.partition) \in Seq(Seq(Nat)) /\ OrDefault(e.partition) # <<>>
  <2>1. << <<>> >> \in Seq(Seq(Nat)) /\ << <<>> >> # <<>>
    OBVIOUS
  <2> QED BY <1>1, <2>1 DEF OrDefault
<1>3. OrDefault(OrDefault(e.partition)) = OrDefault(e.partition)
  BY <1>2 DEF OrDefault
<1> QED BY <1>1, <1>2, <1>3 DEF Register

LEMMA PolicySizes ==
  ASSUME NEW q, NEW j \in 1..8
  PROVE  ValueSize(QosParameters(q)[j]) \in Nat
<1>1. CASE j = 1
  BY <1>1 DEF QosParameters, ValueSize
<1>2. CASE j = 2
  BY <1>2 DEF QosParameters, ValueSize
<1>3. CASE j = 3
  BY <1>3 DEF QosParameters, ValueSize
<1>4. CASE j = 4
  BY <1>4 DEF QosParameters, ValueSize
<1>5. CASE j = 5
  BY <1>5 DEF QosParameters, ValueSize
<1>6. CASE j = 6
  BY <1>6 DEF QosParameters, ValueSize
<1>7. CASE j = 7
  BY <1>7 DEF QosParameters, ValueSize
<1>8. CASE j = 8
  BY <1>8 DEF QosParameters, ValueSize
<1> QED BY <1>1, <1>2, <1>3, <1>4, <1>5, <1>6, <1>7, <1>8

\* A name takes its length, its bytes and a NUL.
LEMMA NameSizes ==
  ASSUME NEW name \in Seq(Nat)
  PROVE  StringSize(name) \in Nat
<1>1. Len(name) + 1 \in Nat /\ 4 + Len(name) + 1 = 4 + (Len(name) + 1)
  OBVIOUS
<1> HIDE DEF Pad4
<1>2. Pad4(4 + (Len(name) + 1)) \in Nat
  BY <1>1, Pad4Is
<1> QED BY <1>1, <1>2 DEF StringSize

(***************************************************************************)
(* An entity's announcement is read parameter by parameter as it was sent. *)
(***************************************************************************)
LEMMA AnnouncementRead ==
  ASSUME NEW e, IsEntity(e)
  PROVE  Unframe(Frame(SedpParameters(Register(e)))) = SedpParameters(Register(e))
<1> DEFINE ep == Register(e)
           ps == SedpParameters(ep)
           m == TypeAt(ep)
           q == QosParameters(ep.qos)
           names == StringSequence(OrDefault(ep.partition))
<1>1. /\ ep.topic \in Seq(Nat) /\ ep.type \in Seq(Nat) /\ ep.info \in Seq(Nat)
      /\ ep.qos \in Qos /\ ep.partition \in Seq(Seq(Nat)) /\ OrDefault(ep.partition) = ep.partition
  BY Registered
<1>2. \A p \in Range(ps) : Pad4(ValueSize(p)) <= MaxU16
  BY DEF IsEntity
<1>3. PICK S : ps \in Seq(S)
  BY ParametersAreSeq
<1> HIDE DEF ep
<1>4. /\ Len(ps) = m + 11
      /\ ps[1] = [pid |-> "TopicName", name |-> ep.topic]
      /\ m = 3 => ps[2] = [pid |-> "TypeInformation", wire |-> ep.info]
      /\ ps[m] = [pid |-> "TypeName", name |-> ep.type]
      /\ \A j \in 1..8 : ps[m + j] = q[j]
      /\ ps[m + 9] = [pid |-> "DataRepresentation"]
      /\ ps[m + 10] = [pid |-> "EndpointGuid"]
      /\ ps[m + 11] = [pid |-> "Partition", names |-> names]
  BY ParametersAre
<1>5. m \in {2, 3}
  BY DEF TypeAt
<1> HIDE DEF m, ps, names, q
<1>6. ASSUME NEW k \in 1..Len(ps) PROVE ValueSize(ps[k]) \in Nat
  <2>0. \/ k = 1 \/ (k = 2 /\ m = 3) \/ k = m \/ \E j \in 1..8 : k = m + j
        \/ k = m + 9 \/ k = m + 10 \/ k = m + 11
    <3>1. k \in 1..m + 11
      BY <1>4
    <3>2. m = 2 => k = 1 \/ k = 2 \/ k - 2 \in 1..8 \/ k = 11 \/ k = 12 \/ k = 13
      BY <3>1
    <3>3. m = 3 => k = 1 \/ k = 2 \/ k = 3 \/ k - 3 \in 1..8 \/ k = 12 \/ k = 13 \/ k = 14
      BY <3>1
    <3>4. k = m + (k - m)
      BY <1>5, <3>1
    <3> QED BY <1>5, <3>2, <3>3, <3>4
  <2>1. CASE k = 1
    <3>1. ps[k] = [pid |-> "TopicName", name |-> ep.topic]
      BY <2>1, <1>4
    <3> QED BY <3>1, <1>1, NameSizes DEF ValueSize
  <2>2. CASE k = 2 /\ m = 3
    <3>1. ps[k] = [pid |-> "TypeInformation", wire |-> ep.info]
      BY <2>2, <1>4
    <3>2. Len(ep.info) \in Nat
      BY <1>1
    <3> QED BY <3>1, <3>2 DEF ValueSize
  <2>3. CASE k = m
    <3>1. ps[k] = [pid |-> "TypeName", name |-> ep.type]
      BY <2>3, <1>4
    <3> QED BY <3>1, <1>1, NameSizes DEF ValueSize
  <2>4. CASE \E j \in 1..8 : k = m + j
    <3>1. PICK j \in 1..8 : ps[k] = q[j]
      BY <2>4, <1>4
    <3> QED BY <3>1, PolicySizes DEF q
  <2>5. CASE k = m + 9
    <3>1. ps[k] = [pid |-> "DataRepresentation"]
      BY <2>5, <1>4
    <3> QED BY <3>1 DEF ValueSize
  <2>6. CASE k = m + 10
    <3>1. ps[k] = [pid |-> "EndpointGuid"]
      BY <2>6, <1>4
    <3> QED BY <3>1 DEF ValueSize
  <2>7. CASE k = m + 11
    <3>1. ps[k] = [pid |-> "Partition", names |-> names]
      BY <2>7, <1>4
    <3>2. names.strings.size \in Nat
      BY <1>1, NamesSurvive DEF names
    <3>3. ValueSize(ps[k]) = names.strings.size
      BY <3>1 DEF ValueSize
    <3> QED BY <3>2, <3>3
  <2> QED BY <2>0, <2>1, <2>2, <2>3, <2>4, <2>5, <2>6, <2>7
<1>7. \A k \in 1..Len(ps) : ps[k] \in Range(ps)
  BY <1>3 DEF Range
<1>8. Unframe(Frame(ps)) = ps
  <2>1. \A k \in 1..Len(ps) : ValueSize(ps[k]) \in Nat /\ Pad4(ValueSize(ps[k])) <= MaxU16
    BY <1>2, <1>6, <1>7
  <2> QED BY <1>3, <2>1, ParametersSurvive
<1> QED BY <1>8 DEF ps, ep

(***************************************************************************)
(* What is known of the endpoint r after k of its parameters, m of which   *)
(* lie before its policies.                                                *)
(***************************************************************************)
EpStage(r, m, k) ==
  [topic     |-> IF k >= 1 THEN r.topic ELSE <<>>,
   type      |-> IF k >= m THEN r.type ELSE <<>>,
   qos       |-> Stage(r.qos, k - m),
   partition |-> IF k >= m + 11 THEN r.partition ELSE <<>>]

LEMMA ParameterApplied ==
  ASSUME NEW e, IsEntity(e), NEW k \in 1..(TypeAt(Register(e)) + 11)
  PROVE  ApplyParameter(EpStage(Register(e), TypeAt(Register(e)), k - 1),
                        SedpParameters(Register(e))[k])
           = EpStage(Register(e), TypeAt(Register(e)), k)
<1> DEFINE r == Register(e)
           ps == SedpParameters(r)
           m == TypeAt(r)
           q == QosParameters(r.qos)
           names == StringSequence(OrDefault(r.partition))
           before == EpStage(r, m, k - 1)
           after == EpStage(r, m, k)
<1> SUFFICES ApplyParameter(before, ps[k]) = after
  OBVIOUS
<1>1. r.qos \in Qos /\ r.partition \in Seq(Seq(Nat)) /\ OrDefault(r.partition) = r.partition
  BY Registered
<1>2. m \in {2, 3} /\ k \in Nat \ {0} /\ k <= m + 11 /\ k - m \in Int /\ k - 1 - m \in Int
  BY DEF TypeAt
<1> HIDE DEF r
<1>3. /\ ps[1] = [pid |-> "TopicName", name |-> r.topic]
      /\ m = 3 => ps[2] = [pid |-> "TypeInformation", wire |-> r.info]
      /\ ps[m] = [pid |-> "TypeName", name |-> r.type]
      /\ \A j \in 1..8 : ps[m + j] = q[j]
      /\ ps[m + 9] = [pid |-> "DataRepresentation"]
      /\ ps[m + 10] = [pid |-> "EndpointGuid"]
      /\ ps[m + 11] = [pid |-> "Partition", names |-> names]
  BY ParametersAre
<1> HIDE DEF m, ps
<1>4. CASE k = 1
  <2>1. before.qos = DefaultQos /\ after.qos = DefaultQos
    BY <1>1, <1>2, <1>4, StageBounds DEF EpStage
  <2>2. before = [topic |-> <<>>, type |-> <<>>, qos |-> DefaultQos, partition |-> <<>>]
    BY <1>2, <1>4, <2>1 DEF EpStage
  <2>3. after = [topic |-> r.topic, type |-> <<>>, qos |-> DefaultQos, partition |-> <<>>]
    BY <1>2, <1>4, <2>1 DEF EpStage
  <2> HIDE DEF before, after
  <2>4. ApplyParameter(before, ps[k]) = [before EXCEPT !.topic = r.topic]
    BY <1>3, <1>4 DEF ApplyParameter
  <2> QED BY <2>2, <2>3, <2>4
<1>5. CASE k = 2 /\ m = 3
  <2>1. before.qos = DefaultQos /\ after.qos = DefaultQos
    BY <1>1, <1>2, <1>5, StageBounds DEF EpStage
  <2>2. before = after
    BY <1>2, <1>5, <2>1 DEF EpStage
  <2>3. after = [after EXCEPT !.qos = after.qos]
    BY DEF EpStage
  <2>4. ps[k].pid = "TypeInformation"
    BY <1>3, <1>5
  <2> HIDE DEF before, after
  <2>5. ApplyParameter(before, ps[k]) = [before EXCEPT !.qos = before.qos]
    BY <2>4 DEF ApplyParameter, ApplyQos
  <2> QED BY <2>2, <2>3, <2>5
<1>6. CASE k = m
  <2>1. before.qos = DefaultQos /\ after.qos = DefaultQos
    BY <1>1, <1>2, <1>6, StageBounds DEF EpStage
  <2>2. before = [topic |-> r.topic, type |-> <<>>, qos |-> DefaultQos, partition |-> <<>>]
    BY <1>2, <1>6, <2>1 DEF EpStage
  <2>3. after = [topic |-> r.topic, type |-> r.type, qos |-> DefaultQos, partition |-> <<>>]
    BY <1>2, <1>6, <2>1 DEF EpStage
  <2> HIDE DEF before, after
  <2>4. ApplyParameter(before, ps[k]) = [before EXCEPT !.type = r.type]
    <3>1. ps[k].pid = "TypeName" /\ ps[k].name = r.type
      BY <1>3, <1>6
    <3> QED BY <3>1 DEF ApplyParameter
  <2> QED BY <2>2, <2>3, <2>4
<1>7. CASE k - m \in 1..8
  <2> DEFINE j == k - m
  <2>1. ps[k] = q[j] /\ k - 1 - m = j - 1 /\ j \in 1..8
    <3>1. k = m + j
      BY <1>2
    <3> QED BY <1>2, <1>3, <1>7, <3>1
  <2>2. before = [topic |-> r.topic, type |-> r.type, qos |-> Stage(r.qos, j - 1), partition |-> <<>>]
    BY <1>2, <1>7, <2>1 DEF EpStage
  <2>3. after = [topic |-> r.topic, type |-> r.type, qos |-> Stage(r.qos, j), partition |-> <<>>]
    BY <1>2, <1>7 DEF EpStage
  <2>4. ps[k].pid \notin {"TopicName", "TypeName", "Partition"}
    <3>1. q[j].pid \notin {"TopicName", "TypeName", "Partition"}
      BY <2>1 DEF QosParameters
    <3> QED BY <2>1, <3>1
  <2> HIDE DEF before, after, j, q
  <2>5. ApplyParameter(before, ps[k]) = [before EXCEPT !.qos = ApplyQos(before.qos, ps[k])]
    BY <2>4 DEF ApplyParameter
  <2>6. ApplyQos(Stage(r.qos, j - 1), q[j]) = Stage(r.qos, j)
    BY <1>1, <2>1, PolicyApplied DEF q
  <2>7. ApplyQos(before.qos, ps[k]) = Stage(r.qos, j)
    BY <2>1, <2>2, <2>6
  <2> QED BY <2>2, <2>3, <2>5, <2>7
<1>8. CASE k = m + 9 \/ k = m + 10
  <2>1. before.qos = r.qos /\ after.qos = r.qos
    BY <1>1, <1>2, <1>8, StageBounds DEF EpStage
  <2>2. before = after
    BY <1>2, <1>8, <2>1 DEF EpStage
  <2>3. after = [after EXCEPT !.qos = after.qos]
    BY DEF EpStage
  <2>4. ps[k].pid \in {"DataRepresentation", "EndpointGuid"}
    BY <1>3, <1>8
  <2> HIDE DEF before, after
  <2>5. ApplyParameter(before, ps[k]) = [before EXCEPT !.qos = before.qos]
    BY <2>4 DEF ApplyParameter, ApplyQos
  <2> QED BY <2>2, <2>3, <2>5
<1>9. CASE k = m + 11
  <2>1. before.qos = r.qos /\ after.qos = r.qos
    BY <1>1, <1>2, <1>9, StageBounds DEF EpStage
  <2>2. before = [topic |-> r.topic, type |-> r.type, qos |-> r.qos, partition |-> <<>>]
    BY <1>2, <1>9, <2>1 DEF EpStage
  <2>3. after = [topic |-> r.topic, type |-> r.type, qos |-> r.qos, partition |-> r.partition]
    BY <1>2, <1>9, <2>1 DEF EpStage
  <2>4. ParseNames(names) = r.partition
    BY <1>1, NamesSurvive
  <2>5. ps[k].pid = "Partition" /\ ps[k].names = names
    BY <1>3, <1>9
  <2>6. <<>> \o r.partition = r.partition
    BY <1>1
  <2> HIDE DEF before, after, names
  <2>7. ApplyParameter(before, ps[k]) = [before EXCEPT !.partition = <<>> \o r.partition]
    BY <2>2, <2>4, <2>5 DEF ApplyParameter
  <2> QED BY <2>2, <2>3, <2>6, <2>7
<1>10. k = 1 \/ (k = 2 /\ m = 3) \/ k = m \/ k - m \in 1..8 \/ k = m + 9 \/ k = m + 10 \/ k = m + 11
  BY <1>2
<1> QED BY <1>4, <1>5, <1>6, <1>7, <1>8, <1>9, <1>10

\* A reader whose arms lead from each stage to the next reaches the last one.
LEMMA StagesReached ==
  ASSUME NEW ps, NEW stage, Len(ps) \in Nat, stage[0] = Unread,
         \A k \in 1..Len(ps) : ApplyParameter(stage[k - 1], ps[k]) = stage[k]
  PROVE  ApplyParameters(ps)[Len(ps)] = stage[Len(ps)]
<1> DEFINE n == Len(ps)
           next(ep, k) == ApplyParameter(ep, ps[k])
           Step(f) == f = [k \in 0..n |-> IF k = 0 THEN Unread ELSE next(f[k - 1], k)]
           read == [k \in 0..n |-> stage[k]]
           told == ApplyParameters(ps)
<1>1. told = CHOOSE f : Step(f)
  BY DEF ApplyParameters
<1>0. n \in Nat
  OBVIOUS
<1> HIDE DEF next, n
<1>2. \A k \in 1..n : next(stage[k - 1], k) = stage[k]
  BY DEF next, n
<1>3. ASSUME NEW k \in 1..n PROVE read[k] = next(read[k - 1], k)
  <2>1. k - 1 \in 0..n /\ k \in 0..n
    BY <1>0
  <2> QED BY <1>2, <2>1
<1>4. Step(read)
  <2>1. ASSUME NEW k \in 0..n PROVE stage[k] = IF k = 0 THEN Unread ELSE next(read[k - 1], k)
    <3>1. CASE k = 0
      BY <3>1
    <3>2. CASE k \in 1..n
      <4>1. k # 0 /\ read[k] = stage[k]
        BY <3>2
      <4>2. read[k] = next(read[k - 1], k)
        BY <1>3, <3>2
      <4> HIDE DEF read
      <4> QED BY <4>1, <4>2
    <3> QED BY <3>1, <3>2
  <2> QED BY <2>1
<1>5. Step(told)
  <2> HIDE DEF Step, told
  <2> QED BY <1>1, <1>4
<1>6. told[0] = Unread /\ \A k \in 1..n : told[k] = next(told[k - 1], k)
  <2> HIDE DEF told
  <2>1. \A k \in 0..n : told[k] = IF k = 0 THEN Unread ELSE next(told[k - 1], k)
    BY <1>5
  <2> QED BY <1>0, <2>1
<1> HIDE DEF told, Step, read
<1>7. \A k \in 1..n : told[k - 1] = stage[k - 1] => told[k] = stage[k]
  BY <1>2, <1>6
<1>8. told[0] = stage[0] /\ n \in 0..n
  BY <1>0, <1>6
<1>9. \A k \in 0..n : told[k] = stage[k]
  BY <1>0, <1>7, <1>8, SameByStep
<1> QED BY <1>8, <1>9 DEF told, n

(***************************************************************************)
(* What the other participant learns of an entity is what was registered.  *)
(***************************************************************************)
LEMMA AnnouncedIs ==
  ASSUME NEW e, IsEntity(e)
  PROVE  Announced(e) = IF <<>> \in {e.topic, e.type} THEN None
                        ELSE [topic |-> e.topic, type |-> e.type, qos |-> e.qos,
                              partition |-> OrDefault(e.partition)]
<1> DEFINE r == Register(e)
           ps == SedpParameters(r)
           m == TypeAt(r)
           n == m + 11
           stage == [k \in 0..n |-> EpStage(r, m, k)]
<1>1. /\ r.topic = e.topic /\ r.type = e.type /\ r.qos = e.qos
      /\ r.partition = OrDefault(e.partition) /\ r.qos \in Qos
  BY Registered
<1>2. m \in {2, 3}
  BY DEF TypeAt
<1>3. Len(ps) = n
  BY ParametersAre
<1>4. Announced(e) = ParseSedp(ps)
  BY AnnouncementRead DEF Announced
<1>5. \A k \in 1..n : ApplyParameter(EpStage(r, m, k - 1), ps[k]) = EpStage(r, m, k)
  BY ParameterApplied
<1> HIDE DEF r, ps, m
<1>6. stage[0] = Unread
  <2>1. EpStage(r, m, 0).qos = DefaultQos
    BY <1>1, <1>2, StageBounds DEF EpStage
  <2>2. EpStage(r, m, 0) = Unread
    BY <1>2, <2>1 DEF EpStage, Unread
  <2>3. 0 \in 0..n
    BY <1>2
  <2> QED BY <2>2, <2>3
<1>7. \A k \in 1..n : ApplyParameter(stage[k - 1], ps[k]) = stage[k]
  <2> SUFFICES ASSUME NEW k \in 1..n PROVE ApplyParameter(stage[k - 1], ps[k]) = stage[k]
    OBVIOUS
  <2>1. k - 1 \in 0..n /\ k \in 0..n
    BY <1>2
  <2>2. stage[k - 1] = EpStage(r, m, k - 1) /\ stage[k] = EpStage(r, m, k)
    BY <2>1
  <2> HIDE DEF stage, n
  <2> QED BY <1>5, <2>2
<1>8. stage[n] = [topic |-> r.topic, type |-> r.type, qos |-> r.qos, partition |-> r.partition]
  <2>1. EpStage(r, m, n).qos = r.qos
    BY <1>1, <1>2, StageBounds DEF EpStage
  <2>2. n \in 0..n /\ n >= 1 /\ n >= m /\ n >= m + 11
    BY <1>2
  <2> QED BY <2>1, <2>2 DEF EpStage
<1>9. n \in Nat
  BY <1>2
<1> HIDE DEF stage, n
<1>10. ApplyParameters(ps)[n] = stage[n]
  <2>1. Len(ps) \in Nat /\ \A k \in 1..Len(ps) : ApplyParameter(stage[k - 1], ps[k]) = stage[k]
    BY <1>3, <1>7, <1>9
  <2>2. ApplyParameters(ps)[Len(ps)] = stage[Len(ps)]
    BY <1>6, <2>1, StagesReached
  <2> QED BY <1>3, <2>2
<1> QED BY <1>1, <1>3, <1>4, <1>8, <1>10 DEF ParseSedp

(***************************************************************************)
(* run_matchmaking: the two participants compare the same names, partition *)
(* lists and policies, so they reach one verdict.                          *)
(***************************************************************************)
THEOREM EntitiesAgree ==
  ASSUME NEW writer, NEW reader, IsEntity(writer), IsEntity(reader)
  PROVE  SidesAgree(writer, reader)
<1> DEFINE Whole(e) == [topic |-> e.topic, type |-> e.type, qos |-> e.qos,
                        partition |-> OrDefault(e.partition)]
           Nameless(e) == <<>> \in {e.topic, e.type}
<1>1. ASSUME NEW e, IsEntity(e)
      PROVE  /\ Nameless(e) => Announced(e) = None
             /\ ~Nameless(e) => Announced(e) = Whole(e) /\ Announced(e) # None
  <2>1. ~Nameless(e) => Whole(e).topic # None.topic
    BY DEF None
  <2>2. Announced(e) = IF Nameless(e) THEN None ELSE Whole(e)
    BY <1>1, AnnouncedIs
  <2> HIDE DEF Nameless, Whole
  <2> QED BY <2>1, <2>2
<1>2. \A e \in {writer, reader} : Announced(e) = None <=> Nameless(e)
  BY <1>1
<1>3. OrDefault(OrDefault(writer.partition)) = OrDefault(writer.partition)
      /\ OrDefault(OrDefault(reader.partition)) = OrDefault(reader.partition)
  BY Registered DEF Register
<1>4. \A a, b : CheckPartitionNames(a, b) <=> CheckPartitionNames(b, a)
  BY DEF CheckPartitionNames
<1>5. CheckPartitionNames(OrDefault(reader.partition), writer.partition)
        <=> CheckPartitionNames(OrDefault(writer.partition), OrDefault(reader.partition))
  BY <1>3 DEF CheckPartitionNames
<1>6. Register(reader).partition = OrDefault(reader.partition)
  BY DEF Register
<1>7. CASE ~Nameless(writer) /\ ~Nameless(reader)
  <2>1. Announced(writer) = Whole(writer) /\ Announced(reader) = Whole(reader)
        /\ Announced(writer) # None /\ Announced(reader) # None
    BY <1>1, <1>7
  <2>2. WriterSideMatches(writer, Announced(reader))
          <=> /\ writer.topic = reader.topic /\ writer.type = reader.type
              /\ CheckQosCompatibility(writer.qos, reader.qos)
              /\ CheckPartitionNames(OrDefault(reader.partition), writer.partition)
    BY <2>1 DEF WriterSideMatches
  <2>3. ReaderSideMatches(reader, Announced(writer))
          <=> /\ writer.topic = reader.topic /\ writer.type = reader.type
              /\ CheckQosCompatibility(writer.qos, reader.qos)
              /\ CheckPartitionNames(OrDefault(writer.partition), OrDefault(reader.partition))
    BY <1>6, <2>1 DEF ReaderSideMatches
  <2> QED BY <1>2, <1>5, <2>2, <2>3 DEF SidesAgree
<1>8. CASE Nameless(writer) \/ Nameless(reader)
  <2>1. ~WriterSideMatches(writer, Announced(reader))
    <3>1. CASE Nameless(reader)
      BY <1>2, <3>1 DEF WriterSideMatches
    <3>2. CASE ~Nameless(reader) /\ Nameless(writer)
      BY <1>1, <3>2 DEF WriterSideMatches
    <3> QED BY <1>8, <3>1, <3>2
  <2>2. ~ReaderSideMatches(reader, Announced(writer))
    <3>1. CASE Nameless(writer)
      BY <1>2, <3>1 DEF ReaderSideMatches
    <3>2. CASE ~Nameless(writer) /\ Nameless(reader)
      BY <1>1, <3>2 DEF ReaderSideMatches
    <3> QED BY <1>8, <3>1, <3>2
  <2> QED BY <1>2, <2>1, <2>2 DEF SidesAgree
<1> QED BY <1>7, <1>8

-----------------------------------------------------------------------------
(* Lists of locators                                                       *)

\* The k-th of some places has k - 1 before it, and is alone in that.
IsNth(places, k, i) ==
  /\ i \in places
  /\ \A x \in places : Cardinality({j \in places : j < x}) = k - 1 <=> x = i

LEMMA NthIs ==
  ASSUME NEW places, NEW k, NEW i, IsNth(places, k, i)
  PROVE  Nth(places, k) = i
<1> DEFINE Good(x) == Cardinality({j \in places : j < x}) = k - 1
<1>1. Nth(places, k) = CHOOSE x \in places : Good(x)
  BY DEF Nth
<1>2. i \in places /\ \A x \in places : Good(x) <=> x = i
  BY DEF IsNth
<1> HIDE DEF Good
<1> QED BY <1>1, <1>2

LEMMA PlacesAre ==
  ASSUME NEW list
  PROVE  /\ AtPlaces(list, {}) = <<>>
         /\ \A i \in Int : AtPlaces(list, {i}) = <<list[i]>>
         /\ \A i, j \in Int : i < j => AtPlaces(list, {i, j}) = <<list[i], list[j]>>
<1>1. Cardinality({}) = 0 /\ \A x : Cardinality({x}) = 1
  BY FS_EmptySet, FS_Singleton
<1>2. AtPlaces(list, {}) = <<>>
  BY <1>1 DEF AtPlaces
<1>3. ASSUME NEW i \in Int PROVE AtPlaces(list, {i}) = <<list[i]>>
  <2>1. {j \in {i} : j < i} = {}
    OBVIOUS
  <2>2. Cardinality({j \in {i} : j < i}) = 1 - 1
    BY <1>1, <2>1
  <2>3. IsNth({i}, 1, i)
    BY <2>2 DEF IsNth
  <2>4. Nth({i}, 1) = i
    BY <2>3, NthIs, Zenon
  <2>5. AtPlaces(list, {i}) = [k \in 1..1 |-> list[Nth({i}, k)]]
    BY <1>1 DEF AtPlaces
  <2> QED BY <2>4, <2>5
<1>4. ASSUME NEW i \in Int, NEW j \in Int, i < j
      PROVE  AtPlaces(list, {i, j}) = <<list[i], list[j]>>
  <2> DEFINE S == {i, j}
             below(x) == {l \in S : l < x}
  <2>1. Cardinality(S) = 2
    <3>1. IsFiniteSet({i}) /\ j \notin {i} /\ {i} \cup {j} = S
      BY <1>4, FS_Singleton
    <3>2. Cardinality({i} \cup {j}) = Cardinality({i}) + 1
      BY <3>1, FS_AddElement
    <3> QED BY <3>1, <3>2, <1>1
  <2>2. below(i) = {} /\ below(j) = {i}
    BY <1>4
  <2>3. Cardinality(below(i)) = 0 /\ Cardinality(below(j)) = 1
    BY <1>1, <2>2
  <2>4. \A x \in S : /\ Cardinality(below(x)) = 1 - 1 <=> x = i
                     /\ Cardinality(below(x)) = 2 - 1 <=> x = j
    BY <1>4, <2>3
  <2> HIDE DEF S
  <2>5. IsNth(S, 1, i) /\ IsNth(S, 2, j)
    <3>1. i \in S /\ j \in S
      BY DEF S
    <3> QED BY <2>4, <3>1 DEF IsNth, below
  <2>6. AtPlaces(list, S) = [k \in 1..2 |-> list[Nth(S, k)]]
    BY <2>1 DEF AtPlaces
  <2>7. Nth(S, 1) = i /\ Nth(S, 2) = j
    BY <2>5, NthIs, Zenon
  <2>8. AtPlaces(list, S) = <<list[i], list[j]>>
    BY <2>6, <2>7
  <2> QED BY <2>8 DEF S
<1> QED BY <1>2, <1>3, <1>4

\* A list of one element, once or twice, is in order.
LEMMA OneIsInOrder ==
  ASSUME NEW u,
         NEW counts, \A i \in 1..2 : counts[i] = Cardinality({j \in 1..2 : j < i}),
         NEW count, \A i \in 1..1 : count[i] = Cardinality({j \in 1..1 : j < i})
  PROVE  Arrange(<<u>>, count) = <<u>> /\ Arrange(<<u, u>>, counts) = <<u, u>>
<1>1. Cardinality({}) = 0 /\ Cardinality({1}) = 1
  BY FS_EmptySet, FS_Singleton
<1>2. /\ {j \in 1..1 : j < 1} = {} /\ {j \in 1..2 : j < 1} = {}
      /\ {j \in 1..2 : j < 2} = {1}
  OBVIOUS
<1>3. 1 \in 1..1 /\ 1 \in 1..2 /\ 2 \in 1..2
  OBVIOUS
<1>4. count[1] = 0 /\ counts[1] = 0 /\ counts[2] = 1
  BY <1>1, <1>2, <1>3
<1>5. Arrange(<<u>>, count) = <<u>>
  <2>1. \E i \in DOMAIN <<u>> : count[i] = 1 - 1
    BY <1>4
  <2> DEFINE at == CHOOSE i \in DOMAIN <<u>> : count[i] = 1 - 1
  <2>2. at \in DOMAIN <<u>>
    BY <2>1, Zenon
  <2>3. <<u>>[at] = u
    <3> HIDE DEF at
    <3> QED BY <2>2
  <2>4. Arrange(<<u>>, count) = <<(<<u>>[at])>>
    BY DEF Arrange
  <2> HIDE DEF at
  <2> QED BY <2>3, <2>4
<1>6. Arrange(<<u, u>>, counts) = <<u, u>>
  <2>1. \E i \in DOMAIN <<u, u>> : counts[i] = 1 - 1
    BY <1>4
  <2>2. \E i \in DOMAIN <<u, u>> : counts[i] = 2 - 1
    BY <1>4
  <2> DEFINE one == CHOOSE i \in DOMAIN <<u, u>> : counts[i] = 1 - 1
             two == CHOOSE i \in DOMAIN <<u, u>> : counts[i] = 2 - 1
  <2>3. one \in DOMAIN <<u, u>>
    BY <2>1, Zenon
  <2>4. two \in DOMAIN <<u, u>>
    BY <2>2, Zenon
  <2>5. <<u, u>>[one] = u /\ <<u, u>>[two] = u
    <3> HIDE DEF one, two
    <3> QED BY <2>3, <2>4
  <2>6. Arrange(<<u, u>>, counts) = <<(<<u, u>>[one]), (<<u, u>>[two])>>
    BY DEF Arrange
  <2> HIDE DEF one, two
  <2> QED BY <2>5, <2>6
<1> QED BY <1>5, <1>6

\* Lists of one locator, once or twice.
LEMMA RepeatedIs ==
  ASSUME NEW u, u.port \in Int, u.address \in Addresses
  PROVE  /\ Dedup(<<u>>) = <<u>> /\ Dedup(<<u, u>>) = <<u>>
         /\ SortByPort(<<u>>) = <<u>> /\ SortByPort(<<u, u>>) = <<u, u>>
         /\ SortByPortAndAddress(<<u, u>>) = <<u, u>>
<1>1. {i \in DOMAIN <<u>> : i = 1 \/ <<u>>[i] # <<u>>[i - 1]} = {1}
  OBVIOUS
<1>2. {i \in DOMAIN <<u, u>> : i = 1 \/ <<u, u>>[i] # <<u, u>>[i - 1]} = {1}
  OBVIOUS
<1>3. Dedup(<<u>>) = <<u>> /\ Dedup(<<u, u>>) = <<u>>
  BY <1>1, <1>2, PlacesAre DEF Dedup
<1> DEFINE count == [i \in 1..1 |-> Cardinality({j \in 1..1 : j < i})]
           counts == [i \in 1..2 |-> Cardinality({j \in 1..2 : j < i})]
<1>4. Arrange(<<u>>, count) = <<u>> /\ Arrange(<<u, u>>, counts) = <<u, u>>
  <2>1. \A i \in 1..1 : count[i] = Cardinality({j \in 1..1 : j < i})
    OBVIOUS
  <2>2. \A i \in 1..2 : counts[i] = Cardinality({j \in 1..2 : j < i})
    OBVIOUS
  <2> HIDE DEF count, counts
  <2> QED BY <2>1, <2>2, OneIsInOrder
<1>5. ~(u.port < u.port) /\ ~(Rank[u.address] < Rank[u.address])
  BY DEF Rank, Addresses
<1>6. SortByPort(<<u>>) = Arrange(<<u>>, count)
  BY <1>5 DEF SortByPort, SortBy
<1> DEFINE twice == <<u, u>>
<1>7. DOMAIN twice = 1..2 /\ \A i \in 1..2 : twice[i] = u
  OBVIOUS
<1> HIDE DEF twice
<1>8. SortByPort(twice) = Arrange(twice, counts)
  <2> DEFINE Below(a, b) == a.port < b.port
             ahead(i) == {j \in DOMAIN twice :
                            Below(twice[j], twice[i]) \/ (~Below(twice[i], twice[j]) /\ j < i)}
             places == [i \in DOMAIN twice |-> Cardinality(ahead(i))]
  <2>1. \A i \in 1..2 : ahead(i) = {j \in 1..2 : j < i}
    BY <1>5, <1>7
  <2>2. SortByPort(twice) = Arrange(twice, places)
    BY DEF SortByPort, SortBy
  <2> HIDE DEF ahead
  <2>3. places = counts
    BY <1>7, <2>1
  <2> HIDE DEF places, counts
  <2> QED BY <2>2, <2>3
<1>9. SortByPortAndAddress(twice) = Arrange(twice, counts)
  <2> DEFINE Below(a, b) == \/ a.port < b.port
                            \/ a.port = b.port /\ Rank[a.address] < Rank[b.address]
             ahead(i) == {j \in DOMAIN twice :
                            Below(twice[j], twice[i]) \/ (~Below(twice[i], twice[j]) /\ j < i)}
             places == [i \in DOMAIN twice |-> Cardinality(ahead(i))]
  <2>1. \A i \in 1..2 : ahead(i) = {j \in 1..2 : j < i}
    BY <1>5, <1>7
  <2>2. SortByPortAndAddress(twice) = Arrange(twice, places)
    BY DEF SortByPortAndAddress, SortBy
  <2> HIDE DEF ahead
  <2>3. places = counts
    BY <1>7, <2>1
  <2> HIDE DEF places, counts
  <2> QED BY <2>2, <2>3
<1> HIDE DEF count, counts
<1> QED BY <1>3, <1>4, <1>6, <1>8, <1>9 DEF twice

\* A locator that a datagram can be sent to passes every filter.
LEMMA FiltersKeep ==
  ASSUME NEW u, u.kind = 1, u.port # 0
  PROVE  FilterValid(<<u>>) = <<u>> /\ FilterValid(<<u, u>>) = <<u, u>>
<1>1. {i \in DOMAIN <<u>> : HasIpv4(<<u>>[i]) /\ <<u>>[i].port # 0} = {1}
  BY DEF HasIpv4
<1>2. {i \in DOMAIN <<u, u>> : HasIpv4(<<u, u>>[i]) /\ <<u, u>>[i].port # 0} = {1, 2}
  BY DEF HasIpv4
<1>3. FilterValid(<<u>>) = AtPlaces(<<u>>, {1})
  BY <1>1 DEF FilterValid, Keep
<1>4. FilterValid(<<u, u>>) = AtPlaces(<<u, u>>, {1, 2})
  BY <1>2 DEF FilterValid, Keep
<1> QED BY <1>3, <1>4, PlacesAre

LEMMA FilterEmpty == FilterValid(<<>>) = <<>>
<1>1. {i \in DOMAIN <<>> : HasIpv4(<<>>[i]) /\ <<>>[i].port # 0} = {}
  OBVIOUS
<1> QED BY <1>1, PlacesAre DEF FilterValid, Keep

LEMMA FirstTaken ==
  ASSUME NEW lists, 1 \in DOMAIN lists, \A i \in DOMAIN lists : i \in Nat /\ 1 <= i,
         lists[1] # <<>>
  PROVE  FirstNonEmpty(lists) = lists[1]
<1> DEFINE full == {i \in DOMAIN lists : lists[i] # <<>>}
<1>1. 1 \in full /\ \A j \in full : 1 <= j /\ j \in Nat
  OBVIOUS
<1>2. FirstNonEmpty(lists) = lists[CHOOSE i \in full : \A j \in full : i <= j]
  BY <1>1 DEF FirstNonEmpty
<1> HIDE DEF full
<1>3. \A i \in full : (\A j \in full : i <= j) => i = 1
  BY <1>1
<1>4. (CHOOSE i \in full : \A j \in full : i <= j) = 1
  <2> DEFINE Least(i) == \A j \in full : i <= j
  <2>1. 1 \in full /\ Least(1) /\ \A i \in full : Least(i) => i = 1
    BY <1>1, <1>3
  <2> HIDE DEF Least
  <2>2. (CHOOSE i \in full : Least(i)) = 1
    BY <2>1
  <2> QED BY <2>2 DEF Least
<1> QED BY <1>2, <1>4

LEMMA FirstOfTwo ==
  ASSUME NEW u, NEW v
  PROVE  FirstNonEmpty(<<<<u>>, v>>) = <<u>>
<1> DEFINE lists == <<<<u>>, v>>
           first == <<u>>
<1>1. DOMAIN lists = 1..2 /\ lists[1] = first /\ first # <<>>
  OBVIOUS
<1> HIDE DEF lists, first
<1>2. 1 \in DOMAIN lists /\ \A i \in DOMAIN lists : i \in Nat /\ 1 <= i
  BY <1>1
<1>3. FirstNonEmpty(lists) = first
  BY <1>1, <1>2, FirstTaken
<1> QED BY <1>3 DEF lists, first

(***************************************************************************)
(* The destinations of an endpoint and of a participant whose locators are *)
(* one address and port: that one.                                         *)
(***************************************************************************)
LEMMA UserDestination ==
  ASSUME NEW u, u.kind = 1, u.port \in Nat \ {0}, u.address \in Addresses, ~IsPlaceholder(u),
         NEW ep, ep.unicast = <<u, u>>, NEW participant
  PROVE  UserTrafficLocators(ep, participant) = <<u>>
<1> DEFINE twice == <<u, u>>
           lists == <<FilterValid(ep.unicast), FilterValid(ep.metatraffic),
                      FilterValid(participant.unicast), FilterValid(participant.metatraffic)>>
           real == Keep(twice, LAMBDA loc : ~IsPlaceholder(loc))
           offBridge == Keep(twice, LAMBDA loc : ~IsBridge(loc))
           routable == \E i \in DOMAIN twice : ~IsLoopback(twice[i]) /\ ~IsBridge(twice[i])
<1>1. FilterValid(ep.unicast) = twice
  BY FiltersKeep
<1>2. DOMAIN twice = 1..2 /\ (\A i \in 1..2 : twice[i] = u) /\ twice # <<>>
  OBVIOUS
<1>3. DOMAIN lists = 1..4 /\ lists[1] = FilterValid(ep.unicast)
  OBVIOUS
<1>4. FirstNonEmpty(lists) = twice
  <2> HIDE DEF lists, twice
  <2> QED BY <1>1, <1>2, <1>3, FirstTaken
<1>5. AtPlaces(twice, {1, 2}) = twice
  BY PlacesAre
<1>6. real = twice
  <2>1. {i \in DOMAIN twice : ~IsPlaceholder(twice[i])} = {1, 2}
    <3> HIDE DEF twice
    <3> QED BY <1>2
  <2> HIDE DEF twice
  <2> QED BY <2>1, <1>5 DEF Keep
<1>7. ~IsBridge(u) => offBridge = twice
  <2> SUFFICES ASSUME ~IsBridge(u) PROVE offBridge = twice
    OBVIOUS
  <2>1. {i \in DOMAIN twice : ~IsBridge(twice[i])} = {1, 2}
    <3> HIDE DEF twice
    <3> QED BY <1>2
  <2> HIDE DEF twice
  <2> QED BY <2>1, <1>5 DEF Keep
<1>8. routable => ~IsBridge(u)
  <2> HIDE DEF twice
  <2> QED BY <1>2
<1>9. UserTrafficLocators(ep, participant)
        = LET kept == Keep(FirstNonEmpty(lists), LAMBDA loc : ~IsPlaceholder(loc))
          IN  Dedup(SortByPort(
                IF \E i \in DOMAIN kept : ~IsLoopback(kept[i]) /\ ~IsBridge(kept[i])
                THEN Keep(kept, LAMBDA loc : ~IsBridge(loc)) ELSE kept))
  BY DEF UserTrafficLocators
<1>10. UserTrafficLocators(ep, participant)
         = Dedup(SortByPort(IF routable THEN offBridge ELSE twice))
  <2> HIDE DEF lists
  <2> QED BY <1>4, <1>6, <1>9
<1>11. UserTrafficLocators(ep, participant) = Dedup(SortByPort(twice))
  <2> HIDE DEF routable, offBridge, twice
  <2> QED BY <1>7, <1>8, <1>10
<1>12. u.port \in Int
  OBVIOUS
<1>13. Dedup(<<u>>) = <<u>> /\ SortByPort(<<u, u>>) = <<u, u>> /\ Dedup(<<u, u>>) = <<u>>
  BY <1>12, RepeatedIs
<1> QED BY <1>11, <1>13

LEMMA SedpDestination ==
  ASSUME NEW u, u.kind = 1, u.port \in Nat \ {0}, u.address \in Addresses, ~IsPlaceholder(u),
         NEW participant, participant.metatraffic = <<u>>
  PROVE  SedpRequestDestinations(participant) = <<u>>
<1> DEFINE once == <<u>>
           lists == <<FilterValid(participant.metatraffic), FilterValid(participant.unicast)>>
<1>1. FilterValid(participant.metatraffic) = once
  BY FiltersKeep
<1>2. DOMAIN once = 1..1 /\ once[1] = u /\ once # <<>>
  OBVIOUS
<1>3. DOMAIN lists = 1..2 /\ lists[1] = FilterValid(participant.metatraffic)
  OBVIOUS
<1>4. FirstNonEmpty(lists) = once
  <2> HIDE DEF lists, once
  <2> QED BY <1>1, <1>2, <1>3, FirstTaken
<1>5. AtPlaces(once, {1}) = once
  BY PlacesAre
<1>6. Keep(once, LAMBDA loc : ~IsPlaceholder(loc)) = once
  <2>1. {i \in DOMAIN once : ~IsPlaceholder(once[i])} = {1}
    <3> HIDE DEF once
    <3> QED BY <1>2
  <2> HIDE DEF once
  <2> QED BY <2>1, <1>5 DEF Keep
<1>7. SedpRequestDestinations(participant) = Dedup(SortByPort(once))
  <2> HIDE DEF once
  <2> QED BY <1>4, <1>6 DEF SedpRequestDestinations
<1>8. u.port \in Int
  OBVIOUS
<1>9. SortByPort(<<u>>) = <<u>> /\ Dedup(<<u>>) = <<u>>
  BY <1>8, RepeatedIs
<1> QED BY <1>7, <1>9

-----------------------------------------------------------------------------
(* Locators on the wire                                                    *)

LEMMA ParametersOfOne ==
  ASSUME NEW u, NEW pid, NEW other
  PROVE  /\ LocatorParameters(pid, <<u>>) = <<[pid |-> pid, locator |-> u]>>
         /\ UnderEach(<<pid, other>>, <<u>>)
              = <<[pid |-> pid, locator |-> u], [pid |-> other, locator |-> u]>>
         /\ UnderEach(<<pid, other>>, <<>>) = <<>>
<1>1. LocatorParameters(pid, <<u>>) = <<[pid |-> pid, locator |-> u]>>
  BY DEF LocatorParameters
<1>2. Len(<<pid, other>>) * Len(<<u>>) = 2 /\ Len(<<pid, other>>) * Len(<<>>) = 0
  OBVIOUS
<1>3. UnderEach(<<pid, other>>, <<>>) = <<>>
  BY <1>2 DEF UnderEach
<1>4. ((1 - 1) % 2) + 1 = 1 /\ ((2 - 1) % 2) + 1 = 2 /\ ((1 - 1) \div 2) + 1 = 1
      /\ ((2 - 1) \div 2) + 1 = 1
  OBVIOUS
<1>5. UnderEach(<<pid, other>>, <<u>>)
        = [i \in 1..2 |-> [pid     |-> <<pid, other>>[((i - 1) % 2) + 1],
                           locator |-> <<u>>[((i - 1) \div 2) + 1]]]
  BY <1>2 DEF UnderEach
<1>6. UnderEach(<<pid, other>>, <<u>>)
        = <<[pid |-> pid, locator |-> u], [pid |-> other, locator |-> u]>>
  BY <1>4, <1>5
<1> QED BY <1>1, <1>3, <1>6

IsJoined(s, t, u) ==
  /\ Len(u) = Len(s) + Len(t)
  /\ \A i \in 1..Len(s) : u[i] = s[i]
  /\ \A i \in 1..Len(t) : u[Len(s) + i] = t[i]

LEMMA JoinedIs ==
  ASSUME NEW S, NEW s \in Seq(S), NEW t \in Seq(S), NEW u \in Seq(S), IsJoined(s, t, u)
  PROVE  s \o t = u
<1> USE DEF IsJoined
<1> DEFINE w == s \o t
<1>1. /\ w \in Seq(S) /\ Len(w) = Len(s) + Len(t)
      /\ \A i \in 1..Len(s) + Len(t) : w[i] = IF i <= Len(s) THEN s[i] ELSE t[i - Len(s)]
  BY ConcatProperties
<1> HIDE DEF w
<1>2. ASSUME NEW i \in 1..Len(u) PROVE w[i] = u[i]
  <2>1. CASE i <= Len(s)
    BY <1>1, <2>1
  <2>2. CASE i > Len(s)
    <3>1. i - Len(s) \in 1..Len(t) /\ i = Len(s) + (i - Len(s))
      BY <2>2
    <3>2. w[i] = t[i - Len(s)]
      BY <1>1, <2>2
    <3> QED BY <3>1, <3>2
  <2> QED BY <2>1, <2>2
<1>3. w = u
  BY <1>1, <1>2
<1> QED BY <1>3 DEF w

LEMMA ThreeJoined ==
  ASSUME NEW a, NEW b, NEW c
  PROVE  <<a>> \o <<b, c>> \o <<>> = <<a, b, c>>
<1> DEFINE S == {a, b, c}
<1>0. a \in S /\ b \in S /\ c \in S
  OBVIOUS
<1> HIDE DEF S
<1>1. <<a>> \o <<b, c>> = <<a, b, c>>
  <2> DEFINE left == <<a>>
             right == <<b, c>>
             whole == <<a, b, c>>
  <2>1. left \in Seq(S) /\ right \in Seq(S) /\ whole \in Seq(S)
    BY <1>0
  <2>2. Len(left) = 1 /\ Len(right) = 2 /\ Len(whole) = 3
    OBVIOUS
  <2>3. \A i \in 1..1 : whole[i] = left[i]
    OBVIOUS
  <2>4. \A i \in 1..2 : whole[1 + i] = right[i]
    OBVIOUS
  <2> HIDE DEF left, right, whole
  <2>5. IsJoined(left, right, whole)
    BY <2>2, <2>3, <2>4 DEF IsJoined
  <2>6. left \o right = whole
    BY <2>1, <2>5, JoinedIs
  <2> QED BY <2>6 DEF left, right, whole
<1>2. <<a, b, c>> \in Seq(S)
  BY <1>0
<1> QED BY <1>1, <1>2

LEMMA TenJoined ==
  ASSUME NEW a1, NEW a2, NEW a3, NEW a4, NEW a5, NEW a6, NEW b, NEW c, NEW d, NEW e
  PROVE  <<a1, a2, a3, a4, a5, a6>> \o <<b>> \o <<c>> \o <<d, e>>
           = <<a1, a2, a3, a4, a5, a6, b, c, d, e>>
<1> DEFINE S == {a1, a2, a3, a4, a5, a6, b, c, d, e}
<1>0. /\ a1 \in S /\ a2 \in S /\ a3 \in S /\ a4 \in S /\ a5 \in S /\ a6 \in S
      /\ b \in S /\ c \in S /\ d \in S /\ e \in S
  OBVIOUS
<1> HIDE DEF S
<1>1. <<a1, a2, a3, a4, a5, a6>> \o <<b>> = <<a1, a2, a3, a4, a5, a6, b>>
  <2> DEFINE left == <<a1, a2, a3, a4, a5, a6>>
             right == <<b>>
             whole == <<a1, a2, a3, a4, a5, a6, b>>
  <2>1. left \in Seq(S) /\ right \in Seq(S) /\ whole \in Seq(S)
    BY <1>0
  <2>2. Len(left) = 6 /\ Len(right) = 1 /\ Len(whole) = 7
    OBVIOUS
  <2>3. \A i \in 1..6 : whole[i] = left[i]
    OBVIOUS
  <2>4. \A i \in 1..1 : whole[6 + i] = right[i]
    OBVIOUS
  <2> HIDE DEF left, right, whole
  <2>5. IsJoined(left, right, whole)
    BY <2>2, <2>3, <2>4 DEF IsJoined
  <2>6. left \o right = whole
    BY <2>1, <2>5, JoinedIs
  <2> QED BY <2>6 DEF left, right, whole
<1>2. <<a1, a2, a3, a4, a5, a6, b>> \o <<c>> = <<a1, a2, a3, a4, a5, a6, b, c>>
  <2> DEFINE left == <<a1, a2, a3, a4, a5, a6, b>>
             right == <<c>>
             whole == <<a1, a2, a3, a4, a5, a6, b, c>>
  <2>1. left \in Seq(S) /\ right \in Seq(S) /\ whole \in Seq(S)
    BY <1>0
  <2>2. Len(left) = 7 /\ Len(right) = 1 /\ Len(whole) = 8
    OBVIOUS
  <2>3. \A i \in 1..7 : whole[i] = left[i]
    OBVIOUS
  <2>4. \A i \in 1..1 : whole[7 + i] = right[i]
    OBVIOUS
  <2> HIDE DEF left, right, whole
  <2>5. IsJoined(left, right, whole)
    BY <2>2, <2>3, <2>4 DEF IsJoined
  <2>6. left \o right = whole
    BY <2>1, <2>5, JoinedIs
  <2> QED BY <2>6 DEF left, right, whole
<1>3. <<a1, a2, a3, a4, a5, a6, b, c>> \o <<d, e>> = <<a1, a2, a3, a4, a5, a6, b, c, d, e>>
  <2> DEFINE left == <<a1, a2, a3, a4, a5, a6, b, c>>
             right == <<d, e>>
             whole == <<a1, a2, a3, a4, a5, a6, b, c, d, e>>
  <2>1. left \in Seq(S) /\ right \in Seq(S) /\ whole \in Seq(S)
    BY <1>0
  <2>2. Len(left) = 8 /\ Len(right) = 2 /\ Len(whole) = 10
    OBVIOUS
  <2>3. \A i \in 1..8 : whole[i] = left[i]
    OBVIOUS
  <2>4. \A i \in 1..2 : whole[8 + i] = right[i]
    OBVIOUS
  <2> HIDE DEF left, right, whole
  <2>5. IsJoined(left, right, whole)
    BY <2>2, <2>3, <2>4 DEF IsJoined
  <2>6. left \o right = whole
    BY <2>1, <2>5, JoinedIs
  <2> QED BY <2>6 DEF left, right, whole
<1> QED BY <1>1, <1>2, <1>3

LEMMA LocatorParsed ==
  ASSUME NEW address, NEW port
  PROVE  ParseLocator(UdpV4(address, port)) = UdpV4(address, port)
BY DEF ParseLocator, UdpV4, Locator, LocatorKind

LEMMA LocatorSizes ==
  /\ 24 \in Nat /\ Pad4(24) <= MaxU16 /\ Pad4(16) <= MaxU16 /\ Pad4(8) <= MaxU16
  /\ Pad4(4) <= MaxU16 /\ Pad4(2) <= MaxU16
BY DEF Pad4, MaxU16

\* What is found of an endpoint's locators.
LEMMA EndpointLocators ==
  ASSUME NEW address, NEW port \in Nat
  PROVE  LET own == OwnEndpoint(address, port)
             u == UdpV4(address, UserPort(port))
             m == UdpV4(address, port)
         IN  ParseSedpLocators(Unframe(Frame(SedpLocators(own))))
               = [unicast |-> FilterValid(<<u, u>>), metatraffic |-> FilterValid(<<m>>),
                  multicast |-> FilterValid(<<>>)]
<1> DEFINE own == OwnEndpoint(address, port)
           u == UdpV4(address, UserPort(port))
           m == UdpV4(address, port)
           p == [pid |-> "MetatrafficUnicast", locator |-> m]
           q == [pid |-> "DefaultUnicast", locator |-> u]
           r == [pid |-> "Unicast", locator |-> u]
           ps == <<p, q, r>>
           Found(pids) == {i \in DOMAIN ps : ps[i].pid \in pids}
<1>1. own.unicast = <<u>> /\ own.metatraffic = <<m>> /\ own.multicast = <<>>
  BY DEF OwnEndpoint
<1>2. ParseLocator(u) = u /\ ParseLocator(m) = m
  BY LocatorParsed
<1> HIDE DEF own, u, m
<1>3. SedpLocators(own) = ps
  <2>1. LocatorParameters("MetatrafficUnicast", <<m>>) = <<p>>
    BY ParametersOfOne
  <2>2. UnderEach(<<"DefaultUnicast", "Unicast">>, <<u>>) = <<q, r>>
    BY ParametersOfOne
  <2>3. UnderEach(<<"DefaultMulticast", "Multicast">>, <<>>) = <<>>
    BY ParametersOfOne
  <2> HIDE DEF p, q, r
  <2>4. <<p>> \o <<q, r>> \o <<>> = ps
    BY ThreeJoined
  <2> HIDE DEF ps
  <2> QED BY <1>1, <2>1, <2>2, <2>3, <2>4 DEF SedpLocators
<1>4. Unframe(Frame(ps)) = ps
  <2>1. ps \in Seq({p, q, r}) /\ Len(ps) = 3
    OBVIOUS
  <2>2. ValueSize(p) = 24 /\ ValueSize(q) = 24 /\ ValueSize(r) = 24
    BY DEF ValueSize
  <2>3. \A k \in 1..Len(ps) : ValueSize(ps[k]) \in Nat /\ Pad4(ValueSize(ps[k])) <= MaxU16
    <3>1. \A k \in 1..3 : ps[k] = p \/ ps[k] = q \/ ps[k] = r
      OBVIOUS
    <3> HIDE DEF p, q, r, ps
    <3> QED BY <2>1, <2>2, <3>1, LocatorSizes
  <2> HIDE DEF p, q, r, ps
  <2> QED BY <2>1, <2>3, ParametersSurvive
<1>5. /\ Found({"Unicast", "DefaultUnicast"}) = {2, 3}
      /\ Found({"MetatrafficUnicast"}) = {1}
      /\ Found({"Multicast", "DefaultMulticast", "MetatrafficMulticast"}) = {}
  OBVIOUS
<1>6. ps[1].locator = m /\ ps[2].locator = u /\ ps[3].locator = u
  OBVIOUS
<1> HIDE DEF ps
<1>7. \A pids : LocatorsOf(ps, pids)
        = LET chosen == AtPlaces(ps, Found(pids))
          IN  [i \in DOMAIN chosen |-> ParseLocator(chosen[i].locator)]
  BY DEF LocatorsOf, Keep
<1>8. LocatorsOf(ps, {"Unicast", "DefaultUnicast"}) = <<u, u>>
  <2>1. AtPlaces(ps, Found({"Unicast", "DefaultUnicast"})) = <<ps[2], ps[3]>>
    BY <1>5, PlacesAre
  <2> HIDE DEF Found
  <2> QED BY <1>2, <1>6, <1>7, <2>1
<1>9. LocatorsOf(ps, {"MetatrafficUnicast"}) = <<m>>
  <2>1. AtPlaces(ps, Found({"MetatrafficUnicast"})) = <<ps[1]>>
    BY <1>5, PlacesAre
  <2> HIDE DEF Found
  <2> QED BY <1>2, <1>6, <1>7, <2>1
<1>10. LocatorsOf(ps, {"Multicast", "DefaultMulticast", "MetatrafficMulticast"}) = <<>>
  <2>1. AtPlaces(ps, Found({"Multicast", "DefaultMulticast", "MetatrafficMulticast"})) = <<>>
    BY <1>5, PlacesAre
  <2> HIDE DEF Found
  <2> QED BY <1>7, <2>1
<1> HIDE DEF Found
<1> QED BY <1>3, <1>4, <1>8, <1>9, <1>10 DEF ParseSedpLocators, own, u, m

\* What is found of a participant.
LEMMA ParticipantLocators ==
  ASSUME NEW prefix, NEW lease \in Duration, NEW address \in Addresses, NEW port \in Nat \ {0}
  PROVE  LET own == OwnParticipant(prefix, lease, address, port)
         IN  ParseSpdp(Unframe(Frame(SpdpToPlcdr(own)))) = own
<1> DEFINE own == OwnParticipant(prefix, lease, address, port)
           u == UdpV4(address, UserPort(port))
           m == UdpV4(address, port)
           g == MulticastLocator
           a1 == [pid |-> "ProtocolVersion"]
           a2 == [pid |-> "VendorId"]
           a3 == [pid |-> "DomainId"]
           a4 == [pid |-> "BuiltinEndpointSet"]
           a5 == [pid |-> "ParticipantGuid", prefix |-> prefix]
           a6 == [pid |-> "LeaseDuration", time |-> ToWire(lease)]
           b == [pid |-> "MetatrafficUnicast", locator |-> m]
           c == [pid |-> "DefaultUnicast", locator |-> u]
           d == [pid |-> "DefaultMulticast", locator |-> g]
           e == [pid |-> "MetatrafficMulticast", locator |-> g]
           ps == <<a1, a2, a3, a4, a5, a6, b, c, d, e>>
           Found(pids) == {i \in DOMAIN ps : ps[i].pid \in pids}
           Named(name) == {i \in DOMAIN ps : ps[i].pid = name}
           multi == {"DefaultMulticast", "Multicast", "MetatrafficMulticast"}
<1>1. /\ own.unicast = <<u>> /\ own.metatraffic = <<m>> /\ own.multicast = <<g>>
      /\ own.prefix = prefix /\ own.lease = lease
      /\ own = [prefix |-> prefix, lease |-> lease, unicast |-> <<u>>,
                metatraffic |-> <<m>>, multicast |-> <<g>>]
  BY DEF OwnParticipant
<1>2. ParseLocator(u) = u /\ ParseLocator(m) = m /\ ParseLocator(g) = g
  BY LocatorParsed DEF MulticastLocator
<1>3. /\ u.kind = 1 /\ u.port # 0 /\ m.kind = 1 /\ m.port # 0 /\ g.kind = 1 /\ g.port # 0
      /\ g.port \in Int /\ g.address \in Addresses
  BY DiscoveryWireAssumption DEF UdpV4, Locator, UserPort, MulticastLocator, Addresses
<1> HIDE DEF own, u, m, g
<1>4. SpdpToPlcdr(own) = ps
  <2>1. /\ LocatorParameters("MetatrafficUnicast", <<m>>) = <<b>>
        /\ LocatorParameters("DefaultUnicast", <<u>>) = <<c>>
    BY ParametersOfOne
  <2>2. UnderEach(<<"DefaultMulticast", "MetatrafficMulticast">>, <<g>>) = <<d, e>>
    BY ParametersOfOne
  <2>3. SpdpToPlcdr(own)
          = <<a1, a2, a3, a4, a5, a6>> \o LocatorParameters("MetatrafficUnicast", <<m>>)
            \o LocatorParameters("DefaultUnicast", <<u>>)
            \o UnderEach(<<"DefaultMulticast", "MetatrafficMulticast">>, <<g>>)
    BY <1>1 DEF SpdpToPlcdr
  <2> HIDE DEF a1, a2, a3, a4, a5, a6, b, c, d, e
  <2>4. <<a1, a2, a3, a4, a5, a6>> \o <<b>> \o <<c>> \o <<d, e>> = ps
    BY TenJoined
  <2> HIDE DEF ps
  <2> QED BY <2>1, <2>2, <2>3, <2>4
<1>5. Unframe(Frame(ps)) = ps
  <2> DEFINE S == {a1, a2, a3, a4, a5, a6, b, c, d, e}
  <2>1. /\ ValueSize(a1) = 4 /\ ValueSize(a2) = 2 /\ ValueSize(a3) = 4 /\ ValueSize(a4) = 4
        /\ ValueSize(a5) = 16 /\ ValueSize(a6) = 8
    BY DEF ValueSize
  <2>2. ValueSize(b) = 24 /\ ValueSize(c) = 24 /\ ValueSize(d) = 24 /\ ValueSize(e) = 24
    BY DEF ValueSize
  <2> HIDE DEF a1, a2, a3, a4, a5, a6, b, c, d, e
  <2>3. ps \in Seq(S) /\ Len(ps) = 10 /\ \A k \in 1..10 : ps[k] \in S
    OBVIOUS
  <2>4. \A p \in S : ValueSize(p) \in {2, 4, 8, 16, 24}
    BY <2>1, <2>2
  <2>5. \A x \in {2, 4, 8, 16, 24} : x \in Nat /\ Pad4(x) <= MaxU16
    BY LocatorSizes
  <2> HIDE DEF S, ps
  <2>6. \A k \in 1..Len(ps) : ValueSize(ps[k]) \in Nat /\ Pad4(ValueSize(ps[k])) <= MaxU16
    BY <2>3, <2>4, <2>5
  <2> QED BY <2>3, <2>6, ParametersSurvive
<1>6. /\ Found({"DefaultUnicast", "Unicast"}) = {8}
      /\ Found({"MetatrafficUnicast"}) = {7}
      /\ Found(multi) = {9, 10}
  OBVIOUS
<1>7. Named("ParticipantGuid") = {5} /\ Named("LeaseDuration") = {6}
  OBVIOUS
<1>8. /\ ps[7].locator = m /\ ps[8].locator = u /\ ps[9].locator = g /\ ps[10].locator = g
      /\ ps[5].prefix = prefix /\ ps[6].time = ToWire(lease)
  OBVIOUS
<1> HIDE DEF ps
<1>9. \A pids : LocatorsOf(ps, pids)
        = LET chosen == AtPlaces(ps, Found(pids))
          IN  [i \in DOMAIN chosen |-> ParseLocator(chosen[i].locator)]
  BY DEF LocatorsOf, Keep
<1>10. LocatorsOf(ps, {"DefaultUnicast", "Unicast"}) = <<u>>
  <2>0. AtPlaces(ps, {8}) = <<ps[8]>>
    BY PlacesAre
  <2>1. AtPlaces(ps, Found({"DefaultUnicast", "Unicast"})) = <<ps[8]>>
    BY <1>6, <2>0
  <2> HIDE DEF Found
  <2> QED BY <1>2, <1>8, <1>9, <2>1
<1>11. LocatorsOf(ps, {"MetatrafficUnicast"}) = <<m>>
  <2>0. AtPlaces(ps, {7}) = <<ps[7]>>
    BY PlacesAre
  <2>1. AtPlaces(ps, Found({"MetatrafficUnicast"})) = <<ps[7]>>
    BY <1>6, <2>0
  <2> HIDE DEF Found
  <2> QED BY <1>2, <1>8, <1>9, <2>1
<1>12. LocatorsOf(ps, multi) = <<g, g>>
  <2>0. AtPlaces(ps, {9, 10}) = <<ps[9], ps[10]>>
    <3>1. \A i, j \in Int : i < j => AtPlaces(ps, {i, j}) = <<ps[i], ps[j]>>
      BY PlacesAre
    <3> QED BY <3>1
  <2>1. AtPlaces(ps, Found(multi)) = <<ps[9], ps[10]>>
    BY <1>6, <2>0
  <2> HIDE DEF Found, multi
  <2> QED BY <1>2, <1>8, <1>9, <2>1
<1>13. /\ Last(Keep(ps, LAMBDA p : p.pid = "ParticipantGuid")).prefix = prefix
       /\ Last(Keep(ps, LAMBDA p : p.pid = "LeaseDuration")).time = ToWire(lease)
  <2>1. /\ Keep(ps, LAMBDA p : p.pid = "ParticipantGuid") = AtPlaces(ps, Named("ParticipantGuid"))
        /\ Keep(ps, LAMBDA p : p.pid = "LeaseDuration") = AtPlaces(ps, Named("LeaseDuration"))
    BY DEF Keep
  <2>2. /\ AtPlaces(ps, Named("ParticipantGuid")) = <<ps[5]>>
        /\ AtPlaces(ps, Named("LeaseDuration")) = <<ps[6]>>
    <3>1. AtPlaces(ps, {5}) = <<ps[5]>> /\ AtPlaces(ps, {6}) = <<ps[6]>>
      BY PlacesAre
    <3> QED BY <1>7, <3>1
  <2>3. Last(<<ps[5]>>) = ps[5] /\ Last(<<ps[6]>>) = ps[6]
    BY DEF Last
  <2> HIDE DEF Named
  <2> QED BY <1>8, <2>1, <2>2, <2>3
<1>14. FromWire(ToWire(lease)) = lease
  BY DurationSurvivesWire
<1>15. FilterValid(<<u>>) = <<u>> /\ FilterValid(<<m>>) = <<m>> /\ FilterValid(<<g, g>>) = <<g, g>>
  BY <1>3, FiltersKeep
<1>16. FirstNonEmpty(<<<<u>>, <<m>>>>) = <<u>> /\ FirstNonEmpty(<<<<m>>, <<u>>>>) = <<m>>
  BY FirstOfTwo
<1>17. Dedup(SortByPortAndAddress(<<g, g>>)) = <<g>>
  <2>1. SortByPortAndAddress(<<g, g>>) = <<g, g>> /\ Dedup(<<g, g>>) = <<g>>
    BY <1>3, RepeatedIs
  <2> QED BY <2>1
<1> HIDE DEF Found, Named
<1>18. ParseSpdp(ps) = [prefix |-> prefix, lease |-> lease, unicast |-> <<u>>,
                        metatraffic |-> <<m>>, multicast |-> <<g>>]
  BY <1>10, <1>11, <1>12, <1>13, <1>14, <1>15, <1>16, <1>17 DEF ParseSpdp
<1> HIDE DEF ps
<1>19. ParseSpdp(Unframe(Frame(SpdpToPlcdr(own)))) = own
  BY <1>1, <1>4, <1>5, <1>18
<1> QED BY <1>19 DEF own

\* The address a receiver of an announcement uses.
Seen(address, source) == IF address = "loopback" THEN source ELSE address

\* Only loopback is replaced.
Replaces(replaced, address) ==
  "loopback" \in replaced /\ (address = "loopback" \/ address \notin replaced)

IsSeen(address, source, port, replaced) ==
  LET u == UdpV4(address, port)
      v == UdpV4(Seen(address, source), port)
  IN  Remap(<<u>>, replaced, source) = <<v>> /\ Remap(<<u, u>>, replaced, source) = <<v, v>>

LEMMA Remapped ==
  ASSUME NEW address, NEW source, NEW port, NEW replaced, Replaces(replaced, address)
  PROVE  IsSeen(address, source, port, replaced)
<1> USE DEF Replaces
<1> DEFINE u == UdpV4(address, port)
           v == UdpV4(Seen(address, source), port)
           turned == IF source # "loopback" /\ HasIpv4(u) /\ u.address \in replaced
                     THEN UdpV4(source, u.port) ELSE u
<1>1. turned = v
  BY DEF UdpV4, Locator, HasIpv4, Seen
<1>2. Remap(<<u>>, replaced, source) = <<turned>>
  BY DEF Remap
<1>3. Remap(<<u, u>>, replaced, source) = <<turned, turned>>
  BY DEF Remap
<1> HIDE DEF turned, u, v
<1>4. Remap(<<u>>, replaced, source) = <<v>> /\ Remap(<<u, u>>, replaced, source) = <<v, v>>
  BY <1>1, <1>2, <1>3
<1> QED BY <1>4 DEF u, v, IsSeen

(***************************************************************************)
(* Whoever announces itself is sent user data and SEDP where it listens,   *)
(* once, at the address it sends from when it announces loopback: for      *)
(* every port and lease, whether its SPDP or its SEDP comes first.         *)
(***************************************************************************)
THEOREM AnnouncersAreReached ==
  ASSUME NEW prefix, NEW a, IsAnnouncement(a)
  PROVE  DestinationIsAnnouncer(prefix, a.lease, a.address, a.source, a.port)
<1> DEFINE address == a.address
           source == a.source
           port == a.port
           lease == a.lease
           seen == Seen(address, source)
           own == OwnParticipant(prefix, lease, address, port)
           ep == ReceivedEndpoint(OwnEndpoint(address, port), source)
           announced == ReceivedParticipant(own, source)
           u == UdpV4(address, UserPort(port))
           m == UdpV4(address, port)
           x == UdpV4(seen, UserPort(port))
           y == UdpV4(seen, port)
           g == MulticastLocator
           both == {"loopback", "unspecified"}
<1>1. /\ address \in {"loopback", "bridge", "lan"} /\ source \in {"loopback", "bridge", "lan"}
      /\ address \in Addresses /\ port \in Nat \ {0} /\ lease \in Duration
      /\ seen = "loopback" => PlaceholderPort \notin {port, UserPort(port)}
  BY DEF IsAnnouncement, Addresses, Seen
<1>2. /\ x.kind = 1 /\ x.port \in Nat \ {0} /\ x.address \in Addresses /\ ~IsPlaceholder(x)
      /\ y.kind = 1 /\ y.port \in Nat \ {0} /\ y.address \in Addresses /\ ~IsPlaceholder(y)
  BY <1>1 DEF UdpV4, Locator, UserPort, Addresses, IsPlaceholder, IsLoopback, HasIpv4, Seen
<1>3. u.kind = 1 /\ u.port # 0 /\ m.kind = 1 /\ m.port # 0
  BY <1>1 DEF UdpV4, Locator, UserPort
<1>4. Replaces({"loopback"}, address) /\ Replaces(both, address) /\ Replaces(both, "group")
  BY <1>1 DEF Replaces
<1>5. /\ Remap(<<u, u>>, {"loopback"}, source) = <<x, x>>
      /\ Remap(<<u>>, both, source) = <<x>> /\ Remap(<<m>>, both, source) = <<y>>
      /\ Remap(<<g>>, both, source) = <<g>>
  <2> HIDE DEF both
  <2>1. /\ IsSeen(address, source, UserPort(port), {"loopback"})
        /\ IsSeen(address, source, UserPort(port), both)
        /\ IsSeen(address, source, port, both)
        /\ IsSeen("group", source, MulticastPort, both)
    BY <1>4, Remapped
  <2>2. Seen("group", source) = "group"
    BY DEF Seen
  <2> QED BY <2>1, <2>2 DEF IsSeen, MulticastLocator
<1>6. ep.unicast = <<x, x>>
  <2>1. ParseSedpLocators(Unframe(Frame(SedpLocators(OwnEndpoint(address, port)))))
          = [unicast |-> FilterValid(<<u, u>>), metatraffic |-> FilterValid(<<m>>),
             multicast |-> FilterValid(<<>>)]
    BY <1>1, EndpointLocators
  <2>2. FilterValid(<<u, u>>) = <<u, u>>
    BY <1>3, FiltersKeep
  <2> HIDE DEF u, m, x
  <2> QED BY <1>5, <2>1, <2>2 DEF ReceivedEndpoint, RemapAll
<1>7. /\ announced.prefix = prefix /\ announced.lease = lease
      /\ announced.metatraffic = <<y>> /\ announced.multicast = <<g>>
  <2>1. ParseSpdp(Unframe(Frame(SpdpToPlcdr(own)))) = own
    BY <1>1, ParticipantLocators
  <2>2. /\ own.prefix = prefix /\ own.lease = lease
        /\ own = [prefix |-> prefix, lease |-> lease, unicast |-> <<u>>,
                  metatraffic |-> <<m>>, multicast |-> <<g>>]
    BY DEF OwnParticipant
  <2> HIDE DEF own, u, m, x, y, g
  <2> QED BY <1>5, <2>1, <2>2 DEF ReceivedParticipant, RemapAll
<1> HIDE DEF ep, announced, x, y, g
<1>8. SedpRequestDestinations(announced) = <<y>>
  BY <1>2, <1>7, SedpDestination
<1>9. \A p : UserTrafficLocators(ep, p) = <<x>>
  BY <1>2, <1>6, UserDestination
<1> QED BY <1>7, <1>8, <1>9 DEF DestinationIsAnnouncer, Seen, ep, announced, x, y, g
=============================================================================
