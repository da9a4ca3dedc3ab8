---------------------------- MODULE Parts_proofs ----------------------------
(***************************************************************************)
(* What the codecs and the matchmaking promise for every input: number     *)
(* sets, messages, type compatibility, member headers and matches one      *)
(* input at a time, fragments by an invariant of the buffer they are put   *)
(* together in.                                                            *)
(***************************************************************************)
EXTENDS Parts, EndpointMatch_proofs

-----------------------------------------------------------------------------
(* Number sets                                                             *)

LEMMA MaxIs ==
  ASSUME NEW S \in SUBSET Int, NEW m \in S, \A y \in S : m >= y
  PROVE  Max(S) = m
<1>1. Max(S) \in S /\ \A y \in S : Max(S) >= y
  BY DEF Max
<1>2. Max(S) >= m /\ m >= Max(S) /\ Max(S) \in Int /\ m \in Int
  BY <1>1
<1> QED BY <1>2

LEMMA MinIs ==
  ASSUME NEW a \in Int, NEW b \in Int
  PROVE  Min({a, b}) = IF a <= b THEN a ELSE b
<1> DEFINE m == Min({a, b})
<1>1. \E x \in {a, b} : \A y \in {a, b} : x =< y
  OBVIOUS
<1>2. m \in {a, b} /\ \A y \in {a, b} : m =< y
  BY <1>1 DEF Min
<1> QED BY <1>2

\* Counting the smaller elements numbers a finite set from 0.
LEMMA RanksNumber ==
  ASSUME NEW S \in SUBSET Nat, IsFiniteSet(S)
  PROVE  LET rank(b) == Cardinality({c \in S : c < b})
         IN  /\ \A b, c \in S : rank(b) = rank(c) => b = c
             /\ \A b, c \in S : b < c => rank(b) < rank(c)
             /\ \A b \in S : rank(b) \in 0..Cardinality(S) - 1
             /\ \A i \in 1..Cardinality(S) : \E b \in S : rank(b) = i - 1
<1> DEFINE below(b) == {c \in S : c < b}
           n == Cardinality(S)
           rank == [b \in S |-> Cardinality(below(b))]
<1>1. n \in Nat
  BY FS_CardinalityType
<1>2. ASSUME NEW b \in S
      PROVE  IsFiniteSet(below(b)) /\ rank[b] \in 0..n - 1
  <2>1. below(b) \in SUBSET S /\ b \notin below(b)
    OBVIOUS
  <2> HIDE DEF below
  <2>2. IsFiniteSet(below(b)) /\ Cardinality(below(b)) <= n /\ Cardinality(below(b)) # n
    BY <2>1, FS_Subset
  <2>3. Cardinality(below(b)) \in Nat
    BY <2>2, FS_CardinalityType
  <2> QED BY <2>2, <2>3, <1>1
<1>3. ASSUME NEW b \in S, NEW c \in S, b < c
      PROVE  rank[b] < rank[c]
  <2>0. b \in Nat /\ c \in Nat /\ \A x \in S : x \in Nat
    OBVIOUS
  <2>1. below(b) \in SUBSET below(c) /\ b \in below(c) /\ b \notin below(b)
    <3>1. b \in below(c) /\ b \notin below(b)
      BY <1>3, <2>0
    <3>2. \A x \in below(b) : x \in below(c)
      BY <1>3, <2>0
    <3> QED BY <3>1, <3>2
  <2>2. IsFiniteSet(below(c))
    BY <1>2
  <2> HIDE DEF below
  <2>3. Cardinality(below(b)) <= Cardinality(below(c)) /\ Cardinality(below(b)) # Cardinality(below(c))
    BY <2>1, <2>2, FS_Subset
  <2>4. rank[b] \in Int /\ rank[c] \in Int
    BY <1>2
  <2> QED BY <2>3, <2>4
<1>4. \A b, c \in S : rank[b] = rank[c] => b = c
  <2> SUFFICES ASSUME NEW b \in S, NEW c \in S, rank[b] = rank[c], b # c
               PROVE  FALSE
    OBVIOUS
  <2>1. b < c \/ c < b
    OBVIOUS
  <2>2. rank[b] \in Int /\ rank[c] \in Int
    BY <1>2
  <2> QED BY <2>1, <2>2, <1>3
<1>5. rank \in [S -> 0..n - 1]
  BY <1>2
<1>6. rank \in Injection(S, 0..n - 1)
  BY <1>4, <1>5 DEF Injection, IsInjective
<1>7. IsFiniteSet(0..n - 1) /\ Cardinality(0..n - 1) = n
  <2>1. 0 \in Int /\ n - 1 \in Int
    BY <1>1
  <2> QED BY <2>1, <1>1, FS_Interval
<1> HIDE DEF rank
<1>8. rank \in Surjection(S, 0..n - 1)
  BY <1>6, <1>7, FS_Injection
<1>9. \A i \in 1..n : \E b \in S : rank[b] = i - 1
  <2> SUFFICES ASSUME NEW i \in 1..n PROVE \E b \in S : rank[b] = i - 1
    OBVIOUS
  <2>1. i - 1 \in 0..n - 1
    BY <1>1
  <2> QED BY <2>1, <1>8 DEF Surjection
<1>10. \A b \in S : rank[b] = Cardinality({c \in S : c < b})
  BY DEF rank
<1> HIDE DEF n
<1> QED BY <1>3, <1>4, <1>5, <1>9, <1>10 DEF n

\* A bitmap is read back as the numbers of its bits.
LEMMA NumbersAreBits ==
  ASSUME NEW set, set.base \in Int, set.bits \in SUBSET Nat, IsFiniteSet(set.bits)
  PROVE  /\ Range(Numbers(set)) = {set.base + b : b \in set.bits}
         /\ Ascending(Numbers(set))
<1> DEFINE S == set.bits
           rank(b) == Cardinality({c \in S : c < b})
           nth(i) == CHOOSE b \in S : rank(b) = i - 1
<1>1. /\ \A b, c \in S : rank(b) = rank(c) => b = c
      /\ \A b, c \in S : b < c => rank(b) < rank(c)
      /\ \A b \in S : rank(b) \in 0..Cardinality(S) - 1
      /\ \A i \in 1..Cardinality(S) : \E b \in S : rank(b) = i - 1
  BY RanksNumber
<1>2. Numbers(set) = [i \in 1..Cardinality(S) |-> set.base + nth(i)]
  BY DEF Numbers
<1> HIDE DEF S, rank
<1>3. \A i \in 1..Cardinality(S) : nth(i) \in S
  BY <1>1
<1>4. ASSUME NEW b \in S
      PROVE  \E i \in 1..Cardinality(S) : nth(i) = b
  <2>1. rank(b) + 1 \in 1..Cardinality(S) /\ rank(b) = (rank(b) + 1) - 1
    BY <1>1, FS_CardinalityType DEF S
  <2>2. nth(rank(b) + 1) \in S /\ rank(nth(rank(b) + 1)) = rank(b)
    BY <2>1
  <2> QED BY <2>1, <2>2, <1>1
<1>5. ASSUME NEW i \in 1..Cardinality(S), NEW j \in 1..Cardinality(S), i < j
      PROVE  nth(i) < nth(j)
  <2>1. nth(i) \in S /\ nth(j) \in S /\ rank(nth(i)) = i - 1 /\ rank(nth(j)) = j - 1
    BY <1>1
  <2>2. nth(i) \in Nat /\ nth(j) \in Nat
    BY <2>1 DEF S
  <2> HIDE DEF nth
  <2>3. ~(nth(j) < nth(i)) /\ nth(i) # nth(j)
    BY <1>1, <1>5, <2>1
  <2> QED BY <2>2, <2>3
<1> HIDE DEF nth
<1>6. Ascending(Numbers(set))
  <2>1. \A i \in 1..Cardinality(S) : nth(i) \in Nat
    BY <1>3 DEF S
  <2> QED BY <1>2, <1>5, <2>1 DEF Ascending
<1> QED BY <1>2, <1>3, <1>4, <1>6 DEF Range, S

\* The window of a sorted list: from its first number to its last, or MaxBits.
LEMMA SetOfMissing ==
  ASSUME NEW list, IsMissingList(list)
  PROVE  LET base == Head(list)
             n == SequenceNumberSet(list).numBits
         IN  /\ base \in Nat /\ base \in Range(list) /\ n \in 1..MaxBits
             /\ Range(list) \subseteq Nat
             /\ \A k \in Range(list) : k >= base /\ (k - base < n \/ n = MaxBits)
             /\ SequenceNumberSet(list) =
                  [base |-> base, numBits |-> n,
                   bits |-> {k - base : k \in Range(list)} \cap 0..n - 1]
<1> DEFINE base == Head(list)
           top == list[Len(list)]
           n == Min({Max({top - base + 1, 0}), MaxBits})
<1>1. /\ list \in Seq(Nat) /\ list # <<>> /\ Len(list) \in Nat \ {0}
      /\ DOMAIN list = 1..Len(list)
      /\ \A i, j \in 1..Len(list) : i < j => list[i] < list[j]
  BY EmptySeq, LenProperties DEF IsMissingList, Ascending
<1>2. base = list[1] /\ 1 \in 1..Len(list) /\ Len(list) \in 1..Len(list)
  BY <1>1
<1>3. \A i \in 1..Len(list) : list[i] \in Nat /\ list[i] >= base /\ top >= list[i]
  <2> SUFFICES ASSUME NEW i \in 1..Len(list)
               PROVE  list[i] \in Nat /\ list[i] >= base /\ top >= list[i]
    OBVIOUS
  <2>1. list[i] \in Nat /\ list[1] \in Nat /\ top \in Nat
    BY <1>1, <1>2, ElementOfSeq
  <2>2. i = 1 \/ list[1] < list[i]
    BY <1>1, <1>2
  <2>3. i = Len(list) \/ list[i] < list[Len(list)]
    <3>1. i = Len(list) \/ i < Len(list)
      <4>1. Len(list) \in Int /\ i <= Len(list) /\ i \in Int
        BY LenProperties, <1>1
      <4> QED BY <4>1
    <3> QED BY <3>1, <1>1, <1>2
  <2>4. list[i] >= list[1] /\ list[Len(list)] >= list[i]
    BY <2>1, <2>2, <2>3
  <2> QED BY <2>1, <2>4, <1>2
<1>4. \A k \in Range(list) : k \in Nat /\ k >= base /\ top >= k
  BY <1>1, <1>3 DEF Range
<1>5. base \in Range(list) /\ top \in Range(list)
  BY <1>1, <1>2 DEF Range
<1> HIDE DEF base, top
<1>6. Max(Range(list)) = top
  <2>1. Range(list) \in SUBSET Int
    BY <1>4
  <2> QED BY <2>1, <1>4, <1>5, MaxIs
<1>7. Max({top - base + 1, 0}) = top - base + 1
  <2>1. {top - base + 1, 0} \in SUBSET Int /\ top - base + 1 >= 0
    BY <1>4, <1>5
  <2>2. \A y \in {top - base + 1, 0} : top - base + 1 >= y
    BY <1>4, <1>5
  <2> QED BY <2>1, <2>2, MaxIs
<1>8. n = IF top - base + 1 <= MaxBits THEN top - base + 1 ELSE MaxBits
  <2>1. top - base + 1 \in Int /\ MaxBits \in Int
    BY <1>4, <1>5, RtpsAssumption
  <2> QED BY <2>1, <1>7, MinIs
<1>9. SequenceNumberSet(list) =
        [base |-> base, numBits |-> n,
         bits |-> {k - base : k \in Range(list)} \cap 0..n - 1]
  BY <1>1, <1>6 DEF SequenceNumberSet, NumberSet, base
<1> HIDE DEF n
<1>10. n \in 1..MaxBits
  BY <1>4, <1>5, <1>8, RtpsAssumption
<1>11. \A k \in Range(list) : k - base < n \/ n = MaxBits
  BY <1>4, <1>5, <1>8, RtpsAssumption
<1>12. SequenceNumberSet(list).numBits = n
  BY <1>9
<1> QED BY <1>4, <1>5, <1>9, <1>10, <1>11, <1>12 DEF base

(***************************************************************************)
(* A NACK for any sorted list of missing numbers asks for missing numbers  *)
(* only, for the first of them, and for all within its window.             *)
(***************************************************************************)
LEMMA NackOfMissing ==
  ASSUME NEW list, IsMissingList(list)
  PROVE  NackIsSound(list)
<1> DEFINE set == SequenceNumberSet(list)
           base == Head(list)
           n == set.numBits
           got == ParseSequenceNumbers(set)
<1>1. /\ base \in Nat /\ base \in Range(list) /\ n \in 1..MaxBits
      /\ Range(list) \subseteq Nat
      /\ \A k \in Range(list) : k >= base /\ (k - base < n \/ n = MaxBits)
      /\ set = [base |-> base, numBits |-> n,
                bits |-> {k - base : k \in Range(list)} \cap 0..n - 1]
  BY SetOfMissing
<1> HIDE DEF set, n
<1>2. set.base = base /\ set.bits = {k - base : k \in Range(list)} \cap 0..n - 1
  BY <1>1
<1> HIDE DEF base
<1>3. set.bits \in SUBSET Nat /\ IsFiniteSet(set.bits)
  <2>1. n - 1 \in Int /\ set.bits \in SUBSET (0..n - 1)
    BY <1>1, <1>2
  <2>2. IsFiniteSet(0..n - 1)
    BY <2>1, FS_Interval
  <2>3. IsFiniteSet(set.bits)
    BY <2>1, <2>2, FS_Subset
  <2>4. \A b \in 0..n - 1 : b \in Nat
    BY <2>1
  <2> QED BY <2>1, <2>3, <2>4
<1>4. 0 \in set.bits
  BY <1>1, <1>2
<1>5. Range(got) = {base + b : b \in set.bits}
  <2>1. got = Numbers(set)
    BY <1>4 DEF ParseSequenceNumbers
  <2>2. set.base \in Int
    BY <1>1, <1>2
  <2>3. Range(Numbers(set)) = {set.base + b : b \in set.bits}
    BY <2>2, <1>3, NumbersAreBits
  <2> QED BY <2>1, <2>3, <1>2
<1> HIDE DEF got
<1>6. Range(got) \subseteq Range(list)
  <2> SUFFICES ASSUME NEW k \in Range(list), k - base \in set.bits
               PROVE  base + (k - base) \in Range(list)
    BY <1>2, <1>5
  <2> QED BY <1>1
<1>7. base \in Range(got)
  BY <1>1, <1>4, <1>5
<1>8. ASSUME NEW k \in Range(list), k \notin Range(got)
      PROVE  k >= base + MaxBits
  <2>1. k \in Nat /\ k = base + (k - base) /\ k - base \in Nat
    BY <1>1
  <2>2. k - base \notin set.bits
    BY <1>5, <1>8, <2>1
  <2>3. ~(k - base < n)
    BY <2>2, <2>1, <1>1, <1>2
  <2> QED BY <2>1, <2>3, <1>1, RtpsAssumption
<1> QED BY <1>1, <1>2, <1>6, <1>7, <1>8 DEF NackIsSound, set, got, base

-----------------------------------------------------------------------------
(* Type compatibility                                                      *)

LEMMA ObjectFacts ==
  ASSUME NEW obj, IsTypeObject(obj)
  PROVE  /\ obj.arm[2] \in 0..2
         /\ Len(MembersOf(obj)) \in Nat
         /\ DOMAIN MembersOf(obj) = 1..Len(MembersOf(obj))
         /\ \A i, j \in DOMAIN MembersOf(obj) :
              MembersOf(obj)[i][1] = MembersOf(obj)[j][1] => i = j
         /\ \A m \in Range(MembersOf(obj)) : m[3] \in {0, 1} /\ m[4] \in {0, 1}
         /\ \A m \in Range(MembersOf(obj)) : \E i \in DOMAIN MembersOf(obj) : m = MembersOf(obj)[i]
         /\ \A i \in DOMAIN MembersOf(obj) : MembersOf(obj)[i] \in Range(MembersOf(obj))
<1>1. MembersOf(obj) \in Seq(Range(MembersOf(obj)))
  BY DEF IsTypeObject
<1>2. Len(MembersOf(obj)) \in Nat /\ DOMAIN MembersOf(obj) = 1..Len(MembersOf(obj))
  BY <1>1, LenProperties
<1> QED BY <1>2 DEF IsTypeObject, Extensibility, Range

LEMMA SingletonMax ==
  ASSUME NEW i \in Int
  PROVE  Max({i}) = i
<1>1. Max({i}) \in {i}
  <2>1. \E x \in {i} : \A y \in {i} : x >= y
    OBVIOUS
  <2> QED BY <2>1 DEF Max
<1> QED BY <1>1

\* A name that a sender has stands for one member of it.
LEMMA FoundByName ==
  ASSUME NEW obj, IsTypeObject(obj), NEW i \in DOMAIN MembersOf(obj)
  PROVE  LET found == MemberNamed(obj, MembersOf(obj)[i][1])
         IN  found # {} /\ Max(found) = i
<1>1. MemberNamed(obj, MembersOf(obj)[i][1]) = {i}
  BY ObjectFacts DEF MemberNamed
<1>2. i \in Int
  BY ObjectFacts
<1> QED BY <1>1, <1>2, SingletonMax

\* The same without the search: what EachIsServed asks of each member.
Served(m, sender) ==
  /\ (\A i \in DOMAIN MembersOf(sender) : MembersOf(sender)[i][1] # m[1]) => m[3] = 0 /\ m[4] = 1
  /\ \A i \in DOMAIN MembersOf(sender) :
       MembersOf(sender)[i][1] = m[1] => MembersOf(sender)[i][2] = m[2]

LEMMA EachIsServedBySearch ==
  ASSUME NEW receiver, NEW sender, IsTypeObject(sender)
  PROVE  EachIsServed(receiver, sender) <=>
           \A m \in Range(MembersOf(receiver)) : Served(m, sender)
<1> DEFINE found(m) == MemberNamed(sender, m[1])
<1> SUFFICES ASSUME NEW m
             PROVE  (IF found(m) = {} THEN m[3] = 0 /\ m[4] = 1
                     ELSE MembersOf(sender)[Max(found(m))][2] = m[2]) <=> Served(m, sender)
  BY DEF EachIsServed
<1>1. CASE found(m) = {}
  BY <1>1 DEF MemberNamed, Served
<1>2. CASE found(m) # {}
  <2>1. PICK i \in DOMAIN MembersOf(sender) : MembersOf(sender)[i][1] = m[1]
    BY <1>2 DEF MemberNamed
  <2>2. Max(found(m)) = i
    BY <2>1, FoundByName
  <2>3. \A j \in DOMAIN MembersOf(sender) : MembersOf(sender)[j][1] = m[1] => j = i
    BY <2>1, ObjectFacts
  <2> QED BY <1>2, <2>1, <2>2, <2>3 DEF Served
<1> QED BY <1>1, <1>2

\* Each member of the receiver at its place in the sender.
LEMMA PrefixServes ==
  ASSUME NEW receiver, NEW sender, IsTypeObject(receiver), IsTypeObject(sender),
         Len(MembersOf(receiver)) <= Len(MembersOf(sender)),
         SamePrefix(MembersOf(receiver), MembersOf(sender))
  PROVE  \A i \in DOMAIN MembersOf(receiver) :
           /\ i \in DOMAIN MembersOf(sender)
           /\ MembersOf(receiver)[i][1] = MembersOf(sender)[i][1]
           /\ MembersOf(receiver)[i][2] = MembersOf(sender)[i][2]
<1>1. \A i \in DOMAIN MembersOf(receiver) : i \in DOMAIN MembersOf(sender)
  BY ObjectFacts
<1> QED BY <1>1 DEF SamePrefix

LEMMA PrefixChains ==
  ASSUME NEW want, NEW offer, NEW have, DOMAIN want \subseteq DOMAIN offer,
         SamePrefix(want, offer), SamePrefix(offer, have)
  PROVE  SamePrefix(want, have)
BY DEF SamePrefix

LEMMA AcceptedCarriesNeeds ==
  ASSUME NEW requested, NEW offered, IsTypeObject(requested), IsTypeObject(offered),
         IsAssignableFrom(requested, offered)
  PROVE  Needs(requested) \subseteq Holds(offered)
<1> SUFFICES ASSUME NEW m \in Range(MembersOf(requested)), m[3] = 1 \/ m[4] = 0
             PROVE  \E h \in Range(MembersOf(offered)) : h[1] = m[1] /\ h[2] = m[2]
  BY DEF Needs, Holds
<1>1. CASE requested.arm[2] = 2
  <2>1. Served(m, offered)
    BY <1>1, EachIsServedBySearch DEF IsAssignableFrom
  <2>2. PICK i \in DOMAIN MembersOf(offered) : MembersOf(offered)[i][1] = m[1]
    BY <2>1 DEF Served
  <2>3. MembersOf(offered)[i][2] = m[2]
    BY <2>1, <2>2 DEF Served
  <2> QED BY <2>2, <2>3, ObjectFacts
<1>2. CASE requested.arm[2] # 2
  <2>1. /\ Len(MembersOf(requested)) <= Len(MembersOf(offered))
        /\ SamePrefix(MembersOf(requested), MembersOf(offered))
    BY <1>2, ObjectFacts DEF IsAssignableFrom
  <2>2. PICK i \in DOMAIN MembersOf(requested) : m = MembersOf(requested)[i]
    BY ObjectFacts
  <2>3. /\ i \in DOMAIN MembersOf(offered)
        /\ MembersOf(offered)[i][1] = m[1] /\ MembersOf(offered)[i][2] = m[2]
    BY <2>1, <2>2, PrefixServes
  <2> QED BY <2>3, ObjectFacts
<1> QED BY <1>1, <1>2

LEMMA AcceptsItself ==
  ASSUME NEW obj, IsTypeObject(obj)
  PROVE  IsAssignableFrom(obj, obj)
<1>1. obj.arm[2] \in 0..2 /\ Len(MembersOf(obj)) \in Nat
  BY ObjectFacts
<1>2. SamePrefix(MembersOf(obj), MembersOf(obj))
  BY DEF SamePrefix
<1>3. \A m \in Range(MembersOf(obj)) : Served(m, obj)
  BY ObjectFacts DEF Served
<1> QED BY <1>1, <1>2, <1>3, EachIsServedBySearch DEF IsAssignableFrom

\* The middle version has what the reader knows, and requires what it requires.
LEMMA AcceptanceChains ==
  ASSUME NEW requested, NEW offered, NEW older,
         IsTypeObject(requested), IsTypeObject(offered), IsTypeObject(older),
         IsAssignableFrom(requested, offered), IsAssignableFrom(offered, older),
         Holds(requested) \subseteq Holds(offered), Needs(requested) \subseteq Needs(offered)
  PROVE  IsAssignableFrom(requested, older)
<1>1. /\ requested.arm[2] \in 0..2 /\ offered.arm[2] \in 0..2 /\ older.arm[2] \in 0..2
      /\ Len(MembersOf(requested)) \in Nat /\ Len(MembersOf(offered)) \in Nat
      /\ Len(MembersOf(older)) \in Nat
  BY ObjectFacts
<1>2. older.arm[2] <= offered.arm[2] /\ offered.arm[2] <= requested.arm[2]
  BY DEF IsAssignableFrom
<1>3. older.arm[2] <= requested.arm[2]
  BY <1>1, <1>2
<1>4. CASE requested.arm[2] # 2
  <2>1. /\ Len(MembersOf(requested)) <= Len(MembersOf(offered))
        /\ requested.arm[2] = 0 => Len(MembersOf(requested)) = Len(MembersOf(offered))
        /\ SamePrefix(MembersOf(requested), MembersOf(offered))
    BY <1>1, <1>4 DEF IsAssignableFrom
  <2>2. /\ Len(MembersOf(offered)) <= Len(MembersOf(older))
        /\ requested.arm[2] = 0 => Len(MembersOf(offered)) = Len(MembersOf(older))
        /\ SamePrefix(MembersOf(offered), MembersOf(older))
    BY <1>1, <1>2, <1>4 DEF IsAssignableFrom
  <2>3. DOMAIN MembersOf(requested) \subseteq DOMAIN MembersOf(offered)
    BY <2>1, ObjectFacts
  <2>4. SamePrefix(MembersOf(requested), MembersOf(older))
    BY <2>1, <2>2, <2>3, PrefixChains
  <2>5. /\ Len(MembersOf(requested)) <= Len(MembersOf(older))
        /\ requested.arm[2] = 0 => Len(MembersOf(requested)) = Len(MembersOf(older))
    BY <1>1, <2>1, <2>2
  <2> QED BY <1>1, <1>3, <1>4, <2>4, <2>5 DEF IsAssignableFrom
<1>5. CASE requested.arm[2] = 2
  <2>1. SUFFICES ASSUME NEW m \in Range(MembersOf(requested))
                 PROVE  Served(m, older)
    BY <1>3, <1>5, EachIsServedBySearch DEF IsAssignableFrom
  <2>2. <<m[1], m[2]>> \in Holds(requested)
    BY DEF Holds
  <2>3. <<m[1], m[2]>> \in Holds(offered)
    BY <2>2
  <2>4. PICK h \in Range(MembersOf(offered)) : h[1] = m[1] /\ h[2] = m[2]
    BY <2>3 DEF Holds
  <2>5. CASE offered.arm[2] = 2
    <3>1. Served(h, older)
      BY <2>5, EachIsServedBySearch DEF IsAssignableFrom
    <3>2. m[3] \in {0, 1} /\ m[4] \in {0, 1}
      BY ObjectFacts
    <3>3. ASSUME m[3] = 1 \/ m[4] = 0
          PROVE  h[3] = 1 \/ h[4] = 0
      <4>1. <<m[1], m[2]>> \in Needs(requested)
        BY <3>3 DEF Needs
      <4>2. <<m[1], m[2]>> \in Needs(offered)
        BY <4>1
      <4>3. PICK k \in Range(MembersOf(offered)) :
              k[1] = m[1] /\ k[2] = m[2] /\ (k[3] = 1 \/ k[4] = 0)
        BY <4>2 DEF Needs
      <4>4. k = h
        BY <4>3, <2>4, ObjectFacts
      <4> QED BY <4>3, <4>4
    <3> QED BY <3>1, <3>2, <3>3, <2>4 DEF Served
  <2>6. CASE offered.arm[2] # 2
    <3>1. /\ Len(MembersOf(offered)) <= Len(MembersOf(older))
          /\ SamePrefix(MembersOf(offered), MembersOf(older))
      BY <1>1, <2>6 DEF IsAssignableFrom
    <3>2. PICK i \in DOMAIN MembersOf(offered) : h = MembersOf(offered)[i]
      BY ObjectFacts
    <3>3. /\ i \in DOMAIN MembersOf(older)
          /\ MembersOf(older)[i][1] = m[1] /\ MembersOf(older)[i][2] = m[2]
      BY <2>4, <3>1, <3>2, PrefixServes
    <3>4. \A j \in DOMAIN MembersOf(older) : MembersOf(older)[j][1] = m[1] => j = i
      BY <3>3, ObjectFacts
    <3> QED BY <3>3, <3>4 DEF Served
  <2> QED BY <2>5, <2>6
<1> QED BY <1>4, <1>5

LEMMA CompatibilityOfVersions ==
  ASSUME NEW requested \in TypeObjects, NEW offered \in TypeObjects
  PROVE  CompatibilityIsSound(requested, offered, TypeObjects)
<1>1. \A obj \in TypeObjects : IsTypeObject(obj)
  BY PartsAssumption
<1>2. \A a, b : CheckTypeCompatibility(1, a, b) <=> IsAssignableFrom(b, a)
  BY DEF CheckTypeCompatibility
<1>3. \A a, b : CheckTypeCompatibility(0, a, b) <=> a = b
  BY DEF CheckTypeCompatibility
<1>4. IsAssignableFrom(requested, offered) => Needs(requested) \subseteq Holds(offered)
  BY <1>1, AcceptedCarriesNeeds
<1>5. offered = requested => IsAssignableFrom(requested, offered)
  BY <1>1, AcceptsItself
<1>6. ASSUME IsAssignableFrom(requested, offered),
             Holds(requested) \subseteq Holds(offered), Needs(requested) \subseteq Needs(offered),
             NEW older \in TypeObjects, IsAssignableFrom(offered, older)
      PROVE  IsAssignableFrom(requested, older)
  BY <1>1, <1>6, AcceptanceChains
<1> QED BY <1>2, <1>3, <1>4, <1>5, <1>6 DEF CompatibilityIsSound

-----------------------------------------------------------------------------
(* The streams of dds-cdr                                                  *)

Cell == Nat \X Nat \X Nat \X {"any", "little", "big"}
Size == {1, 2, 4, 8}
Order == {"little", "big"}

\* Serializers and deserializers by their fields.
Out(buf, order) == [buf |-> buf, order |-> order]
In(buf, at, order, value) == [buf |-> buf, at |-> at, order |-> order, value |-> value, ok |-> TRUE]

LEMMA OutIs ==
  ASSUME NEW b, NEW o
  PROVE  /\ Out(b, o).buf = b
         /\ Out(b, o).order = o
BY DEF Out

LEMMA TookIs ==
  ASSUME NEW b, NEW a, NEW o, NEW v, NEW x, NEW y
  PROVE  Took(In(b, a, o, v), x, y) = In(b, x, o, y)
<1> DEFINE yes == TRUE
           r == [buf |-> b, at |-> a, order |-> o, value |-> v, ok |-> yes]
           r1 == [buf |-> b, at |-> x, order |-> o, value |-> v, ok |-> yes]
           r2 == [buf |-> b, at |-> x, order |-> o, value |-> y, ok |-> yes]
<1>1. In(b, a, o, v) = r /\ In(b, x, o, y) = r2
  BY Zenon DEF In
<1> HIDE DEF yes
<1>2. [r EXCEPT !.at = x] = r1
  OBVIOUS
<1>3. [r1 EXCEPT !.value = y] = r2
  OBVIOUS
<1> HIDE DEF r, r1, r2
<1>4. Took(r, x, y) = [[r EXCEPT !.at = x] EXCEPT !.value = y]
  BY DEF Took
<1> QED BY <1>1, <1>2, <1>3, <1>4

LEMMA InIs ==
  ASSUME NEW b, NEW a, NEW o, NEW v
  PROVE  /\ In(b, a, o, v).buf = b
         /\ In(b, a, o, v).at = a
         /\ In(b, a, o, v).order = o
         /\ In(b, a, o, v).value = v
         /\ In(b, a, o, v).ok
BY DEF In

LEMMA AlignedIs ==
  ASSUME NEW offset \in Nat, NEW size \in Size
  PROVE  /\ Aligned(offset, size) \in Nat /\ Aligned(offset, size) >= offset
         /\ Aligned(Aligned(offset, size), size) = Aligned(offset, size)
<1>1. CASE size = 1
  BY <1>1 DEF Aligned
<1>2. CASE size = 2
  BY <1>2, Z3 DEF Aligned
<1>3. CASE size = 4
  BY <1>3, Z3 DEF Aligned
<1>4. CASE size = 8
  BY <1>4, Z3 DEF Aligned
<1> QED BY <1>1, <1>2, <1>3, <1>4 DEF Size

LEMMA PaddingType ==
  ASSUME NEW n \in Nat
  PROVE  Padding(n) \in Seq(Cell) /\ Len(Padding(n)) = n
BY DEF Padding, Cell

LEMMA CellsType ==
  ASSUME NEW size \in Nat, NEW value \in Nat, NEW order \in Order
  PROVE  ByteCells(size, value, order) \in Seq(Cell) /\ Len(ByteCells(size, value, order)) = size
BY DEF ByteCells, Cell, Order

LEMMA AppendIs ==
  ASSUME NEW buf, NEW order, NEW bytes
  PROVE  AppendBytes(Out(buf, order), bytes) = Out(buf \o bytes, order)
<1> DEFINE w == [buf |-> buf, order |-> order]
           all == buf \o bytes
<1>1. AppendBytes(w, bytes) = [w EXCEPT !.buf = all]
  BY DEF AppendBytes
<1> HIDE DEF all
<1>2. [w EXCEPT !.buf = all] = [buf |-> all, order |-> order]
  OBVIOUS
<1> QED BY <1>1, <1>2 DEF all, Out

Gap(buf, size) == Padding(Aligned(Len(buf), size) - Len(buf))

LEMMA AlignIs ==
  ASSUME NEW buf \in Seq(Cell), NEW order, NEW size \in Size
  PROVE  /\ Align(Out(buf, order), size) = Out(buf \o Gap(buf, size), order)
         /\ Gap(buf, size) \in Seq(Cell)
         /\ buf \o Gap(buf, size) \in Seq(Cell)
         /\ Len(buf \o Gap(buf, size)) = Aligned(Len(buf), size)
<1> DEFINE gap == Gap(buf, size)
           end == Aligned(Len(buf), size)
           w == Out(buf, order)
<1>1. Len(buf) \in Nat /\ end \in Nat /\ end - Len(buf) \in Nat
  BY LenProperties, AlignedIs
<1>2. gap \in Seq(Cell) /\ Len(gap) = end - Len(buf)
  BY <1>1, PaddingType DEF Gap
<1>3. w.buf = buf
  BY OutIs
<1>4. AppendBytes(w, gap) = Out(buf \o gap, order)
  BY AppendIs
<1> HIDE DEF end, w
<1>5. Align(w, size) = AppendBytes(w, gap)
  BY <1>3 DEF Align, Gap
<1> HIDE DEF gap
<1>6. buf \o gap \in Seq(Cell) /\ Len(buf \o gap) = end
  <2>1. Len(buf \o gap) = Len(buf) + Len(gap) /\ buf \o gap \in Seq(Cell)
    BY <1>2, ConcatProperties
  <2> QED BY <1>1, <1>2, <2>1
<1> QED BY <1>2, <1>4, <1>5, <1>6 DEF gap, end, w

\* What PutPrim appends: padding up to the alignment, then the bytes.
LEMMA PutAppends ==
  ASSUME NEW buf \in Seq(Cell), NEW order \in Order, NEW size \in Size, NEW value \in Nat
  PROVE  /\ PutPrim(Out(buf, order), size, value)
              = Out((buf \o Gap(buf, size)) \o ByteCells(size, value, order), order)
         /\ buf \o Gap(buf, size) \in Seq(Cell)
         /\ Len(buf \o Gap(buf, size)) = Aligned(Len(buf), size)
         /\ ByteCells(size, value, order) \in Seq(Cell)
         /\ Len(ByteCells(size, value, order)) = size
<1> DEFINE w == Out(buf, order)
           bytes == ByteCells(size, value, order)
           front == buf \o Gap(buf, size)
<1>1. size \in Nat
  BY DEF Size
<1>2. bytes \in Seq(Cell) /\ Len(bytes) = size
  BY <1>1, CellsType
<1>3. w.order = order
  BY OutIs
<1>4. /\ Align(w, size) = Out(front, order)
      /\ front \in Seq(Cell)
      /\ Len(front) = Aligned(Len(buf), size)
  BY AlignIs
<1> HIDE DEF w, bytes, front
<1>5. PutPrim(w, size, value) = AppendBytes(Align(w, size), bytes)
  BY <1>3 DEF PutPrim, bytes
<1>6. AppendBytes(Out(front, order), bytes) = Out(front \o bytes, order)
  BY AppendIs
<1> QED BY <1>2, <1>4, <1>5, <1>6 DEF w, bytes, front

(***************************************************************************)
(* A number is read back by a reader that aligns to where the writer did,  *)
(* whatever was written before it and is written after it.                 *)
(***************************************************************************)
LEMMA PutThenTake ==
  ASSUME NEW buf \in Seq(Cell), NEW order \in Order, NEW size \in Size, NEW value \in Nat,
         NEW put, PutPrim(Out(buf, order), size, value) = Out(put, order),
         NEW rest \in Seq(Cell), NEW at \in Nat, Aligned(at, size) = Aligned(Len(buf), size),
         NEW old
  PROVE  TakeNumber(In(put \o rest, at, order, old), size) = In(put \o rest, Len(put), order, value)
<1> DEFINE front == buf \o Gap(buf, size)
           bytes == ByteCells(size, value, order)
           from == Aligned(Len(buf), size)
           whole == put \o rest
           r == In(whole, at, order, old)
           end == In(whole, from + size, order, value)
           cells == SubSeq(whole, from + 1, from + size)
<1>1. /\ put = front \o bytes /\ front \in Seq(Cell) /\ Len(front) = from
      /\ bytes \in Seq(Cell) /\ Len(bytes) = size
  <2>1. PutPrim(Out(buf, order), size, value) = Out(front \o bytes, order)
    BY PutAppends
  <2>2. front \in Seq(Cell) /\ Len(front) = from /\ bytes \in Seq(Cell) /\ Len(bytes) = size
    BY PutAppends
  <2> HIDE DEF front, from, bytes
  <2>3. put = front \o bytes
    <3> DEFINE both == front \o bytes
    <3> HIDE DEF both
    <3>1. Out(put, order) = Out(both, order)
      BY <2>1 DEF both
    <3>2. Out(put, order).buf = put /\ Out(both, order).buf = both
      BY OutIs
    <3> QED BY <3>1, <3>2 DEF both
  <2> QED BY <2>2, <2>3
<1>2. size \in Nat \ {0} /\ from \in Nat
  <2>1. Len(buf) \in Nat
    BY LenProperties
  <2>2. from \in Nat
    BY <2>1, AlignedIs
  <2> QED BY <2>2 DEF Size
<1> HIDE DEF front, from
<1>3. bytes = [i \in 1..size |-> <<size, value, i, IF size = 1 THEN "any" ELSE order>>]
  BY DEF ByteCells
<1>4. bytes[1][2] = value
  BY <1>2, <1>3
<1> HIDE DEF bytes
<1>5. put \in Seq(Cell) /\ Len(put) = from + size
  BY <1>1, <1>2, ConcatProperties
<1>6. whole \in Seq(Cell) /\ Len(whole) = from + size + Len(rest) /\ Len(rest) \in Nat
  BY <1>5, ConcatProperties, LenProperties
<1>7. \A i \in 1..size : whole[from + i] = bytes[i]
  <2> SUFFICES ASSUME NEW i \in 1..size PROVE whole[from + i] = bytes[i]
    OBVIOUS
  <2>1. from + i \in 1..Len(put) + Len(rest) /\ from + i <= Len(put)
    BY <1>2, <1>5, <1>6
  <2>2. whole[from + i] = put[from + i]
    BY <1>5, <2>1, ConcatProperties
  <2>3. from + i \in 1..Len(front) + Len(bytes) /\ ~(from + i <= Len(front)) /\ (from + i) - Len(front) = i
    BY <1>1, <1>2
  <2>4. (front \o bytes)[from + i] = bytes[i]
    BY <1>1, <2>3, ConcatProperties, SMTT(30)
  <2> QED BY <1>1, <2>2, <2>4
<1> HIDE DEF whole
<1>8. cells = bytes
  <2>1. \A i \in from + 1..from + size : whole[i] \in Cell
    <3> SUFFICES ASSUME NEW i \in from + 1..from + size PROVE whole[i] \in Cell
      OBVIOUS
    <3>1. i \in 1..Len(whole)
      BY <1>2, <1>6
    <3> QED BY <3>1, <1>6, ElementOfSeq
  <2>2. from + 1 \in Int /\ from + size \in Int /\ from + 1 <= from + size
        /\ (from + size) - (from + 1) + 1 = size
    BY <1>2
  <2>3. cells \in Seq(Cell) /\ Len(cells) = size
        /\ \A i \in 1..size : cells[i] = whole[from + 1 + i - 1]
    <3> DEFINE a == from + 1
               b == from + size
    <3>1. /\ a \in Int /\ b \in Int /\ a <= b /\ b - a + 1 = size
          /\ \A i \in a..b : whole[i] \in Cell
      BY <2>1, <2>2
    <3>2. cells = SubSeq(whole, a, b)
      OBVIOUS
    <3>3. \A i \in 1..size : whole[a + i - 1] = whole[from + 1 + i - 1]
      OBVIOUS
    <3> HIDE DEF a, b, cells
    <3> QED BY <3>1, <3>2, <3>3, SubSeqProperties
  <2>4. \A i \in 1..size : cells[i] = bytes[i]
    <3> SUFFICES ASSUME NEW i \in 1..size PROVE cells[i] = bytes[i]
      OBVIOUS
    <3>1. from + 1 + i - 1 = from + i
      BY <1>2
    <3> QED BY <3>1, <2>3, <1>7
  <2> HIDE DEF cells
  <2> QED BY <2>3, <2>4, <1>1, SeqEqual
<1>9. Take(r, size) = end
  <2>1. ~(from + size > Len(whole))
    BY <1>2, <1>6
  <2>2. cells[1][2] = value /\ cells = ByteCells(size, value, order)
    BY <1>4, <1>8 DEF bytes
  <2>3. r.buf = whole /\ Aligned(r.at, size) = from /\ r.ok /\ r.order = order
    BY InIs DEF from
  <2>4. Took(r, from + size, value) = end
    BY TookIs
  <2> HIDE DEF r, cells, end
  <2>5. cells = SubSeq(r.buf, from + 1, from + size)
    BY <2>3 DEF cells
  <2> QED BY <2>1, <2>2, <2>3, <2>4, <2>5 DEF Take
<1>10. TakeNumber(r, size) = end
  <2>1. end.value = value /\ value # Unreadable
    BY InIs, UnreadableAssumption
  <2> HIDE DEF r, end
  <2> QED BY <1>9, <2>1 DEF TakeNumber
<1> QED BY <1>5, <1>10 DEF whole

LEMMA SplitIs ==
  ASSUME NEW d \in Nat \ {0}, NEW k \in Nat, NEW r \in 0..d - 1
  PROVE  /\ k * d + r \in Nat
         /\ (k * d + r) \div d = k /\ (k * d + r) % d = r
<1> DEFINE a == k * d + r
<1>1. k * d \in Nat /\ a \in Nat /\ k * d <= a /\ a < k * d + d
  BY Z3
<1> HIDE DEF a
<1>2. a \div d = k
  BY <1>1, QuotientIs
<1>3. a % d = a - d * (a \div d)
  BY <1>1, Z3
<1>4. a % d = a - d * k
  BY <1>2, <1>3
<1>5. a % d = r
  BY <1>1, <1>4, Z3 DEF a
<1> QED BY <1>1, <1>2, <1>5 DEF a

LEMMA HeaderBits ==
  ShortHeader \in Nat \ {0} /\ LongForm \in Nat \ {0} /\ 4 * LongForm = 16384 * ShortHeader
BY DEF ShortHeader, LongForm

LEMMA ShortHeaderSplits ==
  ASSUME NEW id \in Nat, NEW length \in Nat, IsShort(id, length)
  PROVE  LET v == (length % 16384) * ShortHeader + id
         IN  /\ v \in Nat /\ v \div LongForm # 4
             /\ v % ShortHeader = id /\ (v \div ShortHeader) % 16384 = length
<1> DEFINE v == length * ShortHeader + id
<1>1. length < 16384 /\ id < ShortHeader
  BY DEF IsShort
<1>2. length % 16384 = length
  BY <1>1, Z3
<1>3. v \in Nat /\ v \div ShortHeader = length /\ v % ShortHeader = id
  <2>1. id \in 0..ShortHeader - 1
    BY <1>1, HeaderBits
  <2> QED BY <2>1, HeaderBits, SplitIs
<1>4. v < 4 * LongForm
  <2> DEFINE p == length * ShortHeader
  <2>1. p \in Nat /\ p <= 16383 * ShortHeader
    BY <1>1, HeaderBits, Z3
  <2>2. v = p + id
    OBVIOUS
  <2> HIDE DEF v, p
  <2> QED BY <1>1, <2>1, <2>2, HeaderBits
<1> HIDE DEF v
<1>5. v \div LongForm # 4
  <2> DEFINE q == v \div LongForm
  <2>1. q * LongForm <= v /\ q \in Int
    BY <1>3, HeaderBits, Z3
  <2> HIDE DEF q
  <2>2. q # 4
    BY <1>3, <1>4, <2>1, HeaderBits
  <2> QED BY <2>2 DEF q
<1> QED BY <1>2, <1>3, <1>5 DEF v

LEMMA LongHeaderSplits ==
  ASSUME NEW id \in 0..LongForm - 1
  PROVE  LET v == 4 * LongForm + (id % LongForm)
         IN  v \in Nat /\ v \div LongForm = 4 /\ v % LongForm = id
<1>1. LongForm \in Nat \ {0}
  BY HeaderBits
<1>2. id % LongForm = id
  BY <1>1, Z3
<1> QED BY <1>1, <1>2, SplitIs

LEMMA ShortHeaderTaken ==
  ASSUME NEW q, NEW t, TakeNumber(q, 4) = t, t.ok, t.value \div LongForm # 4
  PROVE  TakeEmheader(q) = [r |-> t, id |-> t.value % ShortHeader,
                            length |-> (t.value \div ShortHeader) % 16384]
BY DEF TakeEmheader

LEMMA LongHeaderTaken ==
  ASSUME NEW q, NEW t, TakeNumber(q, 4) = t, t.ok, t.value \div LongForm = 4,
         NEW u, TakeNumber(t, 4) = u
  PROVE  TakeEmheader(q) = [r |-> u, id |-> t.value % LongForm, length |-> u.value]
BY DEF TakeEmheader


\* The lemmas above for a word that follows a buffer front.
LEMMA Assoc == \A a, b, c \in Seq(Cell) : (a \o b) \o c = a \o (b \o c)
<1> SUFFICES ASSUME NEW a \in Seq(Cell), NEW b \in Seq(Cell), NEW c \in Seq(Cell)
             PROVE  (a \o b) \o c = a \o (b \o c)
  OBVIOUS
<1> QED BY ConcatAssociative

LEMMA WordAppended ==
  ASSUME NEW front \in Seq(Cell), NEW order \in Order, NEW v \in Nat
  PROVE  \E gap \in Seq(Cell), bytes \in Seq(Cell) :
           PutPrim(Out(front, order), 4, v) = Out((front \o gap) \o bytes, order)
<1>1. 4 \in Size
  BY DEF Size
<1> DEFINE gap == Gap(front, 4)
           bytes == ByteCells(4, v, order)
<1>2. PutPrim(Out(front, order), 4, v) = Out((front \o gap) \o bytes, order)
  BY <1>1, PutAppends
<1>3. bytes \in Seq(Cell)
  BY <1>1, PutAppends
<1>4. gap \in Seq(Cell)
  BY <1>1, AlignIs
<1> HIDE DEF gap, bytes
<1> QED BY <1>2, <1>3, <1>4

LEMMA WordPut ==
  ASSUME NEW front \in Seq(Cell), NEW order \in Order, NEW v \in Nat
  PROVE  \E x \in Seq(Cell), rest \in Seq(Cell) :
           PutPrim(Out(front, order), 4, v) = Out(x, order) /\ x = front \o rest /\ Len(x) \in Nat
<1>1. PICK gap \in Seq(Cell), bytes \in Seq(Cell) :
        PutPrim(Out(front, order), 4, v) = Out((front \o gap) \o bytes, order)
  BY WordAppended
<1> DEFINE rest == gap \o bytes
           x == front \o rest
           y == (front \o gap) \o bytes
<1>2. y = x
  <2> HIDE DEF x, y, rest
  <2> QED BY Assoc, Zenon DEF x, y, rest
<1>3. rest \in Seq(Cell)
  BY ConcatProperties
<1> HIDE DEF rest, y
<1>4. x \in Seq(Cell) /\ Len(x) \in Nat
  BY <1>3, ConcatProperties, LenProperties
<1> QED BY <1>1, <1>2, <1>3, <1>4 DEF y

LEMMA LastWordTaken ==
  ASSUME NEW front \in Seq(Cell), NEW order \in Order, NEW v \in Nat,
         NEW x \in Seq(Cell), PutPrim(Out(front, order), 4, v) = Out(x, order),
         NEW at \in Nat, Aligned(at, 4) = Aligned(Len(front), 4), NEW old
  PROVE  TakeNumber(In(x, at, order, old), 4) = In(x, Len(x), order, v)
<1> DEFINE none == <<>>
<1>1. 4 \in Size
  BY DEF Size
<1>2. none \in Seq(Cell)
  OBVIOUS
<1>4. x \o none = x
  BY ConcatEmptySeq
<1> HIDE DEF none
<1>3. TakeNumber(In(x \o none, at, order, old), 4) = In(x \o none, Len(x), order, v)
  BY <1>1, <1>2, PutThenTake
<1> QED BY <1>3, <1>4

LEMMA HeaderOfMember ==
  ASSUME NEW order \in Order, NEW before \in Nat,
         NEW id \in 0..LongForm - 1, NEW length \in Nat
  PROVE  EmheaderSurvives(order, before, id, length)
<1> DEFINE pad == Padding(before)
           w == AppendBytes(Writer(order), pad)
           put == PutEmheader(w, id, length).buf
           r == In(put, before, order, <<>>)
           h == TakeEmheader(r)
<1>1. pad \in Seq(Cell) /\ Len(pad) = before
  BY PaddingType
<1>2. w = Out(pad, order)
  <2> DEFINE none == <<>>
             all == none \o pad
  <2>1. all = pad
    BY <1>1, ConcatEmptySeq
  <2>2. Writer(order) = Out(none, order)
    BY DEF Writer, Out
  <2>3. AppendBytes(Out(none, order), pad) = Out(all, order)
    BY AppendIs
  <2> HIDE DEF none, all, pad
  <2> QED BY <2>1, <2>2, <2>3
<1>3. 4 \in Size
  BY DEF Size
<1>4. PICK front \in Seq(Cell) : Align(w, 4) = Out(front, order) /\ Len(front) = Aligned(before, 4)
  <2> DEFINE front == pad \o Gap(pad, 4)
  <2>1. Align(Out(pad, order), 4) = Out(front, order)
    BY <1>1, <1>3, AlignIs
  <2>2. front \in Seq(Cell) /\ Len(front) = Aligned(before, 4)
    BY <1>1, <1>3, AlignIs
  <2> HIDE DEF w, pad, front
  <2>3. Align(w, 4) = Out(front, order)
    BY <1>2, <2>1
  <2> QED BY <2>2, <2>3
<1>5. Aligned(before, 4) = Aligned(Len(front), 4)
  BY <1>3, <1>4, AlignedIs
<1>6. ReaderAt(before, put, order) = r
  BY DEF ReaderAt, In
<1> HIDE DEF r
<1>7. EmheaderSurvives(order, before, id, length)
        <=> h.r.ok /\ h.id = id /\ h.length = length /\ Len(h.r.buf) - h.r.at = 0
  BY <1>6 DEF EmheaderSurvives, Remaining
<1> HIDE DEF w, pad
<1>8. CASE IsShort(id, length)
  <2> DEFINE v == (length % 16384) * ShortHeader + id
  <2>1. /\ v \in Nat /\ v \div LongForm # 4
        /\ v % ShortHeader = id /\ (v \div ShortHeader) % 16384 = length
    <3>1. id \in Nat
      BY HeaderBits
    <3> QED BY <1>8, <3>1, ShortHeaderSplits
  <2>2. put = PutPrim(Out(front, order), 4, v).buf
    BY <1>4, <1>8 DEF PutEmheader
  <2> HIDE DEF v, put
  <2>3. PICK x \in Seq(Cell) : PutPrim(Out(front, order), 4, v) = Out(x, order) /\ Len(x) \in Nat
    BY <2>1, WordPut
  <2>4. put = x
    BY <2>2, <2>3, OutIs
  <2> DEFINE end == In(x, Len(x), order, v)
  <2>5. TakeNumber(r, 4) = end
    BY <1>5, <2>1, <2>3, <2>4, LastWordTaken DEF r
  <2>6. end.ok /\ end.buf = x /\ end.at = Len(x) /\ end.value = v
    BY InIs
  <2> HIDE DEF end
  <2>7. h = [r |-> end, id |-> v % ShortHeader, length |-> (v \div ShortHeader) % 16384]
    BY <2>1, <2>5, <2>6, ShortHeaderTaken
  <2> HIDE DEF h
  <2> QED BY <1>7, <2>1, <2>3, <2>6, <2>7
<1>9. CASE ~IsShort(id, length)
  <2> DEFINE v == 4 * LongForm + (id % LongForm)
  <2>1. v \in Nat /\ v \div LongForm = 4 /\ v % LongForm = id
    BY LongHeaderSplits
  <2>2. put = PutPrim(PutPrim(Out(front, order), 4, v), 4, length).buf
    BY <1>4, <1>9 DEF PutEmheader
  <2> HIDE DEF v, put
  <2>3. PICK x \in Seq(Cell) : PutPrim(Out(front, order), 4, v) = Out(x, order) /\ Len(x) \in Nat
    BY <2>1, WordPut
  <2>4. PICK y \in Seq(Cell), rest \in Seq(Cell) :
          PutPrim(Out(x, order), 4, length) = Out(y, order) /\ y = x \o rest /\ Len(y) \in Nat
    BY WordPut
  <2>5. put = y
    <3>1. PutPrim(PutPrim(Out(front, order), 4, v), 4, length) = Out(y, order)
      BY <2>3, <2>4
    <3> QED BY <2>2, <3>1, OutIs
  <2> DEFINE head == In(y, Len(x), order, v)
             end == In(y, Len(y), order, length)
  <2>6. TakeNumber(r, 4) = head
    <3>1. TakeNumber(In(x \o rest, before, order, <<>>), 4) = In(x \o rest, Len(x), order, v)
      BY <1>3, <1>5, <2>1, <2>3, <2>4, PutThenTake
    <3> QED BY <2>4, <2>5, <3>1 DEF r
  <2>7. TakeNumber(head, 4) = end
    <3> DEFINE at == Len(x)
    <3>1. at \in Nat /\ Aligned(at, 4) = Aligned(Len(x), 4)
      BY <2>3
    <3>2. PutPrim(Out(x, order), 4, length) = Out(y, order)
      BY <2>4
    <3> HIDE DEF at
    <3>3. TakeNumber(In(y, at, order, v), 4) = end
      BY <3>1, <3>2, LastWordTaken
    <3> QED BY <3>3 DEF at
  <2>8. head.ok /\ head.value = v /\ end.ok /\ end.value = length /\ end.buf = y /\ end.at = Len(y)
    BY InIs
  <2> HIDE DEF head, end
  <2>9. h = [r |-> end, id |-> v % LongForm, length |-> length]
    BY <2>1, <2>6, <2>7, <2>8, LongHeaderTaken
  <2> HIDE DEF h
  <2> QED BY <1>7, <2>1, <2>4, <2>8, <2>9
<1> QED BY <1>8, <1>9

-----------------------------------------------------------------------------
(* Fragments                                                               *)

(***************************************************************************)
(* A buffer is told by its mask: the fragments marked are there, zeros     *)
(* elsewhere, and no more bytes are counted than they hold.  So the count  *)
(* reaches the size of the sample only when every fragment is marked.      *)
(***************************************************************************)
Count(sample) == DivCeil(Len(sample), MaxPayload)

\* The bytes of a set of fragments; the last one may be short.
BytesOf(mask, sample) ==
  Cardinality(mask) * MaxPayload
    - (IF Count(sample) \in mask THEN Count(sample) * MaxPayload - Len(sample) ELSE 0)

Part(f, sample) == {i \in 1..Len(sample) : (f - 1) * MaxPayload < i /\ i <= f * MaxPayload}

Buffers == [dataSize : Nat, received : Nat, mask : SUBSET Nat, fragments : Nat, buffer : Seq(Nat)]

IsBufferOf(buf, sample) ==
  /\ buf \in Buffers
  /\ buf.dataSize = Len(sample) /\ buf.fragments = Count(sample)
  /\ buf.mask \subseteq 1..Count(sample)
  /\ buf.received <= BytesOf(buf.mask, sample)
  /\ NoZeroEnds(sample) => buf.received = BytesOf(buf.mask, sample)
  /\ Len(buf.buffer) = Len(sample)
  /\ \A f \in 1..Count(sample) : \A i \in Part(f, sample) :
       buf.buffer[i] = IF f \in buf.mask THEN sample[i] ELSE 0

Marked(f) == entry # NoBuffer /\ f \in entry.mask

BufferInv ==
  /\ payload \in Payloads
  /\ came \in [1..Count(payload) -> Nat]
  /\ entry # NoBuffer => IsBufferOf(entry, payload) /\ ~Complete(entry)
                         /\ asked = Missing(entry)
  /\ delivered \in Seq({payload})
  /\ \A f \in 1..Count(payload) :
       /\ Len(delivered) + (IF Marked(f) THEN 1 ELSE 0) <= came[f]
       /\ NoZeroEnds(payload) /\ delivered = <<>> /\ came[f] > 0 => Marked(f)

FragmentsInv ==
  \/ payload = <<>> /\ came = <<>> /\ entry = NoBuffer /\ delivered = <<>>
  \/ BufferInv

\* A bounded set of numbers has a greatest one.
LEMMA GreatestExists ==
  ASSUME NEW S \in SUBSET Nat, S # {}, NEW n \in Nat, \A y \in S : y <= n
  PROVE  \E m \in S : \A y \in S : m >= y
<1> DEFINE Bounds == {k \in Nat : \A y \in S : y <= k}
<1>1. n \in Bounds
  OBVIOUS
<1>2. PICK m \in Bounds : \A k \in Bounds : ~(<<k, m>> \in OpToRel(<, Nat))
  BY <1>1, NatLessThanWellFounded, WFMin
<1>3. m \in Nat /\ \A y \in S : y <= m /\ y \in Nat
  BY <1>2
<1>4. m \in S
  <2> SUFFICES ASSUME m \notin S PROVE FALSE
    OBVIOUS
  <2>0. PICK z \in S : TRUE
    OBVIOUS
  <2>1. m - 1 \in Nat
    <3>1. z <= m /\ z \in Nat /\ z # m
      BY <1>3
    <3> QED BY <3>1, <1>3
  <2>2. \A y \in S : y <= m - 1
    BY <1>3
  <2>3. m - 1 \in Bounds
    BY <2>1, <2>2
  <2>4. <<m - 1, m>> \in OpToRel(<, Nat)
    BY <2>1, <1>3 DEF OpToRel
  <2> QED BY <2>3, <2>4, <1>2
<1> QED BY <1>3, <1>4

\* trim_submessage_padding leaves a prefix and drops only zeros.
LEMMA TrimIs ==
  ASSUME NEW s \in Seq(Nat)
  PROVE  LET t == Trim(s)
         IN  /\ t \in Seq(Nat) /\ Len(t) \in Nat /\ Len(t) <= Len(s)
             /\ \A j \in 1..Len(t) : t[j] = s[j]
             /\ \A j \in 1..Len(s) : j > Len(t) => s[j] = 0
             /\ t # <<>> => t[Len(t)] # 0
<1> DEFINE nonzero == {i \in DOMAIN s : s[i] # 0}
           m == IF nonzero = {} THEN 0 ELSE Max(nonzero)
           t == SubSeq(s, 1, m)
<1>1. Trim(s) = t
  BY DEF Trim
<1>2. Len(s) \in Nat /\ DOMAIN s = 1..Len(s) /\ nonzero \in SUBSET (1..Len(s))
  BY LenProperties
<1>3. /\ m \in 0..Len(s) /\ (m # 0 => s[m] # 0)
      /\ \A j \in 1..Len(s) : j > m => s[j] = 0
  <2>1. CASE nonzero = {}
    BY <2>1, <1>2
  <2>2. CASE nonzero # {}
    <3>1. nonzero \in SUBSET Nat /\ \A y \in nonzero : y <= Len(s)
      BY <1>2
    <3>2. PICK k \in nonzero : \A y \in nonzero : k >= y
      BY <2>2, <3>1, <1>2, GreatestExists
    <3>3. Max(nonzero) = k
      <4>1. nonzero \in SUBSET Int
        BY <3>1
      <4> HIDE DEF nonzero
      <4> QED BY <3>2, <4>1, MaxIs
    <3>4. m = k
      BY <2>2, <3>3
    <3>5. k \in 1..Len(s) /\ s[k] # 0
      BY <3>2, <1>2
    <3>6. \A j \in 1..Len(s) : s[j] # 0 => k >= j
      BY <3>2, <1>2
    <3> HIDE DEF m, nonzero
    <3>7. \A j \in 1..Len(s) : j > k => s[j] = 0
      <4>1. \A j \in 1..Len(s) : ~(j > k /\ k >= j)
        BY <3>5
      <4> QED BY <3>6, <4>1
    <3> QED BY <3>4, <3>5, <3>7
  <2> QED BY <2>1, <2>2
<1> HIDE DEF m
<1>4. t \in Seq(Nat) /\ Len(t) = m /\ \A j \in 1..m : t[j] = s[j]
  <2>1. CASE m = 0
    <3>1. t = <<>>
      BY <2>1, <1>2, <1>3, SubSeqEmpty
    <3> QED BY <3>1, <2>1, EmptySeq
  <2>2. CASE m # 0
    <3>1. 1 \in Int /\ m \in Int /\ 1 <= m /\ m - 1 + 1 = m
      BY <2>2, <1>3
    <3>2. \A i \in 1..m : s[i] \in Nat
      BY <1>2, <1>3, ElementOfSeq
    <3>3. t \in Seq(Nat) /\ Len(t) = m /\ \A j \in 1..m : t[j] = s[1 + j - 1]
      BY <3>1, <3>2, SubSeqProperties
    <3>4. \A j \in 1..m : 1 + j - 1 = j
      OBVIOUS
    <3> QED BY <3>3, <3>4
  <2> QED BY <2>1, <2>2
<1> HIDE DEF t
<1>5. t # <<>> => t[Len(t)] # 0
  <2>1. m = 0 => t = <<>>
    BY <1>4, EmptySeq
  <2>2. m # 0 => m \in 1..m
    BY <1>2, <1>3
  <2> QED BY <1>3, <1>4, <2>1, <2>2
<1> QED BY <1>1, <1>2, <1>3, <1>4, <1>5

LEMMA CountIs ==
  ASSUME NEW n \in Nat \ {0}
  PROVE  /\ DivCeil(n, MaxPayload) \in Nat \ {0}
         /\ (DivCeil(n, MaxPayload) - 1) * MaxPayload < n
         /\ n <= DivCeil(n, MaxPayload) * MaxPayload
<1> DEFINE a == n + MaxPayload - 1
           q == DivCeil(n, MaxPayload)
<1>1. MaxPayload \in Nat \ {0} /\ a \in Nat
  BY FragmentsAssumption
<1>2. q = a \div MaxPayload
  BY DEF DivCeil
<1> HIDE DEF q
<1>3. q \in Int /\ q * MaxPayload <= a /\ a < q * MaxPayload + MaxPayload
  <2> HIDE DEF a
  <2> QED BY <1>1, <1>2, Z3
<1>4. n <= q * MaxPayload
  BY <1>1, <1>3, Z3
<1>5. q * MaxPayload - MaxPayload < n
  BY <1>1, <1>3, Z3
<1>6. q > 0
  BY <1>1, <1>3, <1>4, Z3
<1>7. (q - 1) * MaxPayload = q * MaxPayload - MaxPayload
  BY <1>1, <1>3, Z3
<1> QED BY <1>3, <1>4, <1>5, <1>6, <1>7 DEF q

\* The bytes of the fragment f begin behind (f - 1) * MaxPayload.
Begin(f) == (f - 1) * MaxPayload
End(f, sample) == IF f = Count(sample) THEN Len(sample) ELSE f * MaxPayload

LEMMA PartsOfSample ==
  ASSUME NEW sample \in Seq(Nat), sample # <<>>
  PROVE  /\ Len(sample) \in Nat \ {0} /\ Count(sample) \in Nat \ {0}
         /\ (Count(sample) - 1) * MaxPayload < Len(sample)
         /\ Len(sample) <= Count(sample) * MaxPayload
         /\ \A f \in 1..Count(sample) :
              /\ Begin(f) \in Nat /\ End(f, sample) \in Nat
              /\ f # Count(sample) => End(f, sample) = Begin(f) + MaxPayload
              /\ Begin(f) < End(f, sample) /\ End(f, sample) <= Len(sample)
              /\ End(f, sample) = Min({f * MaxPayload, Len(sample)})
              /\ Part(f, sample) = Begin(f) + 1..End(f, sample)
<1> DEFINE len == Len(sample)
           n == Count(sample)
           M == MaxPayload
<1>1. len \in Nat \ {0}
  BY EmptySeq, LenProperties
<1>2. M \in Nat \ {0}
  BY FragmentsAssumption
<1>3. n \in Nat \ {0} /\ (n - 1) * M < len /\ len <= n * M
  BY <1>1, CountIs DEF Count
<1> HIDE DEF len, n, M
<1>4. ASSUME NEW f \in 1..n
      PROVE  /\ f * M \in Nat /\ (f - 1) * M \in Nat /\ f * M = (f - 1) * M + M
             /\ f # n => f * M < len
             /\ (f - 1) * M < len
             /\ f = n => len <= f * M
  <2>1. f \in Nat /\ f - 1 \in Nat /\ (f # n => f <= n - 1) /\ f - 1 <= n - 1
    BY <1>3
  <2>2. f * M \in Nat /\ (f - 1) * M \in Nat /\ f * M = (f - 1) * M + M
    BY <1>2, <2>1, Z3
  <2>3. (f - 1) * M <= (n - 1) * M /\ (n - 1) * M \in Int
    BY <1>2, <1>3, <2>1, Z3
  <2>4. f # n => f * M <= (n - 1) * M
    BY <1>2, <1>3, <2>1, Z3
  <2> QED BY <1>1, <1>3, <2>2, <2>3, <2>4
<1>5. ASSUME NEW f \in 1..n
      PROVE  /\ Begin(f) \in Nat /\ End(f, sample) \in Nat
             /\ f # n => End(f, sample) = Begin(f) + M
             /\ Begin(f) < End(f, sample) /\ End(f, sample) <= len
             /\ End(f, sample) = Min({f * M, len})
             /\ Part(f, sample) = Begin(f) + 1..End(f, sample)
  <2>1. Begin(f) = (f - 1) * M /\ End(f, sample) = IF f = n THEN len ELSE f * M
    BY DEF Begin, End, len, n, M
  <2>2. Min({f * M, len}) = IF f * M <= len THEN f * M ELSE len
    <3> DEFINE c == f * M
    <3>1. c \in Int /\ len \in Int
      BY <1>1, <1>4
    <3> HIDE DEF c
    <3>2. Min({c, len}) = IF c <= len THEN c ELSE len
      BY <3>1, MinIs
    <3> QED BY <3>2 DEF c
  <2>3. Min({f * M, len}) = End(f, sample)
    BY <1>1, <1>4, <2>1, <2>2
  <2>4. Part(f, sample) = {i \in 1..len : Begin(f) < i /\ i <= f * M}
    BY <2>1 DEF Part, len, M
  <2>5. Begin(f) \in Nat /\ End(f, sample) \in Nat /\ End(f, sample) <= len
        /\ End(f, sample) <= f * M /\ (End(f, sample) = len \/ End(f, sample) = f * M)
        /\ Begin(f) < End(f, sample)
    BY <1>1, <1>2, <1>4, <2>1
  <2>6. Part(f, sample) = Begin(f) + 1..End(f, sample)
    <3>1. f * M \in Nat
      BY <1>4
    <3> DEFINE e == End(f, sample)
               b == Begin(f)
               c == f * M
    <3> HIDE DEF e, b, c
    <3>2. \A i \in 1..len : (b < i /\ i <= c) <=> i \in b + 1..e
      BY <1>1, <2>5, <3>1 DEF e, b, c
    <3>3. \A i \in b + 1..e : i \in 1..len
      BY <1>1, <2>5 DEF e, b
    <3> QED BY <2>4, <3>2, <3>3 DEF e, b, c
  <2>7. f # n => End(f, sample) = Begin(f) + M
    BY <1>4, <2>1
  <2> QED BY <2>3, <2>5, <2>6, <2>7
<1> QED BY <1>1, <1>3, <1>5 DEF len, n, M

LEMMA FragmentIs ==
  ASSUME NEW sample \in Seq(Nat), sample # <<>>, NEW f \in 1..Count(sample)
  PROVE  LET frag == FragmentsOf(sample)[f]
             part == frag.payload
         IN  /\ frag.starting = f /\ frag.fragmentSize = MaxPayload
             /\ frag.dataSize = Len(sample)
             /\ part \in Seq(Nat) /\ Len(part) = End(f, sample) - Begin(f)
             /\ \A j \in 1..Len(part) : part[j] = sample[Begin(f) + j]
<1> DEFINE b == Begin(f)
           e == End(f, sample)
           part == SubSeq(sample, b + 1, e)
<1>1. FragmentsOf(sample)[f] =
        [starting |-> f, count |-> 1, fragmentSize |-> MaxPayload, dataSize |-> Len(sample),
         payload |-> part]
  <2>1. e = Min({f * MaxPayload, Len(sample)}) /\ b = (f - 1) * MaxPayload
    BY PartsOfSample DEF Begin
  <2> HIDE DEF e, b
  <2> QED BY <2>1 DEF FragmentsOf, Count
<1>2. b \in Nat /\ e \in Nat /\ b < e /\ e <= Len(sample) /\ Len(sample) \in Nat
  BY PartsOfSample
<1> HIDE DEF b, e
<1>3. part \in Seq(Nat) /\ Len(part) = e - b /\ \A j \in 1..e - b : part[j] = sample[b + j]
  <2>1. b + 1 \in Int /\ b + 1 <= e /\ e - (b + 1) + 1 = e - b
    BY <1>2
  <2>2. \A i \in b + 1..e : sample[i] \in Nat
    <3> SUFFICES ASSUME NEW i \in b + 1..e PROVE sample[i] \in Nat
      OBVIOUS
    <3>1. i \in 1..Len(sample)
      BY <1>2
    <3> QED BY <3>1, ElementOfSeq
  <2>3. part \in Seq(Nat) /\ Len(part) = e - b /\ \A j \in 1..e - b : part[j] = sample[b + 1 + j - 1]
    BY <1>2, <2>1, <2>2, SubSeqProperties, SMTT(30)
  <2>4. \A j \in 1..e - b : b + 1 + j - 1 = b + j
    BY <1>2
  <2> QED BY <2>3, <2>4
<1> HIDE DEF part
<1> QED BY <1>1, <1>3 DEF b, e

LEMMA PartsAreDisjoint ==
  ASSUME NEW sample \in Seq(Nat), sample # <<>>,
         NEW f \in 1..Count(sample), NEW g \in 1..Count(sample), f # g
  PROVE  \A i \in Part(g, sample) : ~(Begin(f) < i /\ i <= Begin(f) + MaxPayload)
<1> SUFFICES ASSUME NEW i \in Part(g, sample), Begin(f) < i, i <= Begin(f) + MaxPayload
             PROVE  FALSE
  OBVIOUS
<1> DEFINE M == MaxPayload
<1>1. M \in Nat \ {0} /\ Len(sample) \in Nat /\ i \in Nat /\ f \in Nat /\ g \in Nat
  BY FragmentsAssumption, LenProperties, PartsOfSample DEF Part
<1>2. (g - 1) * M < i /\ i <= g * M
  BY DEF Part
<1>3. (f - 1) * M < i /\ i <= (f - 1) * M + M
  BY DEF Begin
<1> HIDE DEF M
<1>4. (f - 1) * M + M = f * M /\ (g - 1) * M + M = g * M
      /\ f * M \in Int /\ g * M \in Int /\ (f - 1) * M \in Int /\ (g - 1) * M \in Int
  BY <1>1, Z3
<1>5. CASE f < g
  <2>1. f * M <= (g - 1) * M
    BY <1>1, <1>5, Z3
  <2> QED BY <1>1, <1>2, <1>3, <1>4, <2>1, SMTT(30)
<1>6. CASE g < f
  <2>1. g * M <= (f - 1) * M
    BY <1>1, <1>6, Z3
  <2> QED BY <1>1, <1>2, <1>3, <1>4, <2>1, SMTT(30)
<1> QED BY <1>1, <1>5, <1>6

\* Every byte is in a part.
LEMMA PartsCover ==
  ASSUME NEW sample \in Seq(Nat), sample # <<>>, NEW i \in 1..Len(sample)
  PROVE  \E f \in 1..Count(sample) : i \in Part(f, sample)
<1> DEFINE M == MaxPayload
           f == DivCeil(i, M)
           n == Count(sample)
<1>1. i \in Nat \ {0} /\ M \in Nat \ {0} /\ i <= Len(sample) /\ Len(sample) \in Nat
  BY FragmentsAssumption, LenProperties
<1>2. f \in Nat \ {0} /\ (f - 1) * M < i /\ i <= f * M
  BY <1>1, CountIs
<1>3. n \in Nat \ {0} /\ Len(sample) <= n * M
  BY PartsOfSample
<1>4. f <= n
  <2> SUFFICES ASSUME f > n PROVE FALSE
    BY <1>2, <1>3
  <2> HIDE DEF f, M, n
  <2>1. n * M <= (f - 1) * M /\ n * M \in Int /\ (f - 1) * M \in Int
    BY <1>1, <1>2, <1>3, Z3
  <2> QED BY <1>1, <1>2, <1>3, <2>1
<1>5. i \in Part(f, sample)
  BY <1>1, <1>2 DEF Part
<1> HIDE DEF f
<1> QED BY <1>2, <1>3, <1>4, <1>5

\* What a set of parts holds.
LEMMA BytesAre ==
  ASSUME NEW sample \in Seq(Nat), sample # <<>>, NEW mask \in SUBSET (1..Count(sample))
  PROVE  /\ BytesOf(mask, sample) \in Int
         /\ BytesOf({}, sample) = 0
         /\ mask = 1..Count(sample) => BytesOf(mask, sample) = Len(sample)
         /\ mask # 1..Count(sample) => BytesOf(mask, sample) < Len(sample)
         /\ \A f \in 1..Count(sample) : f \notin mask =>
              BytesOf(mask \union {f}, sample) = BytesOf(mask, sample) + (End(f, sample) - Begin(f))
<1> DEFINE n == Count(sample)
           len == Len(sample)
           M == MaxPayload
           short(m) == IF n \in m THEN n * M - len ELSE 0
<1>1. M \in Nat \ {0} /\ len \in Nat \ {0} /\ n \in Nat \ {0} /\ (n - 1) * M < len /\ len <= n * M
  BY FragmentsAssumption, PartsOfSample
<1>2. IsFiniteSet(1..n) /\ Cardinality(1..n) = n
  <2>1. 1 \in Int /\ n \in Int
    BY <1>1
  <2> QED BY <2>1, <1>1, FS_Interval, SMTT(30)
<1>3. IsFiniteSet(mask) /\ Cardinality(mask) \in Nat
  BY <1>2, FS_Subset, FS_CardinalityType
<1>4. \A m \in SUBSET (1..n) : BytesOf(m, sample) = Cardinality(m) * M - short(m)
  BY DEF BytesOf
<1> HIDE DEF n, len, M
<1>5. n * M \in Nat /\ n * M = (n - 1) * M + M
  BY <1>1, Z3
<1>6. \A m \in SUBSET (1..n) : short(m) \in Int /\ (n \notin m => short(m) = 0) /\ (n \in m => short(m) = n * M - len)
  BY <1>1, <1>5
<1> HIDE DEF short
<1>7. BytesOf(mask, sample) \in Int
  <2>1. Cardinality(mask) * M \in Int
    BY <1>1, <1>3
  <2>2. mask \in SUBSET (1..n)
    BY DEF n
  <2> QED BY <2>1, <2>2, <1>4, <1>6
<1>8. BytesOf({}, sample) = 0
  <2>1. {} \in SUBSET (1..n) /\ n \notin {}
    OBVIOUS
  <2>2. Cardinality({}) * M = 0
    BY <1>1, FS_EmptySet
  <2>3. short({}) = 0
    BY <1>6, <2>1
  <2> QED BY <2>1, <2>2, <2>3, <1>4
<1>9. mask = 1..n => BytesOf(mask, sample) = len
  <2>1. 1..n \in SUBSET (1..n) /\ n \in 1..n
    BY <1>1
  <2>2. short(1..n) = n * M - len
    BY <1>6, <2>1
  <2> QED BY <1>1, <1>2, <1>4, <1>5, <2>1, <2>2
<1>10. ASSUME mask # 1..n
       PROVE  BytesOf(mask, sample) < len
  <2>0. mask \in SUBSET (1..n)
    BY DEF n
  <2>1. Cardinality(mask) <= n /\ Cardinality(mask) # n
    BY <1>2, <1>10, <2>0, FS_Subset
  <2>2. Cardinality(mask) * M <= (n - 1) * M /\ Cardinality(mask) * M \in Int /\ (n - 1) * M \in Int
    <3>1. Cardinality(mask) <= n - 1
      BY <2>1, <1>1, <1>3
    <3> DEFINE c == Cardinality(mask)
               d == n - 1
    <3>2. c \in Nat /\ d \in Nat /\ c <= d
      BY <3>1, <1>1, <1>3
    <3> HIDE DEF c, d
    <3>3. c * M <= d * M /\ c * M \in Int /\ d * M \in Int
      BY <3>2, <1>1, Z3
    <3> QED BY <3>3 DEF c, d
  <2>3. short(mask) >= 0
    BY <1>1, <1>5, <1>6, <2>0
  <2>4. BytesOf(mask, sample) = Cardinality(mask) * M - short(mask) /\ short(mask) \in Int
    BY <1>4, <1>6, <2>0
  <2> QED BY <2>2, <2>3, <2>4, <1>1
<1>11. ASSUME NEW f \in 1..n, f \notin mask
       PROVE  BytesOf(mask \union {f}, sample) = BytesOf(mask, sample) + (End(f, sample) - Begin(f))
  <2> DEFINE more == mask \union {f}
             c == Cardinality(mask)
             size == End(f, sample) - Begin(f)
  <2>0. mask \in SUBSET (1..n) /\ more \in SUBSET (1..n)
    BY DEF n
  <2>1. Cardinality(more) = c + 1
    BY <1>3, <1>11, FS_AddElement
  <2>2. (c + 1) * M = c * M + M /\ c * M \in Int /\ c \in Nat
    BY <1>1, <1>3, Z3
  <2>3. size = IF f = n THEN len - (n - 1) * M ELSE M
    <3>1. CASE f = n
      BY <3>1 DEF End, Begin, n, len, M
    <3>2. CASE f # n
      <4>1. End(f, sample) = Begin(f) + M /\ Begin(f) \in Nat
        BY <3>2, PartsOfSample DEF n, M
      <4> QED BY <4>1, <3>2, <1>1
    <3> QED BY <3>1, <3>2
  <2>4. short(more) - short(mask) = IF f = n THEN n * M - len ELSE 0
    <3>1. f = n => n \in more /\ n \notin mask
      BY <1>11
    <3>2. f # n => (n \in more <=> n \in mask)
      OBVIOUS
    <3> HIDE DEF more
    <3> QED BY <3>1, <3>2, <2>0, <1>1, <1>5, <1>6
  <2> DEFINE p == c * M
             k == Cardinality(more) * M
             q == (n - 1) * M
             r == n * M
             now == short(more)
             before == short(mask)
             total == BytesOf(more, sample)
             old == BytesOf(mask, sample)
  <2>5. k = p + M
    BY <2>1, <2>2
  <2>6. total = k - now /\ old = p - before
    BY <2>0, <1>4
  <2>7. now \in Int /\ before \in Int
    BY <2>0, <1>6
  <2>8. p \in Int /\ q \in Int /\ r \in Int /\ r = q + M
    BY <2>2, <1>1, <1>5
  <2>9. size = IF f = n THEN len - q ELSE M
    BY <2>3
  <2>10. now - before = IF f = n THEN r - len ELSE 0
    BY <2>4
  <2> HIDE DEF more, c, size, p, k, q, r, now, before, total, old
  <2>11. total = old + size
    <3>1. CASE f = n
      BY <3>1, <2>5, <2>6, <2>7, <2>8, <2>9, <2>10, <1>1
    <3>2. CASE f # n
      BY <3>2, <2>5, <2>6, <2>7, <2>8, <2>9, <2>10, <1>1
    <3> QED BY <3>1, <3>2
  <2> QED BY <2>11 DEF more, size, total, old
<1> QED BY <1>7, <1>8, <1>9, <1>10, <1>11 DEF n, len

\* A new buffer holds nothing.
LEMMA NewBufferIs ==
  ASSUME NEW sample \in Seq(Nat), sample # <<>>, NEW f \in 1..Count(sample)
  PROVE  /\ IsBufferOf(NewBuffer(FragmentsOf(sample)[f]), sample)
         /\ NewBuffer(FragmentsOf(sample)[f]).mask = {}
<1> DEFINE frag == FragmentsOf(sample)[f]
           n == Count(sample)
           len == Len(sample)
           zeros == [i \in 1..len |-> 0]
           buf == NewBuffer(frag)
<1>1. frag.fragmentSize = MaxPayload /\ frag.dataSize = len
  BY FragmentIs
<1>2. n = DivCeil(len, MaxPayload) /\ n \in Nat /\ len \in Nat
  BY PartsOfSample DEF Count
<1>3. zeros \in Seq(Nat) /\ Len(zeros) = len
  BY <1>2
<1> HIDE DEF frag
<1>4. buf = [dataSize |-> len, received |-> 0, mask |-> {}, fragments |-> n, buffer |-> zeros]
  <2> HIDE DEF n
  <2> QED BY <1>1, <1>2 DEF NewBuffer
<1>5. BytesOf({}, sample) = 0
  <2>1. {} \in SUBSET (1..Count(sample))
    OBVIOUS
  <2> QED BY <2>1, BytesAre
<1>6. \A g \in 1..n : \A i \in Part(g, sample) : zeros[i] = 0
  BY DEF Part
<1> HIDE DEF buf, n, len, zeros
<1>7. buf \in Buffers
  BY <1>2, <1>3, <1>4 DEF Buffers
<1>8. buf.received = BytesOf(buf.mask, sample) /\ buf.received = 0
  BY <1>4, <1>5
<1> QED BY <1>3, <1>4, <1>6, <1>7, <1>8 DEF IsBufferOf, buf, n, len, frag

\* The bytes after one chunk.
LEMMA ChunkCopied ==
  ASSUME NEW sample \in Seq(Nat), sample # <<>>, NEW f \in 1..Count(sample),
         NEW old \in Seq(Nat), Len(old) = Len(sample),
         \A i \in Part(f, sample) : old[i] = 0
  PROVE  LET chunk == Trim(FragmentsOf(sample)[f].payload)
             new == [i \in DOMAIN old |-> IF i - Begin(f) \in DOMAIN chunk
                                          THEN chunk[i - Begin(f)] ELSE old[i]]
         IN  /\ new \in Seq(Nat) /\ Len(new) = Len(sample)
             /\ \A i \in Part(f, sample) : new[i] = sample[i]
             /\ \A g \in 1..Count(sample) : g # f => \A i \in Part(g, sample) : new[i] = old[i]
<1> DEFINE part == FragmentsOf(sample)[f].payload
           chunk == Trim(part)
           len == Len(sample)
           b == Begin(f)
           e == End(f, sample)
           new == [i \in DOMAIN old |-> IF i - b \in DOMAIN chunk THEN chunk[i - b] ELSE old[i]]
<1>1. /\ part \in Seq(Nat) /\ Len(part) = e - b
      /\ \A j \in 1..Len(part) : part[j] = sample[b + j]
  BY FragmentIs
<1>2. /\ b \in Nat /\ e \in Nat /\ b < e /\ e <= len
      /\ e <= b + MaxPayload
      /\ Part(f, sample) = b + 1..e
      /\ MaxPayload \in Nat /\ len \in Nat
  <2>1. MaxPayload \in Nat /\ (f # Count(sample) => e = b + MaxPayload)
    BY PartsOfSample, FragmentsAssumption
  <2>2. f = Count(sample) => e <= b + MaxPayload
    <3>1. CASE f = Count(sample)
      <4>1. e = len /\ len <= f * MaxPayload /\ b = (f - 1) * MaxPayload /\ f \in Nat
        BY <3>1, PartsOfSample DEF End, Begin
      <4>2. f * MaxPayload = (f - 1) * MaxPayload + MaxPayload
        BY <2>1, <4>1, Z3
      <4> QED BY <4>1, <4>2
    <3> QED BY <3>1
  <2>3. b \in Nat /\ e \in Nat /\ b < e /\ e <= len /\ Part(f, sample) = b + 1..e /\ len \in Nat
    BY PartsOfSample
  <2> HIDE DEF b, e
  <2> QED BY <2>1, <2>2, <2>3
<1>3. /\ chunk \in Seq(Nat) /\ Len(chunk) \in Nat /\ Len(chunk) <= Len(part)
      /\ \A j \in 1..Len(chunk) : chunk[j] = part[j]
      /\ \A j \in 1..Len(part) : j > Len(chunk) => part[j] = 0
  <2> HIDE DEF part
  <2> QED BY <1>1, TrimIs
<1>4. DOMAIN chunk = 1..Len(chunk) /\ DOMAIN old = 1..len
  BY <1>3, LenProperties
<1> HIDE DEF part, chunk, b, e
<1>5. ASSUME NEW i \in 1..len PROVE new[i] \in Nat
  <2>1. old[i] \in Nat
    BY ElementOfSeq
  <2>2. i - b \in DOMAIN chunk => chunk[i - b] \in Nat
    BY <1>3, <1>4, ElementOfSeq
  <2> QED BY <1>4, <2>1, <2>2
<1>6. new \in Seq(Nat) /\ Len(new) = len
  <2>1. new \in [1..len -> Nat]
    BY <1>4, <1>5
  <2>2. \A s \in [1..len -> Nat] : s \in Seq(Nat) /\ Len(s) = len
    <3> HIDE DEF len
    <3> QED BY <1>2
  <2> HIDE DEF new
  <2> QED BY <2>1, <2>2
<1>7. ASSUME NEW i \in Part(f, sample) PROVE new[i] = sample[i]
  <2>0. i \in b + 1..e
    BY <1>2
  <2>1. i \in 1..len /\ i - b \in 1..Len(part) /\ b + (i - b) = i
    <3> HIDE DEF len
    <3> QED BY <1>1, <1>2, <2>0
  <2>2. part[i - b] = sample[i]
    BY <1>1, <2>1
  <2>3. CASE i - b \in DOMAIN chunk
    BY <1>3, <1>4, <2>1, <2>2, <2>3
  <2>4. CASE i - b \notin DOMAIN chunk
    <3>1. i - b > Len(chunk)
      BY <1>3, <1>4, <2>1, <2>4
    <3>2. sample[i] = 0
      BY <1>3, <2>1, <2>2, <3>1
    <3> QED BY <1>4, <2>1, <2>4, <3>2
  <2> QED BY <2>3, <2>4
<1>8. ASSUME NEW g \in 1..Count(sample), g # f, NEW i \in Part(g, sample)
      PROVE  new[i] = old[i]
  <2>1. i \in 1..len
    BY DEF Part
  <2>2. ~(b < i /\ i <= b + MaxPayload)
    BY <1>8, PartsAreDisjoint DEF b
  <2>3. i - b \notin DOMAIN chunk
    BY <1>1, <1>2, <1>3, <1>4, <2>1, <2>2
  <2> QED BY <1>4, <2>1, <2>3
<1> HIDE DEF new
<1> QED BY <1>6, <1>7, <1>8 DEF new, chunk, part, b, len

LEMMA PartsOfFragments ==
  ASSUME NEW sample \in Seq(Nat)
  PROVE  DOMAIN FragmentsOf(sample) = 1..Count(sample)
BY DEF FragmentsOf, Count

\* A buffer is still one after any fragment; without zero ends it is marked.
LEMMA FillIs ==
  ASSUME NEW sample \in Seq(Nat), sample # <<>>, NEW f \in 1..Count(sample),
         NEW buf, IsBufferOf(buf, sample)
  PROVE  LET filled == Fill(buf, FragmentsOf(sample)[f])
         IN  /\ IsBufferOf(filled, sample)
             /\ buf.mask \subseteq filled.mask /\ filled.mask \subseteq buf.mask \union {f}
             /\ NoZeroEnds(sample) => filled.mask = buf.mask \union {f}
<1> DEFINE frag == FragmentsOf(sample)[f]
           n == Count(sample)
           chunk == Trim(frag.payload)
           b == Begin(f)
           e == End(f, sample)
           filled == Fill(buf, frag)
           new == [i \in DOMAIN buf.buffer |-> IF i - b \in DOMAIN chunk
                                               THEN chunk[i - b] ELSE buf.buffer[i]]
           mask == buf.mask \union {f}
           size == buf.received + Len(chunk)
<1>1. /\ frag.starting = f /\ frag.fragmentSize = MaxPayload
      /\ frag.payload \in Seq(Nat) /\ Len(frag.payload) = e - b
  BY FragmentIs
<1>2. /\ buf \in Buffers /\ buf.dataSize = Len(sample) /\ buf.fragments = n
      /\ buf.mask \in SUBSET (1..n) /\ buf.received <= BytesOf(buf.mask, sample)
      /\ NoZeroEnds(sample) => buf.received = BytesOf(buf.mask, sample)
      /\ Len(buf.buffer) = Len(sample) /\ buf.received \in Nat /\ buf.buffer \in Seq(Nat)
      /\ \A g \in 1..n : \A i \in Part(g, sample) :
           buf.buffer[i] = IF g \in buf.mask THEN sample[i] ELSE 0
  BY DEF IsBufferOf, Buffers
<1>3. n \in Nat /\ f \in 1..n /\ b \in Nat /\ e \in Nat /\ b < e /\ ~(f > n)
  <2>1. n \in Nat /\ b \in Nat /\ e \in Nat /\ b < e
    BY PartsOfSample
  <2> HIDE DEF b, e
  <2> QED BY <2>1
<1>4. Len(chunk) \in Nat /\ Len(chunk) <= e - b /\ (chunk = <<>> <=> Len(chunk) = 0)
  <2> DEFINE part == frag.payload
  <2> HIDE DEF part, b, e
  <2>1. Trim(part) \in Seq(Nat) /\ Len(Trim(part)) \in Nat /\ Len(Trim(part)) <= Len(part)
    BY <1>1, TrimIs DEF part
  <2> QED BY <2>1, <1>1, EmptySeq DEF part
<1>5. NoZeroEnds(sample) => Len(chunk) = e - b
  <2>1. f \in DOMAIN FragmentsOf(sample)
    BY PartsOfFragments
  <2>2. NoZeroEnds(sample) => chunk = frag.payload
    BY <2>1 DEF NoZeroEnds
  <2> HIDE DEF chunk, frag
  <2> QED BY <2>2, <1>1
<1>6. CASE f \in buf.mask \/ chunk = <<>>
  <2>1. filled = buf
    <3> HIDE DEF frag
    <3> QED BY <1>1, <1>6 DEF Fill, chunk
  <2>2. NoZeroEnds(sample) => f \in buf.mask
    BY <1>3, <1>4, <1>5, <1>6
  <2> HIDE DEF filled
  <2>3. buf.mask \subseteq filled.mask /\ filled.mask \subseteq buf.mask \union {f}
        /\ (NoZeroEnds(sample) => filled.mask = buf.mask \union {f})
    BY <2>1, <2>2
  <2> QED BY <2>1, <2>3 DEF filled, frag
<1>7. CASE f \notin buf.mask /\ chunk # <<>>
  <2>1. filled = [buf EXCEPT !.mask = mask, !.received = size, !.buffer = new]
    <3>1. (frag.starting - 1) * frag.fragmentSize = b
      BY <1>1 DEF Begin
    <3> HIDE DEF frag, b
    <3> QED BY <1>1, <1>2, <1>3, <1>7, <3>1 DEF Fill, chunk
  <2>2. /\ new \in Seq(Nat) /\ Len(new) = Len(sample)
        /\ \A i \in Part(f, sample) : new[i] = sample[i]
        /\ \A g \in 1..n : g # f => \A i \in Part(g, sample) : new[i] = buf.buffer[i]
    <3>1. \A i \in Part(f, sample) : buf.buffer[i] = 0
      BY <1>2, <1>3, <1>7
    <3>2. buf.buffer \in Seq(Nat) /\ Len(buf.buffer) = Len(sample)
      BY <1>2
    <3>3. f \in 1..Count(sample)
      BY <1>3
    <3> QED BY <3>1, <3>2, <3>3, ChunkCopied
  <2>3. mask \in SUBSET (1..n) /\ n \in Nat
    BY <1>2, <1>3
  <2> HIDE DEF new, chunk, filled, mask, size, n
  <2>4. /\ filled \in Buffers /\ filled.mask = mask /\ filled.received = size
        /\ filled.buffer = new /\ filled.dataSize = buf.dataSize
        /\ filled.fragments = buf.fragments
    <3>1. mask \in SUBSET Nat
      BY <2>3
    <3>2. size \in Nat
      BY <1>2, <1>4 DEF size
    <3> QED BY <1>2, <2>1, <2>2, <3>1, <3>2 DEF Buffers
  <2>5. BytesOf(mask, sample) = BytesOf(buf.mask, sample) + (e - b) /\ BytesOf(buf.mask, sample) \in Int
    BY <1>2, <1>7, BytesAre DEF mask, n
  <2> HIDE DEF b, e
  <2>6. size <= BytesOf(mask, sample) /\ (NoZeroEnds(sample) => size = BytesOf(mask, sample))
    <3> DEFINE k == Len(chunk)
               old == BytesOf(buf.mask, sample)
               now == BytesOf(mask, sample)
               got == buf.received
    <3>1. now = old + (e - b) /\ old \in Int /\ k \in Nat /\ k <= e - b /\ got \in Nat /\ got <= old
      BY <1>2, <1>4, <2>5
    <3>2. size = got + k /\ e \in Nat /\ b \in Nat
      BY <1>3 DEF size
    <3>3. NoZeroEnds(sample) => got = old /\ k = e - b
      BY <1>2, <1>5
    <3> HIDE DEF k, old, now, got
    <3>4. size <= now /\ (NoZeroEnds(sample) => size = now)
      BY <3>1, <3>2, <3>3
    <3> QED BY <3>4 DEF now
  <2>7. ASSUME NEW g \in 1..n, NEW i \in Part(g, sample)
        PROVE  new[i] = IF g \in mask THEN sample[i] ELSE 0
    <3>1. CASE g = f
      BY <2>2, <3>1 DEF mask
    <3>2. CASE g # f
      <4>1. new[i] = buf.buffer[i]
        BY <2>2, <3>2
      <4>2. g \in mask <=> g \in buf.mask
        BY <3>2 DEF mask
      <4> QED BY <1>2, <4>1, <4>2
    <3> QED BY <3>1, <3>2
  <2>8. IsBufferOf(filled, sample)
    BY <1>2, <2>2, <2>3, <2>4, <2>6, <2>7 DEF IsBufferOf, n
  <2> QED BY <2>4, <2>8 DEF mask, filled, frag
<1> QED BY <1>6, <1>7

\* A buffer is complete only when every fragment is in it, and then it is the
\* sample; one with every fragment is complete when none lost a zero.
LEMMA CompleteIs ==
  ASSUME NEW sample \in Seq(Nat), sample # <<>>, NEW buf, IsBufferOf(buf, sample)
  PROVE  /\ Complete(buf) => buf.mask = 1..Count(sample) /\ buf.buffer = sample
         /\ NoZeroEnds(sample) /\ buf.mask = 1..Count(sample) => Complete(buf)
<1> DEFINE n == Count(sample)
           bytes == BytesOf(buf.mask, sample)
<1>1. /\ buf.mask \in SUBSET (1..n) /\ buf.received <= bytes /\ buf.received \in Nat
      /\ buf.dataSize = Len(sample) /\ Len(buf.buffer) = Len(sample) /\ buf.buffer \in Seq(Nat)
      /\ NoZeroEnds(sample) => buf.received = bytes
      /\ \A g \in 1..n : \A i \in Part(g, sample) :
           buf.buffer[i] = IF g \in buf.mask THEN sample[i] ELSE 0
  BY DEF IsBufferOf, Buffers
<1>2. /\ bytes \in Int /\ Len(sample) \in Nat
      /\ buf.mask = 1..n => bytes = Len(sample)
      /\ buf.mask # 1..n => bytes < Len(sample)
  BY <1>1, BytesAre, LenProperties
<1> HIDE DEF bytes, n
<1>3. ASSUME Complete(buf) PROVE buf.mask = 1..n
  BY <1>1, <1>2, <1>3 DEF Complete
<1>4. ASSUME Complete(buf) PROVE buf.buffer = sample
  <2>1. ASSUME NEW i \in 1..Len(sample) PROVE buf.buffer[i] = sample[i]
    <3>1. PICK g \in 1..n : i \in Part(g, sample)
      BY PartsCover DEF n
    <3> QED BY <3>1, <1>1, <1>3, <1>4
  <2> QED BY <2>1, <1>1, SeqEqual
<1>5. ASSUME NoZeroEnds(sample), buf.mask = 1..n PROVE Complete(buf)
  BY <1>1, <1>2, <1>5 DEF Complete
<1> QED BY <1>3, <1>4, <1>5 DEF n

-----------------------------------------------------------------------------
LEMMA PayloadsAre ==
  ASSUME NEW sample \in Payloads
  PROVE  sample \in Seq(Nat) /\ sample # <<>>
BY FragmentsAssumption

LEMMA EntryIsBuffer ==
  ASSUME NEW buf, NEW sample, IsBufferOf(buf, sample)
  PROVE  buf # NoBuffer
BY FragmentsAssumption DEF IsBufferOf, Buffers

\* What a DataFrag does to the buffer.
LEMMA FilledIs ==
  ASSUME BufferInv, NEW f \in 1..Count(payload)
  PROVE  LET frag == FragmentsOf(payload)[f]
             filled == Fill(IF entry = NoBuffer THEN NewBuffer(frag) ELSE entry, frag)
         IN  /\ IsBufferOf(filled, payload)
             /\ \A g \in filled.mask : g = f \/ Marked(g)
             /\ \A g \in 1..Count(payload) : Marked(g) => g \in filled.mask
             /\ NoZeroEnds(payload) => f \in filled.mask
<1> DEFINE frag == FragmentsOf(payload)[f]
           start == IF entry = NoBuffer THEN NewBuffer(frag) ELSE entry
           filled == Fill(start, frag)
<1>1. payload \in Seq(Nat) /\ payload # <<>>
  BY PayloadsAre DEF BufferInv
<1>2. IsBufferOf(start, payload) /\ \A g : g \in start.mask <=> Marked(g)
  <2>1. CASE entry = NoBuffer
    <3>1. start = NewBuffer(frag)
      BY <2>1
    <3>2. IsBufferOf(NewBuffer(frag), payload) /\ NewBuffer(frag).mask = {}
      BY <1>1, NewBufferIs
    <3> HIDE DEF start, frag
    <3> QED BY <2>1, <3>1, <3>2 DEF Marked
  <2>2. CASE entry # NoBuffer
    <3>1. start = entry
      BY <2>2
    <3> HIDE DEF start
    <3> QED BY <2>2, <3>1 DEF BufferInv, Marked
  <2> QED BY <2>1, <2>2
<1> HIDE DEF start
<1>3. /\ IsBufferOf(filled, payload)
      /\ start.mask \subseteq filled.mask /\ filled.mask \subseteq start.mask \union {f}
      /\ NoZeroEnds(payload) => filled.mask = start.mask \union {f}
  BY <1>1, <1>2, FillIs
<1> HIDE DEF filled
<1>4. NoZeroEnds(payload) => f \in filled.mask
  BY <1>3
<1> QED BY <1>2, <1>3, <1>4 DEF filled, start

LEMMA CutKeeps ==
  ASSUME Cut, payload = <<>> /\ came = <<>> /\ entry = NoBuffer /\ delivered = <<>>
  PROVE  BufferInv'
<1>1. PICK sample \in Payloads : payload' = sample /\ came' = [f \in DOMAIN FragmentsOf(sample) |-> 0]
  BY DEF Cut
<1>2. sample \in Seq(Nat)
  BY PayloadsAre
<1>3. came' = [f \in 1..Count(sample) |-> 0]
  BY <1>1, <1>2, PartsOfFragments
<1>4. entry' = NoBuffer /\ delivered' = <<>>
  BY DEF Cut
<1>5. \A f \in 1..Count(sample) : came'[f] = 0
  BY <1>3
<1>6. came' \in [1..Count(sample) -> Nat] /\ <<>> \in Seq({payload'}) /\ Len(<<>>) = 0
  BY <1>3
<1>7. \A f \in 1..Count(payload') :
        /\ Len(delivered') + (IF Marked(f)' THEN 1 ELSE 0) <= came'[f]
        /\ NoZeroEnds(payload') /\ delivered' = <<>> /\ came'[f] > 0 => Marked(f)'
  BY <1>1, <1>4, <1>5, <1>6 DEF Marked
<1> QED BY <1>1, <1>4, <1>6, <1>7 DEF BufferInv

LEMMA DataFragKeeps ==
  ASSUME BufferInv, NEW f \in DOMAIN came, ReceiveDataFrag(f)
  PROVE  BufferInv'
<1> DEFINE n == Count(payload)
           frag == FragmentsOf(payload)[f]
           filled == Fill(IF entry = NoBuffer THEN NewBuffer(frag) ELSE entry, frag)
<1>1. /\ payload \in Payloads /\ payload' = payload
      /\ came \in [1..n -> Nat] /\ came' = [came EXCEPT ![f] = @ + 1]
      /\ delivered \in Seq({payload}) /\ f \in 1..n
  BY DEF BufferInv, ReceiveDataFrag
<1>2. /\ IsBufferOf(filled, payload)
      /\ \A g \in filled.mask : g = f \/ Marked(g)
      /\ \A g \in 1..n : Marked(g) => g \in filled.mask
      /\ NoZeroEnds(payload) => f \in filled.mask
  BY <1>1, FilledIs
<1>3. /\ Complete(filled) => entry' = NoBuffer /\ delivered' = Append(delivered, filled.buffer)
      /\ ~Complete(filled) => entry' = filled /\ delivered' = delivered /\ asked' = Missing(filled)
  BY DEF ReceiveDataFrag
<1> HIDE DEF filled, n
<1>4. /\ came' \in [1..n -> Nat] /\ came'[f] = came[f] + 1
      /\ \A g \in 1..n : came'[g] \in Nat /\ came[g] \in Nat /\ came'[g] >= came[g]
                         /\ (g # f => came'[g] = came[g])
  BY <1>1
<1>5. Len(delivered) \in Nat
  BY <1>1, LenProperties
<1>6. \A g \in 1..n : /\ Len(delivered) <= came[g]
                      /\ Marked(g) => Len(delivered) + 1 <= came[g]
  <2> SUFFICES ASSUME NEW g \in 1..n
               PROVE  Len(delivered) <= came[g] /\ (Marked(g) => Len(delivered) + 1 <= came[g])
    OBVIOUS
  <2>1. Len(delivered) + (IF Marked(g) THEN 1 ELSE 0) <= came[g]
    BY DEF BufferInv, n
  <2>2. CASE Marked(g)
    BY <2>1, <2>2, <1>4, <1>5
  <2>3. CASE ~Marked(g)
    BY <2>1, <2>3, <1>4, <1>5
  <2> QED BY <2>2, <2>3
<1>7. CASE Complete(filled)
  <2>1. filled.mask = 1..n /\ filled.buffer = payload
    BY <1>1, <1>2, <1>7, PayloadsAre, CompleteIs DEF n
  <2>2. delivered' = Append(delivered, payload) /\ entry' = NoBuffer
    BY <1>3, <1>7, <2>1
  <2>3. delivered' \in Seq({payload}) /\ Len(delivered') = Len(delivered) + 1 /\ delivered' # <<>>
    <3>1. delivered' \in Seq({payload}) /\ Len(delivered') = Len(delivered) + 1
      BY <1>1, <2>2, AppendProperties
    <3> QED BY <3>1, <1>5, EmptySeq
  <2>4. \A g \in 1..n : Len(delivered) + 1 <= came'[g]
    <3> SUFFICES ASSUME NEW g \in 1..n PROVE Len(delivered) + 1 <= came'[g]
      OBVIOUS
    <3>1. CASE g = f
      BY <3>1, <1>4, <1>5, <1>6
    <3>2. CASE g # f
      BY <3>2, <2>1, <1>2, <1>4, <1>6
    <3> QED BY <3>1, <3>2
  <2>5. \A g \in 1..n : ~Marked(g)'
    BY <2>2 DEF Marked
  <2>6. \A g \in 1..n :
          /\ Len(delivered') + (IF Marked(g)' THEN 1 ELSE 0) <= came'[g]
          /\ NoZeroEnds(payload') /\ delivered' = <<>> /\ came'[g] > 0 => Marked(g)'
    BY <2>3, <2>4, <2>5, <1>4, <1>5
  <2> QED BY <1>1, <1>4, <2>2, <2>3, <2>6 DEF BufferInv, n
<1>8. CASE ~Complete(filled)
  <2>1. entry' = filled /\ delivered' = delivered /\ asked' = Missing(filled)
    BY <1>3, <1>8
  <2>2. \A g \in 1..n : (Marked(g)' => g = f \/ Marked(g)) /\ (Marked(g) => Marked(g)')
    <3>1. filled # NoBuffer
      BY <1>2, EntryIsBuffer
    <3> QED BY <1>2, <2>1, <3>1 DEF Marked
  <2>3. NoZeroEnds(payload) => Marked(f)'
    <3>1. filled # NoBuffer
      BY <1>2, EntryIsBuffer
    <3> QED BY <1>2, <2>1, <3>1 DEF Marked
  <2>4. ASSUME NEW g \in 1..n
        PROVE  /\ Len(delivered') + (IF Marked(g)' THEN 1 ELSE 0) <= came'[g]
               /\ NoZeroEnds(payload') /\ delivered' = <<>> /\ came'[g] > 0 => Marked(g)'
    <3>1. Len(delivered) + (IF Marked(g)' THEN 1 ELSE 0) <= came'[g]
      <4>1. CASE g = f
        BY <4>1, <1>4, <1>5, <1>6
      <4>2. CASE g # f
        BY <4>2, <2>2, <1>4, <1>5, <1>6
      <4> QED BY <4>1, <4>2
    <3>2. ASSUME NoZeroEnds(payload'), delivered' = <<>>, came'[g] > 0 PROVE Marked(g)'
      <4>1. CASE g = f
        BY <1>1, <2>3, <3>2, <4>1
      <4>2. CASE g # f
        <5>1. came[g] > 0 /\ NoZeroEnds(payload) /\ delivered = <<>>
          BY <1>1, <1>4, <2>1, <3>2, <4>2
        <5>2. Marked(g)
          BY <5>1 DEF BufferInv, n
        <5> QED BY <5>2, <2>2
      <4> QED BY <4>1, <4>2
    <3> QED BY <2>1, <3>1, <3>2
  <2> QED BY <1>1, <1>2, <1>4, <1>8, <2>1, <2>4 DEF BufferInv, n
<1> QED BY <1>7, <1>8

LEMMA HeartbeatFragKeeps ==
  ASSUME BufferInv, ReceiveHeartbeatFrag
  PROVE  BufferInv'
<1>1. UNCHANGED <<payload, came, entry, delivered>>
  BY DEF ReceiveHeartbeatFrag
<1>2. entry # NoBuffer => asked' = Missing(entry)
  BY DEF ReceiveHeartbeatFrag, BufferInv
<1> QED BY <1>1, <1>2 DEF BufferInv, Marked

LEMMA FragmentsKeep ==
  ASSUME FragmentsInv, NextFragments
  PROVE  FragmentsInv'
<1>1. CASE payload = <<>>
  <2>1. came = <<>> /\ entry = NoBuffer /\ delivered = <<>>
    BY <1>1, PayloadsAre DEF FragmentsInv, BufferInv
  <2>2. ~(\E f \in DOMAIN came : ReceiveDataFrag(f)) /\ ~ReceiveHeartbeatFrag
    BY <1>1, <2>1 DEF ReceiveHeartbeatFrag
  <2>3. BufferInv'
    BY <1>1, <2>1, <2>2, CutKeeps DEF NextFragments
  <2> QED BY <2>3 DEF FragmentsInv
<1>2. CASE payload # <<>>
  <2>1. BufferInv
    BY <1>2 DEF FragmentsInv
  <2>2. ~Cut
    BY <1>2 DEF Cut
  <2>3. ASSUME NEW f \in DOMAIN came, ReceiveDataFrag(f) PROVE BufferInv'
    BY <2>1, <2>3, DataFragKeeps
  <2>4. ASSUME ReceiveHeartbeatFrag PROVE BufferInv'
    BY <2>1, <2>4, HeartbeatFragKeeps
  <2>5. BufferInv'
    BY <2>2, <2>3, <2>4 DEF NextFragments
  <2> QED BY <2>5 DEF FragmentsInv
<1> QED BY <1>1, <1>2

LEMMA ReassembledFromInv ==
  ASSUME FragmentsInv
  PROVE  SamplesAreReassembled
<1>1. CASE payload = <<>> /\ came = <<>> /\ entry = NoBuffer /\ delivered = <<>>
  BY <1>1 DEF SamplesAreReassembled
<1>2. CASE BufferInv
  <2> DEFINE n == Count(payload)
  <2>1. payload \in Seq(Nat) /\ payload # <<>>
    BY <1>2, PayloadsAre DEF BufferInv
  <2>2. DOMAIN came = 1..n /\ came \in [1..n -> Nat] /\ delivered \in Seq({payload}) /\ Len(delivered) \in Nat
    BY <1>2, LenProperties DEF BufferInv
  <2>3. \A k \in DOMAIN delivered : delivered[k] = payload
    <3>1. \A k \in 1..Len(delivered) : delivered[k] \in {payload}
      BY <2>2, ElementOfSeq
    <3> QED BY <2>2, <3>1
  <2>4. \A f \in 1..n : Len(delivered) <= came[f]
    <3> SUFFICES ASSUME NEW f \in 1..n PROVE Len(delivered) <= came[f]
      OBVIOUS
    <3>1. Len(delivered) + (IF Marked(f) THEN 1 ELSE 0) <= came[f] /\ came[f] \in Nat
      BY <1>2, <2>2 DEF BufferInv
    <3>2. Len(delivered) <= Len(delivered) + (IF Marked(f) THEN 1 ELSE 0)
      BY <2>2
    <3> QED BY <2>2, <3>1, <3>2
  <2>5. ASSUME NoZeroEnds(payload), \A f \in 1..n : came[f] > 0, delivered = <<>>
        PROVE  FALSE
    <3>1. \A f \in 1..n : Marked(f)
      BY <1>2, <2>5 DEF BufferInv
    <3>2. 1 \in 1..n
      BY <2>1, PartsOfSample
    <3>3. entry # NoBuffer
      BY <3>1, <3>2 DEF Marked
    <3>4. IsBufferOf(entry, payload) /\ ~Complete(entry)
      BY <1>2, <3>3 DEF BufferInv
    <3>5. entry.mask = 1..n
      BY <3>1, <3>4 DEF Marked, IsBufferOf
    <3> QED BY <2>1, <2>5, <3>4, <3>5, CompleteIs
  <2> QED BY <2>2, <2>3, <2>4, <2>5 DEF SamplesAreReassembled
<1> QED BY <1>1, <1>2 DEF FragmentsInv

LEMMA MissingFromInv ==
  ASSUME FragmentsInv
  PROVE  MissingIsAsked
<1> SUFFICES ASSUME entry # NoBuffer, NoZeroEnds(payload)
             PROVE  /\ asked # {} /\ asked \subseteq DOMAIN came
                    /\ \A f \in asked :
                         Complete(Fill(entry, FragmentsOf(payload)[f])) <=> asked = {f}
  BY DEF MissingIsAsked
<1> DEFINE n == Count(payload)
<1>1. BufferInv
  BY DEF FragmentsInv
<1>2. payload \in Seq(Nat) /\ payload # <<>> /\ DOMAIN came = 1..n
  BY <1>1, PayloadsAre DEF BufferInv
<1>3. IsBufferOf(entry, payload) /\ ~Complete(entry) /\ asked = Missing(entry)
  BY <1>1 DEF BufferInv
<1>4. entry.fragments = n /\ entry.mask \subseteq 1..n
  BY <1>3 DEF IsBufferOf
<1>5. asked = (1..n) \ entry.mask
  BY <1>3, <1>4 DEF Missing
<1>6. entry.mask # 1..n
  BY <1>2, <1>3, CompleteIs
<1> HIDE DEF n
<1>7. ASSUME NEW f \in asked
      PROVE  Complete(Fill(entry, FragmentsOf(payload)[f])) <=> asked = {f}
  <2> DEFINE filled == Fill(entry, FragmentsOf(payload)[f])
  <2>1. f \in 1..n
    BY <1>5
  <2>2. IsBufferOf(filled, payload) /\ filled.mask = entry.mask \union {f}
    BY <1>2, <1>3, <2>1, FillIs DEF n
  <2> HIDE DEF filled
  <2>3. Complete(filled) <=> filled.mask = 1..n
    BY <1>2, <2>2, CompleteIs DEF n
  <2>4. filled.mask = 1..n <=> asked = {f}
    BY <1>4, <1>5, <2>1, <2>2
  <2> QED BY <2>3, <2>4 DEF filled
<1> QED BY <1>2, <1>4, <1>5, <1>6, <1>7

-----------------------------------------------------------------------------
(* The windows of messages                                                 *)

LEMMA GreatestOfList ==
  ASSUME NEW list \in Seq(Nat), list # <<>>
  PROVE  \E m \in Range(list) : \A y \in Range(list) : m >= y
<1> DEFINE n == Len(list)
           S == Range(list)
           Good == {k \in 0..n : \E m \in Nat : \A i \in 1..k : list[i] <= m}
<1>1. n \in Nat /\ \A i \in 1..n : list[i] \in Nat
  OBVIOUS
<1>2. S = {list[i] : i \in 1..n} /\ S # {}
  <2>1. DOMAIN list = 1..n
    OBVIOUS
  <2>2. S = {list[i] : i \in 1..n}
    BY <2>1 DEF Range
  <2>3. n # 0
    BY EmptySeq
  <2>4. 1 \in 1..n
    BY <1>1, <2>3
  <2> HIDE DEF n, S
  <2> QED BY <2>2, <2>4
<1> HIDE DEF S, n
<1>3. 0 \in Good
  BY <1>1
<1>4. ASSUME NEW k \in 1..n, k - 1 \in Good PROVE k \in Good
  <2>1. PICK m \in Nat : \A i \in 1..k - 1 : list[i] <= m
    BY <1>4
  <2>2. list[k] \in Nat /\ k \in 0..n
    BY <1>1
  <2>3. CASE list[k] <= m
    <3>1. \A i \in 1..k : i \in 1..k - 1 \/ i = k
      OBVIOUS
    <3>2. \A i \in 1..k : list[i] <= m
      BY <2>1, <2>3, <3>1
    <3> QED BY <2>2, <3>2
  <2>4. CASE ~(list[k] <= m)
    <3>1. \A i \in 1..k : i \in 1..k - 1 \/ i = k
      OBVIOUS
    <3>2. \A i \in 1..k - 1 : i \in 1..n
      BY <1>1
    <3>3. \A i \in 1..k : list[i] <= list[k]
      BY <1>1, <2>1, <2>2, <2>4, <3>1, <3>2
    <3> QED BY <2>2, <3>3
  <2> QED BY <2>3, <2>4
<1> HIDE DEF Good
<1>5. n \in Good
  <2>1. \A k \in 0..n : k \in Good
    BY <1>1, <1>3, <1>4, UpTo
  <2> QED BY <1>1, <2>1
<1>6. PICK m \in Nat : \A i \in 1..n : list[i] <= m
  BY <1>5 DEF Good
<1>7. S \in SUBSET Nat /\ \A y \in S : y <= m
  BY <1>1, <1>2, <1>6
<1> QED BY <1>2, <1>7, GreatestExists DEF S

\* The numbers of a list that the window from base on holds.
Held(base, numbers) == {k \in Range(numbers) : k >= base /\ k < base + MaxBits}

\* A list of numbers becomes the bits of the numbers that its window holds.
LEMMA WindowIs ==
  ASSUME NEW base \in Nat, NEW numbers \in Seq(Nat)
  PROVE  LET set == NumberSet(base, numbers)
         IN  /\ set = [base |-> base, numBits |-> set.numBits, bits |-> set.bits]
             /\ set.numBits \in Nat
             /\ numbers = <<>> => set.numBits = 0
             /\ set.bits \in SUBSET Nat /\ IsFiniteSet(set.bits)
             /\ set.numBits = 0 => set.bits = {}
             /\ {base + b : b \in set.bits} = Held(base, numbers)
             /\ base \in Range(numbers) => 0 \in set.bits
<1> DEFINE S == Range(numbers)
           set == NumberSet(base, numbers)
           top == Max(S)
           n == IF numbers = <<>> THEN 0 ELSE Min({Max({top - base + 1, 0}), MaxBits})
           bits == {k - base : k \in S} \cap 0..n - 1
<1>0. MaxBits \in Nat \ {0}
  BY RtpsAssumption
<1>1. set = [base |-> base, numBits |-> n, bits |-> bits]
  BY DEF NumberSet
<1>2. \A k \in S : k \in Nat
  BY DEF Range
<1>3. /\ n \in 0..MaxBits
      /\ numbers = <<>> => n = 0
      /\ \A k \in S : k >= base /\ k < base + MaxBits => k - base \in 0..n - 1
  <2>1. CASE numbers = <<>>
    <3>1. n = 0 /\ S = {}
      BY <2>1 DEF Range
    <3> QED BY <1>0, <3>1
  <2>2. CASE numbers # <<>>
    <3>1. PICK m \in S : \A y \in S : m >= y
      BY <2>2, GreatestOfList
    <3>2. m \in Nat /\ S \in SUBSET Int
      BY <1>2, <3>1
    <3> HIDE DEF S
    <3>3. top = m
      BY <3>1, <3>2, MaxIs
    <3> DEFINE more == Max({top - base + 1, 0})
    <3>4. more = IF m - base + 1 >= 0 THEN m - base + 1 ELSE 0
      <4>1. {m - base + 1, 0} \in SUBSET Int
        BY <3>2
      <4>2. CASE m - base + 1 >= 0
        <5>1. \A y \in {m - base + 1, 0} : m - base + 1 >= y
          BY <4>2, <3>2
        <5> QED BY <3>3, <4>1, <4>2, <5>1, MaxIs
      <4>3. CASE ~(m - base + 1 >= 0)
        <5>1. \A y \in {m - base + 1, 0} : 0 >= y
          BY <4>3, <3>2
        <5> QED BY <3>3, <4>1, <4>3, <5>1, MaxIs
      <4> QED BY <4>2, <4>3
    <3> HIDE DEF more, top
    <3>5. more \in Nat
      BY <3>2, <3>4
    <3>6. n = IF more <= MaxBits THEN more ELSE MaxBits
      <4>1. n = Min({more, MaxBits})
        BY <2>2 DEF more
      <4> HIDE DEF n
      <4> QED BY <1>0, <3>5, <4>1, MinIs
    <3> HIDE DEF n
    <3>7. ASSUME NEW k \in S, k >= base, k < base + MaxBits
          PROVE  k - base \in 0..n - 1
      BY <1>0, <1>2, <3>1, <3>2, <3>4, <3>6, <3>7
    <3> QED BY <1>0, <2>2, <3>5, <3>6, <3>7
  <2> QED BY <2>1, <2>2
<1> HIDE DEF n
<1>4. set.base = base /\ set.numBits = n /\ set.bits = bits
  BY <1>1
<1>5. bits \in SUBSET Nat /\ IsFiniteSet(bits)
  <2>1. n - 1 \in Int /\ bits \in SUBSET (0..n - 1)
    BY <1>3
  <2>2. IsFiniteSet(0..n - 1)
    BY <2>1, FS_Interval
  <2> HIDE DEF bits
  <2>3. IsFiniteSet(bits)
    BY <2>1, <2>2, FS_Subset
  <2> QED BY <2>1, <2>3
<1>6. n = 0 => bits = {}
  BY <1>3
<1>7. {base + b : b \in bits} = Held(base, numbers)
  <2>1. ASSUME NEW b \in bits PROVE base + b \in Held(base, numbers)
    <3>1. PICK k \in S : b = k - base
      OBVIOUS
    <3>2. b \in 0..n - 1 /\ k \in Nat
      BY <1>2
    <3>3. base + b = k /\ k >= base /\ k < base + MaxBits
      BY <1>0, <1>3, <3>1, <3>2
    <3> QED BY <3>3 DEF Held
  <2>2. ASSUME NEW k \in Held(base, numbers) PROVE \E b \in bits : k = base + b
    <3>1. k \in S /\ k >= base /\ k < base + MaxBits /\ k \in Nat
      BY <1>2 DEF Held
    <3>2. k - base \in bits /\ k = base + (k - base)
      BY <1>3, <3>1
    <3> QED BY <3>2
  <2> HIDE DEF bits
  <2> QED BY <2>1, <2>2
<1>8. ASSUME base \in S PROVE 0 \in bits
  <2>1. base >= base /\ base < base + MaxBits /\ base - base = 0
    BY <1>0
  <2>2. base - base \in 0..n - 1
    BY <1>3, <1>8, <2>1
  <2>3. base - base \in bits
    BY <1>8, <2>2
  <2> QED BY <2>1, <2>3
<1> HIDE DEF bits, set, S
<1> QED BY <1>1, <1>3, <1>4, <1>5, <1>6, <1>7, <1>8 DEF set, S

\* The numbers read from such a set are those its window holds, in order.
LEMMA WindowIsRead ==
  ASSUME NEW base \in Nat, NEW numbers \in Seq(Nat)
  PROVE  IsWindow(Numbers(NumberSet(base, numbers)), base, numbers)
<1> DEFINE set == NumberSet(base, numbers)
<1>1. set.base \in Int /\ set.bits \in SUBSET Nat /\ IsFiniteSet(set.bits) /\ set.base = base
      /\ {base + b : b \in set.bits} = Held(base, numbers)
  <2>1. set = [base |-> base, numBits |-> set.numBits, bits |-> set.bits]
    BY WindowIs
  <2>2. set.base = base
    BY <2>1
  <2> QED BY <2>2, WindowIs
<1> HIDE DEF set
<1>2. Ascending(Numbers(set)) /\ Range(Numbers(set)) = {set.base + b : b \in set.bits}
  BY <1>1, NumbersAreBits
<1> QED BY <1>1, <1>2 DEF IsWindow, Held, set

-----------------------------------------------------------------------------
(* Words                                                                   *)

LEMMA SnIs ==
  ASSUME NEW k \in Nat
  PROVE  FromHighLow(High(k), Low(k)) = k
<1>1. HighUnit \in Nat \ {0} /\ Garbage \notin Int
  BY RtpsAssumption
<1>2. High(k) \in Int /\ Low(k) \in Int /\ (High(k) * HighUnit) + Low(k) = k
  BY <1>1, Z3 DEF High, Low
<1> QED BY <1>1, <1>2 DEF FromHighLow

LEMMA BitmapSizeIs ==
  ASSUME NEW set, set.numBits \in Nat
  PROVE  /\ BitmapSize(set) \in Nat
         /\ \E q \in Nat : BitmapSize(set) = 4 * q
         /\ set.numBits = 0 => BitmapSize(set) = 0
         /\ set.numBits > 0 => BitmapSize(set) > 0
<1> DEFINE n == set.numBits
           q == (n + WordBits - 1) \div WordBits
<1>1. WordBits \in Nat \ {0} /\ n \in Nat
  BY RtpsAssumption
<1>2. BitmapSize(set) = 4 * q
  BY DEF BitmapSize
<1> HIDE DEF n
<1>3. q \in Int /\ q * WordBits <= n + WordBits - 1 /\ n + WordBits - 1 < q * WordBits + WordBits
  BY <1>1, Z3
<1>4. n = 0 => q = 0
  <2>1. n = 0 => 0 * WordBits <= n + WordBits - 1 /\ n + WordBits - 1 < 0 * WordBits + WordBits
    BY <1>1
  <2>2. n + WordBits - 1 \in Int
    BY <1>1
  <2> QED BY <1>1, <2>1, <2>2, QuotientIs
<1>5. q >= 0 /\ (n > 0 => q > 0)
  <2> HIDE DEF q
  <2>1. q <= -1 => q * WordBits + WordBits <= 0
    BY <1>1, <1>3, Z3
  <2>2. q <= 0 => q * WordBits + WordBits <= WordBits
    BY <1>1, <1>3, Z3
  <2> QED BY <1>1, <1>3, <2>1, <2>2
<1> HIDE DEF q
<1>6. 4 * q \in Nat /\ q \in Nat
  BY <1>3, <1>5
<1> QED BY <1>2, <1>4, <1>5, <1>6 DEF n

-----------------------------------------------------------------------------
(* Bodies                                                                  *)

\* Each field begins where the last ended and is found there if it has bytes.
Placed(body, fields, n, end) ==
  /\ end[0] = 0 /\ body.size = end[n]
  /\ \A k \in 1..n :
       /\ end[k] = end[k - 1] + fields[k][1]
       /\ fields[k][1] > 0 => /\ end[k - 1] \in DOMAIN body.at
                              /\ body.at[end[k - 1]] = fields[k]
                              /\ FieldAt(body, end[k - 1], fields[k][1]) = fields[k][2]

LEMMA BodyIs ==
  ASSUME NEW n \in Nat, NEW fields, DOMAIN fields = 1..n, \A k \in 1..n : fields[k][1] \in Nat
  PROVE  \E end \in [0..n -> Nat] : Placed(Body(fields), fields, n, end)
<1> DEFINE sizes == [i \in 1..n |-> fields[i][1]]
           end == Ends(0, sizes)
           body == Body(fields)
<1>1. body = LayOut(0, sizes, fields)
  BY DEF Body
<1>2. sizes = [k \in 1..n |-> sizes[k]] /\ \A k \in 1..n : sizes[k] = fields[k][1] /\ sizes[k] \in Nat
  OBVIOUS
<1> HIDE DEF sizes, body
<1>3. sizes \in Seq(Nat) /\ Len(sizes) = n
  BY <1>2, SizesAre
<1>4. EndAt(0, sizes, n, end)
  BY <1>3, EndsAre
<1>5. /\ body.size = end[n]
      /\ \A k \in 1..n : sizes[k] > 0 => /\ end[k - 1] \in DOMAIN body.at
                                         /\ body.at[end[k - 1]] = fields[k]
  <2>0. 0 \in Nat
    OBVIOUS
  <2> DEFINE buffer == LayOut(0, sizes, fields)
             l == Len(sizes)
  <2>1. /\ buffer.size = end[l]
        /\ \A k \in 1..l : sizes[k] > 0 => /\ end[k - 1] \in DOMAIN buffer.at
                                           /\ buffer.at[end[k - 1]] = fields[k]
    BY <1>3, <2>0, LayOutIs
  <2>2. buffer = body /\ l = n
    BY <1>1, <1>3
  <2> HIDE DEF buffer, l, end
  <2> QED BY <2>1, <2>2
<1> HIDE DEF end
<1>6. \A k \in 1..n : /\ end[k] = end[k - 1] + fields[k][1]
                      /\ fields[k][1] > 0 => /\ end[k - 1] \in DOMAIN body.at
                                             /\ body.at[end[k - 1]] = fields[k]
  BY <1>2, <1>4, <1>5 DEF EndAt
<1>7. end[0] = 0 /\ end \in [0..n -> Nat]
  BY <1>4 DEF EndAt
<1>8. Placed(body, fields, n, end)
  BY <1>5, <1>6, <1>7 DEF Placed, FieldAt
<1> QED BY <1>7, <1>8 DEF body

\* What Serialize puts for a submessage.
Sent(sub) ==
  LET body == Body(Fields(sub))
      padded == Pad4(body.size)
  IN  [kind |-> sub.kind, flags |-> Flags(sub), body |-> body,
       octetsToNext |-> IF padded <= MaxU16 THEN padded ELSE body.size % (MaxU16 + 1)]

\* It has the length it is parsed at, and it is read back.
IsRead(sub) ==
  LET n == Pad4(Body(Fields(sub)).size)
  IN  /\ Body(Fields(sub)).size \in Nat
      /\ n >= Least(sub.kind)
      /\ sub.kind # "InfoTs" => n > 0
      /\ Survives(sub, Read(Sent(sub), n))

LEMMA HeartbeatIsRead ==
  ASSUME NEW sub \in SubmessageOf("Heartbeat")
  PROVE  IsRead(sub)
<1> DEFINE fields == Fields(sub)
           body == Body(fields)
<1>1. /\ sub = [kind |-> "Heartbeat", reader |-> sub.reader, writer |-> sub.writer,
                first |-> sub.first, last |-> sub.last, count |-> sub.count,
                flags |-> sub.flags]
      /\ sub.first \in Nat /\ sub.last \in Nat /\ sub.kind = "Heartbeat"
  BY DEF SubmessageOf
<1>2. fields = <<Long(sub.reader), Long(sub.writer), Long(High(sub.first)), Long(Low(sub.first)),
                 Long(High(sub.last)), Long(Low(sub.last)), Long(sub.count)>>
  BY <1>1 DEF Fields, HeartbeatFields
<1>3. /\ DOMAIN fields = 1..7
      /\ fields[1] = <<4, sub.reader>> /\ fields[2] = <<4, sub.writer>>
      /\ fields[3] = <<4, High(sub.first)>> /\ fields[4] = <<4, Low(sub.first)>>
      /\ fields[5] = <<4, High(sub.last)>> /\ fields[6] = <<4, Low(sub.last)>>
      /\ fields[7] = <<4, sub.count>>
  BY <1>2 DEF Long
<1> HIDE DEF fields
<1>4. PICK end \in [0..7 -> Nat] : Placed(body, fields, 7, end)
  <2>1. \A k \in 1..7 : fields[k][1] \in Nat
    BY <1>3
  <2> QED BY <1>3, <2>1, BodyIs
<1> HIDE DEF body
<1>5. end[0] = 0 /\ end[1] = 4 /\ end[2] = 8 /\ end[3] = 12 /\ end[4] = 16 /\ end[5] = 20
      /\ end[6] = 24 /\ end[7] = 28 /\ body.size = 28
  BY <1>3, <1>4 DEF Placed
<1>6. /\ FieldAt(body, 0, 4) = sub.reader /\ FieldAt(body, 4, 4) = sub.writer
      /\ FieldAt(body, 8, 4) = High(sub.first) /\ FieldAt(body, 12, 4) = Low(sub.first)
      /\ FieldAt(body, 16, 4) = High(sub.last) /\ FieldAt(body, 20, 4) = Low(sub.last)
      /\ FieldAt(body, 24, 4) = sub.count
  BY <1>3, <1>4, <1>5 DEF Placed
<1>7. SnAt(body, 8) = sub.first /\ SnAt(body, 16) = sub.last
  BY <1>1, <1>6, SnIs DEF SnAt
<1>8. Read(Sent(sub), Pad4(body.size)) = sub
  BY <1>1, <1>6, <1>7 DEF Read, ReadHeartbeat, Sent, Flags, body, fields
<1>9. Pad4(28) = 28
  BY DEF Pad4
<1> QED BY <1>1, <1>5, <1>8, <1>9 DEF IsRead, Survives, Least, body, fields

LEMMA Pad4Bounds ==
  ASSUME NEW x \in Nat
  PROVE  /\ Pad4(x) \in Nat /\ x <= Pad4(x) /\ Pad4(x) < x + 4
         /\ \E q \in Nat : Pad4(x) = 4 * q
         /\ (\E q \in Nat : x = 4 * q) => Pad4(x) = x
<1> DEFINE q == (x + 3) \div 4
<1>1. q \in Nat /\ q * 4 <= x + 3 /\ x + 3 < q * 4 + 4 /\ Pad4(x) = q * 4
  BY Z3 DEF Pad4
<1> HIDE DEF q
<1>2. ASSUME NEW p \in Nat, x = 4 * p PROVE Pad4(x) = x
  <2>1. p = q
    BY <1>1, <1>2
  <2> QED BY <1>1, <1>2, <2>1
<1>3. Pad4(x) = 4 * q
  BY <1>1
<1> QED BY <1>1, <1>2, <1>3

\* What padding adds is cut off again, and the payload's own zeros with it.
LEMMA PrefixIs ==
  ASSUME NEW S, NEW s \in Seq(S), NEW l \in Nat, l <= Len(s)
  PROVE  /\ SubSeq(s, 1, l) \in Seq(S) /\ Len(SubSeq(s, 1, l)) = l
         /\ \A j \in 1..l : SubSeq(s, 1, l)[j] = s[j]
<1>1. \A j \in 1..l : s[j] \in S
  OBVIOUS
<1>2. /\ SubSeq(s, 1, l) \in Seq(S)
      /\ Len(SubSeq(s, 1, l)) = IF 1 <= l THEN l - 1 + 1 ELSE 0
      /\ \A j \in 1..l - 1 + 1 : SubSeq(s, 1, l)[j] = s[1 + j - 1]
  BY <1>1, SubSeqProperties
<1>3. l - 1 + 1 = l /\ (IF 1 <= l THEN l - 1 + 1 ELSE 0) = l /\ \A j \in 1..l : 1 + j - 1 = j
  OBVIOUS
<1> QED BY <1>2, <1>3

LEMMA TrimmedIs ==
  ASSUME NEW bytes \in Seq(Nat), NEW m \in Nat
  PROVE  IsTrimmed(Trim(bytes \o [i \in 1..m |-> 0]), bytes)
<1> DEFINE zeros == [i \in 1..m |-> 0]
           s == bytes \o zeros
           got == Trim(s)
           n == Len(bytes)
           l == Len(got)
<1>1. zeros \in Seq(Nat) /\ Len(zeros) = m /\ \A i \in 1..m : zeros[i] = 0
  <2>1. zeros \in [1..m -> Nat]
    OBVIOUS
  <2> QED BY <2>1
<1> HIDE DEF zeros
<1>2. /\ s \in Seq(Nat) /\ Len(s) = n + m /\ n \in Nat
      /\ \A i \in 1..n : s[i] = bytes[i]
      /\ \A i \in 1..n + m : i > n => s[i] = 0
  <2>1. s \in Seq(Nat) /\ Len(s) = n + m /\ n \in Nat
    BY <1>1
  <2>2. \A i \in 1..n + m : s[i] = IF i <= n THEN bytes[i] ELSE zeros[i - n]
    BY <1>1
  <2>3. \A i \in 1..n + m : i > n => i - n \in 1..m /\ ~(i <= n)
    BY <2>1
  <2>4. \A i \in 1..n : i \in 1..n + m /\ i <= n
    BY <2>1
  <2> QED BY <1>1, <2>1, <2>2, <2>3, <2>4
<1>3. DOMAIN bytes = 1..n
  OBVIOUS
<1> HIDE DEF s
<1>4. /\ got \in Seq(Nat) /\ l \in Nat /\ l <= n + m
      /\ \A j \in 1..l : got[j] = s[j]
      /\ \A j \in 1..n + m : j > l => s[j] = 0
      /\ got # <<>> => got[l] # 0
  BY <1>2, TrimIs
<1>5. l = 0 => got = <<>>
  BY <1>4, EmptySeq
<1>6. l <= n
  <2> SUFFICES ASSUME l > n PROVE FALSE
    BY <1>2, <1>4
  <2>1. l \in 1..l /\ l \in 1..n + m /\ l # 0
    BY <1>2, <1>4
  <2>2. got[l] = 0
    BY <1>2, <1>4, <2>1
  <2>3. got # <<>>
    BY <2>1, EmptySeq
  <2> QED BY <1>4, <2>2, <2>3
<1>7. got = SubSeq(bytes, 1, l)
  <2>1. /\ SubSeq(bytes, 1, l) \in Seq(Nat) /\ Len(SubSeq(bytes, 1, l)) = l
        /\ \A j \in 1..l : SubSeq(bytes, 1, l)[j] = bytes[j]
    <3>1. l \in Nat /\ l <= Len(bytes)
      BY <1>2, <1>4, <1>6
    <3> HIDE DEF l
    <3> QED BY <3>1, PrefixIs, Zenon
  <2>2. \A j \in 1..l : j \in 1..n
    BY <1>2, <1>4, <1>6
  <2>3. \A j \in 1..l : got[j] = SubSeq(bytes, 1, l)[j]
    BY <1>2, <1>4, <2>1, <2>2
  <2> DEFINE front == SubSeq(bytes, 1, l)
  <2> HIDE DEF front, got, l
  <2>4. front \in [1..l -> Nat] /\ got \in [1..l -> Nat] /\ \A j \in 1..l : got[j] = front[j]
    <3>1. front \in Seq(Nat) /\ Len(front) = l
      BY <2>1 DEF front
    <3>2. got \in Seq(Nat) /\ Len(got) = l
      BY <1>4 DEF l
    <3>3. \A j \in 1..l : got[j] = front[j]
      BY <2>3 DEF front
    <3> QED BY ONLY <3>1, <3>2, <3>3
  <2>5. got = front
    <3>1. got = [j \in 1..l |-> got[j]] /\ front = [j \in 1..l |-> front[j]]
      BY <2>4
    <3>2. [j \in 1..l |-> got[j]] = [j \in 1..l |-> front[j]]
      BY <2>4
    <3> QED BY ONLY <3>1, <3>2, Zenon
  <2> QED BY <2>5 DEF front
<1>8. \A i \in 1..n : i > l => bytes[i] = 0
  <2>1. \A i \in 1..n : i \in 1..n + m
    BY <1>2
  <2> QED BY <1>2, <1>4, <2>1
<1> QED BY <1>3, <1>4, <1>7, <1>8 DEF IsTrimmed, s, zeros

LEMMA PayloadIs ==
  ASSUME NEW bytes \in Seq(Nat), NEW body, NEW offset \in Nat,
         \E q \in Nat : offset = 4 * q,
         body.size = offset + Len(bytes),
         Len(bytes) > 0 => offset \in DOMAIN body.at /\ body.at[offset] = <<Len(bytes), bytes>>
  PROVE  IsTrimmed(PayloadAt(body, offset, Pad4(body.size)), bytes)
<1> DEFINE n == Pad4(body.size)
           l == Len(bytes)
<1>1. l \in Nat /\ body.size \in Nat
  OBVIOUS
<1>2. n \in Nat /\ body.size <= n
  BY <1>1, Pad4Bounds
<1>3. CASE l = 0
  <2>1. n = offset
    <3>1. body.size = offset
      BY <1>3
    <3>2. Pad4(offset) = offset
      BY Pad4Bounds
    <3> QED BY <3>1, <3>2
  <2>2. PayloadAt(body, offset, n) = <<>>
    BY <2>1 DEF PayloadAt
  <2>3. bytes = <<>>
    BY <1>3, EmptySeq
  <2>4. SubSeq(bytes, 1, 0) = <<>> /\ Len(<<>>) = 0 /\ DOMAIN bytes = {}
    BY <2>3, SubSeqEmpty
  <2> QED BY <2>2, <2>3, <2>4 DEF IsTrimmed
<1>4. CASE l # 0
  <2>1. ~(n <= offset) /\ n - body.size \in Nat
    BY <1>1, <1>2, <1>4
  <2>2. offset \in DOMAIN body.at /\ body.at[offset][2] = bytes
    BY <1>1, <1>4
  <2> HIDE DEF n
  <2>3. PayloadAt(body, offset, n) = Trim(bytes \o [i \in 1..n - body.size |-> 0])
    BY <2>1, <2>2 DEF PayloadAt
  <2> QED BY <2>1, <2>3, TrimmedIs DEF n
<1> QED BY <1>3, <1>4

WholeWords(list) == Len(list) % 4 = 0

LEMMA HeartbeatFragIsRead ==
  ASSUME NEW sub \in SubmessageOf("HeartbeatFrag")
  PROVE  IsRead(sub)
<1> DEFINE fields == Fields(sub)
           body == Body(fields)
<1>1. /\ sub = [kind |-> "HeartbeatFrag", reader |-> sub.reader, writer |->
                sub.writer, sn |-> sub.sn, last |-> sub.last, count |->
                sub.count]
      /\ sub.sn \in Nat /\ sub.kind = "HeartbeatFrag"
  BY DEF SubmessageOf
<1>2. fields = <<Long(sub.reader), Long(sub.writer), Long(High(sub.sn)), Long(Low(sub.sn)),
                 Long(sub.last), Long(sub.count)>>
  BY <1>1 DEF Fields, HeartbeatFragFields
<1>3. /\ DOMAIN fields = 1..6 /\ fields[1] = <<4, sub.reader>>
      /\ fields[2] = <<4, sub.writer>> /\ fields[3] = <<4, High(sub.sn)>>
      /\ fields[4] = <<4, Low(sub.sn)>> /\ fields[5] = <<4, sub.last>>
      /\ fields[6] = <<4, sub.count>>
  BY <1>2 DEF Long
<1> HIDE DEF fields
<1>4. PICK end \in [0..6 -> Nat] : Placed(body, fields, 6, end)
  <2>1. \A k \in 1..6 : fields[k][1] \in Nat
    BY <1>3
  <2> QED BY <1>3, <2>1, BodyIs
<1> HIDE DEF body
<1>5. /\ end[0] = 0 /\ end[1] = 4 /\ end[2] = 8 /\ end[3] = 12 /\ end[4] = 16 /\ end[5] = 20
      /\ end[6] = 24 /\ body.size = 24
  BY <1>3, <1>4 DEF Placed
<1>6. /\ FieldAt(body, 0, 4) = sub.reader /\ FieldAt(body, 4, 4) = sub.writer
      /\ FieldAt(body, 8, 4) = High(sub.sn) /\ FieldAt(body, 12, 4) = Low(sub.sn)
      /\ FieldAt(body, 16, 4) = sub.last /\ FieldAt(body, 20, 4) = sub.count
  BY <1>3, <1>4, <1>5 DEF Placed
<1>7. SnAt(body, 8) = sub.sn
  BY <1>1, <1>6, SnIs DEF SnAt
<1>8. Read(Sent(sub), Pad4(body.size)) = sub
  BY <1>1, <1>6, <1>7 DEF Read, ReadHeartbeatFrag, Sent, body, fields
<1>9. Pad4(24) = 24
  BY DEF Pad4
<1> QED BY <1>1, <1>5, <1>8, <1>9 DEF IsRead, Survives, Least, body, fields

LEMMA InfoDstIsRead ==
  ASSUME NEW sub \in SubmessageOf("InfoDst")
  PROVE  IsRead(sub)
<1> DEFINE fields == Fields(sub)
           body == Body(fields)
<1>1. sub = [kind |-> "InfoDst", prefix |-> sub.prefix] /\ sub.kind = "InfoDst"
  BY DEF SubmessageOf
<1>2. DOMAIN fields = 1..1 /\ fields[1] = <<12, sub.prefix>>
  BY <1>1 DEF Fields
<1> HIDE DEF fields
<1>3. PICK end \in [0..1 -> Nat] : Placed(body, fields, 1, end)
  <2>1. \A k \in 1..1 : fields[k][1] \in Nat
    BY <1>2
  <2> QED BY <1>2, <2>1, BodyIs
<1> HIDE DEF body
<1>4. end[0] = 0 /\ end[1] = 12 /\ body.size = 12
  BY <1>2, <1>3 DEF Placed
<1>5. FieldAt(body, 0, 12) = sub.prefix
  BY <1>2, <1>3, <1>4 DEF Placed
<1>6. Read(Sent(sub), Pad4(body.size)) = sub
  BY <1>1, <1>5 DEF Read, Sent, body, fields
<1>7. Pad4(12) = 12
  BY DEF Pad4
<1> QED BY <1>1, <1>4, <1>6, <1>7 DEF IsRead, Survives, Least, body, fields

LEMMA InfoTsIsRead ==
  ASSUME NEW sub \in SubmessageOf("InfoTs")
  PROVE  IsRead(sub)
<1> DEFINE fields == Fields(sub)
           body == Body(fields)
           t == sub.timestamp
<1>1. sub = [kind |-> "InfoTs", timestamp |-> t] /\ sub.kind = "InfoTs"
  BY DEF SubmessageOf
<1>2. CASE t = NoTimestamp
  <2>1. fields = <<>> /\ DOMAIN fields = 1..0
    BY <1>1, <1>2 DEF Fields, InfoTsFields
  <2> HIDE DEF fields
  <2>2. PICK end \in [0..0 -> Nat] : Placed(body, fields, 0, end)
    BY <2>1, BodyIs
  <2>3. body.size = 0 /\ Pad4(0) = 0
    BY <2>2 DEF Placed, Pad4
  <2> HIDE DEF body
  <2>4. Read(Sent(sub), 0) = sub
    BY <1>1, <1>2 DEF Read, ReadInfoTs, Sent, Flags
  <2>5. [sub EXCEPT !.timestamp = InfoTsTime(@)] = sub
    BY <1>1, <1>2 DEF InfoTsTime
  <2> QED BY <1>1, <2>3, <2>4, <2>5 DEF IsRead, Survives, Least, body, fields
<1>3. CASE t # NoTimestamp
  <2> DEFINE f == ToWire(t).fraction
  <2>1. fields = <<Long(t.seconds), Long(f)>>
    BY <1>1, <1>3 DEF Fields, InfoTsFields
  <2> HIDE DEF f
  <2>2. DOMAIN fields = 1..2 /\ fields[1] = <<4, t.seconds>> /\ fields[2] = <<4, f>>
    BY <2>1 DEF Long
  <2> HIDE DEF fields
  <2>3. PICK end \in [0..2 -> Nat] : Placed(body, fields, 2, end)
    <3>1. \A k \in 1..2 : fields[k][1] \in Nat
      BY <2>2
    <3> QED BY <2>2, <3>1, BodyIs
  <2> HIDE DEF body
  <2>4. end[0] = 0 /\ end[1] = 4 /\ end[2] = 8 /\ body.size = 8
    BY <2>2, <2>3 DEF Placed
  <2>5. FieldAt(body, 0, 4) = t.seconds /\ FieldAt(body, 4, 4) = f
    BY <2>2, <2>3, <2>4 DEF Placed
  <2>6. Sent(sub).flags = {} /\ Sent(sub).body = body /\ Sent(sub).kind = "InfoTs"
    BY <1>1, <1>3 DEF Sent, Flags, body, fields
  <2> DEFINE back == [seconds |-> t.seconds,
                      nanoseconds |-> (f * NanosPerSec) \div FractionsPerSec]
  <2>7. Read(Sent(sub), 8) = [kind |-> "InfoTs", timestamp |-> back]
    BY <2>5, <2>6 DEF Read, ReadInfoTs
  <2>8. InfoTsTime(t) = back
    BY <1>3 DEF InfoTsTime, f
  <2> HIDE DEF back, t
  <2>9. [sub EXCEPT !.timestamp = InfoTsTime(@)] = [kind |-> "InfoTs", timestamp |-> back]
    BY <1>1, <2>8
  <2>10. Pad4(8) = 8
    BY DEF Pad4
  <2> QED BY <1>1, <2>4, <2>7, <2>9, <2>10 DEF IsRead, Survives, Least, body, fields
<1> QED BY <1>2, <1>3

LEMMA DataIsRead ==
  ASSUME NEW sub \in SubmessageOf("Data"), WholeWords(sub.qos)
  PROVE  IsRead(sub)
<1> DEFINE fields == Fields(sub)
           body == Body(fields)
           n == Pad4(body.size)
<1>0. PICK l \in Nat, m \in Nat : /\ l = Len(sub.qos) /\ m = Len(sub.payload)
                                  /\ \E q \in Nat : l = 4 * q
  <2>1. sub.qos \in Seq(Nat) /\ sub.payload \in Seq(Nat)
    BY DEF SubmessageOf
  <2>2. \A k \in Nat : k % 4 = 0 => k = 4 * (k \div 4) /\ k \div 4 \in Nat
    BY Z3
  <2>3. Len(sub.qos) \in Nat /\ Len(sub.payload) \in Nat
    BY <2>1
  <2>4. Len(sub.qos) % 4 = 0
    BY DEF WholeWords
  <2> QED BY <2>2, <2>3, <2>4
<1>1. /\ sub = [kind |-> "Data", reader |-> sub.reader, writer |-> sub.writer,
                sn |-> sub.sn, qos |-> sub.qos, payload |-> sub.payload]
      /\ sub.sn \in Nat /\ sub.qos \in Seq(Nat) /\ sub.payload \in Seq(Nat)
      /\ sub.kind = "Data"
  BY DEF SubmessageOf
<1>2. fields = <<Short(0), Short(16), Long(sub.reader), Long(sub.writer), Long(High(sub.sn)),
                 Long(Low(sub.sn)), Bytes(sub.qos), Bytes(sub.payload)>>
  BY <1>1 DEF Fields, DataFields
<1>3. /\ DOMAIN fields = 1..8 /\ fields[1] = <<2, 0>> /\ fields[2] = <<2, 16>>
      /\ fields[3] = <<4, sub.reader>> /\ fields[4] = <<4, sub.writer>>
      /\ fields[5] = <<4, High(sub.sn)>> /\ fields[6] = <<4, Low(sub.sn)>>
      /\ fields[7] = <<l, sub.qos>> /\ fields[8] = <<m, sub.payload>>
  <2>1. Bytes(sub.qos) = <<l, sub.qos>> /\ Bytes(sub.payload) = <<m, sub.payload>>
    BY <1>0 DEF Bytes
  <2> QED BY <1>2, <2>1 DEF Long, Short
<1> HIDE DEF fields
<1>4. PICK end \in [0..8 -> Nat] : Placed(body, fields, 8, end)
  <2>1. \A k \in 1..8 : fields[k][1] \in Nat
    BY <1>3
  <2> QED BY <1>3, <2>1, BodyIs
<1> HIDE DEF body
<1>5. /\ end[0] = 0 /\ end[1] = 2 /\ end[2] = 4 /\ end[3] = 8 /\ end[4] = 12 /\ end[5] = 16
      /\ end[6] = 20 /\ end[7] = 20 + l /\ body.size = 20 + l + m
  BY <1>3, <1>4 DEF Placed
<1>6. /\ FieldAt(body, 4, 4) = sub.reader /\ FieldAt(body, 8, 4) = sub.writer
      /\ FieldAt(body, 12, 4) = High(sub.sn) /\ FieldAt(body, 16, 4) = Low(sub.sn)
  BY <1>3, <1>4, <1>5 DEF Placed
<1>7. SnAt(body, 12) = sub.sn
  BY <1>1, <1>6, SnIs DEF SnAt
<1>8. /\ l > 0 => body.at[20] = <<l, sub.qos>>
      /\ m > 0 => 20 + l \in DOMAIN body.at /\ body.at[20 + l] = <<m, sub.payload>>
  BY <1>3, <1>4, <1>5 DEF Placed
<1>9. IsTrimmed(PayloadAt(body, 20 + l, n), sub.payload)
  <2>1. PICK q \in Nat : l = 4 * q
    BY <1>0
  <2>2. 20 + l = 4 * (5 + q) /\ 5 + q \in Nat /\ 20 + l \in Nat
    BY <2>1
  <2> QED BY <1>0, <1>1, <1>5, <1>8, <2>2, PayloadIs
<1>10. n \in Nat /\ n >= 20 + l /\ body.size \in Nat
  <2>1. body.size \in Nat /\ body.size >= 20 + l
    BY <1>5
  <2>2. n \in Nat /\ body.size <= n
    BY <2>1, Pad4Bounds
  <2>3. \A a, b, c \in Nat : a >= 20 + b /\ a <= c => c >= 20 + b
    OBVIOUS
  <2> HIDE DEF n, body
  <2> QED BY <2>1, <2>2, <2>3
<1> HIDE DEF n
<1>11. ReadData(Sent(sub), n).qos = sub.qos
  <2>1. sub.qos = <<>> <=> l = 0
    BY <1>0, <1>1, EmptySeq
  <2>2. Sent(sub).body = body /\ Sent(sub).flags = IF sub.qos = <<>> THEN {} ELSE {"bit1"}
    BY <1>1 DEF Sent, Flags, body, fields
  <2>3. l > 0 => n > 20 /\ body.at[20][2] = sub.qos
    BY <1>8, <1>10
  <2>4. ReadData(Sent(sub), n).qos =
          IF "bit1" \in Sent(sub).flags /\ n > 20 THEN Sent(sub).body.at[20][2] ELSE <<>>
    BY DEF ReadData
  <2>5. CASE l = 0
    BY <2>1, <2>2, <2>4, <2>5
  <2>6. CASE l > 0
    BY <2>1, <2>2, <2>3, <2>4, <2>6
  <2> QED BY <2>5, <2>6
<1> DEFINE trimmed == PayloadAt(body, 20 + l, n)
<1>12. Read(Sent(sub), n) = [kind |-> "Data", reader |-> sub.reader, writer |-> sub.writer,
         sn |-> sub.sn, qos |-> sub.qos, payload |-> trimmed]
  <2>1. Sent(sub).body = body /\ Sent(sub).kind = "Data"
    BY <1>1 DEF Sent, body, fields
  <2>2. Read(Sent(sub), n) = ReadData(Sent(sub), n)
    BY <2>1 DEF Read
  <2>3. Len(ReadData(Sent(sub), n).qos) = l
    BY <1>0, <1>11
  <2>4. ReadData(Sent(sub), n).payload = trimmed
    BY <2>1, <2>3 DEF ReadData
  <2> HIDE DEF trimmed
  <2> QED BY <1>6, <1>7, <1>11, <2>1, <2>2, <2>4 DEF ReadData
<1> HIDE DEF trimmed
<1>13. [sub EXCEPT !.payload = trimmed] = [kind |-> "Data", reader |-> sub.reader,
         writer |-> sub.writer, sn |-> sub.sn, qos |-> sub.qos, payload |-> trimmed]
  <2> DEFINE same == [kind |-> "Data", reader |-> sub.reader, writer |-> sub.writer,
                      sn |-> sub.sn, qos |-> sub.qos, payload |-> sub.payload]
             new  == [kind |-> "Data", reader |-> sub.reader,
                      writer |-> sub.writer, sn |-> sub.sn, qos |-> sub.qos, payload |-> trimmed]
  <2>1. [same EXCEPT !.payload = trimmed] = new
    OBVIOUS
  <2>2. sub = same
    BY <1>1
  <2> SUFFICES [sub EXCEPT !.payload = trimmed] = new
    OBVIOUS
  <2> HIDE DEF same, new
  <2> QED BY <2>1, <2>2
<1>14. Survives(sub, Read(Sent(sub), n))
  BY <1>1, <1>9, <1>12, <1>13 DEF Survives, trimmed
<1>15. n >= 20 /\ n > 0
  BY <1>10
<1> QED BY <1>1, <1>10, <1>14, <1>15 DEF IsRead, Least, n, body, fields

LEMMA DataFragIsRead ==
  ASSUME NEW sub \in SubmessageOf("DataFrag")
  PROVE  IsRead(sub)
<1> DEFINE fields == Fields(sub)
           body == Body(fields)
           n == Pad4(body.size)
<1>0. PICK m \in Nat : m = Len(sub.payload)
  <2>1. sub.payload \in Seq(Nat)
    BY DEF SubmessageOf
  <2> QED BY <2>1
<1>1. /\ sub = [kind |-> "DataFrag", reader |-> sub.reader, writer |->
                sub.writer, sn |-> sub.sn, starting |-> sub.starting, count |->
                sub.count, fragmentSize |-> sub.fragmentSize, dataSize |->
                sub.dataSize, payload |-> sub.payload]
      /\ sub.sn \in Nat /\ sub.payload \in Seq(Nat) /\ sub.kind = "DataFrag"
  BY DEF SubmessageOf
<1>2. fields = <<Short(0), Short(32), Long(sub.reader), Long(sub.writer), Long(High(sub.sn)),
                 Long(Low(sub.sn)), Long(sub.starting), Short(sub.count),
                 Short(sub.fragmentSize), Long(sub.dataSize), Bytes(sub.payload)>>
  BY <1>1 DEF Fields, DataFragFields
<1>3. /\ DOMAIN fields = 1..11 /\ fields[1] = <<2, 0>> /\ fields[2] = <<2, 32>>
      /\ fields[3] = <<4, sub.reader>> /\ fields[4] = <<4, sub.writer>>
      /\ fields[5] = <<4, High(sub.sn)>> /\ fields[6] = <<4, Low(sub.sn)>>
      /\ fields[7] = <<4, sub.starting>> /\ fields[8] = <<2, sub.count>>
      /\ fields[9] = <<2, sub.fragmentSize>> /\ fields[10] = <<4, sub.dataSize>>
      /\ fields[11] = <<m, sub.payload>>
  BY <1>0, <1>2 DEF Long, Short, Bytes
<1> HIDE DEF fields
<1>4. PICK end \in [0..11 -> Nat] : Placed(body, fields, 11, end)
  <2>1. \A k \in 1..11 : fields[k][1] \in Nat
    BY <1>3
  <2> QED BY <1>3, <2>1, BodyIs
<1> HIDE DEF body
<1>5. /\ end[0] = 0 /\ end[1] = 2 /\ end[2] = 4 /\ end[3] = 8 /\ end[4] = 12 /\ end[5] = 16
      /\ end[6] = 20 /\ end[7] = 24 /\ end[8] = 26 /\ end[9] = 28 /\ end[10] = 32
      /\ body.size = 32 + m
  BY <1>3, <1>4 DEF Placed
<1>6. /\ FieldAt(body, 4, 4) = sub.reader /\ FieldAt(body, 8, 4) = sub.writer
      /\ FieldAt(body, 12, 4) = High(sub.sn) /\ FieldAt(body, 16, 4) = Low(sub.sn)
      /\ FieldAt(body, 20, 4) = sub.starting /\ FieldAt(body, 24, 2) = sub.count
      /\ FieldAt(body, 26, 2) = sub.fragmentSize
      /\ FieldAt(body, 28, 4) = sub.dataSize
  BY <1>3, <1>4, <1>5 DEF Placed
<1>7. SnAt(body, 12) = sub.sn
  BY <1>1, <1>6, SnIs DEF SnAt
<1>8. m > 0 => 32 \in DOMAIN body.at /\ body.at[32] = <<m, sub.payload>>
  BY <1>3, <1>4, <1>5 DEF Placed
<1>9. IsTrimmed(PayloadAt(body, 32, n), sub.payload)
  <2>1. 32 = 4 * 8
    OBVIOUS
  <2> QED BY <1>0, <1>1, <1>5, <1>8, <2>1, PayloadIs
<1>10. n \in Nat /\ n >= 32 /\ body.size \in Nat
  <2>1. body.size \in Nat /\ body.size >= 32
    BY <1>5
  <2>2. n \in Nat /\ body.size <= n
    BY <2>1, Pad4Bounds
  <2> HIDE DEF n
  <2> QED BY <2>1, <2>2
<1> DEFINE trimmed == PayloadAt(body, 32, n)
<1>11. Read(Sent(sub), n) = [kind |-> "DataFrag", reader |-> sub.reader, writer |-> sub.writer,
         sn |-> sub.sn, starting |-> sub.starting, count |-> sub.count,
         fragmentSize |-> sub.fragmentSize, dataSize |-> sub.dataSize, payload |-> trimmed]
  <2>1. Sent(sub).body = body /\ Sent(sub).kind = "DataFrag"
    BY <1>1 DEF Sent, body, fields
  <2>2. Read(Sent(sub), n) = ReadDataFrag(body, n)
    BY <2>1 DEF Read
  <2> QED BY <1>6, <1>7, <2>2 DEF ReadDataFrag
<1> HIDE DEF trimmed, n
<1>12. [sub EXCEPT !.payload = trimmed] = [kind |-> "DataFrag", reader |-> sub.reader,
         writer |-> sub.writer, sn |-> sub.sn, starting |-> sub.starting, count |-> sub.count,
         fragmentSize |-> sub.fragmentSize, dataSize |-> sub.dataSize, payload |-> trimmed]
  <2> DEFINE same == [kind |-> "DataFrag", reader |-> sub.reader, writer |-> sub.writer,
                      sn |-> sub.sn, starting |-> sub.starting, count |-> sub.count,
                      fragmentSize |-> sub.fragmentSize, dataSize |-> sub.dataSize,
                      payload |-> sub.payload]
             new  == [kind |-> "DataFrag", reader |-> sub.reader,
                      writer |-> sub.writer, sn |-> sub.sn, starting |-> sub.starting, count |-> sub.count,
                      fragmentSize |-> sub.fragmentSize, dataSize |-> sub.dataSize, payload |-> trimmed]
  <2>1. [same EXCEPT !.payload = trimmed] = new
    OBVIOUS
  <2>2. sub = same
    BY <1>1
  <2> SUFFICES [sub EXCEPT !.payload = trimmed] = new
    OBVIOUS
  <2> HIDE DEF same, new
  <2> QED BY <2>1, <2>2
<1>13. Survives(sub, Read(Sent(sub), n))
  BY <1>1, <1>9, <1>11, <1>12 DEF Survives, trimmed
<1>14. n >= 32 /\ n > 0
  BY <1>10
<1> QED BY <1>1, <1>10, <1>13, <1>14 DEF IsRead, Least, n, body, fields

-----------------------------------------------------------------------------
(* Bodies with number sets                                                 *)

IsSet(set) ==
  /\ set = [base |-> set.base, numBits |-> set.numBits, bits |-> set.bits]
  /\ set.base \in Nat /\ set.numBits \in Nat
  /\ set.numBits = 0 => set.bits = {}

LEMMA NoNumbers ==
  ASSUME NEW set, set.bits = {}
  PROVE  Numbers(set) = <<>>
<1>1. Cardinality(set.bits) = 0
  BY FS_EmptySet
<1>2. Numbers(set) \in Seq({}) /\ Len(Numbers(set)) = 0
  <2>1. DOMAIN Numbers(set) = 1..0
    BY <1>1 DEF Numbers
  <2>2. Numbers(set) \in [1..0 -> {}]
    BY <1>1 DEF Numbers
  <2> QED BY <2>2
<1> QED BY <1>2, EmptySeq

LEMMA ListIsRead ==
  ASSUME NEW list \in Seq(Nat)
  PROVE  LET set == SequenceNumberSet(list)
             got == ParseSequenceNumbers(set)
         IN  /\ IsSet(set)
             /\ list = <<>> => set.base = 1 /\ set.numBits = 0 /\ got = <<>>
             /\ list # <<>> => set.numBits > 0 /\ IsWindow(got, Head(list), list)
<1> DEFINE base == IF list = <<>> THEN 1 ELSE Head(list)
           set == NumberSet(base, list)
<1>1. SequenceNumberSet(list) = set
  BY DEF SequenceNumberSet
<1>2. base \in Nat /\ (list # <<>> => base = Head(list) /\ base \in Range(list))
  <2>1. list # <<>> => Head(list) \in Nat /\ Head(list) \in Range(list)
    <3> SUFFICES ASSUME list # <<>> PROVE Head(list) \in Nat /\ Head(list) \in Range(list)
      OBVIOUS
    <3>1. Len(list) \in Nat /\ Len(list) # 0
      BY EmptySeq
    <3>2. 1 \in DOMAIN list /\ Head(list) = list[1]
      BY <3>1
    <3> QED BY <3>2 DEF Range
  <2> QED BY <2>1
<1>3. list = <<>> => base = 1
  OBVIOUS
<1> HIDE DEF base
<1>4. /\ set = [base |-> base, numBits |-> set.numBits, bits |-> set.bits]
      /\ set.numBits \in Nat
      /\ list = <<>> => set.numBits = 0
      /\ set.numBits = 0 => set.bits = {}
      /\ base \in Range(list) => 0 \in set.bits
  BY <1>2, WindowIs
<1>5. IsWindow(Numbers(set), base, list)
  BY <1>2, WindowIsRead
<1> HIDE DEF set
<1>6. set.base = base
  BY <1>4
<1>7. IsSet(set)
  BY <1>2, <1>4, <1>6 DEF IsSet
<1>8. ASSUME list = <<>> PROVE set.base = 1 /\ set.numBits = 0 /\ ParseSequenceNumbers(set) = <<>>
  <2>1. set.numBits = 0 /\ set.bits = {}
    BY <1>4, <1>8
  <2> QED BY <1>3, <1>6, <1>8, <2>1, NoNumbers DEF ParseSequenceNumbers
<1>9. ASSUME list # <<>>
      PROVE  set.numBits > 0 /\ IsWindow(ParseSequenceNumbers(set), Head(list), list)
  <2>1. set.bits # {}
    BY <1>2, <1>4, <1>9
  <2>2. set.numBits > 0
    BY <1>4, <2>1
  <2>3. ParseSequenceNumbers(set) = Numbers(set)
    BY <2>1 DEF ParseSequenceNumbers
  <2> QED BY <1>2, <1>5, <1>9, <2>2, <2>3
<1> QED BY <1>1, <1>7, <1>8, <1>9

LEMMA SetAtIs ==
  ASSUME NEW set, IsSet(set), NEW body, NEW offset,
         FieldAt(body, offset, 4) = High(set.base), FieldAt(body, offset + 4, 4) = Low(set.base),
         FieldAt(body, offset + 8, 4) = set.numBits,
         set.numBits > 0 => FieldAt(body, offset + 12, BitmapSize(set)) = set.bits
  PROVE  SetAt(body, offset) = set
<1> DEFINE read == [base |-> set.base, numBits |-> set.numBits, bits |-> {}]
<1>1. SnAt(body, offset) = set.base
  BY SnIs DEF IsSet, SnAt
<1>2. Garbage \notin {set.numBits, set.base}
  BY RtpsAssumption DEF IsSet
<1>3. SetAt(body, offset) = IF set.numBits = 0 THEN read
        ELSE [read EXCEPT !.bits = FieldAt(body, offset + 12, BitmapSize(read))]
  BY <1>1, <1>2 DEF SetAt
<1>4. BitmapSize(read) = BitmapSize(set)
  BY DEF BitmapSize
<1>5. CASE set.numBits = 0
  BY <1>3, <1>5 DEF IsSet
<1>6. CASE set.numBits # 0
  <2>1. set.numBits > 0
    BY <1>6 DEF IsSet
  <2>2. FieldAt(body, offset + 12, BitmapSize(read)) = set.bits
    BY <1>4, <2>1
  <2>3. [read EXCEPT !.bits = set.bits] = [base |-> set.base, numBits |-> set.numBits, bits |-> set.bits]
    OBVIOUS
  <2> HIDE DEF read
  <2> QED BY <1>3, <1>6, <2>2, <2>3 DEF IsSet
<1> QED BY <1>5, <1>6

LEMMA GapIsRead ==
  ASSUME NEW sub \in SubmessageOf("Gap")
  PROVE  IsRead(sub)
<1> DEFINE fields == Fields(sub)
           body == Body(fields)
           set == SequenceNumberSet(sub.list)
           n == Pad4(body.size)
<1>1. /\ sub = [kind |-> "Gap", reader |-> sub.reader, writer |-> sub.writer,
                start |-> sub.start, list |-> sub.list]
      /\ sub.start \in Nat /\ sub.list \in Seq(Nat) /\ sub.kind = "Gap"
  BY DEF SubmessageOf
<1>2. fields = <<Long(sub.reader), Long(sub.writer), Long(High(sub.start)), Long(Low(sub.start)),
                 Long(High(set.base)), Long(Low(set.base)), Long(set.numBits), Bitmap(set)>>
  BY <1>1 DEF Fields, GapFields
<1> HIDE DEF set
<1>3. IsSet(set)
  BY <1>1, ListIsRead DEF set
<1>4. PICK b \in Nat : /\ b = BitmapSize(set) /\ (set.numBits > 0 => b > 0)
                      /\ \E q \in Nat : b = 4 * q
  <2>1. set.numBits \in Nat
    BY <1>3 DEF IsSet
  <2> QED BY <2>1, BitmapSizeIs
<1>5. /\ DOMAIN fields = 1..8
      /\ fields[1] = <<4, sub.reader>> /\ fields[2] = <<4, sub.writer>>
      /\ fields[3] = <<4, High(sub.start)>> /\ fields[4] = <<4, Low(sub.start)>>
      /\ fields[5] = <<4, High(set.base)>> /\ fields[6] = <<4, Low(set.base)>>
      /\ fields[7] = <<4, set.numBits>> /\ fields[8] = <<b, set.bits>>
  BY <1>2, <1>4 DEF Long, Bitmap
<1> HIDE DEF fields
<1>6. PICK end \in [0..8 -> Nat] : Placed(body, fields, 8, end)
  <2>1. \A k \in 1..8 : fields[k][1] \in Nat
    BY <1>5
  <2> QED BY <1>5, <2>1, BodyIs
<1> HIDE DEF body
<1>7. /\ end[0] = 0 /\ end[1] = 4 /\ end[2] = 8 /\ end[3] = 12 /\ end[4] = 16
      /\ end[5] = 20 /\ end[6] = 24 /\ end[7] = 28 /\ body.size = 28 + b
  BY <1>5, <1>6 DEF Placed
<1>8. /\ FieldAt(body, 0, 4) = sub.reader /\ FieldAt(body, 4, 4) = sub.writer
      /\ FieldAt(body, 8, 4) = High(sub.start) /\ FieldAt(body, 12, 4) = Low(sub.start)
      /\ FieldAt(body, 16, 4) = High(set.base) /\ FieldAt(body, 20, 4) = Low(set.base)
      /\ FieldAt(body, 24, 4) = set.numBits
      /\ b > 0 => FieldAt(body, 28, b) = set.bits
  BY <1>5, <1>6, <1>7 DEF Placed
<1>9. SnAt(body, 8) = sub.start
  BY <1>1, <1>8, SnIs DEF SnAt
<1>10. SetAt(body, 16) = set
  BY <1>3, <1>4, <1>8, SetAtIs
<1> DEFINE got == ParseSequenceNumbers(set)
<1>11. Read(Sent(sub), n) = [kind |-> "Gap", reader |-> sub.reader, writer |-> sub.writer,
                             start |-> sub.start, list |-> got]
  <2>1. Sent(sub).body = body /\ Sent(sub).kind = "Gap"
    BY <1>1 DEF Sent, body, fields
  <2>2. Read(Sent(sub), n) = ReadGap(body)
    BY <2>1 DEF Read
  <2> QED BY <1>8, <1>9, <1>10, <2>2 DEF ReadGap
<1>12. /\ sub.list = <<>> => got = <<>>
       /\ sub.list # <<>> => IsWindow(got, Head(sub.list), sub.list)
  BY <1>1, ListIsRead DEF set
<1> HIDE DEF got
<1>13. [sub EXCEPT !.list = got] = [kind |-> "Gap", reader |-> sub.reader,
          writer |-> sub.writer, start |-> sub.start, list |-> got]
  <2> DEFINE same == [kind |-> "Gap", reader |-> sub.reader, writer |-> sub.writer,
                      start |-> sub.start, list |-> sub.list]
             new  == [kind |-> "Gap", reader |-> sub.reader, writer |-> sub.writer,
                      start |-> sub.start, list |-> got]
  <2>1. [same EXCEPT !.list = got] = new
    OBVIOUS
  <2>2. sub = same
    BY <1>1
  <2> SUFFICES [sub EXCEPT !.list = got] = new
    OBVIOUS
  <2> HIDE DEF same, new
  <2> QED BY <2>1, <2>2
<1>14. Survives(sub, Read(Sent(sub), n))
  BY <1>1, <1>11, <1>12, <1>13 DEF Survives
<1>15. body.size \in Nat /\ n >= 16 /\ n > 0
  <2>1. body.size \in Nat /\ body.size >= 28
    BY <1>7
  <2>2. n \in Nat /\ body.size <= n
    BY <2>1, Pad4Bounds
  <2> HIDE DEF n
  <2> QED BY <2>1, <2>2
<1> QED BY <1>1, <1>14, <1>15 DEF IsRead, Least, body, fields

LEMMA AckNackSetIs ==
  ASSUME NEW sub \in SubmessageOf("AckNack")
  PROVE  LET set == AckNackSet(sub)
             got == ParseSequenceNumbers(set)
             through == IF set.numBits = 0 /\ set.base > 0 THEN set.base - 1 ELSE Garbage
         IN  /\ IsSet(set)
             /\ sub.state = <<>> => /\ got = <<>>
                                    /\ through = IF sub.through = Garbage THEN 0 ELSE sub.through
             /\ sub.state # <<>> => /\ IsWindow(got, Head(sub.state), sub.state)
                                    /\ through = Garbage
<1> DEFINE set == AckNackSet(sub)
           list == sub.state
<1>1. list \in Seq(Nat) /\ sub.through \in Nat \cup {Garbage} /\ Garbage \notin Int
  BY RtpsAssumption DEF SubmessageOf
<1>2. CASE list = <<>> /\ sub.through # Garbage
  <2>1. set = [base |-> sub.through + 1, numBits |-> 0, bits |-> {}] /\ sub.through \in Nat
    BY <1>1, <1>2 DEF AckNackSet, AckThroughSet
  <2> HIDE DEF set
  <2>2. IsSet(set) /\ set.bits = {} /\ set.numBits = 0 /\ set.base = sub.through + 1
    BY <2>1 DEF IsSet
  <2>3. ParseSequenceNumbers(set) = <<>>
    BY <2>2, NoNumbers DEF ParseSequenceNumbers
  <2>4. set.base > 0 /\ set.base - 1 = sub.through
    BY <2>1, <2>2
  <2> QED BY <1>2, <2>2, <2>3, <2>4 DEF set
<1>3. CASE ~(list = <<>> /\ sub.through # Garbage)
  <2>1. set = SequenceNumberSet(list)
    BY <1>3 DEF AckNackSet
  <2> HIDE DEF set
  <2>2. /\ IsSet(set)
        /\ list = <<>> => set.base = 1 /\ set.numBits = 0 /\ ParseSequenceNumbers(set) = <<>>
        /\ list # <<>> => /\ set.numBits > 0
                          /\ IsWindow(ParseSequenceNumbers(set), Head(list), list)
    BY <1>1, <2>1, ListIsRead
  <2>3. set.numBits > 0 => set.numBits # 0
    OBVIOUS
  <2> QED BY <1>3, <2>2, <2>3 DEF set
<1> QED BY <1>2, <1>3

LEMMA AckNackIsRead ==
  ASSUME NEW sub \in SubmessageOf("AckNack")
  PROVE  IsRead(sub)
<1> DEFINE fields == Fields(sub)
           body == Body(fields)
           set == AckNackSet(sub)
           n == Pad4(body.size)
<1>1. /\ sub = [kind |-> "AckNack", reader |-> sub.reader, writer |-> sub.writer,
                state |-> sub.state, through |-> sub.through, count |-> sub.count]
      /\ sub.kind = "AckNack"
  BY DEF SubmessageOf
<1>2. fields = <<Long(sub.reader), Long(sub.writer), Long(High(set.base)), Long(Low(set.base)),
                 Long(set.numBits), Bitmap(set), Long(sub.count)>>
  BY <1>1 DEF Fields, AckNackFields
<1> DEFINE got == ParseSequenceNumbers(set)
           through == IF set.numBits = 0 /\ set.base > 0 THEN set.base - 1 ELSE Garbage
<1>3. /\ IsSet(set)
      /\ sub.state = <<>> => /\ got = <<>>
                             /\ through = IF sub.through = Garbage THEN 0 ELSE sub.through
      /\ sub.state # <<>> => IsWindow(got, Head(sub.state), sub.state) /\ through = Garbage
  BY AckNackSetIs
<1> HIDE DEF set
<1>4. PICK b \in Nat : /\ b = BitmapSize(set) /\ (set.numBits > 0 => b > 0)
                      /\ \E q \in Nat : b = 4 * q
  <2>1. set.numBits \in Nat
    BY <1>3 DEF IsSet
  <2> QED BY <2>1, BitmapSizeIs
<1>5. /\ DOMAIN fields = 1..7
      /\ fields[1] = <<4, sub.reader>> /\ fields[2] = <<4, sub.writer>>
      /\ fields[3] = <<4, High(set.base)>> /\ fields[4] = <<4, Low(set.base)>>
      /\ fields[5] = <<4, set.numBits>> /\ fields[6] = <<b, set.bits>>
      /\ fields[7] = <<4, sub.count>>
  BY <1>2, <1>4 DEF Long, Bitmap
<1> HIDE DEF fields
<1>6. PICK end \in [0..7 -> Nat] : Placed(body, fields, 7, end)
  <2>1. \A k \in 1..7 : fields[k][1] \in Nat
    BY <1>5
  <2> QED BY <1>5, <2>1, BodyIs
<1> HIDE DEF body
<1>7. /\ end[0] = 0 /\ end[1] = 4 /\ end[2] = 8 /\ end[3] = 12 /\ end[4] = 16
      /\ end[5] = 20 /\ end[6] = 20 + b /\ body.size = 24 + b
  BY <1>5, <1>6 DEF Placed
<1>8. /\ FieldAt(body, 0, 4) = sub.reader /\ FieldAt(body, 4, 4) = sub.writer
      /\ FieldAt(body, 8, 4) = High(set.base) /\ FieldAt(body, 12, 4) = Low(set.base)
      /\ FieldAt(body, 16, 4) = set.numBits
      /\ b > 0 => FieldAt(body, 20, b) = set.bits
      /\ FieldAt(body, 20 + b, 4) = sub.count
  BY <1>5, <1>6, <1>7 DEF Placed
<1>9. SetAt(body, 8) = set
  <2> HIDE DEF got, through
  <2>1. /\ FieldAt(body, 8 + 4, 4) = Low(set.base) /\ FieldAt(body, 8 + 8, 4) = set.numBits
        /\ set.numBits > 0 => FieldAt(body, 8 + 12, BitmapSize(set)) = set.bits
    BY <1>4, <1>8
  <2> QED BY <1>3, <1>8, <2>1, SetAtIs
<1>10. Read(Sent(sub), n) = [kind |-> "AckNack", reader |-> sub.reader, writer |-> sub.writer,
                             state |-> got, through |-> through, count |-> sub.count]
  <2>1. Sent(sub).body = body /\ Sent(sub).kind = "AckNack"
    BY <1>1 DEF Sent, body, fields
  <2>2. Read(Sent(sub), n) = ReadAckNack(body)
    BY <2>1 DEF Read
  <2>3. FieldAt(body, 20 + BitmapSize(set), 4) = sub.count
    BY <1>4, <1>8
  <2> QED BY <1>8, <1>9, <2>2, <2>3 DEF ReadAckNack
<1> HIDE DEF got, through
<1> DEFINE same == [kind |-> "AckNack", reader |-> sub.reader, writer |-> sub.writer,
                    state |-> sub.state, through |-> sub.through, count |-> sub.count]
           read == [kind |-> "AckNack", reader |-> sub.reader, writer |-> sub.writer,
                    state |-> got, through |-> through, count |-> sub.count]
<1>11. ASSUME sub.state = <<>> PROVE Survives(sub, Read(Sent(sub), n))
  <2> DEFINE t == IF sub.through = Garbage THEN 0 ELSE sub.through
  <2>1. [sub EXCEPT !.through = IF @ = Garbage THEN 0 ELSE @] = [sub EXCEPT !.through = t]
    OBVIOUS
  <2>2. sub.state = got /\ through = t
    BY <1>3, <1>11
  <2> HIDE DEF t
  <2>3. [same EXCEPT !.through = t] = read
    BY <2>2
  <2>4. sub = same
    BY <1>1
  <2> HIDE DEF same
  <2>5. [sub EXCEPT !.through = IF @ = Garbage THEN 0 ELSE @] = read
    BY <2>1, <2>3, <2>4
  <2> HIDE DEF read
  <2> QED BY <1>1, <1>10, <1>11, <2>5 DEF Survives, read
<1>12. ASSUME sub.state # <<>> PROVE Survives(sub, Read(Sent(sub), n))
  <2>1. through = Garbage /\ IsWindow(got, Head(sub.state), sub.state)
    BY <1>3, <1>12
  <2>2. [same EXCEPT !.state = got, !.through = Garbage] = read
    <3> DEFINE half == [kind |-> "AckNack", reader |-> sub.reader, writer |-> sub.writer,
                        state |-> got, through |-> sub.through, count |-> sub.count]
    <3>0. [same EXCEPT !.state = got] = half
      OBVIOUS
    <3>1. [half EXCEPT !.through = through] = read
      OBVIOUS
    <3> HIDE DEF same, read, half
    <3>2. [same EXCEPT !.state = got, !.through = Garbage]
            = [[same EXCEPT !.state = got] EXCEPT !.through = Garbage]
      OBVIOUS
    <3> QED BY <2>1, <3>0, <3>1, <3>2
  <2>3. sub = same
    BY <1>1
  <2>4. read.state = got
    OBVIOUS
  <2> HIDE DEF same
  <2>5. [sub EXCEPT !.state = got, !.through = Garbage] = read
    BY <2>2, <2>3
  <2>6. Read(Sent(sub), n) = read
    BY <1>10
  <2> HIDE DEF read
  <2> QED BY <1>1, <1>12, <2>1, <2>4, <2>5, <2>6 DEF Survives
<1>13. Survives(sub, Read(Sent(sub), n))
  BY <1>11, <1>12
<1>14. body.size \in Nat /\ n >= 20 /\ n > 0
  <2>1. body.size \in Nat /\ body.size >= 24
    BY <1>7
  <2>2. n \in Nat /\ body.size <= n
    BY <2>1, Pad4Bounds
  <2> HIDE DEF n
  <2> QED BY <2>1, <2>2
<1> QED BY <1>1, <1>13, <1>14 DEF IsRead, Least, body, fields

LEMMA NackFragIsRead ==
  ASSUME NEW sub \in SubmessageOf("NackFrag"), \A k \in Range(sub.state) : k >= sub.starting
  PROVE  IsRead(sub)
<1> DEFINE fields == Fields(sub)
           body == Body(fields)
           set == NumberSet(sub.starting, sub.state)
           n == Pad4(body.size)
<1>1. /\ sub = [kind |-> "NackFrag", reader |-> sub.reader, writer |-> sub.writer,
                sn |-> sub.sn, starting |-> sub.starting, state |-> sub.state,
                count |-> sub.count]
      /\ sub.sn \in Nat /\ sub.starting \in Nat /\ sub.state \in Seq(Nat)
      /\ sub.kind = "NackFrag"
  BY DEF SubmessageOf
<1>2. fields = <<Long(sub.reader), Long(sub.writer), Long(High(sub.sn)), Long(Low(sub.sn)),
                 Long(sub.starting), Long(set.base), Long(set.numBits), Bitmap(set),
                 Long(sub.count)>>
  BY <1>1 DEF Fields, NackFragFields
<1> DEFINE got == Numbers(set)
<1>3. IsSet(set) /\ set.base = sub.starting /\ IsWindow(got, sub.starting, sub.state)
  <2>1. /\ set = [base |-> sub.starting, numBits |-> set.numBits, bits |-> set.bits]
        /\ set.numBits \in Nat /\ (set.numBits = 0 => set.bits = {})
    BY <1>1, WindowIs
  <2>2. IsWindow(got, sub.starting, sub.state)
    BY <1>1, WindowIsRead
  <2> HIDE DEF set
  <2>3. set.base = sub.starting
    BY <2>1
  <2> QED BY <1>1, <2>1, <2>2, <2>3 DEF IsSet
<1> HIDE DEF set
<1>4. PICK b \in Nat : /\ b = BitmapSize(set) /\ (set.numBits > 0 => b > 0)
                      /\ \E q \in Nat : b = 4 * q
  <2>1. set.numBits \in Nat
    BY <1>3 DEF IsSet
  <2> QED BY <2>1, BitmapSizeIs
<1>5. /\ DOMAIN fields = 1..9
      /\ fields[1] = <<4, sub.reader>> /\ fields[2] = <<4, sub.writer>>
      /\ fields[3] = <<4, High(sub.sn)>> /\ fields[4] = <<4, Low(sub.sn)>>
      /\ fields[5] = <<4, sub.starting>> /\ fields[6] = <<4, set.base>>
      /\ fields[7] = <<4, set.numBits>> /\ fields[8] = <<b, set.bits>>
      /\ fields[9] = <<4, sub.count>>
  BY <1>2, <1>4 DEF Long, Bitmap
<1> HIDE DEF fields
<1>6. PICK end \in [0..9 -> Nat] : Placed(body, fields, 9, end)
  <2>1. \A k \in 1..9 : fields[k][1] \in Nat
    BY <1>5
  <2> QED BY <1>5, <2>1, BodyIs
<1> HIDE DEF body
<1>7. /\ end[0] = 0 /\ end[1] = 4 /\ end[2] = 8 /\ end[3] = 12 /\ end[4] = 16
      /\ end[5] = 20 /\ end[6] = 24 /\ end[7] = 28 /\ end[8] = 28 + b
      /\ body.size = 32 + b
  BY <1>5, <1>6 DEF Placed
<1>8. /\ FieldAt(body, 0, 4) = sub.reader /\ FieldAt(body, 4, 4) = sub.writer
      /\ FieldAt(body, 8, 4) = High(sub.sn) /\ FieldAt(body, 12, 4) = Low(sub.sn)
      /\ FieldAt(body, 16, 4) = sub.starting /\ FieldAt(body, 20, 4) = set.base
      /\ FieldAt(body, 24, 4) = set.numBits
      /\ b > 0 => FieldAt(body, 28, b) = set.bits
      /\ FieldAt(body, 28 + b, 4) = sub.count
  BY <1>5, <1>6, <1>7 DEF Placed
<1>9. SnAt(body, 8) = sub.sn
  BY <1>1, <1>8, SnIs DEF SnAt
<1>10. FragmentsAt(body, 20) = set
  <2> DEFINE read == [base |-> set.base, numBits |-> set.numBits, bits |-> {}]
  <2>1. FragmentsAt(body, 20) = IF set.numBits = 0 THEN read
          ELSE [read EXCEPT !.bits = FieldAt(body, 28, BitmapSize(read))]
    BY <1>8 DEF FragmentsAt
  <2>2. BitmapSize(read) = b
    BY <1>4 DEF BitmapSize
  <2>3. CASE set.numBits = 0
    BY <1>3, <2>1, <2>3 DEF IsSet
  <2>4. CASE set.numBits # 0
    <3>1. FieldAt(body, 28, b) = set.bits
      BY <1>3, <1>4, <1>8, <2>4 DEF IsSet
    <3>2. [read EXCEPT !.bits = set.bits]
            = [base |-> set.base, numBits |-> set.numBits, bits |-> set.bits]
      OBVIOUS
    <3> HIDE DEF read
    <3> QED BY <1>3, <2>1, <2>2, <2>4, <3>1, <3>2 DEF IsSet
  <2> QED BY <2>3, <2>4
<1> HIDE DEF got
<1> DEFINE same == [kind |-> "NackFrag", reader |-> sub.reader, writer |-> sub.writer,
                    sn |-> sub.sn, starting |-> sub.starting, state |-> sub.state,
                    count |-> sub.count]
           read == [kind |-> "NackFrag", reader |-> sub.reader, writer |-> sub.writer,
                    sn |-> sub.sn, starting |-> sub.starting, state |-> got,
                    count |-> sub.count]
<1>11. Read(Sent(sub), n) = read
  <2>1. Sent(sub).body = body /\ Sent(sub).kind = "NackFrag"
    BY <1>1 DEF Sent, body, fields
  <2>2. Read(Sent(sub), n) = ReadNackFrag(body)
    BY <2>1 DEF Read
  <2>3. FieldAt(body, 28 + BitmapSize(set), 4) = sub.count
    BY <1>4, <1>8
  <2> QED BY <1>8, <1>9, <1>10, <2>2, <2>3 DEF ReadNackFrag, got
<1>12. Survives(sub, Read(Sent(sub), n))
  <2>1. [same EXCEPT !.state = got] = read /\ read.state = got
    OBVIOUS
  <2>2. sub = same
    BY <1>1
  <2> HIDE DEF same
  <2>3. [sub EXCEPT !.state = got] = read
    BY <2>1, <2>2
  <2>4. read.state = got
    BY <2>1
  <2> HIDE DEF read
  <2> QED BY <1>1, <1>3, <1>11, <2>3, <2>4 DEF Survives, got
<1>13. body.size \in Nat /\ n >= 24 /\ n > 0
  <2>1. body.size \in Nat /\ body.size >= 32
    BY <1>7
  <2>2. n \in Nat /\ body.size <= n
    BY <2>1, Pad4Bounds
  <2> HIDE DEF n
  <2> QED BY <2>1, <2>2
<1> QED BY <1>1, <1>12, <1>13 DEF IsRead, Least, body, fields

\* A sequence of l elements.
HasLength(list, l) == list = [j \in 1..l |-> list[j]]

\* Field p is the length of a list, the fields after it are its elements.
ListFrom(fields, p, list, l) ==
  fields[p] = <<4, l>> /\ \A j \in 1..l : fields[p + j] = <<24, list[j]>>

\* A list of l locators stands at offset from.
ListStands(body, fields, n, end, p, from, list, l) ==
  /\ n \in Nat /\ end \in [0..n -> Nat] /\ Placed(body, fields, n, end)
  /\ p \in 1..n /\ l \in Nat /\ p + l <= n /\ from \in Nat /\ end[p - 1] = from
  /\ HasLength(list, l) /\ ListFrom(fields, p, list, l)

\* A list of l locators is read from offset from.
ListComesBack(body, end, p, from, list, l) ==
  /\ end[p + l] = from + 4 + 24 * l
  /\ LocatorsAt(body, from).list = list
  /\ LocatorsAt(body, from).next = from + 4 + 24 * l

\* A list of locators is read where it was put.
LEMMA LocatorsAreRead ==
  ASSUME NEW body, NEW fields, NEW n, NEW end, NEW p, NEW from, NEW list, NEW l,
         ListStands(body, fields, n, end, p, from, list, l)
  PROVE  ListComesBack(body, end, p, from, list, l)
<1> USE DEF ListStands
<1> DEFINE start == [j \in 0..l |-> end[p + j]]
<1>1. ASSUME NEW k \in 1..n, fields[k][1] > 0
      PROVE  /\ end[k] = end[k - 1] + fields[k][1]
             /\ FieldAt(body, end[k - 1], fields[k][1]) = fields[k][2]
  BY <1>1 DEF Placed
<1>2. start[0] = from + 4 /\ FieldAt(body, from, 4) = l
  <2>1. fields[p][1] = 4 /\ fields[p][2] = l
    BY DEF ListFrom
  <2>2. end[p] = end[p - 1] + 4 /\ FieldAt(body, end[p - 1], 4) = l
    <3>1. fields[p][1] > 0
      BY <2>1
    <3>2. /\ end[p] = end[p - 1] + fields[p][1]
          /\ FieldAt(body, end[p - 1], fields[p][1]) = fields[p][2]
      BY <1>1, <3>1
    <3> QED BY <2>1, <3>2
  <2>3. start[0] = end[p]
    OBVIOUS
  <2> QED BY <2>2, <2>3
<1>3. ASSUME NEW j \in 1..l
      PROVE  start[j] = start[j - 1] + 24 /\ FieldAt(body, start[j - 1], 24) = list[j]
  <2> DEFINE k == p + j
  <2>1. k \in 1..n /\ k - 1 = p + (j - 1) /\ 24 \in Nat \ {0}
    OBVIOUS
  <2>2. fields[k][1] = 24 /\ fields[k][2] = list[j]
    <3>1. fields[p + j] = <<24, list[j]>>
      BY DEF ListFrom
    <3> QED BY <3>1
  <2>3. start[j] = end[k] /\ start[j - 1] = end[k - 1]
    BY <2>1
  <2> HIDE DEF k, start
  <2>4. end[k] = end[k - 1] + 24 /\ FieldAt(body, end[k - 1], 24) = list[j]
    <3>1. fields[k][1] > 0
      BY <2>2
    <3>2. /\ end[k] = end[k - 1] + fields[k][1]
          /\ FieldAt(body, end[k - 1], fields[k][1]) = fields[k][2]
      BY <1>1, <2>1, <3>1
    <3> QED BY <2>2, <3>2
  <2> QED BY <2>3, <2>4
<1>4. l \in 0..l /\ start[l] = end[p + l]
  OBVIOUS
<1> HIDE DEF start
<1> DEFINE Good == {j \in 0..l : start[j] = from + 4 + 24 * j}
<1>5. 0 \in Good
  BY <1>2
<1>6. ASSUME NEW j \in 1..l, j - 1 \in Good PROVE j \in Good
  <2>1. start[j - 1] = from + 4 + 24 * (j - 1) /\ j \in 0..l
    BY <1>6
  <2>2. start[j] = from + 4 + 24 * (j - 1) + 24
    BY <1>3, <2>1
  <2>3. from + 4 + 24 * (j - 1) + 24 = from + 4 + 24 * j
    OBVIOUS
  <2> QED BY <2>1, <2>2, <2>3
<1> HIDE DEF Good
<1>7. \A j \in 0..l : j \in Good
  BY <1>5, <1>6, UpTo
<1>8. \A j \in 0..l : start[j] = from + 4 + 24 * j
  BY <1>7 DEF Good
<1>9. \A j \in 1..l : FieldAt(body, from + 4 + 24 * (j - 1), 24) = list[j]
  <2> SUFFICES ASSUME NEW j \in 1..l
               PROVE  FieldAt(body, from + 4 + 24 * (j - 1), 24) = list[j]
    OBVIOUS
  <2>1. j - 1 \in 0..l
    OBVIOUS
  <2>2. start[j - 1] = from + 4 + 24 * (j - 1)
    BY <1>8, <2>1
  <2> QED BY <1>3, <2>2
<1>10. [j \in 1..l |-> FieldAt(body, from + 4 + 24 * (j - 1), 24)] = list
  BY <1>9 DEF HasLength
<1>11. LocatorsAt(body, from) = [list |-> list, next |-> from + 4 + 24 * l]
  BY <1>2, <1>10 DEF LocatorsAt
<1> QED BY <1>4, <1>8, <1>11 DEF ListComesBack

LEMMA InfoReplyIsRead ==
  ASSUME NEW sub \in SubmessageOf("InfoReply")
  PROVE  IsRead(sub)
<1> DEFINE fields == Fields(sub)
           body == Body(fields)
           none == sub.multicast = Garbage
           size == Pad4(body.size)
<1>1. /\ sub = [kind |-> "InfoReply", unicast |-> sub.unicast, multicast |-> sub.multicast]
      /\ sub.unicast \in Seq(Nat) /\ sub.multicast \in Seq(Nat) \cup {Garbage}
      /\ sub.kind = "InfoReply"
  BY DEF SubmessageOf
<1>2. PICK u \in Nat : u = Len(sub.unicast) /\ HasLength(sub.unicast, u)
  <2> DEFINE list == sub.unicast
  <2>1. Len(list) \in Nat /\ HasLength(list, Len(list))
    BY <1>1 DEF HasLength
  <2> QED BY <2>1
<1>3. PICK v \in Nat : ~none => v = Len(sub.multicast) /\ HasLength(sub.multicast, v)
  <2>1. CASE none
    BY <2>1
  <2>2. CASE ~none
    <3> DEFINE list == sub.multicast
    <3>1. list \in Seq(Nat)
      BY <1>1, <2>2
    <3>2. Len(list) \in Nat /\ HasLength(list, Len(list))
      BY <3>1 DEF HasLength
    <3> QED BY <3>2
  <2> QED BY <2>1, <2>2
<1> DEFINE n == 2 + u + (IF none THEN 0 ELSE 1 + v)
<1>4. /\ n \in Nat /\ DOMAIN fields = 1..n
      /\ \A i \in 1..n : fields[i] = IF i = 1 THEN <<4, 0>>
           ELSE IF i <= 2 + u THEN IF i - 2 = 0 THEN <<4, u>> ELSE <<24, sub.unicast[i - 2]>>
           ELSE IF i - 3 - u = 0 THEN <<4, v>> ELSE <<24, sub.multicast[i - 3 - u]>>
  <2>1. fields = InfoReplyFields(sub)
    BY <1>1 DEF Fields
  <2> DEFINE field(i) == IF i = 1 THEN Long(0)
               ELSE IF i <= 2 + u THEN LocatorField(sub.unicast, i - 2)
               ELSE LocatorField(sub.multicast, i - 3 - u)
  <2>2. fields = [i \in 1..n |-> field(i)]
    <3>1. n = 2 + u + (IF none THEN 0 ELSE 1 + Len(sub.multicast))
      BY <1>3
    <3> HIDE DEF n
    <3> QED BY <1>2, <2>1, <3>1 DEF InfoReplyFields
  <2>3. n \in Nat
    OBVIOUS
  <2>4. Long(0) = <<4, 0>> /\ Long(Len(sub.unicast)) = <<4, u>>
    BY <1>2 DEF Long
  <2>5. ASSUME NEW i \in 1..n
        PROVE  field(i) = IF i = 1 THEN <<4, 0>>
           ELSE IF i <= 2 + u THEN IF i - 2 = 0 THEN <<4, u>> ELSE <<24, sub.unicast[i - 2]>>
           ELSE IF i - 3 - u = 0 THEN <<4, v>> ELSE <<24, sub.multicast[i - 3 - u]>>
    <3>1. CASE i <= 2 + u
      BY <2>4, <3>1 DEF LocatorField
    <3>2. CASE ~(i <= 2 + u)
      <4>1. ~none
        BY <2>3, <3>2
      <4>2. Long(Len(sub.multicast)) = <<4, v>> /\ i # 1
        BY <1>3, <3>2, <4>1 DEF Long
      <4> QED BY <3>2, <4>2 DEF LocatorField
    <3> QED BY <3>1, <3>2
  <2> HIDE DEF n, field, fields
  <2> QED BY <2>2, <2>3, <2>5
<1> HIDE DEF fields, n
<1>5. PICK end \in [0..n -> Nat] : Placed(body, fields, n, end)
  <2>1. \A k \in 1..n : fields[k][1] \in Nat
    BY <1>4
  <2> QED BY <1>4, <2>1, BodyIs
<1> HIDE DEF body
<1>6. n >= 2 + u /\ (~none => n = 2 + u + (1 + v))
  BY DEF n
<1>7. end[1] = 4
  <2>1. fields[1] = <<4, 0>> /\ 1 \in 1..n
    BY <1>4, <1>6
  <2> QED BY <1>5, <2>1 DEF Placed
<1>8. /\ end[2 + u] = 8 + 24 * u
      /\ LocatorsAt(body, 4).list = sub.unicast
      /\ LocatorsAt(body, 4).next = 8 + 24 * u
  <2>1. 2 \in 1..n /\ 2 + u <= n /\ end[2 - 1] = 4
    BY <1>4, <1>6, <1>7
  <2>2. fields[2] = <<4, u>>
    BY <1>4, <2>1
  <2>3. \A j \in 1..u : fields[2 + j] = <<24, sub.unicast[j]>>
    <3> SUFFICES ASSUME NEW j \in 1..u PROVE fields[2 + j] = <<24, sub.unicast[j]>>
      OBVIOUS
    <3>1. 2 + j \in 1..n /\ 2 + j # 1 /\ 2 + j <= 2 + u /\ (2 + j) - 2 = j /\ j # 0
      BY <1>4, <1>6
    <3> QED BY <1>4, <3>1
  <2>4. ListComesBack(body, end, 2, 4, sub.unicast, u)
    <3>1. ListFrom(fields, 2, sub.unicast, u)
      BY <2>2, <2>3 DEF ListFrom
    <3>2. ListStands(body, fields, n, end, 2, 4, sub.unicast, u)
      BY <1>2, <1>4, <1>5, <2>1, <3>1 DEF ListStands
    <3> QED BY <3>2, LocatorsAreRead, Zenon
  <2> QED BY <2>4 DEF ListComesBack
<1>9. ASSUME ~none
      PROVE  LocatorsAt(body, 8 + 24 * u).list = sub.multicast
  <2> DEFINE p == 3 + u
             from == 8 + 24 * u
  <2>1. p \in 1..n /\ p + v <= n /\ p - 1 = 2 + u /\ from \in Nat
    <3>1. n = 2 + u + (1 + v)
      BY <1>6, <1>9
    <3> QED BY ONLY <3>1, u \in Nat, v \in Nat
  <2>2. fields[p] = <<4, v>>
    <3>1. p # 1 /\ ~(p <= 2 + u) /\ p - 3 - u = 0
      OBVIOUS
    <3> HIDE DEF p
    <3> QED BY <1>4, <2>1, <3>1
  <2>3. \A j \in 1..v : fields[p + j] = <<24, sub.multicast[j]>>
    <3> SUFFICES ASSUME NEW j \in 1..v PROVE fields[p + j] = <<24, sub.multicast[j]>>
      OBVIOUS
    <3>1. p + j \in 1..n /\ p + j # 1 /\ ~(p + j <= 2 + u) /\ (p + j) - 3 - u = j /\ j # 0
      BY <1>4, <1>6, <1>9
    <3> HIDE DEF p
    <3> QED BY <1>4, <3>1
  <2>4. end[p - 1] = from
    BY <1>8, <2>1
  <2>5. HasLength(sub.multicast, v)
    BY <1>3, <1>9
  <2> HIDE DEF p, from
  <2>6. ListComesBack(body, end, p, from, sub.multicast, v)
    <3>1. ListFrom(fields, p, sub.multicast, v)
      BY <2>2, <2>3 DEF ListFrom
    <3>2. ListStands(body, fields, n, end, p, from, sub.multicast, v)
      BY <1>4, <1>5, <2>1, <2>4, <2>5, <3>1 DEF ListStands
    <3> QED BY <3>2, LocatorsAreRead, Zenon
  <2>7. LocatorsAt(body, from).list = sub.multicast
    BY <2>6 DEF ListComesBack
  <2> QED BY <2>7 DEF from
<1>10. /\ Sent(sub).body = body /\ Sent(sub).kind = "InfoReply"
       /\ "bit1" \in Sent(sub).flags <=> ~none
  BY <1>1 DEF Sent, Flags, body, fields
<1>11. Read(Sent(sub), size) = sub
  <2>1. Read(Sent(sub), size) = ReadInfoReply(Sent(sub))
    BY <1>10 DEF Read
  <2>2. LocatorsAt(body, 4).list = sub.unicast /\ LocatorsAt(body, 4).next = 8 + 24 * u
    BY <1>8
  <2>3. ReadInfoReply(Sent(sub)) = [kind |-> "InfoReply", unicast |-> sub.unicast,
          multicast |-> IF none THEN Garbage ELSE LocatorsAt(body, 8 + 24 * u).list]
    BY <1>10, <2>2 DEF ReadInfoReply
  <2>4. (IF none THEN Garbage ELSE LocatorsAt(body, 8 + 24 * u).list) = sub.multicast
    BY <1>9
  <2> QED BY <1>1, <2>1, <2>3, <2>4
<1>12. body.size \in Nat /\ body.size >= 8
  <2>1. 2 \in 1..n /\ n \in 0..n /\ 2 - 1 = 1
    BY <1>4, <1>6
  <2>2. fields[2] = <<4, u>>
    BY <1>4, <1>6, <2>1
  <2>3. end[2] = 8
    BY <1>5, <1>7, <2>1, <2>2 DEF Placed
  <2>4. \A k \in 1..n : end[k - 1] <= end[k]
    <3> SUFFICES ASSUME NEW k \in 1..n PROVE end[k - 1] <= end[k]
      OBVIOUS
    <3>1. end[k] = end[k - 1] + fields[k][1]
      BY <1>5 DEF Placed
    <3>2. fields[k][1] \in Nat
      BY <1>4
    <3>3. k - 1 \in 0..n
      BY <1>4
    <3>4. end[k - 1] \in Nat
      BY <3>3
    <3> QED BY <3>1, <3>2, <3>4
  <2>5. 2 <= n
    BY <1>4, <1>6
  <2>6. 2 \in 0..n
    BY <2>1, <1>4
  <2>7. end[2] <= end[n]
    BY <1>4, <2>1, <2>4, <2>5, <2>6, Climb
  <2>8. end[n] \in Nat /\ body.size = end[n]
    BY <1>5, <2>1 DEF Placed
  <2> QED BY <2>3, <2>7, <2>8
<1>13. size > 0 /\ size >= 0
  <2>1. size \in Nat /\ body.size <= size
    BY <1>12, Pad4Bounds
  <2> HIDE DEF size
  <2> QED BY <1>12, <2>1
<1> QED BY <1>1, <1>11, <1>12, <1>13 DEF IsRead, Survives, Least, size, body, fields


-----------------------------------------------------------------------------
(* Messages                                                                *)

LEMMA SubmessageIsRead ==
  ASSUME NEW sub, IsSubmessage(sub)
  PROVE  IsRead(sub)
<1>1. sub \in SubmessageOf(sub.kind) /\ sub.kind \in Kinds
  BY DEF IsSubmessage
<1>2. sub.kind \in {"InfoTs", "InfoDst", "InfoReply", "Data", "DataFrag", "Heartbeat",
                    "AckNack", "Gap", "NackFrag", "HeartbeatFrag"}
  BY <1>1 DEF Kinds
<1>3. CASE sub.kind = "InfoTs"
  BY <1>1, <1>3, InfoTsIsRead
<1>4. CASE sub.kind = "InfoDst"
  BY <1>1, <1>4, InfoDstIsRead
<1>5. CASE sub.kind = "InfoReply"
  BY <1>1, <1>5, InfoReplyIsRead
<1>6. CASE sub.kind = "Data"
  <2>1. WholeWords(sub.qos)
    BY <1>6 DEF IsSubmessage, WholeWords
  <2> QED BY <1>1, <1>6, <2>1, DataIsRead
<1>7. CASE sub.kind = "DataFrag"
  BY <1>1, <1>7, DataFragIsRead
<1>8. CASE sub.kind = "Heartbeat"
  BY <1>1, <1>8, HeartbeatIsRead
<1>9. CASE sub.kind = "AckNack"
  BY <1>1, <1>9, AckNackIsRead
<1>10. CASE sub.kind = "Gap"
  BY <1>1, <1>10, GapIsRead
<1>11. CASE sub.kind = "NackFrag"
  <2>1. \A k \in Range(sub.state) : k >= sub.starting
    BY <1>11 DEF IsSubmessage
  <2> QED BY <1>1, <1>11, <2>1, NackFragIsRead
<1>12. CASE sub.kind = "HeartbeatFrag"
  BY <1>1, <1>12, HeartbeatFragIsRead
<1> QED BY <1>2, <1>3, <1>4, <1>5, <1>6, <1>7, <1>8, <1>9, <1>10, <1>11, <1>12

\* The bytes of a body with its padding, and of a submessage with its header.
PaddedSize(sub) == Pad4(Body(Fields(sub)).size)
Room(sub) == SubHeaderSize + PaddedSize(sub)

LEMMA SentIs ==
  ASSUME NEW sub, IsSubmessage(sub)
  PROVE  /\ PaddedSize(sub) \in Nat
         /\ \E q \in Nat : PaddedSize(sub) = 4 * q
         /\ Least(sub.kind) \in Nat /\ PaddedSize(sub) >= Least(sub.kind)
         /\ sub.kind # "InfoTs" => PaddedSize(sub) > 0
         /\ Survives(sub, Read(Sent(sub), PaddedSize(sub)))
         /\ Sent(sub).kind = sub.kind
         /\ Sent(sub).octetsToNext = PaddedSize(sub)
<1> DEFINE size == Body(Fields(sub)).size
<1>1. IsRead(sub)
  BY SubmessageIsRead
<1>2. size \in Nat /\ PaddedSize(sub) = Pad4(size)
  BY <1>1 DEF IsRead, PaddedSize
<1>3. PaddedSize(sub) <= MaxU16
  BY DEF IsSubmessage, PaddedSize
<1>4. Sent(sub).kind = sub.kind /\ Sent(sub).octetsToNext = PaddedSize(sub)
  BY <1>3 DEF Sent, PaddedSize
<1>5. PaddedSize(sub) \in Nat /\ \E q \in Nat : PaddedSize(sub) = 4 * q
  <2> HIDE DEF size
  <2> QED BY <1>2, Pad4Bounds
<1>6. /\ PaddedSize(sub) >= Least(sub.kind)
      /\ sub.kind # "InfoTs" => PaddedSize(sub) > 0
      /\ Survives(sub, Read(Sent(sub), PaddedSize(sub)))
  BY <1>1 DEF IsRead, PaddedSize
<1>7. Least(sub.kind) \in Nat
  BY DEF Least, IsSubmessage, Kinds
<1> QED BY <1>4, <1>5, <1>6, <1>7

\* Each submessage begins where the last ended and is found there.
Stands(message, n, wire, end) ==
  /\ end \in [0..n -> Nat] /\ end[0] = HeaderSize
  /\ \A k \in 1..n : /\ end[k] = end[k - 1] + Room(message[k])
                     /\ end[k - 1] \in DOMAIN wire.at
                     /\ wire.at[end[k - 1]] = Sent(message[k])
  /\ \A k \in 0..n : end[k] <= wire.size /\ \E q \in Nat : end[k] = 4 * q
  /\ wire.size \in Nat /\ Cardinality(DOMAIN wire.at) = n

LEMMA MessageStands ==
  ASSUME NEW message, NEW n \in Nat, DOMAIN message = 1..n,
         \A k \in 1..n : IsSubmessage(message[k])
  PROVE  \E end : Stands(message, n, Serialize(message), end)
<1> DEFINE sizes == [i \in 1..n |-> Room(message[i])]
           items == [i \in 1..n |-> Sent(message[i])]
           wire == Serialize(message)
           end == Ends(HeaderSize, sizes)
<1>1. wire = LayOut(HeaderSize, sizes, items)
  BY DEF Serialize, Room, PaddedSize, Sent
<1>2. \A k \in 1..n : /\ Room(message[k]) \in Nat /\ Room(message[k]) > 0
                      /\ \E q \in Nat : Room(message[k]) = 4 * q
  <2> SUFFICES ASSUME NEW k \in 1..n
               PROVE  /\ Room(message[k]) \in Nat /\ Room(message[k]) > 0
                      /\ \E q \in Nat : Room(message[k]) = 4 * q
    OBVIOUS
  <2>1. PICK q \in Nat : PaddedSize(message[k]) = 4 * q
    BY SentIs
  <2>2. Room(message[k]) = 4 * (1 + q) /\ 1 + q \in Nat
    BY <2>1 DEF Room, SubHeaderSize
  <2> QED BY <2>2
<1> HIDE DEF wire
<1>3. sizes \in Seq(Nat) /\ Len(sizes) = n
  BY <1>2
<1>4. \A k \in 1..n : sizes[k] = Room(message[k]) /\ items[k] = Sent(message[k])
  OBVIOUS
<1> HIDE DEF sizes, items
<1>5. HeaderSize \in Nat
  BY DEF HeaderSize
<1>6. /\ EndAt(HeaderSize, sizes, n, end)
      /\ \A i, j \in 0..n : i <= j => end[i] <= end[j]
  BY <1>3, <1>5, EndsApart
<1>7. /\ wire.size = end[n]
      /\ \A k \in 1..n : sizes[k] > 0 => /\ end[k - 1] \in DOMAIN wire.at
                                         /\ wire.at[end[k - 1]] = items[k]
      /\ (\A k \in 1..n : sizes[k] > 0) => Cardinality(DOMAIN wire.at) = n
  <2> DEFINE buffer == LayOut(HeaderSize, sizes, items)
             l == Len(sizes)
  <2>1. /\ buffer.size = end[l]
        /\ \A k \in 1..l : sizes[k] > 0 => /\ end[k - 1] \in DOMAIN buffer.at
                                           /\ buffer.at[end[k - 1]] = items[k]
        /\ (\A k \in 1..l : sizes[k] > 0) => Cardinality(DOMAIN buffer.at) = l
    BY <1>3, <1>5, LayOutIs
  <2>2. buffer = wire /\ l = n
    BY <1>1, <1>3
  <2> HIDE DEF buffer, l, end
  <2> QED BY <2>1, <2>2
<1> HIDE DEF end
<1>8. /\ end \in [0..n -> Nat] /\ end[0] = HeaderSize
      /\ \A k \in 1..n : end[k] = end[k - 1] + Room(message[k])
  BY <1>4, <1>6 DEF EndAt
<1>9. \A k \in 1..n : end[k - 1] \in DOMAIN wire.at /\ wire.at[end[k - 1]] = Sent(message[k])
  BY <1>2, <1>4, <1>7
<1>10. Cardinality(DOMAIN wire.at) = n
  BY <1>2, <1>4, <1>7
<1>11. wire.size \in Nat /\ \A k \in 0..n : end[k] <= wire.size
  BY <1>6, <1>7, <1>8
<1>12. \A k \in 0..n : \E q \in Nat : end[k] = 4 * q
  <2> DEFINE Good == {k \in 0..n : \E q \in Nat : end[k] = 4 * q}
  <2>1. 0 \in Good
    <3>1. end[0] = 4 * 5
      BY <1>8 DEF HeaderSize
    <3> QED BY <3>1
  <2>2. ASSUME NEW k \in 1..n, k - 1 \in Good PROVE k \in Good
    <3>1. PICK p \in Nat : end[k - 1] = 4 * p
      BY <2>2
    <3>2. PICK q \in Nat : Room(message[k]) = 4 * q
      BY <1>2
    <3>3. end[k] = 4 * (p + q) /\ p + q \in Nat
      <4>1. end[k] = 4 * p + 4 * q
        BY <1>8, <3>1, <3>2
      <4> QED BY <4>1
    <3> QED BY <3>3
  <2> HIDE DEF Good
  <2>3. \A k \in 0..n : k \in Good
    BY <2>1, <2>2, UpTo
  <2> QED BY <2>3 DEF Good
<1> QED BY <1>8, <1>9, <1>10, <1>11, <1>12 DEF Stands, wire

\* From the header of submessage k, one turn takes it and stops at the next header.
TurnTakes(message, wire, end, k) ==
  \A read : ReadNext(wire, [offset |-> end[k - 1], read |-> read])
              = [offset |-> end[k],
                 read |-> Append(read, Read(Sent(message[k]), PaddedSize(message[k])))]

LEMMA NextIs ==
  ASSUME NEW message, NEW n \in Nat, \A k \in 1..n : IsSubmessage(message[k]),
         NEW wire, NEW end, Stands(message, n, wire, end), NEW k \in 1..n
  PROVE  TurnTakes(message, wire, end, k)
<1> SUFFICES ASSUME NEW read
             PROVE  ReadNext(wire, [offset |-> end[k - 1], read |-> read])
                      = [offset |-> end[k],
                         read |-> Append(read, Read(Sent(message[k]), PaddedSize(message[k])))]
  BY DEF TurnTakes
<1> DEFINE sub == message[k]
           m == PaddedSize(sub)
           from == end[k - 1] + SubHeaderSize
           s == [offset |-> end[k - 1], read |-> read]
<1>1. /\ m \in Nat /\ Least(sub.kind) \in Nat /\ m >= Least(sub.kind) /\ (sub.kind # "InfoTs" => m > 0)
      /\ Sent(sub).kind = sub.kind /\ Sent(sub).octetsToNext = m
  BY SentIs
<1>2. /\ end[k - 1] \in Nat /\ end[k] \in Nat /\ wire.size \in Nat
      /\ end[k] = end[k - 1] + SubHeaderSize + m
      /\ end[k - 1] \in DOMAIN wire.at /\ wire.at[end[k - 1]] = Sent(sub)
      /\ end[k] <= wire.size /\ \E q \in Nat : end[k] = 4 * q
  <2>1. k - 1 \in 0..n /\ k \in 0..n
    OBVIOUS
  <2>2. end[k - 1] \in Nat /\ end[k] \in Nat /\ wire.size \in Nat
    BY <2>1 DEF Stands
  <2>3. end[k] = end[k - 1] + (SubHeaderSize + m)
    BY DEF Stands, Room
  <2>4. /\ end[k - 1] \in DOMAIN wire.at /\ wire.at[end[k - 1]] = Sent(sub)
        /\ end[k] <= wire.size /\ \E q \in Nat : end[k] = 4 * q
    BY <2>1 DEF Stands
  <2>5. SubHeaderSize \in Nat
    BY DEF SubHeaderSize
  <2> HIDE DEF sub, m
  <2> QED BY <1>1, <2>2, <2>3, <2>4, <2>5
<1> HIDE DEF sub, m
<1>3. end[k] = from + m /\ from \in Nat /\ from <= wire.size /\ end[k] - from = m
  BY <1>1, <1>2 DEF SubHeaderSize
<1>4. BodyEnd(Sent(sub), from, wire.size) = end[k]
  <2>1. CASE m = 0
    BY <1>1, <1>3, <2>1 DEF BodyEnd
  <2>2. CASE m # 0
    <3>1. BodyEnd(Sent(sub), from, wire.size) = Min({end[k], wire.size})
      BY <1>1, <1>3, <2>2 DEF BodyEnd
    <3>2. Min({end[k], wire.size}) = end[k]
      BY <1>2, MinIs
    <3> QED BY <3>1, <3>2
  <2> QED BY <2>1, <2>2
<1>5. Pad4(end[k]) = end[k]
  BY <1>2, Pad4Bounds
<1>6. s.offset = end[k - 1] /\ s.read = read
  OBVIOUS
<1> HIDE DEF s
<1>7. ~(s.offset + SubHeaderSize > wire.size)
  BY <1>2, <1>3, <1>6 DEF SubHeaderSize
<1>8. ~(m < Least(sub.kind))
  BY <1>1
<1>9. ReadNext(wire, s) =
        LET e == BodyEnd(Sent(sub), from, wire.size)
        IN  [offset |-> Pad4(e),
             read |-> IF e - from < Least(Sent(sub).kind) THEN read
                      ELSE Append(read, Read(Sent(sub), e - from))]
  BY <1>2, <1>6, <1>7 DEF ReadNext, from
<1> HIDE DEF from
<1>10. ReadNext(wire, s) = [offset |-> end[k], read |-> Append(read, Read(Sent(sub), m))]
  <2>1. end[k] - from < Least(Sent(sub).kind) <=> FALSE
    BY <1>1, <1>3, <1>8
  <2> QED BY <1>3, <1>4, <1>5, <1>9, <2>1
<1> QED BY <1>10 DEF s, sub, m

\* The reader takes all of them, in order.
LEMMA ParseIs ==
  ASSUME NEW message, NEW n \in Nat, \A k \in 1..n : IsSubmessage(message[k]),
         NEW wire, NEW end, Stands(message, n, wire, end)
  PROVE  ParseMessage(wire)
           = [k \in 1..n |-> Read(Sent(message[k]), PaddedSize(message[k]))]
<1> DEFINE values == [k \in 1..n |-> Read(Sent(message[k]), PaddedSize(message[k]))]
           first == [offset |-> HeaderSize, read |-> <<>>]
           Step(f) == f = [k \in 0..n |-> IF k = 0 THEN first ELSE ReadNext(wire, f[k - 1])]
           At(k) == [offset |-> end[k], read |-> [i \in 1..k |-> values[i]]]
           read == [k \in 0..n |-> At(k)]
           parse == Parse(wire, n)
<1>1. parse = CHOOSE f : Step(f)
  BY DEF Parse
<1>2. first = At(0) /\ ParseMessage(wire) = parse[n].read
  <2>1. Cardinality(DOMAIN wire.at) = n /\ end[0] = HeaderSize
    BY DEF Stands
  <2>2. [i \in 1..0 |-> values[i]] = <<>>
    OBVIOUS
  <2> QED BY <2>1, <2>2 DEF ParseMessage
<1>3. ASSUME NEW k \in 1..n PROVE ReadNext(wire, At(k - 1)) = At(k)
  <2>1. Append([i \in 1..k - 1 |-> values[i]], values[k]) = [i \in 1..k |-> values[i]]
    BY FrontAppended
  <2>2. values[k] = Read(Sent(message[k]), PaddedSize(message[k]))
    OBVIOUS
  <2> HIDE DEF values
  <2>3. \A r : ReadNext(wire, [offset |-> end[k - 1], read |-> r])
                 = [offset |-> end[k], read |-> Append(r, values[k])]
    <3>1. TurnTakes(message, wire, end, k)
      BY NextIs
    <3> QED BY <2>2, <3>1 DEF TurnTakes
  <2> QED BY <2>1, <2>3
<1>4. values = [i \in 1..n |-> values[i]] /\ At(n).read = [i \in 1..n |-> values[i]]
  OBVIOUS
<1> HIDE DEF first, At, values
<1>5. \A k \in 0..n : read[k] = At(k)
  OBVIOUS
<1>6. ASSUME NEW k \in 1..n PROVE read[k] = ReadNext(wire, read[k - 1])
  <2>1. k - 1 \in 0..n /\ k \in 0..n
    OBVIOUS
  <2> HIDE DEF read
  <2> QED BY <1>3, <1>5, <2>1
<1>7. Step(read)
  <2>1. ASSUME NEW k \in 0..n
        PROVE  At(k) = IF k = 0 THEN first ELSE ReadNext(wire, read[k - 1])
    <3>1. CASE k = 0
      BY <1>2, <3>1
    <3>2. CASE k \in 1..n
      <4>1. k # 0
        BY <3>2
      <4> HIDE DEF read
      <4>2. read[k] = At(k) /\ read[k] = ReadNext(wire, read[k - 1])
        BY <1>5, <1>6, <3>2
      <4> QED BY <4>1, <4>2
    <3> QED BY <3>1, <3>2
  <2> QED BY <2>1
<1>8. Step(parse)
  <2> HIDE DEF Step, parse
  <2> QED BY <1>1, <1>7
<1>9. parse[0] = first /\ \A k \in 1..n : parse[k] = ReadNext(wire, parse[k - 1])
  <2> HIDE DEF parse
  <2>1. \A k \in 0..n : parse[k] = IF k = 0 THEN first ELSE ReadNext(wire, parse[k - 1])
    BY <1>8
  <2> QED BY <2>1
<1> HIDE DEF parse, read, Step
<1>10. parse[0] = read[0] /\ n \in 0..n
  BY <1>2, <1>5, <1>9
<1>11. \A k \in 1..n : parse[k - 1] = read[k - 1] => parse[k] = read[k]
  BY <1>6, <1>9
<1>12. \A k \in 0..n : parse[k] = read[k]
  BY <1>10, <1>11, SameByStep
<1>13. parse[n].read = values
  BY <1>4, <1>5, <1>10, <1>12
<1> QED BY <1>2, <1>13 DEF values

LEMMA MessageIs ==
  ASSUME NEW message, IsMessage(message)
  PROVE  MessageIsReadBack(message)
<1> DEFINE read == ParseMessage(Serialize(message))
<1>1. PICK n \in Nat : n = Len(message) /\ DOMAIN message = 1..n
  BY DEF IsMessage
<1>2. \A k \in 1..n : IsSubmessage(message[k])
  BY <1>1 DEF IsMessage, Range
<1>3. PICK end : Stands(message, n, Serialize(message), end)
  BY <1>1, <1>2, MessageStands
<1>4. read = [k \in 1..n |-> Read(Sent(message[k]), PaddedSize(message[k]))]
  BY <1>2, <1>3, ParseIs
<1> HIDE DEF read
<1>5. \A k \in 1..n : Survives(message[k], read[k])
  <2> SUFFICES ASSUME NEW k \in 1..n PROVE Survives(message[k], read[k])
    OBVIOUS
  <2>1. Survives(message[k], Read(Sent(message[k]), PaddedSize(message[k])))
    BY <1>2, SentIs
  <2> QED BY <1>4, <2>1
<1>6. Len(read) = n
  BY <1>4
<1> QED BY <1>1, <1>5, <1>6 DEF MessageIsReadBack, read

-----------------------------------------------------------------------------
(* The specification                                                       *)

\* A case has the inputs its part is given.
CaseInv ==
  /\ case.part = "nack" => IsMissingList(case.missing)
  /\ case.part = "header" =>
       /\ case.order \in {"little", "big"} /\ case.before \in Nat
       /\ case.id \in 0..LongForm - 1 /\ case.length \in Nat
  /\ case.part = "coerce" => case.requested \in TypeObjects /\ case.offered \in TypeObjects
  /\ case.part = "match" => IsEntity(case.writer) /\ IsEntity(case.reader)
  /\ case.part = "message" => IsMessage(case.subs)
  /\ case.part = "announce" => IsAnnouncement([address |-> case.address, source |-> case.source,
                                              port |-> case.port, lease |-> case.lease])

PartsInv == CaseInv /\ FragmentsInv

LEMMA PickKeeps ==
  ASSUME Pick
  PROVE  CaseInv'
<1>1. CASE Miss
  BY <1>1, PartsAssumption DEF Miss, CaseInv
<1>2. CASE HeadMember
  <2>1. PICK order \in {"little", "big"}, before \in 0..7, id \in Identifiers, length \in Lengths :
          case' = [part |-> "header", order |-> order, before |-> before, id |-> id, length |-> length]
    BY <1>2 DEF HeadMember
  <2>2. id \in 0..LongForm - 1 /\ length \in Nat /\ before \in Nat
    <3>1. Identifiers \subseteq 0..LongForm - 1 /\ Lengths \subseteq Nat
      BY PartsAssumption
    <3> QED BY <3>1
  <2> QED BY <2>1, <2>2 DEF CaseInv
<1>3. CASE Coerce
  BY <1>3 DEF Coerce, CaseInv
<1>4. CASE Match
  BY <1>4, PartsAssumption DEF Match, CaseInv
<1>5. CASE Exchange
  BY <1>5, PartsAssumption DEF Exchange, CaseInv
<1>6. CASE Announce
  <2>1. PICK a \in Announcements :
          case' = [part |-> "announce", address |-> a.address, source |-> a.source,
                   port |-> a.port, lease |-> a.lease]
    BY <1>6 DEF Announce
  <2>2. IsAnnouncement(a)
    BY PartsAssumption
  <2>3. IsAnnouncement([address |-> a.address, source |-> a.source,
                        port |-> a.port, lease |-> a.lease])
    BY <2>2 DEF IsAnnouncement
  <2> QED BY <2>1, <2>3 DEF CaseInv
<1> QED BY <1>1, <1>2, <1>3, <1>4, <1>5, <1>6 DEF Pick

LEMMA PartsInvariant == SpecParts => []PartsInv
<1>1. InitParts => PartsInv
  BY DEF InitParts, InitFragments, PartsInv, CaseInv, FragmentsInv
<1>2. PartsInv /\ [Pick \/ Reassemble]_partVars => PartsInv'
  <2> SUFFICES ASSUME PartsInv, [Pick \/ Reassemble]_partVars
               PROVE  PartsInv'
    OBVIOUS
  <2>1. CASE Pick
    <3>1. UNCHANGED fragmentVars
      BY <2>1 DEF Pick
    <3>2. FragmentsInv'
      BY <3>1 DEF PartsInv, FragmentsInv, BufferInv, fragmentVars, Marked
    <3> QED BY <2>1, <3>2, PickKeeps DEF PartsInv
  <2>2. CASE Reassemble
    <3>1. CaseInv'
      BY <2>2 DEF PartsInv, CaseInv, Reassemble
    <3>2. FragmentsInv'
      BY <2>2, FragmentsKeep DEF PartsInv, Reassemble
    <3> QED BY <3>1, <3>2 DEF PartsInv
  <2>3. CASE UNCHANGED partVars
    BY <2>3 DEF partVars, fragmentVars, PartsInv, CaseInv, FragmentsInv, BufferInv, Marked
  <2> QED BY <2>1, <2>2, <2>3
<1> QED BY <1>1, <1>2, PTL DEF SpecParts

(***************************************************************************)
(* However its fragments arrive, in whatever order and as often as they    *)
(* may, a reader is given the sample that was sent or nothing, and is      *)
(* given it at all unless a zero at the end of a fragment was lost.        *)
(***************************************************************************)
THEOREM ReassemblyIsFaithful == SpecParts => []SamplesAreReassembled
<1>1. PartsInv => SamplesAreReassembled
  BY ReassembledFromInv DEF PartsInv
<1> QED BY <1>1, PartsInvariant, PTL

(***************************************************************************)
(* What a NackFrag asks for is what completes the sample.                  *)
(***************************************************************************)
THEOREM RequestsComplete == SpecParts => []MissingIsAsked
<1>1. PartsInv => MissingIsAsked
  BY MissingFromInv DEF PartsInv
<1> QED BY <1>1, PartsInvariant, PTL

(***************************************************************************)
(* A NACK asks for missing numbers only, for the first of them, and for    *)
(* all within its window, whatever is missing and for every window.        *)
(***************************************************************************)
THEOREM NacksAskForMissing == SpecParts => []NacksAreSound
<1>1. PartsInv => NacksAreSound
  BY NackOfMissing DEF PartsInv, CaseInv, NacksAreSound
<1> QED BY <1>1, PartsInvariant, PTL

(***************************************************************************)
(* EMHEADER gives every identifier and every length back.                  *)
(***************************************************************************)
THEOREM MemberHeadersSurvive == SpecParts => []HeadersSurvive
<1>1. PartsInv => HeadersSurvive
  <2> SUFFICES ASSUME CaseInv, case.part = "header"
               PROVE  EmheaderSurvives(case.order, case.before, case.id, case.length)
    BY DEF PartsInv, HeadersSurvive
  <2>1. /\ case.order \in Order /\ case.before \in Nat
        /\ case.id \in 0..LongForm - 1 /\ case.length \in Nat
    BY DEF CaseInv, Order
  <2> QED BY <2>1, HeaderOfMember
<1> QED BY <1>1, PartsInvariant, PTL

(***************************************************************************)
(* A version of a type that is accepted carries what the reader requires,  *)
(* and a version further back is accepted along with it, as long as the    *)
(* versions between them lose nothing the reader knows.                    *)
(***************************************************************************)
THEOREM AcceptedTypesAreSound == SpecParts => []TypesAreCompatible
<1>1. PartsInv => TypesAreCompatible
  BY CompatibilityOfVersions DEF PartsInv, CaseInv, TypesAreCompatible
<1> QED BY <1>1, PartsInvariant, PTL

(***************************************************************************)
(* Whatever the names, the partitions and the policies of a writer and a   *)
(* reader, their participants reach one verdict on them.                   *)
(***************************************************************************)
THEOREM ParticipantsAgree == SpecParts => []BothSidesAgree
<1>1. PartsInv => BothSidesAgree
  BY EntitiesAgree DEF PartsInv, CaseInv, BothSidesAgree
<1> QED BY <1>1, PartsInvariant, PTL

(***************************************************************************)
(* Whatever its submessages, however many and however long, the reader of  *)
(* a message finds each of them, and each of their fields, where the       *)
(* writer put it.                                                          *)
(***************************************************************************)
THEOREM MessagesSurvive == SpecParts => []MessagesAreReadBack
<1>1. PartsInv => MessagesAreReadBack
  BY MessageIs DEF PartsInv, CaseInv, MessagesAreReadBack
<1> QED BY <1>1, PartsInvariant, PTL

(***************************************************************************)
(* Whatever port and lease a participant announces, it is sent user data   *)
(* and SEDP where it listens, and once.                                    *)
(***************************************************************************)
THEOREM DestinationsAreRight == SpecParts => []DestinationsAreAnnounced
<1>1. PartsInv => DestinationsAreAnnounced
  <2> SUFFICES ASSUME CaseInv, case.part = "announce"
               PROVE  DestinationIsAnnouncer(31, case.lease, case.address, case.source, case.port)
    BY DEF PartsInv, DestinationsAreAnnounced
  <2> DEFINE a == [address |-> case.address, source |-> case.source,
                   port |-> case.port, lease |-> case.lease]
  <2>1. IsAnnouncement(a)
    BY DEF CaseInv
  <2>2. /\ a.address = case.address /\ a.source = case.source
        /\ a.port = case.port /\ a.lease = case.lease
    OBVIOUS
  <2> HIDE DEF a
  <2>3. DestinationIsAnnouncer(31, a.lease, a.address, a.source, a.port)
    BY <2>1, AnnouncersAreReached
  <2> QED BY <2>2, <2>3
<1> QED BY <1>1, PartsInvariant, PTL
=============================================================================
