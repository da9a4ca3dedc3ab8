-------------------------- MODULE DataWriter_proofs --------------------------
(***************************************************************************)
(* Sequence numbers are unique, the history cache is right and late        *)
(* joiners miss only what was overtaken, for any number of threads,        *)
(* instances and writes. The second needs room between the depth and the   *)
(* resource limit of a KeepLast writer, unless one thread writes: then     *)
(* numbers arrive in order, and late joiners miss nothing either.          *)
(***************************************************************************)
EXTENDS DataWriter, FiniteSetTheorems, SequenceTheorems, WellFoundedInduction, TLAPS

-----------------------------------------------------------------------------
(* What the operators of HistoryCache do, for every QoS and every number   *)

\* An insertion brings nothing into the cache but the new number.
LEMMA AddChangeBound ==
  ASSUME NEW q, NEW c, NEW new
  PROVE  AddChange(q, c, new) \subseteq c \cup {new}
BY DEF AddChange, TrimToDepth, MakeRoom, DropOldest

\* ... and into the durability cache.
LEMMA PushDurableBound ==
  ASSUME NEW q, NEW S, NEW d \in Seq(S), NEW new \in S
  PROVE  /\ PushDurable(q, d, new) \in Seq(S)
         /\ Samples(PushDurable(q, d, new)) \subseteq Samples(d) \cup {new}
<1> DEFINE grown == Append(d, new)
<1>1. /\ grown \in Seq(S)
      /\ Len(grown) = Len(d) + 1
      /\ \A i \in 1..Len(d) : grown[i] = d[i]
      /\ grown[Len(d) + 1] = new
  OBVIOUS
<1>2. Samples(grown) \subseteq Samples(d) \cup {new}
  BY <1>1 DEF Samples
<1>3. /\ Tail(grown) \in Seq(S)
      /\ \A i \in 1..Len(Tail(grown)) : Tail(grown)[i] = grown[i + 1]
      /\ Len(Tail(grown)) = Len(d)
  BY <1>1
<1>4. Samples(Tail(grown)) \subseteq Samples(grown)
  BY <1>1, <1>3 DEF Samples
<1> QED BY <1>1, <1>2, <1>3, <1>4 DEF PushDurable

-----------------------------------------------------------------------------
(* The oldest change                                                       *)

Less == {p \in Nat \X Nat : p[1] < p[2]}

\* A set of numbers has a least one.
LEMMA LeastExists ==
  ASSUME NEW c, c \subseteq Nat, c # {}
  PROVE  \E s \in c : \A t \in c : s <= t
<1>1. IsWellFoundedOn(Less, Nat)
  BY NatLessThanWellFounded, Zenon DEF OpToRel, Less
<1>2. PICK s \in c : \A t \in c : <<t, s>> \notin Less
  BY <1>1, WFMin
<1>3. \A t \in c : ~(t < s)
  BY <1>2 DEF Less
<1> QED BY <1>3

LEMMA OldestIsLeast ==
  ASSUME NEW c, c \subseteq Nat, c # {}
  PROVE  Oldest(c) \in c /\ \A t \in c : Oldest(c) <= t
BY LeastExists DEF Oldest

-----------------------------------------------------------------------------
(* add_change keeps what the history QoS promises                          *)

\* A KeepAll cache that does not refuse a change keeps all it had.
LEMMA KeepAllKeeps ==
  ASSUME NEW q, NEW c, NEW new, q.kind = "KeepAll", ~Rejects(q, c)
  PROVE  AddChange(q, c, new) = c \cup {new}
BY DEF AddChange, Rejects, MakeRoom, TrimToDepth

(***************************************************************************)
(* A KeepLast cache with the newest of S, and room to spare between its    *)
(* depth and its limit, holds the newest of S and the new number after the *)
(* insertion, wherever that sorts.                                         *)
(***************************************************************************)
LEMMA KeepLastKeepsNewest ==
  ASSUME NEW q, IsWriterQos(q), q.kind = "KeepLast", q.maxSamples > q.depth,
         NEW S, S \subseteq Nat, NEW c, IsNewest(c, S, q.depth),
         IsFiniteSet(c), Cardinality(c) <= q.depth,
         NEW new \in Nat, new \notin S
  PROVE  /\ IsNewest(AddChange(q, c, new), S \cup {new}, q.depth)
         /\ IsFiniteSet(AddChange(q, c, new))
         /\ Cardinality(AddChange(q, c, new)) <= q.depth
<1> DEFINE grown == c \cup {new}
<1>1. /\ q.depth \in Nat /\ q.maxSamples \in Nat
      /\ Cardinality(c) \in Nat
      /\ c \subseteq S /\ new \notin c
  BY FS_CardinalityType DEF IsWriterQos, IsNewest
<1>2. MakeRoom(q, c) = c
  BY <1>1 DEF MakeRoom, AtLimit
<1>3. IsFiniteSet(grown) /\ Cardinality(grown) = Cardinality(c) + 1
  BY <1>1, FS_AddElement
<1>4. AddChange(q, c, new) = IF Cardinality(grown) > q.depth THEN DropOldest(grown) ELSE grown
  BY <1>2 DEF AddChange, TrimToDepth
<1> HIDE DEF grown
<1>5. CASE Cardinality(grown) <= q.depth
  <2>1. c = S
    BY <1>1, <1>3, <1>5 DEF IsNewest
  <2>2. AddChange(q, c, new) = grown
    BY <1>1, <1>3, <1>4, <1>5
  <2> QED BY <1>3, <1>5, <2>1, <2>2 DEF IsNewest, grown
<1>6. CASE Cardinality(grown) > q.depth
  <2> DEFINE m == Oldest(grown)
             d == grown \ {m}
  <2>1. grown \subseteq Nat /\ grown # {}
    BY <1>1 DEF grown
  <2>2. m \in grown /\ \A t \in grown : m <= t
    BY <2>1, OldestIsLeast
  <2> HIDE DEF m
  <2>3. IsFiniteSet(d) /\ Cardinality(d) = Cardinality(grown) - 1
    BY <1>3, <2>2, FS_RemoveElement
  <2>4. Cardinality(d) = q.depth
    BY <1>1, <1>3, <1>6, <2>3
  <2>5. AddChange(q, c, new) = d
    BY <1>4, <1>6 DEF DropOldest, m
  <2>6. \A t \in d : m < t
    BY <2>1, <2>2
  <2>7. ASSUME NEW s \in (S \cup {new}) \ d, NEW t \in d
        PROVE  s < t
    <3>1. s \in Nat /\ t \in Nat /\ m \in Nat /\ m < t
      BY <2>1, <2>2, <2>6
    <3>2. CASE s = m
      BY <3>1, <3>2
    <3>3. CASE s # m
      <4>1. s \in S \ c
        BY <3>3 DEF grown
      <4>2. \A u \in c : s < u
        BY <4>1 DEF IsNewest
      <4>3. m \in c \/ t \in c
        BY <2>2 DEF grown
      <4> QED BY <3>1, <4>2, <4>3
    <3> QED BY <3>2, <3>3
  <2>8. d \subseteq S \cup {new}
    BY <1>1 DEF grown
  <2> HIDE DEF d
  <2>9. IsNewest(d, S \cup {new}, q.depth)
    BY <2>4, <2>7, <2>8 DEF IsNewest
  <2> QED BY <1>1, <2>3, <2>4, <2>5, <2>9
<1> QED BY <1>1, <1>3, <1>5, <1>6

-----------------------------------------------------------------------------
(* Writes that arrive in the order of their numbers                        *)

\* The oldest of a cache is the oldest still when a newer number is added.
LEMMA OldestStays ==
  ASSUME NEW c, c \subseteq Nat, c # {}, NEW new \in Nat, \A s \in c : s < new
  PROVE  Oldest(c \cup {new}) = Oldest(c)
<1>1. Oldest(c) \in c /\ \A t \in c : Oldest(c) <= t
  BY OldestIsLeast
<1>2. /\ Oldest(c \cup {new}) \in c \cup {new}
      /\ \A t \in c \cup {new} : Oldest(c \cup {new}) <= t
  <2>1. c \cup {new} \subseteq Nat /\ c \cup {new} # {}
    OBVIOUS
  <2> QED BY <2>1, OldestIsLeast
<1>3. Oldest(c) \in Nat /\ Oldest(c) < new /\ Oldest(c \cup {new}) \in Nat
  BY <1>1, <1>2
<1>4. Oldest(c \cup {new}) \in c
  BY <1>1, <1>2, <1>3
<1> QED BY <1>1, <1>2, <1>3, <1>4

\* Room is made before or after the insertion: the same sample goes.
LEMMA KeepLastInOrder ==
  ASSUME NEW q, IsWriterQos(q), q.kind = "KeepLast",
         NEW c, c \subseteq Nat, IsFiniteSet(c), Cardinality(c) <= q.depth,
         NEW new \in Nat, \A s \in c : s < new
  PROVE  AddChange(q, c, new)
           = (IF Cardinality(c) < q.depth THEN c ELSE DropOldest(c)) \cup {new}
<1>1. /\ q.depth \in Nat \ {0} /\ q.maxSamples \in Nat /\ q.maxSamples >= q.depth
      /\ Cardinality(c) \in Nat
      /\ new \notin c
  BY FS_CardinalityType DEF IsWriterQos
<1>2. CASE Cardinality(c) < q.depth
  <2>1. MakeRoom(q, c) = c
    BY <1>1, <1>2 DEF MakeRoom, AtLimit
  <2>2. Cardinality(c \cup {new}) = Cardinality(c) + 1
    BY <1>1, FS_AddElement
  <2> QED BY <1>1, <1>2, <2>1, <2>2 DEF AddChange, TrimToDepth
<1>3. CASE ~(Cardinality(c) < q.depth)
  <2>1. Cardinality(c) = q.depth /\ c # {}
    BY <1>1, <1>3, FS_EmptySet
  <2>2. Oldest(c) \in c /\ Oldest(c) < new
    BY <2>1, OldestIsLeast
  <2>3. DropOldest(c \cup {new}) = DropOldest(c) \cup {new}
    BY <1>1, <2>1, <2>2, OldestStays DEF DropOldest
  <2>4. CASE AtLimit(q, c)
    <3>1. MakeRoom(q, c) = DropOldest(c)
      BY <2>4 DEF MakeRoom
    <3>2. IsFiniteSet(DropOldest(c)) /\ Cardinality(DropOldest(c)) = Cardinality(c) - 1
      BY <2>2, FS_RemoveElement DEF DropOldest
    <3>3. new \notin DropOldest(c)
      BY <1>1 DEF DropOldest
    <3>4. Cardinality(DropOldest(c) \cup {new}) = Cardinality(DropOldest(c)) + 1
      BY <3>2, <3>3, FS_AddElement
    <3>5. ~(Cardinality(DropOldest(c) \cup {new}) > q.depth)
      BY <1>1, <2>1, <3>2, <3>4
    <3> QED BY <1>3, <3>1, <3>5 DEF AddChange, TrimToDepth
  <2>5. CASE ~AtLimit(q, c)
    <3>1. MakeRoom(q, c) = c
      BY <2>5 DEF MakeRoom
    <3>2. Cardinality(c \cup {new}) = Cardinality(c) + 1
      BY <1>1, FS_AddElement
    <3>3. Cardinality(c \cup {new}) > q.depth
      BY <1>1, <2>1, <3>2
    <3> QED BY <1>3, <2>3, <3>1, <3>3 DEF AddChange, TrimToDepth
  <2> QED BY <2>4, <2>5
<1> QED BY <1>2, <1>3

\* A durability cache in the order of its numbers.
Ascending(d) == \A i, j \in DOMAIN d : i < j => d[i] < d[j]

LEMMA AscendingCount ==
  ASSUME NEW d \in Seq(Nat), Ascending(d)
  PROVE  /\ IsFiniteSet(Samples(d)) /\ Cardinality(Samples(d)) = Len(d)
         /\ Len(d) > 0 => d[1] \in Samples(d) /\ d[1] = Oldest(Samples(d))
<1>1. DOMAIN d = 1..Len(d) /\ Len(d) \in Nat /\ \A i \in 1..Len(d) : d[i] \in Nat
  OBVIOUS
<1>2. d \in Bijection(1..Len(d), Samples(d))
  <2>1. d \in [1..Len(d) -> Samples(d)]
    BY <1>1 DEF Samples
  <2>2. \A i, j \in 1..Len(d) : d[i] = d[j] => i = j
    BY <1>1 DEF Ascending
  <2>3. \A s \in Samples(d) : \E i \in 1..Len(d) : d[i] = s
    BY <1>1 DEF Samples
  <2> QED BY <2>1, <2>2, <2>3 DEF Bijection, Injection, Surjection, IsInjective
<1>3. ExistsBijection(1..Len(d), Samples(d))
  BY <1>2 DEF ExistsBijection
<1>4. IsFiniteSet(Samples(d)) /\ Cardinality(Samples(d)) = Len(d)
  BY <1>1, <1>3, FS_NatBijection, FS_CountingElements
<1>5. ASSUME Len(d) > 0
      PROVE  d[1] \in Samples(d) /\ d[1] = Oldest(Samples(d))
  <2>1. d[1] \in Samples(d) /\ Samples(d) \subseteq Nat
    BY <1>1, <1>5 DEF Samples
  <2>2. \A s \in Samples(d) : d[1] <= s
    <3> SUFFICES ASSUME NEW i \in 1..Len(d) PROVE d[1] <= d[i]
      BY <1>1 DEF Samples
    <3> QED BY <1>1, <1>5 DEF Ascending
  <2>3. /\ Oldest(Samples(d)) \in Samples(d)
        /\ \A s \in Samples(d) : Oldest(Samples(d)) <= s
    BY <2>1, OldestIsLeast
  <2> QED BY <2>1, <2>2, <2>3
<1> QED BY <1>4, <1>5

LEMMA AppendAscends ==
  ASSUME NEW d \in Seq(Nat), Ascending(d), NEW new \in Nat, \A s \in Samples(d) : s < new
  PROVE  /\ Append(d, new) \in Seq(Nat) /\ Len(Append(d, new)) = Len(d) + 1
         /\ Len(d) > 0 => Append(d, new)[1] = d[1]
         /\ Ascending(Append(d, new))
         /\ Samples(Append(d, new)) = Samples(d) \cup {new}
<1> DEFINE grown == Append(d, new)
           n == Len(d)
<1>1. n \in Nat /\ DOMAIN d = 1..n
  OBVIOUS
<1>2. grown \in Seq(Nat) /\ Len(grown) = n + 1 /\ DOMAIN grown = 1..n + 1
  OBVIOUS
<1>3. /\ \A i \in 1..n : grown[i] = d[i] /\ d[i] \in Nat
      /\ grown[n + 1] = new
  OBVIOUS
<1> HIDE DEF grown, n
<1>4. \A i \in 1..n : d[i] < new
  BY <1>1 DEF Samples
<1>5. \A i \in 1..n + 1 : i \in 1..n \/ i = n + 1
  BY <1>1
<1>6. \A i \in 1..n : i \in 1..n + 1 /\ i < n + 1
  BY <1>1
<1>7. Samples(grown) = Samples(d) \cup {new}
  <2>1. n + 1 \in 1..n + 1
    BY <1>1
  <2> QED BY <1>1, <1>2, <1>3, <1>5, <1>6, <2>1 DEF Samples
<1>8. Ascending(grown)
  <2> SUFFICES ASSUME NEW i \in 1..n + 1, NEW j \in 1..n + 1, i < j
               PROVE  grown[i] < grown[j]
    BY <1>2 DEF Ascending
  <2>1. i \in 1..n
    BY <1>1
  <2>2. CASE j = n + 1
    BY <1>3, <1>4, <2>1, <2>2
  <2>3. CASE j \in 1..n
    BY <1>1, <1>3, <2>1, <2>3 DEF Ascending
  <2> QED BY <1>5, <2>2, <2>3
<1>9. n > 0 => grown[1] = d[1]
  BY <1>1, <1>3
<1> QED BY <1>2, <1>7, <1>8, <1>9 DEF grown, n

LEMMA TailAscends ==
  ASSUME NEW g \in Seq(Nat), Ascending(g), Len(g) > 0
  PROVE  /\ Tail(g) \in Seq(Nat) /\ Len(Tail(g)) = Len(g) - 1
         /\ Ascending(Tail(g))
         /\ Samples(Tail(g)) = Samples(g) \ {g[1]}
<1> DEFINE n == Len(g)
           t == Tail(g)
<1>1. n \in Nat \ {0} /\ DOMAIN g = 1..n /\ \A i \in 1..n : g[i] \in Nat
  OBVIOUS
<1>2. t \in Seq(Nat) /\ Len(t) = n - 1 /\ DOMAIN t = 1..n - 1
  OBVIOUS
<1>3. \A i \in 1..n - 1 : t[i] = g[i + 1]
  OBVIOUS
<1> HIDE DEF n, t
<1>4. \A i \in 1..n - 1 : i + 1 \in 1..n /\ i + 1 # 1 /\ 1 < i + 1
  BY <1>1
<1>5. \A k \in 1..n : k # 1 => k - 1 \in 1..n - 1 /\ (k - 1) + 1 = k
  BY <1>1
<1>6. Ascending(t)
  <2> SUFFICES ASSUME NEW i \in 1..n - 1, NEW j \in 1..n - 1, i < j PROVE t[i] < t[j]
    BY <1>2 DEF Ascending
  <2>1. i + 1 < j + 1
    BY <1>1
  <2> QED BY <1>1, <1>3, <1>4, <2>1 DEF Ascending
<1>7. 1 \in 1..n
  BY <1>1
<1>8. \A k \in 1..n : g[k] = g[1] <=> k = 1
  <2> SUFFICES ASSUME NEW k \in 1..n, k # 1 PROVE g[1] < g[k]
    BY <1>1, <1>7
  <2>1. 1 < k
    BY <1>1
  <2> QED BY <1>1, <1>7, <2>1 DEF Ascending
<1>9. Samples(t) = Samples(g) \ {g[1]}
  <2>1. ASSUME NEW s \in Samples(t) PROVE s \in Samples(g) \ {g[1]}
    <3>1. PICK i \in 1..n - 1 : s = t[i]
      BY <1>2, <2>1 DEF Samples
    <3> QED BY <1>1, <1>3, <1>4, <1>8, <3>1 DEF Samples
  <2>2. ASSUME NEW s \in Samples(g) \ {g[1]} PROVE s \in Samples(t)
    <3>1. PICK k \in 1..n : s = g[k]
      BY <1>1, <2>2 DEF Samples
    <3>2. k # 1
      BY <2>2, <3>1
    <3>3. k - 1 \in 1..n - 1 /\ s = t[k - 1]
      BY <1>3, <1>5, <3>1, <3>2
    <3> QED BY <1>2, <3>3 DEF Samples
  <2> QED BY <2>1, <2>2
<1> QED BY <1>2, <1>6, <1>9 DEF n, t

\* Both caches lose the same sample when numbers arrive in order.
LEMMA DurableInOrder ==
  ASSUME NEW q, IsWriterQos(q), NEW d \in Seq(Nat), Ascending(d), NEW new \in Nat,
         \A s \in Samples(d) : s < new,
         q.kind = "KeepLast" => Len(d) <= q.depth,
         ~Rejects(q, Samples(d))
  PROVE  /\ PushDurable(q, d, new) \in Seq(Nat)
         /\ Ascending(PushDurable(q, d, new))
         /\ Samples(PushDurable(q, d, new)) = AddChange(q, Samples(d), new)
         /\ q.kind = "KeepLast" => Len(PushDurable(q, d, new)) <= q.depth
<1> DEFINE grown == Append(d, new)
           held == Samples(d)
<1>1. q.depth \in Nat \ {0} /\ q.kind \in {"KeepLast", "KeepAll"}
  BY DEF IsWriterQos
<1>2. Len(d) \in Nat /\ held \subseteq Nat
  BY DEF Samples
<1>3. /\ grown \in Seq(Nat) /\ Len(grown) = Len(d) + 1
      /\ Len(d) > 0 => grown[1] = d[1]
      /\ Ascending(grown) /\ Samples(grown) = held \cup {new}
  BY AppendAscends
<1>4. PushDurable(q, d, new)
        = IF q.kind = "KeepLast" /\ Len(grown) > q.depth THEN Tail(grown) ELSE grown
  BY DEF PushDurable
<1>5. /\ IsFiniteSet(held) /\ Cardinality(held) = Len(d)
      /\ Len(d) > 0 => d[1] \in held /\ d[1] = Oldest(held)
  BY AscendingCount
<1>6. \A s \in held : s < new
  OBVIOUS
<1> HIDE DEF grown, held
<1>7. CASE q.kind = "KeepAll"
  <2>1. AddChange(q, held, new) = held \cup {new}
    BY <1>7, KeepAllKeeps DEF held
  <2> QED BY <1>3, <1>4, <1>7, <2>1 DEF held
<1>8. CASE q.kind = "KeepLast"
  <2>1. Cardinality(held) <= q.depth
    BY <1>5, <1>8
  <2>2. AddChange(q, held, new)
          = (IF Len(d) < q.depth THEN held ELSE DropOldest(held)) \cup {new}
    <3>1. AddChange(q, held, new)
            = (IF Cardinality(held) < q.depth THEN held ELSE DropOldest(held)) \cup {new}
      BY <1>2, <1>5, <1>6, <1>8, <2>1, KeepLastInOrder
    <3> QED BY <1>5, <3>1
  <2>3. CASE Len(d) < q.depth
    <3>1. PushDurable(q, d, new) = grown
      BY <1>1, <1>2, <1>3, <1>4, <2>3
    <3>2. Len(grown) <= q.depth
      BY <1>1, <1>2, <1>3, <2>3
    <3> QED BY <1>3, <2>2, <2>3, <3>1, <3>2 DEF held
  <2>4. CASE Len(d) = q.depth
    <3>1. PushDurable(q, d, new) = Tail(grown) /\ Len(d) > 0 /\ Len(grown) > 0
      BY <1>1, <1>2, <1>3, <1>4, <1>8, <2>4
    <3>2. /\ Tail(grown) \in Seq(Nat) /\ Len(Tail(grown)) = Len(grown) - 1
          /\ Ascending(Tail(grown)) /\ Samples(Tail(grown)) = Samples(grown) \ {grown[1]}
      BY <1>3, <3>1, TailAscends
    <3>3. Len(Tail(grown)) <= q.depth
      BY <1>1, <1>2, <1>3, <2>4, <3>2
    <3>4. grown[1] = Oldest(held) /\ Oldest(held) \in held /\ Oldest(held) # new
      BY <1>2, <1>3, <1>5, <1>6, <3>1
    <3>5. Samples(Tail(grown)) = DropOldest(held) \cup {new}
      BY <1>3, <3>2, <3>4 DEF DropOldest
    <3>6. AddChange(q, held, new) = DropOldest(held) \cup {new}
      BY <1>1, <2>2, <2>4
    <3> QED BY <3>1, <3>2, <3>3, <3>5, <3>6 DEF held
  <2>5. Len(d) < q.depth \/ Len(d) = q.depth
    BY <1>1, <1>2, <1>8
  <2> QED BY <2>3, <2>4, <2>5
<1> QED BY <1>1, <1>7, <1>8

-----------------------------------------------------------------------------
(* The invariants                                                          *)

Pc == {"idle", "checked", "numbered"}

\* The part of TypeOK that numbers and history rest on.
WriterType ==
  /\ qos \in WriterQos
  /\ nextSn \in Nat
  /\ cache \subseteq Nat
  /\ accepted \subseteq Nat
  /\ pc \in [Thread -> Pc]
  /\ sn \in [Thread -> Nat]

\* Whatever has been numbered lies below next_sn, accepted or held by a thread.
BelowNext ==
  /\ \A s \in accepted : s < nextSn
  /\ \A t \in Thread : pc[t] = "numbered" => sn[t] < nextSn

NumberInv == WriterType /\ BelowNext /\ NumbersAreUnique

\* A KeepLast cache does not outgrow its depth.
WithinDepth ==
  qos.kind = "KeepLast" => IsFiniteSet(cache) /\ Cardinality(cache) <= qos.depth

HistoryInv == NumberInv /\ KeepsNewest /\ WithinDepth

-----------------------------------------------------------------------------
(* Numbers                                                                 *)

LEMMA InitNumberInv == Init => NumberInv
BY DEF Init, NumberInv, WriterType, BelowNext, NumbersAreUnique, Pc

\* Sections that neither number nor store leave the numbers alone.
LEMMA NumbersKept ==
  ASSUME NumberInv, UNCHANGED <<qos, nextSn, cache, accepted, sn>>,
         pc' \in [Thread -> Pc],
         \A t \in Thread : pc'[t] = "numbered" => pc[t] = "numbered"
  PROVE  NumberInv'
BY DEF NumberInv, WriterType, BelowNext, NumbersAreUnique

LEMMA AllocateSnNumbers ==
  ASSUME NumberInv, NEW t \in Thread, AllocateSn(t)
  PROVE  NumberInv'
<1>1. /\ nextSn' = nextSn + 1 /\ nextSn \in Nat
      /\ sn' = [sn EXCEPT ![t] = nextSn] /\ pc' = [pc EXCEPT ![t] = "numbered"]
      /\ UNCHANGED <<qos, cache, accepted>>
  BY DEF AllocateSn, NumberInv, WriterType
<1>2. WriterType'
  BY <1>1 DEF NumberInv, WriterType, Pc
<1>3. /\ sn'[t] = nextSn
      /\ \A u \in Thread \ {t} : sn'[u] = sn[u] /\ pc'[u] = pc[u]
  BY <1>1 DEF NumberInv, WriterType
<1>4. \A u \in Thread : sn[u] \in Nat
  BY DEF NumberInv, WriterType
<1>5. BelowNext'
  BY <1>1, <1>3, <1>4 DEF NumberInv, WriterType, BelowNext
<1>6. NumbersAreUnique'
  BY <1>1, <1>3, <1>4 DEF NumberInv, WriterType, BelowNext, NumbersAreUnique
<1> QED BY <1>2, <1>5, <1>6 DEF NumberInv

\* The end of a write: its thread is idle, its number spent.
LEMMA RefuseChangeNumbers ==
  ASSUME NumberInv, NEW t \in Thread, RefuseChange(t)
  PROVE  NumberInv'
<1>1. /\ sn' = [sn EXCEPT ![t] = 0] /\ pc' = [pc EXCEPT ![t] = "idle"]
      /\ UNCHANGED <<qos, nextSn, cache, accepted>>
  BY DEF RefuseChange
<1> QED BY <1>1 DEF NumberInv, WriterType, BelowNext, NumbersAreUnique, Pc

LEMMA StoreChangeNumbers ==
  ASSUME NumberInv, NEW t \in Thread, StoreChange(t)
  PROVE  NumberInv'
<1>1. /\ pc[t] = "numbered" /\ cache' = AddChange(qos, cache, sn[t])
      /\ accepted' = accepted \cup {sn[t]}
      /\ sn' = [sn EXCEPT ![t] = 0] /\ pc' = [pc EXCEPT ![t] = "idle"]
      /\ UNCHANGED <<qos, nextSn>>
  BY DEF StoreChange
<1>2. sn[t] \in Nat /\ sn[t] < nextSn
  BY <1>1 DEF NumberInv, WriterType, BelowNext
<1>3. cache' \subseteq cache \cup {sn[t]}
  BY <1>1, AddChangeBound
<1>4. WriterType'
  BY <1>1, <1>2, <1>3 DEF NumberInv, WriterType, Pc
<1>5. /\ pc'[t] = "idle"
      /\ \A u \in Thread \ {t} : sn'[u] = sn[u] /\ pc'[u] = pc[u]
  BY <1>1 DEF NumberInv, WriterType
<1>6. BelowNext'
  BY <1>1, <1>2, <1>5 DEF NumberInv, BelowNext
<1>7. NumbersAreUnique'
  BY <1>1, <1>5 DEF NumberInv, NumbersAreUnique
<1> QED BY <1>4, <1>6, <1>7 DEF NumberInv

LEMMA NextNumberInv == NumberInv /\ [Next]_vars => NumberInv'
<1> SUFFICES ASSUME NumberInv, [Next]_vars PROVE NumberInv'
  OBVIOUS
<1>1. ASSUME NEW t \in Thread, NEW i \in Instance, CheckInstance(t, i) PROVE NumberInv'
  <2>1. pc' = [pc EXCEPT ![t] = "checked"] /\ pc \in [Thread -> Pc]
    BY <1>1 DEF CheckInstance, NumberInv, WriterType
  <2>2. /\ pc' \in [Thread -> Pc]
        /\ \A u \in Thread : pc'[u] = "numbered" => pc[u] = "numbered"
    BY <2>1 DEF Pc
  <2> QED BY <1>1, <2>2, NumbersKept DEF CheckInstance
<1>2. ASSUME NEW t \in Thread, AllocateSn(t) PROVE NumberInv'
  BY <1>2, AllocateSnNumbers
<1>3. ASSUME NEW t \in Thread, RefuseChange(t) PROVE NumberInv'
  BY <1>3, RefuseChangeNumbers
<1>4. ASSUME NEW t \in Thread, StoreChange(t) PROVE NumberInv'
  BY <1>4, StoreChangeNumbers
<1>5. CASE UNCHANGED <<qos, nextSn, cache, accepted, sn, pc>>
  BY <1>5, NumbersKept DEF NumberInv, WriterType
<1>6. ASSUME NEW i \in Instance \ {NoKey},
             RegisterInstance(i) \/ Dispose(i) \/ UnregisterInstance(i)
      PROVE  NumberInv'
  BY <1>5, <1>6 DEF RegisterInstance, Dispose, UnregisterInstance, SetInstance
<1>7. CASE Enable \/ UNCHANGED vars
  BY <1>5, <1>7 DEF Enable, vars
<1> QED BY <1>1, <1>2, <1>3, <1>4, <1>6, <1>7 DEF Next

(***************************************************************************)
(* However the lock sections of concurrent writes interleave, and whatever *)
(* the cache refuses, no two samples share a sequence number.              *)
(***************************************************************************)
THEOREM SequenceNumbersUnique == Spec => []NumbersAreUnique
<1>1. NumberInv => NumbersAreUnique
  BY DEF NumberInv
<1> QED BY <1>1, InitNumberInv, NextNumberInv, PTL DEF Spec

-----------------------------------------------------------------------------
(* History                                                                 *)

\* Room between the depth and the limit of every KeepLast writer.
RoomToSpare == \A q \in WriterQos : q.kind = "KeepLast" => q.maxSamples > q.depth

LEMMA InitHistoryInv == Init => HistoryInv
<1> SUFFICES ASSUME Init PROVE HistoryInv
  OBVIOUS
<1>1. cache = {} /\ accepted = {} /\ qos \in WriterQos
  BY DEF Init
<1>2. IsFiniteSet({}) /\ Cardinality({}) = 0
  BY FS_EmptySet
<1>3. IsWriterQos(qos)
  BY <1>1, DataWriterAssumption
<1>4. qos.depth \in Nat
  BY <1>3 DEF IsWriterQos
<1> QED BY <1>1, <1>2, <1>4, InitNumberInv
        DEF HistoryInv, KeepsNewest, WithinDepth, IsNewest

LEMMA StoreChangeHistory ==
  ASSUME RoomToSpare, HistoryInv, NEW t \in Thread, StoreChange(t)
  PROVE  KeepsNewest' /\ WithinDepth'
<1>1. /\ pc[t] = "numbered" /\ ~Rejects(qos, cache)
      /\ cache' = AddChange(qos, cache, sn[t])
      /\ accepted' = accepted \cup {sn[t]} /\ qos' = qos
  BY DEF StoreChange
<1>2. sn[t] \in Nat /\ sn[t] \notin accepted
  BY <1>1 DEF HistoryInv, NumberInv, WriterType, NumbersAreUnique
<1>3. /\ qos \in WriterQos /\ IsWriterQos(qos)
      /\ accepted \subseteq Nat /\ qos.kind \in {"KeepLast", "KeepAll"}
  BY DataWriterAssumption DEF HistoryInv, NumberInv, WriterType, IsWriterQos
<1>4. CASE qos.kind = "KeepAll"
  BY <1>1, <1>4, KeepAllKeeps DEF HistoryInv, KeepsNewest, WithinDepth
<1>5. CASE qos.kind = "KeepLast"
  <2>1. qos.maxSamples > qos.depth
    BY <1>3, <1>5 DEF RoomToSpare
  <2>2. /\ IsNewest(cache, accepted, qos.depth)
        /\ IsFiniteSet(cache) /\ Cardinality(cache) <= qos.depth
    BY <1>5 DEF HistoryInv, KeepsNewest, WithinDepth
  <2>3. /\ IsNewest(cache', accepted', qos.depth)
        /\ IsFiniteSet(cache') /\ Cardinality(cache') <= qos.depth
    BY <1>1, <1>2, <1>3, <1>5, <2>1, <2>2, KeepLastKeepsNewest
  <2> QED BY <1>1, <1>5, <2>3 DEF KeepsNewest, WithinDepth
<1> QED BY <1>3, <1>4, <1>5

LEMMA NextHistoryInv == RoomToSpare /\ HistoryInv /\ [Next]_vars => HistoryInv'
<1> SUFFICES ASSUME RoomToSpare, HistoryInv, [Next]_vars PROVE HistoryInv'
  OBVIOUS
<1>1. NumberInv'
  BY NextNumberInv DEF HistoryInv
<1>2. KeepsNewest' /\ WithinDepth'
  <2>1. ASSUME NEW t \in Thread, StoreChange(t) PROVE KeepsNewest' /\ WithinDepth'
    BY <2>1, StoreChangeHistory
  <2>2. CASE UNCHANGED <<qos, cache, accepted>>
    BY <2>2 DEF HistoryInv, KeepsNewest, WithinDepth
  <2>3. (\E t \in Thread : StoreChange(t)) \/ UNCHANGED <<qos, cache, accepted>>
    BY DEF Next, vars, CheckInstance, AllocateSn, RefuseChange, RegisterInstance,
           Dispose, UnregisterInstance, SetInstance, Enable
  <2> QED BY <2>1, <2>2, <2>3
<1> QED BY <1>1, <1>2 DEF HistoryInv

(***************************************************************************)
(* With room to spare, the cache of a KeepLast writer is made of the       *)
(* newest samples accepted, in whatever order concurrent writes reach it,  *)
(* and that of a KeepAll writer of all of them.                            *)
(***************************************************************************)
THEOREM HistoryIsNewest ==
  ASSUME RoomToSpare
  PROVE  Spec => []KeepsNewest
<1>1. HistoryInv => KeepsNewest
  BY DEF HistoryInv
<1>2. HistoryInv /\ [Next]_vars => HistoryInv'
  BY NextHistoryInv
<1> QED BY <1>1, <1>2, InitHistoryInv, PTL DEF Spec
-----------------------------------------------------------------------------
(* Types                                                                   *)

\* A thread that is about to store holds a number.
HoldsNumber == \A t \in Thread : pc[t] = "numbered" => sn[t] # 0

TypeInv == TypeOK /\ HoldsNumber

LEMMA InitTypeInv == Init => TypeInv
<1> SUFFICES ASSUME Init PROVE TypeInv
  OBVIOUS
<1>1. (CHOOSE i \in Instance : TRUE) \in Instance /\ MaxSn \in Nat
  BY DataWriterAssumption
<1> QED BY <1>1 DEF Init, TypeInv, TypeOK, HoldsNumber

LEMMA StoreChangeType ==
  ASSUME TypeInv, NEW t \in Thread, StoreChange(t)
  PROVE  TypeInv'
<1>1. sn[t] \in 1..MaxSn /\ MaxSn \in Nat
  BY DataWriterAssumption DEF StoreChange, TypeInv, TypeOK, HoldsNumber
<1>2. cache' \subseteq 1..MaxSn
  <2>1. AddChange(qos, cache, sn[t]) \subseteq cache \cup {sn[t]}
    BY AddChangeBound
  <2> QED BY <1>1, <2>1 DEF StoreChange, TypeInv, TypeOK
<1>3. durable' \in Seq(1..MaxSn)
  <2>1. durable \in Seq(1..MaxSn)
    BY DEF TypeInv, TypeOK
  <2>2. PushDurable(qos, durable, sn[t]) \in Seq(1..MaxSn)
    BY <1>1, <2>1, PushDurableBound
  <2> QED BY <2>1, <2>2 DEF StoreChange
<1>4. accepted' \subseteq 1..MaxSn
  BY <1>1 DEF StoreChange, TypeInv, TypeOK
<1>5. /\ pc' \in [Thread -> {"idle", "checked", "numbered"}] /\ sn' \in [Thread -> 0..MaxSn]
      /\ HoldsNumber'
  BY <1>1 DEF StoreChange, TypeInv, TypeOK, HoldsNumber
<1> QED BY <1>2, <1>3, <1>4, <1>5 DEF StoreChange, TypeInv, TypeOK

LEMMA NextTypeInv == TypeInv /\ [Next]_vars => TypeInv'
<1> SUFFICES ASSUME TypeInv, [Next]_vars PROVE TypeInv'
  OBVIOUS
<1>1. ASSUME NEW t \in Thread, NEW i \in Instance, CheckInstance(t, i) PROVE TypeInv'
  BY <1>1 DEF CheckInstance, TypeInv, TypeOK, HoldsNumber
<1>2. ASSUME NEW t \in Thread, AllocateSn(t) PROVE TypeInv'
  <2>1. MaxSn \in Nat /\ nextSn \in 1..MaxSn /\ nextSn' = nextSn + 1
    BY <1>2, DataWriterAssumption DEF AllocateSn, TypeInv, TypeOK
  <2>2. nextSn' \in 1..MaxSn + 1 /\ nextSn \in 0..MaxSn /\ nextSn # 0
    BY <2>1
  <2>3. /\ pc' \in [Thread -> {"idle", "checked", "numbered"}]
        /\ sn' \in [Thread -> 0..MaxSn]
        /\ HoldsNumber'
    BY <1>2, <2>2 DEF AllocateSn, TypeInv, TypeOK, HoldsNumber
  <2> QED BY <1>2, <2>2, <2>3 DEF AllocateSn, TypeInv, TypeOK
<1>3. ASSUME NEW t \in Thread, RefuseChange(t) PROVE TypeInv'
  BY <1>3, DataWriterAssumption DEF RefuseChange, TypeInv, TypeOK, HoldsNumber
<1>4. ASSUME NEW t \in Thread, StoreChange(t) PROVE TypeInv'
  BY <1>4, StoreChangeType
<1>5. ASSUME NEW i \in Instance \ {NoKey},
             RegisterInstance(i) \/ Dispose(i) \/ UnregisterInstance(i)
      PROVE  TypeInv'
  BY <1>5 DEF RegisterInstance, Dispose, UnregisterInstance, SetInstance,
              TypeInv, TypeOK, HoldsNumber
<1>6. CASE Enable \/ UNCHANGED vars
  BY <1>6 DEF Enable, vars, TypeInv, TypeOK, HoldsNumber
<1> QED BY <1>1, <1>2, <1>3, <1>4, <1>5, <1>6 DEF Next

(***************************************************************************)
(* Whatever writes, instance calls and enable interleave, every variable   *)
(* of a DataWriter keeps its type: what is cached was numbered, from 1.    *)
(***************************************************************************)
THEOREM WriterTypeCorrect == Spec => []TypeOK
<1>1. TypeInv => TypeOK
  BY DEF TypeInv
<1> QED BY <1>1, InitTypeInv, NextTypeInv, PTL DEF Spec

-----------------------------------------------------------------------------
(* Late joiners                                                            *)

\* p is d, less its k first numbers, followed by new.
IsShift(p, d, new, k) ==
  /\ Len(p) = Len(d) + 1 - k
  /\ DOMAIN p = 1..Len(d) + 1 - k
  /\ \A i \in 1..Len(d) - k : p[i] = d[i + k]
  /\ p[Len(d) + 1 - k] = new

\* A push shifts the durability cache by one when a KeepLast one is full.
LEMMA PushDurableShifts ==
  ASSUME NEW q, IsWriterQos(q), NEW d \in Seq(Nat), NEW new \in Nat
  PROVE  \E k \in {0, 1} :
           /\ k = 1 <=> q.kind = "KeepLast" /\ Len(d) + 1 > q.depth
           /\ IsShift(PushDurable(q, d, new), d, new, k)
<1> DEFINE grown == Append(d, new)
           n == Len(d)
<1>1. /\ n \in Nat /\ grown \in Seq(Nat) /\ Len(grown) = n + 1
      /\ \A i \in 1..n : grown[i] = d[i]
      /\ grown[n + 1] = new
  OBVIOUS
<1>2. PushDurable(q, d, new)
        = IF q.kind = "KeepLast" /\ n + 1 > q.depth THEN Tail(grown) ELSE grown
  BY <1>1 DEF PushDurable
<1>3. CASE q.kind = "KeepLast" /\ n + 1 > q.depth
  <2>1. /\ PushDurable(q, d, new) = Tail(grown)
        /\ Tail(grown) \in Seq(Nat) /\ Len(Tail(grown)) = n
        /\ \A i \in 1..n : Tail(grown)[i] = grown[i + 1]
    BY <1>1, <1>2, <1>3
  <2>2. n > 0
    BY <1>1, <1>3 DEF IsWriterQos
  <2> HIDE DEF grown, n
  <2>3. n \in 1..n /\ \A i \in 1..n - 1 : i \in 1..n /\ i + 1 \in 1..n
    BY <1>1, <2>2
  <2>4. /\ \A i \in 1..n - 1 : Tail(grown)[i] = d[i + 1]
        /\ Tail(grown)[n] = new
    BY <1>1, <2>1, <2>3
  <2>5. DOMAIN Tail(grown) = 1..n /\ n + 1 - 1 = n
    BY <1>1, <2>1
  <2>6. IsShift(PushDurable(q, d, new), d, new, 1)
    BY <2>1, <2>4, <2>5 DEF IsShift, n
  <2> QED BY <1>3, <2>6 DEF n
<1>4. CASE ~(q.kind = "KeepLast" /\ n + 1 > q.depth)
  <2>1. PushDurable(q, d, new) = grown /\ DOMAIN grown = 1..n + 1
    BY <1>1, <1>2, <1>4
  <2> HIDE DEF grown, n
  <2>2. n - 0 = n /\ n + 1 - 0 = n + 1 /\ \A i \in 1..n : i + 0 = i
    BY <1>1
  <2>3. IsShift(PushDurable(q, d, new), d, new, 0)
    BY <1>1, <2>1, <2>2 DEF IsShift, n
  <2> QED BY <1>4, <2>3 DEF n
<1> QED BY <1>3, <1>4

\* What an insertion drops is older than what it leaves of the cache.
LEMMA DroppedIsOlder ==
  ASSUME NEW q, NEW c, c \subseteq Nat, NEW new \in Nat, new \notin c,
         NEW x \in (c \cup {new}) \ AddChange(q, c, new),
         NEW s \in AddChange(q, c, new), s # new
  PROVE  x < s
<1> DEFINE room == MakeRoom(q, c)
<1>1. /\ room \subseteq c /\ room \subseteq Nat
      /\ \A y \in c \ room, t \in room : y < t
  <2>1. CASE c = {}
    BY <2>1 DEF MakeRoom, DropOldest
  <2>2. CASE c # {}
    <3>1. PICK m \in c : m = Oldest(c) /\ \A t \in c : m <= t
      BY <2>2, OldestIsLeast
    <3>2. \A t \in c : t # m => m < t
      BY <3>1
    <3> QED BY <3>1, <3>2 DEF MakeRoom, DropOldest
  <2> QED BY <2>1, <2>2
<1>2. room \cup {new} \subseteq Nat /\ room \cup {new} # {}
  BY <1>1
<1>3. AddChange(q, c, new) = TrimToDepth(q, room \cup {new})
  BY DEF AddChange
<1> HIDE DEF room
<1>4. /\ Oldest(room \cup {new}) \in room \cup {new}
      /\ \A t \in room \cup {new} : Oldest(room \cup {new}) <= t
  BY <1>2, OldestIsLeast
<1>5. s \in room
  BY <1>3 DEF TrimToDepth, DropOldest
<1>6. CASE x \in c \ room
  BY <1>1, <1>5, <1>6
<1>7. CASE x \in room \cup {new}
  <2>1. x = Oldest(room \cup {new}) /\ s # x
    BY <1>3, <1>7 DEF TrimToDepth, DropOldest
  <2> QED BY <1>1, <1>2, <1>4, <1>5, <2>1
<1> QED BY <1>6, <1>7

\* No insertion takes a KeepLast cache past its depth.
LEMMA AddChangeWithinDepth ==
  ASSUME NEW q, IsWriterQos(q), q.kind = "KeepLast",
         NEW c, c \subseteq Nat, IsFiniteSet(c), Cardinality(c) <= q.depth,
         NEW new \in Nat
  PROVE  IsFiniteSet(AddChange(q, c, new)) /\ Cardinality(AddChange(q, c, new)) <= q.depth
<1> DEFINE room == MakeRoom(q, c)
           grown == room \cup {new}
<1>1. q.depth \in Nat /\ Cardinality(c) \in Nat
  BY FS_CardinalityType DEF IsWriterQos
<1>2. room \subseteq c
  BY DEF MakeRoom, DropOldest
<1>3. IsFiniteSet(room) /\ Cardinality(room) <= Cardinality(c) /\ Cardinality(room) \in Nat
  BY <1>2, FS_Subset, FS_CardinalityType
<1> HIDE DEF room
<1>4. /\ IsFiniteSet(grown) /\ Cardinality(grown) \in Nat
      /\ Cardinality(grown) <= Cardinality(room) + 1
  <2>1. IsFiniteSet(grown)
    BY <1>3, FS_AddElement
  <2>2. Cardinality(grown) \in Nat
    BY <2>1, FS_CardinalityType
  <2>3. Cardinality(grown) = Cardinality(room) \/ Cardinality(grown) = Cardinality(room) + 1
    <3>1. CASE new \in room
      <4>1. grown = room
        BY <3>1
      <4> QED BY <4>1
    <3>2. CASE new \notin room
      BY <1>3, <3>2, FS_AddElement
    <3> QED BY <3>1, <3>2
  <2> QED BY <1>3, <2>1, <2>2, <2>3
<1>5. AddChange(q, c, new) = IF Cardinality(grown) > q.depth THEN DropOldest(grown) ELSE grown
  BY DEF AddChange, TrimToDepth, room
<1>6. grown \subseteq Nat /\ grown # {}
  BY <1>2
<1> HIDE DEF grown
<1>7. CASE Cardinality(grown) > q.depth
  <2>1. Oldest(grown) \in grown
    BY <1>6, OldestIsLeast
  <2>2. IsFiniteSet(DropOldest(grown)) /\ Cardinality(DropOldest(grown)) = Cardinality(grown) - 1
    BY <1>4, <2>1, FS_RemoveElement DEF DropOldest
  <2> QED BY <1>1, <1>3, <1>4, <1>5, <1>7, <2>2
<1> QED BY <1>1, <1>4, <1>5, <1>7

\* A number that the durability cache holds and the history cache dropped is
\* older than whatever the history cache holds of the arrivals before it.
NewerKept ==
  \A j \in DOMAIN durable, s \in cache :
    durable[j] \notin cache /\ s < durable[j]
      => \E i \in DOMAIN durable : i > j /\ durable[i] = s

\* The durability cache holds the last arrivals, each once.
LastArrivals ==
  /\ Samples(durable) \subseteq accepted
  /\ \A i, j \in DOMAIN durable : durable[i] = durable[j] => i = j
  /\ \/ accepted \subseteq Samples(durable)
     \/ qos.kind = "KeepLast" /\ Len(durable) = qos.depth
  /\ qos.kind = "KeepLast" => Len(durable) <= qos.depth

DurableInv ==
  /\ NumberInv /\ TypeInv /\ WithinDepth
  /\ cache \subseteq accepted
  /\ IF qos.durability = "Volatile" THEN durable = <<>> ELSE LastArrivals /\ NewerKept

LEMMA InitDurableInv == Init => DurableInv
<1> SUFFICES ASSUME Init PROVE DurableInv
  OBVIOUS
<1>1. WithinDepth
  BY InitHistoryInv DEF HistoryInv
<1>2. cache = {} /\ accepted = {} /\ durable = <<>> /\ qos \in WriterQos
  BY DEF Init
<1>3. qos.depth \in Nat
  BY <1>2, DataWriterAssumption DEF IsWriterQos
<1> QED BY <1>1, <1>2, <1>3, InitNumberInv, InitTypeInv
        DEF DurableInv, LastArrivals, NewerKept, Samples

\* The durability cache after a store: the last arrivals, with the new one last.
LEMMA StoreChangeArrivals ==
  ASSUME DurableInv, qos.durability # "Volatile", NEW t \in Thread, StoreChange(t)
  PROVE  LastArrivals' /\ NewerKept'
<1> DEFINE new == sn[t]
           n == Len(durable)
<1>1. /\ pc[t] = "numbered" /\ qos' = qos
      /\ cache' = AddChange(qos, cache, new)
      /\ durable' = PushDurable(qos, durable, new)
      /\ accepted' = accepted \cup {new}
  BY DEF StoreChange
<1>2. /\ new \in Nat /\ new \notin accepted /\ new \notin cache
      /\ cache \subseteq Nat /\ cache \subseteq accepted /\ accepted \subseteq Nat
      /\ IsWriterQos(qos)
  BY <1>1, DataWriterAssumption
     DEF DurableInv, NumberInv, NumbersAreUnique, WriterType
<1>3. /\ durable \in Seq(Nat) /\ n \in Nat /\ DOMAIN durable = 1..n
      /\ qos.depth \in Nat \ {0}
  <2>1. durable \in Seq(1..MaxSn) /\ \A i \in 1..Len(durable) : durable[i] \in Nat
    BY DataWriterAssumption DEF DurableInv, TypeInv, TypeOK
  <2>2. durable \in Seq(Nat)
    BY <2>1, SeqMonotonic
  <2> QED BY <1>2, <2>2 DEF IsWriterQos
<1>4. LastArrivals /\ NewerKept
  BY DEF DurableInv
<1>5. PICK k \in {0, 1} :
        /\ k = 1 <=> qos.kind = "KeepLast" /\ n + 1 > qos.depth
        /\ IsShift(durable', durable, new, k)
  BY <1>1, <1>2, <1>3, PushDurableShifts
<1>6. /\ Len(durable') = n + 1 - k
      /\ DOMAIN durable' = 1..n + 1 - k
      /\ \A i \in 1..n - k : durable'[i] = durable[i + k]
      /\ durable'[n + 1 - k] = new
  BY <1>5 DEF IsShift
<1> HIDE DEF new, n
<1>7. \A j \in 1..n + 1 - k : j = n + 1 - k \/ j \in 1..n - k
  BY <1>3
<1>8. \A j \in 1..n - k : j + k \in 1..n
  BY <1>3
<1>9. \A i \in 1..n : durable[i] \in accepted /\ durable[i] # new
  BY <1>2, <1>3, <1>4 DEF LastArrivals, Samples
<1>10. \A i, j \in 1..n - k : i + k = j + k => i = j
  BY <1>3
<1>11. \A i, j \in DOMAIN durable' : durable'[i] = durable'[j] => i = j
  <2> SUFFICES ASSUME NEW i \in 1..n + 1 - k, NEW j \in 1..n + 1 - k,
                      durable'[i] = durable'[j]
               PROVE  i = j
    BY <1>5, <1>6
  <2>1. CASE i \in 1..n - k /\ j \in 1..n - k
    <3>1. durable[i + k] = durable[j + k] /\ i + k \in 1..n /\ j + k \in 1..n
      BY <1>5, <1>6, <1>8, <2>1
    <3> QED BY <1>3, <1>4, <1>10, <2>1, <3>1 DEF LastArrivals
  <2>2. CASE i = n + 1 - k
    BY <1>5, <1>6, <1>7, <1>8, <1>9, <2>2
  <2>3. CASE j = n + 1 - k
    BY <1>5, <1>6, <1>7, <1>8, <1>9, <2>3
  <2> QED BY <1>7, <2>1, <2>2, <2>3
<1>12. Samples(durable)' \subseteq accepted'
  BY <1>1, <1>5, <1>6, <1>7, <1>8, <1>9 DEF Samples
<1>13. (qos.kind = "KeepLast" => Len(durable) <= qos.depth)'
  BY <1>1, <1>3, <1>4, <1>5, <1>6 DEF LastArrivals, n
<1>14. (accepted \subseteq Samples(durable)) \/ (qos.kind = "KeepLast" /\ Len(durable) = qos.depth)
  BY <1>4 DEF LastArrivals
<1>15. \/ accepted' \subseteq Samples(durable)'
       \/ (qos.kind = "KeepLast" /\ Len(durable) = qos.depth)'
  <2>1. CASE k = 1
    BY <1>1, <1>3, <1>4, <1>5, <1>6, <2>1 DEF LastArrivals, n
  <2>2. CASE k = 0
    <3>1. accepted \subseteq Samples(durable)
      BY <1>3, <1>5, <1>6, <1>14, <2>2 DEF n
    <3>2. \A i \in 1..n : i \in 1..n + 1 - k /\ durable'[i] = durable[i]
      BY <1>3, <1>5, <1>6, <2>2
    <3>3. n + 1 - k \in 1..n + 1 - k
      BY <1>3, <2>2
    <3> QED BY <1>1, <1>3, <1>5, <1>6, <3>1, <3>2, <3>3 DEF Samples
  <2> QED BY <2>1, <2>2
<1>16. NewerKept'
  <2> SUFFICES ASSUME NEW j \in 1..n + 1 - k, NEW s \in cache',
                      durable'[j] \notin cache', s < durable'[j]
               PROVE  \E i \in 1..n + 1 - k : i > j /\ durable'[i] = s
    BY <1>5, <1>6 DEF NewerKept
  <2>1. cache' \subseteq cache \cup {new}
    BY <1>1, AddChangeBound
  <2>2. n + 1 - k \in 1..n + 1 - k
    BY <1>3
  <2>3. CASE s = new
    <3>1. j # n + 1 - k
      BY <1>5, <1>6, <2>3
    <3>2. n + 1 - k > j
      BY <1>3, <3>1
    <3> QED BY <1>5, <1>6, <2>2, <2>3, <3>2
  <2>4. CASE s # new
    <3>1. ASSUME durable'[j] \in cache \cup {new} PROVE FALSE
      <4>1. durable'[j] < s
        BY <1>1, <1>2, <2>4, <3>1, DroppedIsOlder
      <4>2. durable'[j] \in Nat /\ s \in Nat
        BY <1>2, <2>1, <3>1
      <4> QED BY <4>1, <4>2
    <3>2. j \in 1..n - k /\ durable'[j] = durable[j + k] /\ j + k \in 1..n
      BY <1>5, <1>6, <1>7, <1>8, <3>1
    <3>3. s \in cache /\ durable[j + k] \notin cache /\ s < durable[j + k]
      BY <2>1, <2>4, <3>1, <3>2
    <3>4. PICK i \in 1..n : i > j + k /\ durable[i] = s
      BY <1>3, <1>4, <3>2, <3>3 DEF NewerKept
    <3>5. i - k \in 1..n - k /\ i - k \in 1..n + 1 - k /\ i - k > j /\ (i - k) + k = i
      BY <1>3, <3>2, <3>4
    <3> QED BY <1>5, <1>6, <3>4, <3>5
  <2> QED BY <2>3, <2>4
<1> QED BY <1>11, <1>12, <1>13, <1>15, <1>16 DEF LastArrivals

LEMMA StoreChangeDurable ==
  ASSUME DurableInv, NEW t \in Thread, StoreChange(t)
  PROVE  DurableInv'
<1>1. NumberInv' /\ TypeInv'
  BY StoreChangeNumbers, StoreChangeType DEF DurableInv
<1>2. /\ pc[t] = "numbered" /\ qos' = qos
      /\ cache' = AddChange(qos, cache, sn[t]) /\ accepted' = accepted \cup {sn[t]}
  BY DEF StoreChange
<1>3. sn[t] \in Nat /\ cache \subseteq Nat /\ cache \subseteq accepted /\ IsWriterQos(qos)
  BY DataWriterAssumption DEF DurableInv, NumberInv, WriterType
<1>4. cache' \subseteq accepted'
  BY <1>2, <1>3, AddChangeBound
<1>5. WithinDepth'
  BY <1>2, <1>3, AddChangeWithinDepth DEF DurableInv, WithinDepth
<1>6. CASE qos.durability = "Volatile"
  BY <1>1, <1>2, <1>4, <1>5, <1>6 DEF DurableInv, StoreChange
<1>7. CASE qos.durability # "Volatile"
  BY <1>1, <1>2, <1>4, <1>5, <1>7, StoreChangeArrivals DEF DurableInv
<1> QED BY <1>6, <1>7

LEMMA NextDurableInv == DurableInv /\ [Next]_vars => DurableInv'
<1> SUFFICES ASSUME DurableInv, [Next]_vars PROVE DurableInv'
  OBVIOUS
<1>1. NumberInv' /\ TypeInv'
  BY NextNumberInv, NextTypeInv DEF DurableInv
<1>2. (\E t \in Thread : StoreChange(t)) \/ UNCHANGED <<qos, cache, durable, accepted>>
  BY DEF Next, vars, CheckInstance, AllocateSn, RefuseChange, RegisterInstance,
         Dispose, UnregisterInstance, SetInstance, Enable
<1>3. CASE UNCHANGED <<qos, cache, durable, accepted>>
  BY <1>1, <1>3 DEF DurableInv, WithinDepth, LastArrivals, NewerKept, Samples
<1> QED BY <1>2, <1>3, StoreChangeDurable

(***************************************************************************)
(* A late joiner is short of a cached sample only for an older one that    *)
(* was stored later, and gets as many as the depth, for any number of      *)
(* threads and every QoS that create_datawriter accepts.                   *)
(***************************************************************************)
THEOREM LateJoinersMissOnlyOvertaken == Spec => []OnlyOvertakenMissed
<1>1. DurableInv => OnlyOvertakenMissed
  <2> SUFFICES ASSUME DurableInv, NEW n \in 1..MaxSn + 1, IsJoinPoint(durable, n),
                      NEW s \in Missed(n)
               PROVE  /\ qos.kind = "KeepLast"
                      /\ Cardinality(Samples(durable)) = qos.depth
                      /\ \E d \in Samples(durable) : d < s
    BY DEF OnlyOvertakenMissed
  <2>1. s \in cache /\ s < n /\ s \notin Samples(durable)
    BY DEF Missed
  <2>2. /\ durable \in Seq(1..MaxSn) /\ Len(durable) \in Nat
        /\ DOMAIN durable = 1..Len(durable)
        /\ s \in 1..MaxSn /\ s \in accepted
    BY <2>1 DEF DurableInv, TypeInv, TypeOK
  <2>3. qos.durability # "Volatile"
    <3> SUFFICES ASSUME durable = <<>> PROVE FALSE
      BY DEF DurableInv
    <3>1. Samples(durable) = {}
      BY DEF Samples
    <3>2. n = 1
      BY <3>1 DEF IsJoinPoint
    <3> QED BY <2>1, <2>2, <3>2, DataWriterAssumption
  <2>4. LastArrivals /\ NewerKept /\ WithinDepth /\ IsWriterQos(qos)
    BY <2>3, DataWriterAssumption DEF DurableInv, TypeInv, TypeOK
  <2>5. qos.kind = "KeepLast" /\ Len(durable) = qos.depth
    BY <2>1, <2>2, <2>4 DEF LastArrivals
  <2>6. IsFiniteSet(Samples(durable)) /\ Cardinality(Samples(durable)) = Len(durable)
    <3>1. durable \in Bijection(1..Len(durable), Samples(durable))
      BY <2>2, <2>4 DEF LastArrivals, Samples, Bijection, Injection, Surjection, IsInjective
    <3>2. ExistsBijection(1..Len(durable), Samples(durable))
      BY <3>1 DEF ExistsBijection
    <3> QED BY <2>2, <3>2, FS_NatBijection, FS_CountingElements
  <2>7. \E d \in Samples(durable) : d < s
    <3> SUFFICES ASSUME \A d \in Samples(durable) : ~(d < s) PROVE FALSE
      OBVIOUS
    <3>1. \A j \in DOMAIN durable : durable[j] \in Nat /\ durable[j] \in Samples(durable)
      BY <2>2, DataWriterAssumption DEF Samples
    <3>2. \A j \in DOMAIN durable : s < durable[j]
      <4> SUFFICES ASSUME NEW j \in DOMAIN durable PROVE s < durable[j]
        OBVIOUS
      <4>1. durable[j] \in Nat /\ durable[j] # s /\ ~(durable[j] < s)
        BY <2>1, <3>1
      <4> QED BY <2>2, <4>1
    <3>3. Samples(durable) \subseteq cache
      <4> SUFFICES ASSUME NEW j \in DOMAIN durable, durable[j] \notin cache PROVE FALSE
        BY DEF Samples
      <4>1. PICK i \in DOMAIN durable : i > j /\ durable[i] = s
        BY <2>1, <2>4, <3>2 DEF NewerKept
      <4> QED BY <2>1, <4>1 DEF Samples
    <3>4. /\ IsFiniteSet(Samples(durable) \cup {s})
          /\ Cardinality(Samples(durable) \cup {s}) = Len(durable) + 1
      BY <2>1, <2>6, FS_AddElement
    <3>5. IsFiniteSet(cache) /\ Cardinality(cache) <= qos.depth /\ Cardinality(cache) \in Nat
      BY <2>4, <2>5, FS_CardinalityType DEF WithinDepth
    <3>6. Cardinality(Samples(durable) \cup {s}) <= Cardinality(cache)
      <4>1. Samples(durable) \cup {s} \subseteq cache
        BY <2>1, <3>3
      <4> QED BY <3>5, <4>1, FS_Subset
    <3> QED BY <2>2, <2>5, <3>4, <3>5, <3>6
  <2> QED BY <2>5, <2>6, <2>7
<1>2. DurableInv /\ [Next]_vars => DurableInv'
  BY NextDurableInv
<1> QED BY <1>1, <1>2, InitDurableInv, PTL DEF Spec

-----------------------------------------------------------------------------
(* One thread                                                              *)

OneThread == \A t, u \in Thread : t = u

\* Numbers reach the caches in order, so that both lose the same samples.
InOrder ==
  /\ \A t \in Thread : pc[t] = "numbered" => \A s \in accepted : s < sn[t]
  /\ durable \in Seq(Nat) /\ Ascending(durable)
  /\ IF qos.durability = "Volatile" THEN durable = <<>> ELSE Samples(durable) = cache

SerialInv == HistoryInv /\ InOrder

LEMMA InitSerialInv == Init => SerialInv
<1> SUFFICES ASSUME Init PROVE InOrder
  BY InitHistoryInv DEF SerialInv
<1> QED BY DEF Init, InOrder, Ascending, Samples

\* The newest number goes in at the end, whatever goes out at the front.
LEMMA NewestInOrder ==
  ASSUME NEW q, IsWriterQos(q), q.kind = "KeepLast",
         NEW S, S \subseteq Nat, NEW c, IsNewest(c, S, q.depth),
         IsFiniteSet(c), Cardinality(c) <= q.depth,
         NEW k \in Nat, \A s \in S : s < k
  PROVE  /\ IsNewest(AddChange(q, c, k), S \cup {k}, q.depth)
         /\ IsFiniteSet(AddChange(q, c, k))
         /\ Cardinality(AddChange(q, c, k)) <= q.depth
<1>1. /\ q.depth \in Nat \ {0} /\ Cardinality(c) \in Nat
      /\ c \subseteq S /\ c \subseteq Nat /\ k \notin c /\ \A s \in c : s < k
      /\ \A s \in S \ c, t \in c : s < t
      /\ c = S \/ Cardinality(c) = q.depth
  BY FS_CardinalityType DEF IsWriterQos, IsNewest
<1>2. AddChange(q, c, k) = (IF Cardinality(c) < q.depth THEN c ELSE DropOldest(c)) \cup {k}
  BY <1>1, KeepLastInOrder
<1>3. CASE Cardinality(c) < q.depth
  <2>1. c = S /\ AddChange(q, c, k) = c \cup {k}
    BY <1>1, <1>2, <1>3
  <2>2. IsFiniteSet(c \cup {k}) /\ Cardinality(c \cup {k}) = Cardinality(c) + 1
    BY <1>1, FS_AddElement
  <2> QED BY <1>1, <1>3, <2>1, <2>2 DEF IsNewest
<1>4. CASE Cardinality(c) = q.depth
  <2> DEFINE m == Oldest(c)
             d == c \ {m}
  <2>1. c # {}
    BY <1>1, <1>4, FS_EmptySet
  <2>2. m \in c /\ \A t \in c : m <= t
    BY <1>1, <2>1, OldestIsLeast
  <2>3. AddChange(q, c, k) = d \cup {k}
    BY <1>1, <1>2, <1>4 DEF DropOldest
  <2> HIDE DEF m
  <2>4. IsFiniteSet(d) /\ Cardinality(d) = Cardinality(c) - 1 /\ k \notin d
    BY <1>1, <2>2, FS_RemoveElement
  <2>5. IsFiniteSet(d \cup {k}) /\ Cardinality(d \cup {k}) = q.depth
    <3> HIDE DEF d
    <3>1. IsFiniteSet(d \cup {k}) /\ Cardinality(d \cup {k}) = Cardinality(d) + 1
      BY <2>4, FS_AddElement
    <3>2. Cardinality(d) = q.depth - 1 /\ q.depth \in Nat
      BY <1>1, <1>4, <2>4
    <3> QED BY <3>1, <3>2
  <2>6. ASSUME NEW s \in (S \cup {k}) \ (d \cup {k}), NEW t \in d \cup {k}
        PROVE  s < t
    <3>1. s \in S /\ (s = m \/ s \in S \ c)
      OBVIOUS
    <3>2. CASE t = k
      BY <3>1, <3>2
    <3>3. CASE t # k
      <4>1. t \in c /\ t # m /\ m \in Nat /\ t \in Nat
        BY <1>1, <2>2, <3>3
      <4>2. m < t
        BY <2>2, <4>1
      <4>3. CASE s \in S \ c
        BY <1>1, <4>1, <4>3
      <4> QED BY <3>1, <4>2, <4>3
    <3> QED BY <3>2, <3>3
  <2>7. d \cup {k} \subseteq S \cup {k}
    BY <1>1
  <2> HIDE DEF d
  <2>8. IsNewest(d \cup {k}, S \cup {k}, q.depth)
    BY <2>5, <2>6, <2>7 DEF IsNewest
  <2> QED BY <1>1, <2>3, <2>5, <2>8
<1> QED BY <1>1, <1>3, <1>4

LEMMA StoreChangeSerial ==
  ASSUME OneThread, SerialInv, NumberInv', NEW t \in Thread, StoreChange(t)
  PROVE  SerialInv'
<1>1. /\ pc[t] = "numbered" /\ ~Rejects(qos, cache)
      /\ cache' = AddChange(qos, cache, sn[t])
      /\ accepted' = accepted \cup {sn[t]} /\ qos' = qos
      /\ durable' = IF qos.durability = "Volatile" THEN durable
                    ELSE PushDurable(qos, durable, sn[t])
      /\ pc' = [pc EXCEPT ![t] = "idle"]
  BY DEF StoreChange
<1>2. /\ sn[t] \in Nat /\ \A s \in accepted : s < sn[t]
      /\ accepted \subseteq Nat /\ pc \in [Thread -> Pc]
      /\ qos \in WriterQos /\ IsWriterQos(qos) /\ qos.kind \in {"KeepLast", "KeepAll"}
  BY <1>1, DataWriterAssumption
     DEF SerialInv, InOrder, HistoryInv, NumberInv, WriterType, IsWriterQos
<1>3. cache \subseteq accepted
  BY DEF SerialInv, HistoryInv, KeepsNewest, IsNewest
<1>4. KeepsNewest' /\ WithinDepth'
  <2>1. CASE qos.kind = "KeepAll"
    BY <1>1, <2>1, KeepAllKeeps DEF SerialInv, HistoryInv, KeepsNewest, WithinDepth
  <2>2. CASE qos.kind = "KeepLast"
    <3>1. /\ IsNewest(cache, accepted, qos.depth)
          /\ IsFiniteSet(cache) /\ Cardinality(cache) <= qos.depth
      BY <2>2 DEF SerialInv, HistoryInv, KeepsNewest, WithinDepth
    <3>2. /\ IsNewest(cache', accepted', qos.depth)
          /\ IsFiniteSet(cache') /\ Cardinality(cache') <= qos.depth
      BY <1>1, <1>2, <2>2, <3>1, NewestInOrder
    <3> QED BY <1>1, <2>2, <3>2 DEF KeepsNewest, WithinDepth
  <2> QED BY <1>2, <2>1, <2>2
<1>5. /\ durable' \in Seq(Nat) /\ Ascending(durable')
      /\ IF qos.durability = "Volatile" THEN durable' = <<>> ELSE Samples(durable') = cache'
  <2>1. CASE qos.durability = "Volatile"
    BY <1>1, <2>1 DEF SerialInv, InOrder
  <2>2. CASE qos.durability # "Volatile"
    <3>1. durable \in Seq(Nat) /\ Ascending(durable) /\ Samples(durable) = cache
      BY <2>2 DEF SerialInv, InOrder
    <3>2. qos.kind = "KeepLast" => Len(durable) <= qos.depth
      BY <3>1, AscendingCount DEF SerialInv, HistoryInv, WithinDepth
    <3>3. \A s \in Samples(durable) : s < sn[t]
      BY <1>2, <1>3, <3>1
    <3>4. ~Rejects(qos, Samples(durable))
      BY <1>1, <3>1
    <3>5. /\ PushDurable(qos, durable, sn[t]) \in Seq(Nat)
          /\ Ascending(PushDurable(qos, durable, sn[t]))
          /\ Samples(PushDurable(qos, durable, sn[t])) = AddChange(qos, Samples(durable), sn[t])
      BY <1>2, <3>1, <3>2, <3>3, <3>4, DurableInOrder
    <3> QED BY <1>1, <2>2, <3>1, <3>5
  <2> QED BY <2>1, <2>2
<1>6. \A u \in Thread : pc'[u] # "numbered"
  BY <1>1, <1>2 DEF OneThread
<1>7. InOrder'
  BY <1>1, <1>5, <1>6 DEF InOrder, Ascending, Samples
<1> QED BY <1>4, <1>7 DEF SerialInv, HistoryInv

LEMMA NextSerialInv == OneThread /\ SerialInv /\ [Next]_vars => SerialInv'
<1> SUFFICES ASSUME OneThread, SerialInv, [Next]_vars PROVE SerialInv'
  OBVIOUS
<1>1. NumberInv /\ NumberInv'
  BY NextNumberInv DEF SerialInv, HistoryInv
<1>2. ASSUME UNCHANGED <<qos, cache, accepted, durable>>,
             \A t \in Thread : pc'[t] = "numbered" => \A s \in accepted : s < sn'[t]
      PROVE  SerialInv'
  BY <1>1, <1>2 DEF SerialInv, HistoryInv, KeepsNewest, WithinDepth, InOrder, Ascending, Samples
<1>3. ASSUME NEW t \in Thread, StoreChange(t) PROVE SerialInv'
  BY <1>1, <1>3, StoreChangeSerial
<1>4. ASSUME NEW t \in Thread, AllocateSn(t) PROVE SerialInv'
  <2>1. sn'[t] = nextSn /\ \A s \in accepted : s < nextSn
    BY <1>1, <1>4 DEF AllocateSn, NumberInv, WriterType, BelowNext
  <2>2. \A u \in Thread : u = t
    BY DEF OneThread
  <2> QED BY <1>2, <1>4, <2>1, <2>2 DEF AllocateSn
<1>5. ASSUME NEW t \in Thread, RefuseChange(t) PROVE SerialInv'
  <2>1. \A u \in Thread : u = t /\ pc'[u] = "idle"
    BY <1>1, <1>5 DEF OneThread, RefuseChange, NumberInv, WriterType
  <2> QED BY <1>2, <1>5, <2>1 DEF RefuseChange
<1>6. ASSUME NEW t \in Thread, NEW i \in Instance, CheckInstance(t, i) PROVE SerialInv'
  <2>1. \A u \in Thread : u = t /\ pc'[u] = "checked"
    BY <1>1, <1>6 DEF OneThread, CheckInstance, NumberInv, WriterType
  <2> QED BY <1>2, <1>6, <2>1 DEF CheckInstance
<1>7. CASE UNCHANGED <<qos, cache, accepted, durable, pc, sn>>
  BY <1>2, <1>7 DEF SerialInv, InOrder
<1>8. ASSUME NEW i \in Instance \ {NoKey},
             RegisterInstance(i) \/ Dispose(i) \/ UnregisterInstance(i)
      PROVE  SerialInv'
  BY <1>7, <1>8 DEF RegisterInstance, Dispose, UnregisterInstance, SetInstance
<1>9. CASE Enable \/ UNCHANGED vars
  BY <1>7, <1>9 DEF Enable, vars
<1> QED BY <1>3, <1>4, <1>5, <1>6, <1>8, <1>9 DEF Next

(***************************************************************************)
(* A writer that only one thread writes to keeps the newest samples under  *)
(* every QoS that create_datawriter accepts, a limit equal to the depth    *)
(* included.                                                               *)
(***************************************************************************)
THEOREM OneThreadKeepsNewest ==
  ASSUME OneThread
  PROVE  Spec => []KeepsNewest
<1>1. SerialInv => KeepsNewest
  BY DEF SerialInv, HistoryInv
<1>2. SerialInv /\ [Next]_vars => SerialInv'
  BY NextSerialInv
<1> QED BY <1>1, <1>2, InitSerialInv, PTL DEF Spec

(***************************************************************************)
(* The durability cache of such a writer holds what its history cache      *)
(* holds, KeepLast included, so that its late joiners miss nothing.        *)
(***************************************************************************)
THEOREM OneThreadServesLateJoiners ==
  ASSUME OneThread
  PROVE  Spec => []LateJoinerServed
<1>1. SerialInv /\ TypeInv => LateJoinerServed
  <2> SUFFICES ASSUME SerialInv, TypeInv, NEW n \in 1..MaxSn + 1, IsJoinPoint(durable, n),
                      NEW s \in cache, s < n, s \notin Samples(durable)
               PROVE  FALSE
    BY DEF LateJoinerServed, Missed
  <2>1. durable = <<>> /\ s \in 1..MaxSn
    BY DEF SerialInv, InOrder, TypeInv, TypeOK
  <2>2. n = 1
    BY <2>1 DEF IsJoinPoint, Samples
  <2> QED BY <2>1, <2>2, DataWriterAssumption
<1>2. SerialInv /\ [Next]_vars => SerialInv'
  BY NextSerialInv
<1> QED BY <1>1, <1>2, InitSerialInv, InitTypeInv, NextTypeInv, PTL DEF Spec
=============================================================================
