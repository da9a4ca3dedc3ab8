------------------------- MODULE DataReader_proofs -------------------------
(***************************************************************************)
(* The cache of DataReader, for any number of receive threads and          *)
(* application threads and any QoS: the filter separates what it lets      *)
(* through, the cache keeps within its limits, a callback sees every       *)
(* sample, no push is taken twice, and a lossless reader loses none.       *)
(***************************************************************************)
EXTENDS DataReader, FiniteSetTheorems, SequenceTheorems, TLAPS

-----------------------------------------------------------------------------
(* The filter                                                              *)

\* What a receive thread carries, with its times on the clock.
Pc == {"idle", "recorded", "clocked", "filtered", "stored"}
Carried == [Receiver -> [pc : Pc, s : [id : Nat, sn : Sn \cup {0}, at : Nat]]]

\* What the filter remembers is the last time it let a sample through.
FilterInv ==
  /\ qos \in ReaderQos
  /\ now \in Nat /\ pushes \in Nat
  /\ rx \in Carried
  /\ passed \in Seq(Nat)
  /\ lastRx = IF passed = <<>> THEN -1 ELSE passed[Len(passed)]
  /\ FilterSeparates

\* A time that is not too soon is minSep after the last one.
LEMMA NotTooSoon ==
  ASSUME NEW at \in Nat, qos \in ReaderQos, qos.minSep # 0, lastRx \in Nat, ~TooSoon(at)
  PROVE  at - lastRx >= qos.minSep
<1>1. qos.minSep \in Nat
  BY DataReaderAssumption
<1>2. Since(at, lastRx) >= qos.minSep
  BY <1>1 DEF TooSoon, Since
<1> QED BY <1>1, <1>2 DEF Since

\* An index is the last one or comes before it.
LEMMA LastOrBefore == \A n \in Nat : \A i \in 1..n : i = n \/ i < n
OBVIOUS

LEMMA InitFilterInv == Init => FilterInv
BY DEF Init, FilterInv, FilterSeparates, NoSample, Carried, Pc

\* Only ApplyFilter touches what the filter remembers.
LEMMA FilterKept ==
  ASSUME FilterInv, UNCHANGED <<qos, passed, lastRx>>,
         now' \in Nat, pushes' \in Nat, rx' \in Carried
  PROVE  FilterInv'
BY DEF FilterInv, FilterSeparates

LEMMA AbandonKeepsType ==
  ASSUME NEW p \in Receiver, rx \in Carried, Abandon(p)
  PROVE  rx' \in Carried
BY DEF Carried, Abandon, NoSample, Pc

LEMMA GotoKeepsType ==
  ASSUME NEW p \in Receiver, NEW pc \in Pc, rx \in Carried, Goto(p, pc)
  PROVE  rx' \in Carried
BY DEF Carried, Goto

LEMMA ApplyFilterInv ==
  ASSUME FilterInv, NEW p \in Receiver, ApplyFilter(p)
  PROVE  FilterInv'
<1> DEFINE at == rx[p].s.at
<1>1. /\ at \in Nat /\ now' = now /\ pushes' = pushes
      /\ qos' = qos /\ qos.minSep \in Nat
  BY DataReaderAssumption DEF FilterInv, Carried, ApplyFilter
<1>2. CASE TooSoon(at)
  BY <1>1, <1>2, FilterKept, AbandonKeepsType DEF ApplyFilter, FilterInv
<1>3. CASE ~TooSoon(at)
  <2>1. rx' \in Carried
    BY <1>3, GotoKeepsType DEF ApplyFilter, FilterInv, Pc
  <2>2. lastRx' = at /\ passed' = Append(passed, at)
    BY <1>3 DEF ApplyFilter
  <2>3. /\ passed \in Seq(Nat) /\ passed' \in Seq(Nat)
        /\ Len(passed') = Len(passed) + 1
        /\ \A i \in 1..Len(passed) : passed'[i] = passed[i]
        /\ passed'[Len(passed) + 1] = at
    BY <1>1, <2>2 DEF FilterInv
  <2>4. Len(passed) \in Nat /\ DOMAIN passed = 1..Len(passed)
    BY <2>3
  <2>5. DOMAIN passed' = 1..Len(passed) + 1
    BY <2>3
  <2>6. lastRx' = IF passed' = <<>> THEN -1 ELSE passed'[Len(passed')]
    BY <2>2, <2>3
  <2>7. ASSUME qos.minSep # 0, NEW i \in 1..Len(passed)
        PROVE  at - passed[i] >= qos.minSep
    <3>1. lastRx = passed[Len(passed)] /\ lastRx \in Nat
      BY <2>3, <2>7 DEF FilterInv
    <3>2. at - lastRx >= qos.minSep
      BY <1>1, <1>3, <2>7, <3>1, NotTooSoon DEF FilterInv
    <3>3. i = Len(passed) \/ lastRx - passed[i] >= qos.minSep
      <4>1. i < Len(passed) => passed[Len(passed)] - passed[i] >= qos.minSep
        BY <2>7, <2>4 DEF FilterInv, FilterSeparates
      <4>2. i \in 1..Len(passed)
        BY <2>7
      <4>3. i = Len(passed) \/ i < Len(passed)
        BY <4>2, <2>4, LastOrBefore
      <4> QED BY <3>1, <4>1, <4>3
    <3>4. passed[i] \in Nat
      BY <2>3
    <3> QED BY <1>1, <3>1, <3>2, <3>3, <3>4
  <2>8. FilterSeparates'
    <3> SUFFICES ASSUME qos.minSep # 0, NEW i \in 1..Len(passed) + 1,
                        NEW j \in 1..Len(passed) + 1, i < j
                 PROVE  passed'[j] - passed'[i] >= qos.minSep
      BY <1>1, <2>5 DEF FilterSeparates
    <3>1. CASE j = Len(passed) + 1
      <4>1. i \in 1..Len(passed)
        BY <2>4, <3>1
      <4> QED BY <2>3, <2>7, <3>1, <4>1
    <3>2. CASE j # Len(passed) + 1
      <4>1. i \in 1..Len(passed) /\ j \in 1..Len(passed)
        BY <2>4, <3>2
      <4>2. passed[j] - passed[i] >= qos.minSep
        BY <2>4, <4>1 DEF FilterInv, FilterSeparates
      <4> QED BY <2>3, <4>1, <4>2
    <3> QED BY <3>1, <3>2
  <2> QED BY <1>1, <2>1, <2>3, <2>6, <2>8 DEF FilterInv
<1> QED BY <1>2, <1>3

LEMMA NextFilterInv == FilterInv /\ [Next]_vars => FilterInv'
<1> SUFFICES ASSUME FilterInv, [Next]_vars PROVE FilterInv'
  OBVIOUS
<1>1. ASSUME NEW p \in Receiver, NEW sn \in Sn, RecordSn(p, sn) PROVE FilterInv'
  <2>1. rx' \in Carried
    BY <1>1 DEF RecordSn, FilterInv, Carried, Pc
  <2> QED BY <1>1, <2>1, FilterKept DEF RecordSn, FilterInv
<1>2. ASSUME NEW p \in Receiver, ReadClock(p) PROVE FilterInv'
  <2>1. CASE enabled
    <3>1. rx' = [rx EXCEPT ![p].pc = "clocked", ![p].s.at = now]
      BY <1>2, <2>1 DEF ReadClock
    <3>2. rx[p] \in [pc : Pc, s : [id : Nat, sn : Sn \cup {0}, at : Nat]] /\ now \in Nat
      BY DEF FilterInv, Carried
    <3>3. rx'[p] = [pc |-> "clocked", s |-> [id |-> rx[p].s.id, sn |-> rx[p].s.sn, at |-> now]]
      BY <3>1, <3>2 DEF FilterInv, Carried
    <3>4. rx' \in Carried
      BY <3>1, <3>2, <3>3 DEF FilterInv, Carried, Pc
    <3> QED BY <1>2, <3>4, FilterKept DEF ReadClock, FilterInv
  <2>2. CASE ~enabled
    BY <1>2, <2>2, AbandonKeepsType, FilterKept DEF ReadClock, FilterInv
  <2> QED BY <2>1, <2>2
<1>3. ASSUME NEW p \in Receiver, ApplyFilter(p) PROVE FilterInv'
  BY <1>3, ApplyFilterInv
<1>4. ASSUME NEW p \in Receiver, StoreSample(p) PROVE FilterInv'
  <2>1. Abandon(p) \/ Goto(p, "stored")
    BY <1>4 DEF StoreSample
  <2>2. rx' \in Carried
    BY <2>1, AbandonKeepsType, GotoKeepsType DEF FilterInv, Pc
  <2> QED BY <1>4, <2>2, FilterKept DEF StoreSample, FilterInv
<1>5. ASSUME NEW p \in Receiver, NotifyListener(p) PROVE FilterInv'
  BY <1>5, AbandonKeepsType, FilterKept DEF NotifyListener, FilterInv
<1>6. ASSUME NEW t \in Taker, Take(t) PROVE FilterInv'
  BY <1>6, FilterKept DEF Take, Call, ExpireSamples, ReadFirst, TakeFirst, FilterInv
<1>7. CASE Enable \/ Advance
  BY <1>7, FilterKept DEF Enable, Advance, FilterInv
<1>8. CASE UNCHANGED vars
  BY <1>8, FilterKept DEF vars, FilterInv
<1> QED BY <1>1, <1>2, <1>3, <1>4, <1>5, <1>6, <1>7, <1>8 DEF Next, Push

(***************************************************************************)
(* Whatever order the receive threads reach last_received_time in, samples *)
(* that pass the filter are minimum_separation apart.                      *)
(***************************************************************************)
THEOREM FilterIsSound == Spec => []FilterSeparates
<1>1. FilterInv => FilterSeparates
  BY DEF FilterInv
<1> QED BY <1>1, InitFilterInv, NextFilterInv, PTL DEF Spec
-----------------------------------------------------------------------------
(* What insertion, expiry and take leave of the cache                      *)

\* r is made of elements of s, each of them once.
Draws(r, s) ==
  \E f \in [DOMAIN r -> DOMAIN s] :
    /\ \A i, j \in DOMAIN r : f[i] = f[j] => i = j
    /\ \A i \in DOMAIN r : r[i] = s[f[i]]

LEMMA DrawsAll == ASSUME NEW s PROVE Draws(s, s)
<1> DEFINE f == [i \in DOMAIN s |-> i]
<1>1. f \in [DOMAIN s -> DOMAIN s]
  OBVIOUS
<1> QED BY <1>1 DEF Draws

LEMMA TailDraws ==
  ASSUME NEW S, NEW s \in Seq(S), s # <<>>
  PROVE  /\ Tail(s) \in Seq(S) /\ Len(Tail(s)) = Len(s) - 1
         /\ Draws(Tail(s), s)
         /\ \A i \in DOMAIN s : i = 1 \/ (i - 1 \in DOMAIN Tail(s) /\ Tail(s)[i - 1] = s[i])
<1>1. /\ Tail(s) \in Seq(S) /\ Len(Tail(s)) = Len(s) - 1
      /\ \A i \in 1..Len(Tail(s)) : Tail(s)[i] = s[i + 1]
  BY HeadTailProperties
<1>2. DOMAIN s = 1..Len(s) /\ DOMAIN Tail(s) = 1..Len(s) - 1 /\ Len(s) \in Nat
  BY <1>1
<1> DEFINE f == [i \in DOMAIN Tail(s) |-> i + 1]
<1>3. f \in [DOMAIN Tail(s) -> DOMAIN s]
  BY <1>2
<1>4. /\ \A i, j \in DOMAIN Tail(s) : f[i] = f[j] => i = j
      /\ \A i \in DOMAIN Tail(s) : Tail(s)[i] = s[f[i]]
  BY <1>1, <1>2
<1>5. Draws(Tail(s), s)
  BY <1>3, <1>4 DEF Draws
<1>6. \A i \in DOMAIN s : i = 1 \/ (i - 1 \in DOMAIN Tail(s) /\ Tail(s)[i - 1] = s[i])
  BY <1>1, <1>2
<1> QED BY <1>1, <1>5, <1>6

\* The front of a sequence may go before or after another is appended.
LEMMA AppendAfterTail ==
  ASSUME NEW S, NEW s \in Seq(S), NEW x \in S, s # <<>>
  PROVE  Append(Tail(s), x) = Tail(Append(s, x))
BY HeadTailAppend

(***************************************************************************)
(* Insert keeps the cache within its limits, draws on the cache with the   *)
(* new sample, and removes nothing for KeepAll.                            *)
(***************************************************************************)
LEMMA InsertFits ==
  ASSUME qos \in ReaderQos, NEW S, NEW s \in Seq(S), NEW x \in S,
         Len(s) <= qos.maxSamples, qos.kind = "KeepLast" => Len(s) <= qos.depth,
         ~(qos.kind = "KeepAll" /\ Full(s))
  PROVE  /\ Insert(s, x) \in Seq(S)
         /\ Len(Insert(s, x)) <= qos.maxSamples
         /\ qos.kind = "KeepLast" => Len(Insert(s, x)) <= qos.depth
         /\ Draws(Insert(s, x), Append(s, x))
         /\ qos.kind = "KeepAll" => Insert(s, x) = Append(s, x)
<1>1. /\ qos.kind \in {"KeepLast", "KeepAll"}
      /\ qos.depth \in Nat /\ qos.depth > 0 /\ qos.maxSamples \in Nat
      /\ qos.kind = "KeepLast" => qos.maxSamples >= qos.depth
  BY DataReaderAssumption
<1>2. /\ Append(s, x) \in Seq(S) /\ Append(s, x) # <<>>
      /\ Len(Append(s, x)) = Len(s) + 1 /\ Len(s) \in Nat
  BY AppendProperties
<1>3. CASE ~Full(s) /\ ~(qos.kind = "KeepLast" /\ Len(s) + 1 > qos.depth)
  <2>1. Insert(s, x) = Append(s, x)
    BY <1>2, <1>3 DEF Insert
  <2> QED BY <1>1, <1>2, <1>3, <2>1, DrawsAll DEF Full
<1>4. CASE Full(s) \/ (qos.kind = "KeepLast" /\ Len(s) + 1 > qos.depth)
  <2>1. qos.kind = "KeepLast" /\ Len(s) = qos.depth
    BY <1>1, <1>2, <1>4 DEF Full
  <2>2. s # <<>>
    BY <1>1, <2>1, EmptySeq
  <2>3. Insert(s, x) = Tail(Append(s, x))
    <3>1. CASE Full(s)
      <4>1. Append(Tail(s), x) = Tail(Append(s, x)) /\ Len(Append(Tail(s), x)) = Len(s)
        BY <2>2, <1>2, AppendAfterTail, HeadTailProperties
      <4> QED BY <1>1, <2>1, <3>1, <4>1 DEF Insert
    <3>2. CASE ~Full(s)
      BY <1>1, <1>2, <2>1, <3>2 DEF Insert
    <3> QED BY <3>1, <3>2
  <2>4. /\ Tail(Append(s, x)) \in Seq(S) /\ Len(Tail(Append(s, x))) = Len(s)
        /\ Draws(Tail(Append(s, x)), Append(s, x))
    <3> DEFINE g == Append(s, x)
    <3>1. g \in Seq(S) /\ g # <<>> /\ Len(g) = Len(s) + 1
      BY <1>2
    <3> HIDE DEF g
    <3>2. Tail(g) \in Seq(S) /\ Len(Tail(g)) = Len(g) - 1 /\ Draws(Tail(g), g)
      BY <3>1, TailDraws
    <3>3. Len(Tail(g)) = Len(s)
      BY <1>2, <3>1, <3>2
    <3> QED BY <3>2, <3>3 DEF g
  <2> QED BY <1>1, <2>1, <2>3, <2>4
<1> QED BY <1>3, <1>4

(***************************************************************************)
(* Expiry draws on the cache, and leaves it as it was when every sample is *)
(* fresh.                                                                  *)
(***************************************************************************)
LEMMA ExpiryDraws ==
  ASSUME NEW S, NEW s \in Seq(S), NEW K \in SUBSET DOMAIN s, NEW f \in InOrder(K),
         NEW r, r = [i \in DOMAIN f |-> s[f[i]]]
  PROVE  /\ r \in Seq(S) /\ Len(r) <= Len(s)
         /\ Draws(r, s)
         /\ \A k \in K : \E i \in DOMAIN r : r[i] = s[k]
<1>1. DOMAIN s = 1..Len(s) /\ Len(s) \in Nat
  OBVIOUS
<1>2. IsFiniteSet(1..Len(s)) /\ Cardinality(1..Len(s)) = Len(s)
  BY <1>1, FS_Interval
<1>3. IsFiniteSet(K) /\ Cardinality(K) \in Nat /\ Cardinality(K) <= Len(s)
  BY <1>1, <1>2, FS_Subset, FS_CardinalityType
<1> DEFINE n == Cardinality(K)
<1>4. /\ f \in [1..n -> K]
      /\ \A i, j \in 1..n : i < j => f[i] < f[j]
      /\ \A k \in K : \E i \in 1..n : f[i] = k
  BY DEF InOrder
<1>5. r = [i \in 1..n |-> s[f[i]]]
  BY <1>4
<1>6. \A i \in 1..n : f[i] \in DOMAIN s /\ f[i] \in Int /\ s[f[i]] \in S
  BY <1>1, <1>4
<1>7. r \in Seq(S) /\ Len(r) = n /\ DOMAIN r = 1..n
  <2> HIDE DEF n
  <2>1. n \in Nat
    BY <1>3 DEF n
  <2>2. r \in [1..n -> S]
    BY <1>5, <1>6
  <2> QED BY <2>1, <2>2, SeqDef
<1>8. \A i, j \in 1..n : f[i] = f[j] => i = j
  <2> HIDE DEF n
  <2>1. \A i, j \in 1..n : i < j \/ j < i \/ i = j
    OBVIOUS
  <2> QED BY <1>4, <1>6, <2>1
<1>9. Draws(r, s)
  <2>1. f \in [DOMAIN r -> DOMAIN s]
    BY <1>4, <1>7
  <2> QED BY <1>5, <1>7, <1>8, <2>1 DEF Draws
<1> QED BY <1>3, <1>4, <1>5, <1>7, <1>9
-----------------------------------------------------------------------------
(* Types                                                                   *)

RxType == [Receiver -> [pc : Pc, s : Sample \cup {NoSample}]]

\* What is pushed is a sample from the first section to the last.
CarriesSample == \A p \in Receiver : rx[p].pc # "idle" => rx[p].s \in Sample

ReaderType == TypeOK /\ CarriesSample

LEMMA BoundsAreNat == MaxPushes \in Nat /\ MaxTime \in Nat
BY DataReaderAssumption

LEMMA InitReaderType == Init => ReaderType
<1> SUFFICES ASSUME Init PROVE ReaderType
  OBVIOUS
<1>1. /\ qos.kind \in {"KeepLast", "KeepAll"} /\ qos.depth \in Nat
      /\ qos.maxSamples \in Nat /\ qos.autoenable \in BOOLEAN
  BY DataReaderAssumption DEF Init
<1>2. Len(<<>>) = 0 /\ <<>> \in Seq(Sample) /\ <<>> \in Seq(0..MaxTime)
  BY EmptySeq
<1> QED BY <1>1, <1>2, BoundsAreNat DEF Init, ReaderType, TypeOK, CarriesSample

\* A receive thread gives up, or goes on with what it carries.
LEMMA ThreadMoves ==
  ASSUME ReaderType, NEW p \in Receiver, NEW pc \in Pc \ {"idle"}, rx[p].pc # "idle",
         Abandon(p) \/ Goto(p, pc)
  PROVE  /\ rx' \in RxType
         /\ \A q \in Receiver : rx'[q].pc # "idle" => rx'[q].s = rx[q].s /\ rx[q].pc # "idle"
<1>1. rx \in RxType
  BY DEF ReaderType, TypeOK, RxType, Pc
<1>2. CASE Abandon(p)
  BY <1>1, <1>2 DEF Abandon, RxType, Pc
<1>3. CASE Goto(p, pc)
  BY <1>1, <1>3 DEF Goto, RxType
<1> QED BY <1>2, <1>3

\* Steps that leave the cache as it is.
LEMMA CacheUntouched ==
  ASSUME ReaderType, UNCHANGED <<qos, samples>>,
         now' \in 0..MaxTime, enabled' \in BOOLEAN, received' \subseteq Sn,
         lastRx' \in -1..MaxTime, notified' \subseteq 1..MaxPushes,
         passed' \in Seq(0..MaxTime), taken' \subseteq (1..MaxPushes) \X Sn,
         pushes' \in 0..MaxPushes, rx' \in RxType, CarriesSample',
         tk' \in [Taker -> [pc : {"idle", "expiring", "looking"}, at : 0..MaxTime]]
  PROVE  ReaderType'
BY DEF ReaderType, TypeOK, RxType, Pc

\* Steps that change the cache by way of a thread.
LEMMA CacheTyped ==
  ASSUME ReaderType, UNCHANGED <<qos, now, enabled, received, lastRx, notified, passed, pushes>>,
         samples' \in Seq(Sample), Len(samples') <= qos.maxSamples,
         qos.kind = "KeepLast" => Len(samples') <= qos.depth,
         taken' \subseteq (1..MaxPushes) \X Sn, rx' \in RxType, CarriesSample',
         tk' \in [Taker -> [pc : {"idle", "expiring", "looking"}, at : 0..MaxTime]]
  PROVE  ReaderType'
BY DEF ReaderType, TypeOK, RxType, Pc

LEMMA StoreSampleType ==
  ASSUME ReaderType, NEW p \in Receiver, StoreSample(p)
  PROVE  ReaderType'
<1>1. rx' \in RxType /\ CarriesSample'
  <2>1. Abandon(p) \/ Goto(p, "stored")
    BY DEF StoreSample
  <2>2. "stored" \in Pc \ {"idle"} /\ rx[p].pc # "idle"
    BY DEF StoreSample, Pc
  <2> QED BY <2>1, <2>2, ThreadMoves DEF ReaderType, CarriesSample
<1>2. CASE qos.kind = "KeepAll" /\ Full(samples)
  BY <1>1, <1>2, CacheUntouched DEF StoreSample, ReaderType, TypeOK
<1>3. CASE ~(qos.kind = "KeepAll" /\ Full(samples))
  <2>1. samples' = Insert(samples, rx[p].s) /\ rx[p].s \in Sample
    BY <1>3 DEF StoreSample, ReaderType, CarriesSample
  <2>2. /\ samples' \in Seq(Sample) /\ Len(samples') <= qos.maxSamples
        /\ qos.kind = "KeepLast" => Len(samples') <= qos.depth
    BY <1>3, <2>1, InsertFits DEF ReaderType, TypeOK
  <2> QED BY <1>1, <2>2, CacheTyped DEF StoreSample, ReaderType, TypeOK
<1> QED BY <1>2, <1>3

LEMMA ExpireSamplesType ==
  ASSUME ReaderType, NEW t \in Taker, ExpireSamples(t)
  PROVE  ReaderType'
<1> DEFINE kept == {i \in DOMAIN samples : Fresh(samples[i], tk[t].at)}
<1>1. PICK f \in InOrder(kept) : samples' = [i \in DOMAIN f |-> samples[f[i]]]
  BY DEF ExpireSamples
<1>2. samples' \in Seq(Sample) /\ Len(samples') <= Len(samples) /\ samples \in Seq(Sample)
  <2>1. kept \in SUBSET DOMAIN samples /\ samples \in Seq(Sample)
    BY DEF ReaderType, TypeOK
  <2> HIDE DEF kept
  <2> QED BY <1>1, <2>1, ExpiryDraws
<1>3. Len(samples) \in Nat /\ Len(samples') \in Nat
  BY <1>2, LenProperties
<1>4. /\ Len(samples) <= qos.maxSamples /\ qos.maxSamples \in Nat /\ qos.depth \in Nat
      /\ qos.kind = "KeepLast" => Len(samples) <= qos.depth
  BY DataReaderAssumption DEF ReaderType, TypeOK
<1>5. tk' \in [Taker -> [pc : {"idle", "expiring", "looking"}, at : 0..MaxTime]]
  BY BoundsAreNat DEF ExpireSamples, ReaderType, TypeOK
<1> QED BY <1>2, <1>3, <1>4, <1>5, CacheTyped
        DEF ExpireSamples, ReaderType, TypeOK, CarriesSample, RxType, Pc

LEMMA TakeFirstType ==
  ASSUME ReaderType, NEW t \in Taker, TakeFirst(t)
  PROVE  ReaderType'
<1>1. samples \in Seq(Sample) /\ samples # <<>> /\ samples' = Tail(samples)
  BY DEF TakeFirst, ReaderType, TypeOK
<1>2. samples' \in Seq(Sample) /\ Len(samples') = Len(samples) - 1 /\ Head(samples) \in Sample
  BY <1>1, HeadTailProperties
<1>3. /\ Len(samples) \in Nat /\ qos.maxSamples \in Nat /\ qos.depth \in Nat
      /\ Len(samples) <= qos.maxSamples
      /\ qos.kind = "KeepLast" => Len(samples) <= qos.depth
  BY <1>1, LenProperties, DataReaderAssumption DEF ReaderType, TypeOK
<1>4. taken' \subseteq (1..MaxPushes) \X Sn
  BY <1>2 DEF TakeFirst, ReaderType, TypeOK, Sample
<1>5. tk' \in [Taker -> [pc : {"idle", "expiring", "looking"}, at : 0..MaxTime]]
  BY DEF TakeFirst, Answer, ReaderType, TypeOK
<1> QED BY <1>2, <1>3, <1>4, <1>5, CacheTyped
        DEF TakeFirst, ReaderType, TypeOK, CarriesSample, RxType, Pc

\* The sections of push_sample_sn before the cache, and the callback after it.
LEMMA PushType ==
  ASSUME ReaderType, NEW p \in Receiver,
         \/ \E sn \in Sn : RecordSn(p, sn)
         \/ ReadClock(p) \/ ApplyFilter(p) \/ NotifyListener(p)
  PROVE  ReaderType'
<1>1. ASSUME NEW sn \in Sn, RecordSn(p, sn) PROVE ReaderType'
  <2>1. pushes + 1 \in 1..MaxPushes /\ pushes' = pushes + 1
    BY <1>1, BoundsAreNat DEF RecordSn, ReaderType, TypeOK
  <2> DEFINE x == [id |-> pushes + 1, sn |-> sn, at |-> 0]
  <2>2. x \in Sample
    BY <2>1, BoundsAreNat DEF Sample
  <2>3. rx' = [rx EXCEPT ![p] = [pc |-> "recorded", s |-> x]]
    BY <1>1 DEF RecordSn
  <2>4. rx' \in RxType /\ CarriesSample'
    <3> HIDE DEF x
    <3> QED BY <2>2, <2>3 DEF ReaderType, TypeOK, RxType, CarriesSample, Pc
  <2> QED BY <1>1, <2>1, <2>4, CacheUntouched DEF RecordSn, ReaderType, TypeOK
<1>2. CASE ReadClock(p)
  <2>1. CASE enabled
    <3>1. rx[p].s \in Sample /\ now \in 0..MaxTime
      BY <1>2 DEF ReadClock, ReaderType, TypeOK, CarriesSample
    <3> DEFINE x == [id |-> rx[p].s.id, sn |-> rx[p].s.sn, at |-> now]
    <3>2. x \in Sample
      BY <3>1 DEF Sample
    <3>3. rx' = [rx EXCEPT ![p].pc = "clocked", ![p].s.at = now]
      BY <1>2, <2>1 DEF ReadClock
    <3>4. rx' = [rx EXCEPT ![p] = [pc |-> "clocked", s |-> x]]
      <4>1. /\ rx \in [Receiver -> [pc : Pc, s : Sample \cup {NoSample}]]
            /\ rx[p] \in [pc : Pc, s : Sample]
        BY <3>1 DEF ReaderType, TypeOK, Pc
      <4>2. rx'[p] = [pc |-> "clocked", s |-> x]
        BY <3>3, <4>1 DEF Sample
      <4> QED BY <3>3, <4>1, <4>2
    <3>5. rx' \in RxType /\ CarriesSample'
      <4> HIDE DEF x
      <4> QED BY <3>2, <3>4 DEF ReaderType, TypeOK, RxType, CarriesSample, Pc
    <3> QED BY <1>2, <3>5, CacheUntouched DEF ReadClock, ReaderType, TypeOK
  <2>2. CASE ~enabled
    <3>1. "stored" \in Pc \ {"idle"} /\ Abandon(p) /\ rx[p].pc # "idle"
      BY <1>2, <2>2 DEF ReadClock, Pc
    <3>2. rx' \in RxType /\ CarriesSample'
      BY <3>1, ThreadMoves DEF ReaderType, CarriesSample
    <3> QED BY <1>2, <3>2, CacheUntouched DEF ReadClock, ReaderType, TypeOK
  <2> QED BY <2>1, <2>2
<1>3. CASE ApplyFilter(p)
  <2>1. "filtered" \in Pc \ {"idle"} /\ (Abandon(p) \/ Goto(p, "filtered")) /\ rx[p].pc # "idle"
    BY <1>3 DEF ApplyFilter, Pc
  <2>2. rx' \in RxType /\ CarriesSample'
    BY <2>1, ThreadMoves DEF ReaderType, CarriesSample
  <2>3. rx[p].s.at \in 0..MaxTime
    BY <2>1 DEF ReaderType, CarriesSample, Sample
  <2>4. lastRx' \in -1..MaxTime /\ passed' \in Seq(0..MaxTime)
    <3>1. /\ lastRx \in -1..MaxTime /\ passed \in Seq(0..MaxTime)
          /\ rx[p].s.at \in -1..MaxTime
      BY <2>3, BoundsAreNat DEF ReaderType, TypeOK
    <3>2. Append(passed, rx[p].s.at) \in Seq(0..MaxTime)
      BY <2>3, <3>1, AppendProperties
    <3> QED BY <1>3, <3>1, <3>2 DEF ApplyFilter
  <2> QED BY <1>3, <2>2, <2>4, CacheUntouched DEF ApplyFilter, ReaderType, TypeOK
<1>4. CASE NotifyListener(p)
  <2>1. "stored" \in Pc \ {"idle"} /\ Abandon(p) /\ rx[p].pc # "idle"
    BY <1>4 DEF NotifyListener, Pc
  <2>2. rx' \in RxType /\ CarriesSample'
    BY <2>1, ThreadMoves DEF ReaderType, CarriesSample
  <2>3. Ids(samples) \subseteq 1..MaxPushes
    <3>1. \A i \in DOMAIN samples : samples[i] \in Sample
      BY LenProperties DEF ReaderType, TypeOK
    <3> QED BY <3>1 DEF Ids, Sample
  <2> QED BY <1>4, <2>2, <2>3, CacheUntouched DEF NotifyListener, ReaderType, TypeOK
<1> QED BY <1>1, <1>2, <1>3, <1>4

LEMMA NextReaderType == ReaderType /\ [Next]_vars => ReaderType'
<1> SUFFICES ASSUME ReaderType, [Next]_vars PROVE ReaderType'
  OBVIOUS
<1>1. ASSUME NEW p \in Receiver, Push(p) PROVE ReaderType'
  BY <1>1, PushType, StoreSampleType DEF Push
<1>2. ASSUME NEW t \in Taker, Take(t) PROVE ReaderType'
  <2>1. CASE Call(t) \/ ReadFirst(t)
    <3>1. tk' \in [Taker -> [pc : {"idle", "expiring", "looking"}, at : 0..MaxTime]]
      <4>1. /\ tk \in [Taker -> [pc : {"idle", "expiring", "looking"}, at : 0..MaxTime]]
            /\ now \in 0..MaxTime
        BY DEF ReaderType, TypeOK
      <4>2. CASE Call(t)
        BY <4>1, <4>2 DEF Call
      <4>3. CASE ReadFirst(t)
        BY <4>1, <4>3 DEF ReadFirst, Answer
      <4> QED BY <2>1, <4>2, <4>3
    <3> QED BY <2>1, <3>1, CacheUntouched
            DEF Call, ReadFirst, ReaderType, TypeOK, CarriesSample, RxType, Pc
  <2> QED BY <1>2, <2>1, ExpireSamplesType, TakeFirstType DEF Take
<1>3. CASE Enable \/ Advance \/ UNCHANGED vars
  <2>1. now' \in 0..MaxTime
    BY <1>3, BoundsAreNat DEF Enable, Advance, vars, ReaderType, TypeOK
  <2> QED BY <1>3, <2>1, CacheUntouched
          DEF Enable, Advance, vars, ReaderType, TypeOK, CarriesSample, RxType, Pc
<1> QED BY <1>1, <1>2, <1>3 DEF Next

(***************************************************************************)
(* The cache holds samples within the depth and the resource limit that    *)
(* create_datareader accepted, and every variable keeps its type, for any  *)
(* number of threads and every QoS.                                        *)
(***************************************************************************)
THEOREM ReaderTypeCorrect == Spec => []TypeOK
<1>1. ReaderType => TypeOK
  BY DEF ReaderType
<1> QED BY <1>1, InitReaderType, NextReaderType, PTL DEF Spec
-----------------------------------------------------------------------------
(* Callbacks                                                               *)

\* A step that adds nothing to the cache and has no thread leave "stored".
LEMMA SilenceKept ==
  ASSUME NoSilentSample, Ids(samples') \subseteq Ids(samples), notified' = notified,
         \A p \in Receiver : rx[p].pc = "stored" => rx'[p].pc = "stored"
  PROVE  NoSilentSample'
<1>1. Ids(samples)' = Ids(samples')
  BY DEF Ids
<1> QED BY <1>1 DEF NoSilentSample

LEMMA DrawnIds == ASSUME NEW r, NEW s, Draws(r, s) PROVE Ids(r) \subseteq Ids(s)
BY DEF Draws, Ids

LEMMA ExpiredIds ==
  ASSUME ReaderType, NEW t \in Taker, ExpireSamples(t)
  PROVE  Draws(samples', samples)
<1> DEFINE kept == {i \in DOMAIN samples : Fresh(samples[i], tk[t].at)}
<1>1. PICK f \in InOrder(kept) : samples' = [i \in DOMAIN f |-> samples[f[i]]]
  BY DEF ExpireSamples
<1>2. kept \in SUBSET DOMAIN samples /\ samples \in Seq(Sample)
  BY DEF ReaderType, TypeOK
<1> HIDE DEF kept
<1> QED BY <1>1, <1>2, ExpiryDraws

LEMMA TakenIds ==
  ASSUME ReaderType, NEW t \in Taker, TakeFirst(t)
  PROVE  Draws(samples', samples)
BY TailDraws DEF TakeFirst, ReaderType, TypeOK

LEMMA NextNoSilentSample == ReaderType /\ NoSilentSample /\ [Next]_vars => NoSilentSample'
<1> SUFFICES ASSUME ReaderType, NoSilentSample, [Next]_vars PROVE NoSilentSample'
  OBVIOUS
<1>1. rx \in RxType
  BY DEF ReaderType, TypeOK, RxType, Pc
<1>2. ASSUME NEW p \in Receiver, Push(p) PROVE NoSilentSample'
  <2>1. CASE \E sn \in Sn : RecordSn(p, sn)
    BY <1>1, <2>1, SilenceKept DEF RecordSn, RxType
  <2>2. CASE ReadClock(p)
    BY <1>1, <2>2, SilenceKept DEF ReadClock, Abandon, RxType
  <2>3. CASE ApplyFilter(p)
    BY <1>1, <2>3, SilenceKept DEF ApplyFilter, Abandon, Goto, RxType
  <2>4. CASE StoreSample(p) /\ qos.kind = "KeepAll" /\ Full(samples)
    BY <1>1, <2>4, SilenceKept DEF StoreSample, Abandon, RxType
  <2>5. CASE StoreSample(p) /\ ~(qos.kind = "KeepAll" /\ Full(samples))
    <3>1. rx'[p].pc = "stored"
      BY <1>1, <2>5 DEF StoreSample, Goto, RxType
    <3> QED BY <3>1 DEF NoSilentSample
  <2>6. CASE NotifyListener(p)
    BY <2>6 DEF NotifyListener, NoSilentSample, Ids
  <2> QED BY <1>2, <2>1, <2>2, <2>3, <2>4, <2>5, <2>6 DEF Push
<1>3. ASSUME NEW t \in Taker, Take(t) PROVE NoSilentSample'
  <2>1. Draws(samples', samples)
    BY <1>3, ExpiredIds, TakenIds, DrawsAll DEF Take, Call, ReadFirst
  <2>2. notified' = notified /\ rx' = rx
    BY <1>3 DEF Take, Call, ExpireSamples, ReadFirst, TakeFirst
  <2> QED BY <2>1, <2>2, DrawnIds, SilenceKept
<1>4. CASE Enable \/ Advance \/ UNCHANGED vars
  BY <1>4, SilenceKept DEF Enable, Advance, vars
<1> QED BY <1>2, <1>3, <1>4 DEF Next

(***************************************************************************)
(* Whatever pushes, expiries and takes interleave, a sample in the cache   *)
(* was there for a callback or one is on its way.                          *)
(***************************************************************************)
THEOREM CallbackSeesSamples == Spec => []NoSilentSample
<1>1. Init => NoSilentSample
  BY DEF Init, NoSilentSample, Ids
<1> QED BY <1>1, InitReaderType, NextReaderType, NextNoSilentSample, PTL DEF Spec

-----------------------------------------------------------------------------
(* Owners                                                                  *)

Distinct(s) == \A i, j \in DOMAIN s : s[i].id = s[j].id => i = j

\* The thread's push has not reached the cache.
Before(p) == rx[p].pc \in {"recorded", "clocked", "filtered"}

\* A push is with one receive thread, in one place of the cache, or taken.
OneOwner ==
  /\ Distinct(samples)
  /\ Ids(samples) \subseteq 1..pushes
  /\ \A x \in taken : x[1] \in 1..pushes /\ x[1] \notin Ids(samples)
  /\ \A p \in Receiver : Before(p) =>
       /\ rx[p].s.id \in 1..pushes \ Ids(samples)
       /\ \A x \in taken : x[1] # rx[p].s.id
       /\ \A q \in Receiver \ {p} : Before(q) => rx[q].s.id # rx[p].s.id

OwnerInv == ReaderType /\ OneOwner

LEMMA DrawnDistinct ==
  ASSUME NEW r, NEW s, Draws(r, s), Distinct(s)
  PROVE  Distinct(r)
BY DEF Draws, Distinct

\* A step that moves no push but out of a thread or out of the cache.
LEMMA OwnersKept ==
  ASSUME OneOwner, UNCHANGED <<pushes, taken>>, Draws(samples', samples),
         \A p \in Receiver : Before(p)' => Before(p) /\ rx'[p].s.id = rx[p].s.id
  PROVE  OneOwner'
<1>1. Distinct(samples') /\ Ids(samples') \subseteq Ids(samples)
  BY DrawnDistinct, DrawnIds DEF OneOwner
<1>2. Ids(samples)' = Ids(samples') /\ Distinct(samples)' = Distinct(samples')
  BY DEF Ids, Distinct
<1> QED BY <1>1, <1>2 DEF OneOwner

LEMMA RecordSnOwner ==
  ASSUME OwnerInv, NEW p \in Receiver, NEW sn \in Sn, RecordSn(p, sn)
  PROVE  OneOwner'
<1>1. pushes \in Nat /\ pushes' = pushes + 1 /\ UNCHANGED <<samples, taken>>
  BY BoundsAreNat DEF RecordSn, OwnerInv, ReaderType, TypeOK
<1>2. /\ rx'[p].s.id = pushes + 1
      /\ \A q \in Receiver \ {p} : rx'[q] = rx[q]
  BY DEF RecordSn, OwnerInv, ReaderType, TypeOK
<1>3. 1..pushes \subseteq 1..pushes + 1 /\ pushes + 1 \notin 1..pushes
      /\ pushes + 1 \in 1..pushes + 1
  BY <1>1
<1> QED BY <1>1, <1>2, <1>3 DEF OneOwner, OwnerInv, Before

LEMMA StoreSampleOwner ==
  ASSUME OwnerInv, NEW p \in Receiver, StoreSample(p)
  PROVE  OneOwner'
<1>1. rx \in RxType /\ Before(p) /\ UNCHANGED <<pushes, taken>>
  BY DEF StoreSample, OwnerInv, ReaderType, TypeOK, RxType, Pc, Before
<1>2. CASE qos.kind = "KeepAll" /\ Full(samples)
  <2>1. Draws(samples', samples)
    BY <1>2, DrawsAll DEF StoreSample
  <2>2. \A q \in Receiver : Before(q)' => Before(q) /\ rx'[q].s.id = rx[q].s.id
    BY <1>1, <1>2 DEF StoreSample, Abandon, RxType, Before
  <2> QED BY <1>1, <2>1, <2>2, OwnersKept DEF OwnerInv
<1>3. CASE ~(qos.kind = "KeepAll" /\ Full(samples))
  <2> DEFINE x == rx[p].s
             grown == Append(samples, x)
  <2>1. /\ samples \in Seq(Sample) /\ x \in Sample
        /\ samples' = Insert(samples, x) /\ Goto(p, "stored")
    BY <1>3 DEF StoreSample, OwnerInv, ReaderType, TypeOK, CarriesSample
  <2>2. Draws(samples', grown)
    BY <1>3, <2>1, InsertFits DEF OwnerInv, ReaderType, TypeOK
  <2>3. /\ DOMAIN samples = 1..Len(samples) /\ Len(samples) \in Nat
        /\ DOMAIN grown = 1..Len(samples) + 1
        /\ \A i \in 1..Len(samples) : grown[i] = samples[i]
        /\ grown[Len(samples) + 1] = x
    BY <2>1, AppendProperties, LenProperties
  <2>4. x.id \notin Ids(samples)
    BY <1>1 DEF OwnerInv, OneOwner
  <2>5. \A i \in 1..Len(samples) + 1 : i = Len(samples) + 1 \/ i \in 1..Len(samples)
    BY <2>3
  <2>6. Distinct(grown) /\ Ids(grown) \subseteq Ids(samples) \cup {x.id}
    <3> HIDE DEF grown, x
    <3> QED BY <2>3, <2>4, <2>5 DEF Distinct, Ids, OwnerInv, OneOwner
  <2>7. Distinct(samples') /\ Ids(samples') \subseteq Ids(samples) \cup {x.id}
    BY <2>2, <2>6, DrawnDistinct, DrawnIds
  <2>8. Ids(samples)' = Ids(samples') /\ Distinct(samples)' = Distinct(samples')
    BY DEF Ids, Distinct
  <2>9. ~Before(p)' /\ \A q \in Receiver \ {p} : rx'[q] = rx[q]
    BY <1>1, <2>1 DEF Goto, Before, RxType
  <2> QED BY <1>1, <2>7, <2>8, <2>9 DEF OneOwner, OwnerInv, Before
<1> QED BY <1>2, <1>3

LEMMA TakeFirstOwner ==
  ASSUME OwnerInv, NEW t \in Taker, TakeFirst(t)
  PROVE  OneOwner'
<1>1. /\ samples \in Seq(Sample) /\ samples # <<>> /\ samples' = Tail(samples)
      /\ taken' = taken \cup {<<Head(samples).id, Head(samples).sn>>}
      /\ UNCHANGED <<pushes, rx>>
  BY DEF TakeFirst, OwnerInv, ReaderType, TypeOK
<1>2. /\ DOMAIN samples = 1..Len(samples) /\ Len(samples) \in Nat /\ Len(samples) # 0
      /\ Head(samples) = samples[1]
      /\ DOMAIN Tail(samples) = 1..Len(samples) - 1
      /\ \A i \in 1..Len(samples) - 1 : Tail(samples)[i] = samples[i + 1]
  BY <1>1
<1>3. 1 \in DOMAIN samples /\ Head(samples).id \in Ids(samples)
  BY <1>2 DEF Ids
<1>4. Head(samples).id \notin Ids(samples')
  <2> SUFFICES ASSUME NEW i \in 1..Len(samples) - 1 PROVE samples[i + 1].id # samples[1].id
    BY <1>1, <1>2 DEF Ids
  <2>1. i + 1 \in DOMAIN samples /\ i + 1 # 1
    BY <1>2
  <2> QED BY <1>3, <2>1 DEF OwnerInv, OneOwner, Distinct
<1>5. Distinct(samples') /\ Ids(samples') \subseteq Ids(samples)
  BY TakenIds, DrawnDistinct, DrawnIds DEF OwnerInv, OneOwner
<1>6. Ids(samples)' = Ids(samples') /\ Distinct(samples)' = Distinct(samples')
  BY DEF Ids, Distinct
<1> QED BY <1>1, <1>3, <1>4, <1>5, <1>6 DEF OneOwner, OwnerInv, Before

LEMMA NextOneOwner == OwnerInv /\ [Next]_vars => OneOwner'
<1> SUFFICES ASSUME OwnerInv, [Next]_vars PROVE OneOwner'
  OBVIOUS
<1>1. rx \in RxType /\ OneOwner
  BY DEF OwnerInv, ReaderType, TypeOK, RxType, Pc
<1>2. ASSUME NEW p \in Receiver, ReadClock(p) \/ ApplyFilter(p) \/ NotifyListener(p)
      PROVE  OneOwner'
  <2>1. \A q \in Receiver : Before(q)' => Before(q) /\ rx'[q].s.id = rx[q].s.id
    <3>1. CASE ReadClock(p)
      BY <1>1, <3>1 DEF ReadClock, Abandon, RxType, Before, Sample, NoSample
    <3>2. CASE ApplyFilter(p)
      BY <1>1, <3>2 DEF ApplyFilter, Abandon, Goto, RxType, Before
    <3>3. CASE NotifyListener(p)
      BY <1>1, <3>3 DEF NotifyListener, Abandon, RxType, Before
    <3> QED BY <1>2, <3>1, <3>2, <3>3
  <2>2. UNCHANGED <<samples, pushes, taken>>
    BY <1>2 DEF ReadClock, ApplyFilter, NotifyListener
  <2> QED BY <1>1, <2>1, <2>2, DrawsAll, OwnersKept
<1>3. ASSUME NEW t \in Taker, Call(t) \/ ReadFirst(t) \/ ExpireSamples(t) PROVE OneOwner'
  <2>1. UNCHANGED <<pushes, taken, rx>>
    BY <1>3 DEF Call, ReadFirst, ExpireSamples
  <2>2. Draws(samples', samples)
    BY <1>3, ExpiredIds, DrawsAll DEF Call, ReadFirst, OwnerInv
  <2> QED BY <1>1, <2>1, <2>2, OwnersKept DEF Before
<1>4. CASE Enable \/ Advance \/ UNCHANGED vars
  <2>1. UNCHANGED <<pushes, taken, rx, samples>>
    BY <1>4 DEF Enable, Advance, vars
  <2> QED BY <1>1, <2>1, DrawsAll, OwnersKept DEF Before
<1> QED BY <1>2, <1>3, <1>4, RecordSnOwner, StoreSampleOwner, TakeFirstOwner
        DEF Next, Push, Take

LEMMA InitOneOwner == Init => OneOwner
BY DEF Init, OneOwner, Distinct, Ids, Before

(***************************************************************************)
(* A push is returned by one take at most, however receive threads, reads, *)
(* takes and expiries interleave.                                          *)
(***************************************************************************)
THEOREM TakesAreUnique == Spec => []TakenOnce
<1>1. OneOwner => TakenOnce
  BY DEF OneOwner, TakenOnce
<1>2. OwnerInv /\ [Next]_vars => OwnerInv'
  BY NextReaderType, NextOneOwner DEF OwnerInv
<1>3. Init => OwnerInv
  BY InitReaderType, InitOneOwner DEF OwnerInv
<1>4. OwnerInv => TakenOnce
  BY <1>1 DEF OwnerInv
<1> QED BY <1>2, <1>3, <1>4, PTL DEF Spec
-----------------------------------------------------------------------------
(* The lossless reader                                                     *)

InCache(s, sn) == \E i \in DOMAIN s : s[i].sn = sn
WasTaken(T, sn) == \E x \in T : x[2] = sn

\* RecordedIsHeld, where a thread that has stored its sample no longer counts.
StillHeld ==
  \A sn \in received :
    \/ \E p \in Receiver : Before(p) /\ rx[p].s.sn = sn
    \/ InCache(samples, sn)
    \/ WasTaken(taken, sn)

LosslessInv == OwnerInv /\ (Lossless(qos) => enabled /\ StillHeld)

\* A cache that lacks one of the first n pushes holds fewer than n.
LEMMA FewerSamples ==
  ASSUME NEW S, NEW s \in Seq(S), NEW n \in Nat, NEW k \in 1..n,
         Distinct(s), Ids(s) \subseteq 1..n \ {k}
  PROVE  Len(s) < n
<1> DEFINE ids == [i \in 1..Len(s) |-> s[i].id]
<1>1. DOMAIN s = 1..Len(s) /\ Len(s) \in Nat
  BY LenProperties
<1>2. IsFiniteSet(1..n) /\ Cardinality(1..n) = n
  BY FS_Interval
<1>3. IsFiniteSet(1..n \ {k}) /\ Cardinality(1..n \ {k}) = n - 1
  BY <1>2, FS_RemoveElement
<1>4. ids \in Injection(1..Len(s), 1..n \ {k})
  BY <1>1 DEF Ids, Distinct, Injection, IsInjective
<1>5. Cardinality(1..Len(s)) = Len(s)
  BY <1>1, FS_Interval
<1>6. Cardinality(1..Len(s)) <= Cardinality(1..n \ {k})
  BY <1>3, <1>4, FS_Injection
<1> QED BY <1>1, <1>3, <1>5, <1>6

\* A step that loses no number: what was held is held still.
LEMMA HeldKept ==
  ASSUME StillHeld, received' = received,
         \A p \in Receiver : Before(p) => \/ Before(p)' /\ rx'[p].s.sn = rx[p].s.sn
                                          \/ InCache(samples', rx[p].s.sn),
         \A i \in DOMAIN samples : \/ InCache(samples', samples[i].sn)
                                   \/ WasTaken(taken', samples[i].sn),
         taken \subseteq taken'
  PROVE  StillHeld'
<1>1. ASSUME NEW sn, InCache(samples, sn) PROVE InCache(samples', sn) \/ WasTaken(taken', sn)
  BY <1>1 DEF InCache, WasTaken
<1>2. ASSUME NEW sn, WasTaken(taken, sn) PROVE WasTaken(taken', sn)
  BY <1>2 DEF WasTaken
<1> QED BY <1>1, <1>2 DEF StillHeld

\* A cache that nothing leaves.
LEMMA NothingLeaves ==
  ASSUME StillHeld, UNCHANGED <<received, samples, taken>>,
         \A p \in Receiver : Before(p) => Before(p)' /\ rx'[p].s.sn = rx[p].s.sn
  PROVE  StillHeld'
BY HeldKept DEF InCache

LEMMA StoreSampleHeld ==
  ASSUME MaxPushes <= Unlimited, LosslessInv, Lossless(qos), NEW p \in Receiver, StoreSample(p)
  PROVE  StillHeld'
<1>1. /\ samples \in Seq(Sample) /\ rx[p].s \in Sample /\ rx \in RxType /\ Before(p)
      /\ UNCHANGED <<received, taken>>
  BY DEF StoreSample, LosslessInv, OwnerInv, ReaderType, TypeOK, CarriesSample,
         Before, RxType, Pc
<1>2. Len(samples) < pushes
  <2>1. /\ rx[p].s.id \in 1..pushes /\ Ids(samples) \subseteq 1..pushes \ {rx[p].s.id}
        /\ Distinct(samples) /\ pushes \in Nat
    BY <1>1, BoundsAreNat DEF LosslessInv, OwnerInv, OneOwner, ReaderType, TypeOK
  <2> QED BY <1>1, <2>1, FewerSamples
<1>3. ~Full(samples)
  <2>1. pushes \in Int /\ pushes <= MaxPushes /\ MaxPushes \in Int /\ Len(samples) \in Nat
    BY <1>1, BoundsAreNat DEF LosslessInv, OwnerInv, ReaderType, TypeOK
  <2> QED BY <1>2, <2>1 DEF Full, Lossless, Unlimited
<1>4. samples' = Append(samples, rx[p].s) /\ Goto(p, "stored")
  BY <1>1, <1>3, InsertFits
     DEF StoreSample, Lossless, LosslessInv, OwnerInv, ReaderType, TypeOK
<1>5. /\ DOMAIN samples = 1..Len(samples) /\ Len(samples) \in Nat
      /\ DOMAIN samples' = 1..Len(samples) + 1
      /\ \A i \in 1..Len(samples) : samples'[i] = samples[i]
      /\ samples'[Len(samples) + 1] = rx[p].s
  BY <1>1, <1>4, AppendProperties, LenProperties
<1>6. /\ \A i \in DOMAIN samples : InCache(samples', samples[i].sn)
      /\ InCache(samples', rx[p].s.sn)
  BY <1>5 DEF InCache
<1>7. \A q \in Receiver \ {p} : rx'[q] = rx[q]
  BY <1>1, <1>4 DEF Goto, RxType
<1>8. \A q \in Receiver : Before(q) => \/ Before(q)' /\ rx'[q].s.sn = rx[q].s.sn
                                       \/ InCache(samples', rx[q].s.sn)
  BY <1>6, <1>7 DEF Before
<1> QED BY <1>1, <1>6, <1>8, HeldKept DEF LosslessInv

LEMMA ExpireSamplesHeld ==
  ASSUME LosslessInv, Lossless(qos), NEW t \in Taker, ExpireSamples(t)
  PROVE  StillHeld'
<1> DEFINE kept == {i \in DOMAIN samples : Fresh(samples[i], tk[t].at)}
<1>1. PICK f \in InOrder(kept) : samples' = [i \in DOMAIN f |-> samples[f[i]]]
  BY DEF ExpireSamples
<1>2. kept = DOMAIN samples /\ samples \in Seq(Sample)
  BY DEF Fresh, Lossless, LosslessInv, OwnerInv, ReaderType, TypeOK
<1>3. \A k \in DOMAIN samples : \E i \in DOMAIN samples' : samples'[i] = samples[k]
  <2> HIDE DEF kept
  <2>1. kept \in SUBSET DOMAIN samples
    BY <1>2
  <2> QED BY <1>1, <1>2, <2>1, ExpiryDraws
<1>4. \A k \in DOMAIN samples : InCache(samples', samples[k].sn)
  BY <1>3 DEF InCache
<1> QED BY <1>4, HeldKept DEF ExpireSamples, LosslessInv, Before

LEMMA TakeFirstHeld ==
  ASSUME LosslessInv, Lossless(qos), NEW t \in Taker, TakeFirst(t)
  PROVE  StillHeld'
<1>1. /\ samples \in Seq(Sample) /\ samples # <<>> /\ samples' = Tail(samples)
      /\ taken' = taken \cup {<<Head(samples).id, Head(samples).sn>>}
      /\ UNCHANGED <<received, rx>>
  BY DEF TakeFirst, LosslessInv, OwnerInv, ReaderType, TypeOK
<1>2. \A i \in DOMAIN samples :
        i = 1 \/ (i - 1 \in DOMAIN samples' /\ samples'[i - 1] = samples[i])
  BY <1>1, TailDraws
<1>3. WasTaken(taken', Head(samples).sn)
  <2>1. <<Head(samples).id, Head(samples).sn>> \in taken'
    BY <1>1
  <2> QED BY <2>1 DEF WasTaken
<1>4. Head(samples) = samples[1]
  BY <1>1
<1>5. \A i \in DOMAIN samples : \/ InCache(samples', samples[i].sn)
                                \/ WasTaken(taken', samples[i].sn)
  BY <1>2, <1>3, <1>4 DEF InCache
<1> QED BY <1>1, <1>5, HeldKept DEF LosslessInv, Before

LEMMA RecordSnHeld ==
  ASSUME LosslessInv, Lossless(qos), NEW p \in Receiver, NEW sn \in Sn, RecordSn(p, sn)
  PROVE  StillHeld'
<1>1. rx \in RxType /\ UNCHANGED <<samples, taken>> /\ received' = received \cup {sn}
  BY DEF RecordSn, LosslessInv, OwnerInv, ReaderType, TypeOK, RxType, Pc
<1>2. /\ Before(p)' /\ rx'[p].s.sn = sn /\ ~Before(p)
      /\ \A q \in Receiver \ {p} : rx'[q] = rx[q]
  BY <1>1 DEF RecordSn, RxType, Before
<1>3. \A q \in Receiver : Before(q) => Before(q)' /\ rx'[q].s.sn = rx[q].s.sn
  BY <1>2 DEF Before
<1> QED BY <1>1, <1>2, <1>3 DEF LosslessInv, StillHeld, InCache, WasTaken

LEMMA NextLosslessInv ==
  MaxPushes <= Unlimited /\ LosslessInv /\ [Next]_vars => LosslessInv'
<1> SUFFICES ASSUME MaxPushes <= Unlimited, LosslessInv, [Next]_vars, Lossless(qos)
             PROVE  enabled' /\ StillHeld'
  <2>1. OwnerInv /\ [Next]_vars => OwnerInv'
    BY NextReaderType, NextOneOwner DEF OwnerInv
  <2>2. [Next]_vars => qos' = qos
    BY DEF Next, Push, Take, RecordSn, ReadClock, ApplyFilter, StoreSample, NotifyListener,
           Call, ExpireSamples, ReadFirst, TakeFirst, Enable, Advance, vars
  <2> QED BY <2>1, <2>2 DEF LosslessInv
<1>1. rx \in RxType /\ enabled /\ StillHeld
  BY DEF LosslessInv, OwnerInv, ReaderType, TypeOK, RxType, Pc
<1>2. enabled'
  BY <1>1 DEF Next, Push, Take, RecordSn, ReadClock, ApplyFilter, StoreSample, NotifyListener,
              Call, ExpireSamples, ReadFirst, TakeFirst, Enable, Advance, vars
<1>3. ASSUME NEW p \in Receiver, ReadClock(p) \/ ApplyFilter(p) \/ NotifyListener(p)
      PROVE  StillHeld'
  <2>1. \A q \in Receiver : Before(q) => Before(q)' /\ rx'[q].s.sn = rx[q].s.sn
    <3>1. CASE ReadClock(p)
      BY <1>1, <3>1 DEF ReadClock, RxType, Before, Sample, NoSample
    <3>2. CASE ApplyFilter(p)
      <4>1. ~TooSoon(rx[p].s.at)
        BY DEF TooSoon, Lossless
      <4> QED BY <1>1, <3>2, <4>1 DEF ApplyFilter, Goto, RxType, Before
    <3>3. CASE NotifyListener(p)
      BY <1>1, <3>3 DEF NotifyListener, Abandon, RxType, Before
    <3> QED BY <1>3, <3>1, <3>2, <3>3
  <2>2. UNCHANGED <<received, samples, taken>>
    BY <1>3 DEF ReadClock, ApplyFilter, NotifyListener
  <2> QED BY <1>1, <2>1, <2>2, NothingLeaves
<1>4. ASSUME NEW t \in Taker, Call(t) \/ ReadFirst(t) PROVE StillHeld'
  BY <1>1, <1>4, NothingLeaves DEF Call, ReadFirst, Before
<1>5. CASE Enable \/ Advance \/ UNCHANGED vars
  BY <1>1, <1>5, NothingLeaves DEF Enable, Advance, vars, Before
<1> QED BY <1>2, <1>3, <1>4, <1>5, RecordSnHeld, StoreSampleHeld, ExpireSamplesHeld,
           TakeFirstHeld
        DEF Next, Push, Take

(***************************************************************************)
(* A KeepAll reader without limit, filter or lifespan, enabled when it was *)
(* created, keeps every number it has recorded until the application takes *)
(* the sample, up to the 2^31 - 1 pushes that LENGTH_UNLIMITED stands for. *)
(***************************************************************************)
THEOREM LosslessReaderKeeps ==
  ASSUME MaxPushes <= Unlimited
  PROVE  Spec => []NothingLost
<1>1. Init => LosslessInv
  BY InitReaderType, InitOneOwner
     DEF Init, LosslessInv, OwnerInv, Lossless, StillHeld
<1>2. LosslessInv /\ [Next]_vars => LosslessInv'
  BY NextLosslessInv
<1>3. LosslessInv => NothingLost
  BY DEF LosslessInv, NothingLost, StillHeld, RecordedIsHeld, InCache, WasTaken
<1> QED BY <1>1, <1>2, <1>3, PTL DEF Spec
=============================================================================
