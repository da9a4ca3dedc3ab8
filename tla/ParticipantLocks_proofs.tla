----------------------- MODULE ParticipantLocks_proofs -----------------------
(***************************************************************************)
(* For any number of publishers, remote readers, threads and creations:    *)
(* matchmaking in ParticipantLocks misses no writer and no known reader,   *)
(* as long as no lease expires; and the locks are taken in an order that   *)
(* only create_datawriter breaks, which may then wait for itself for ever. *)
(***************************************************************************)
EXTENDS ParticipantLocks, FiniteSetTheorems, FunctionTheorems, TLAPS

-----------------------------------------------------------------------------
(* Types                                                                   *)

ThreadState == [at : At, todo : SUBSET ((RemoteReader \cup {Nobody}) \X Publisher),
                gone : SUBSET RemoteReader]

\* The writers that publishers start with can be numbered.
LEMMA StartNumberType ==
  StartNumber \in [Publisher -> 1..Cardinality(Publisher)]
<1> DEFINE n == Cardinality(Publisher)
<1>1. ExistsBijection(1..n, Publisher)
  BY LocksAssumption, FS_CardinalityType
<1>2. ExistsBijection(Publisher, 1..n)
  BY <1>1, Fun_ExistsBijSymmetric
<1>3. PICK f \in Bijection(Publisher, 1..n) : TRUE
  BY <1>2 DEF ExistsBijection
<1>4. f \in [Publisher -> 1..n] /\ \A p, q \in Publisher : p # q => f[p] # f[q]
  BY <1>3 DEF Bijection, Injection, IsInjective
<1> QED BY <1>4 DEF StartNumber

LEMMA BoundsAreNat ==
  Cardinality(Publisher) \in Nat /\ MaxWriters \in Nat /\ MaxExpiries \in Nat
BY LocksAssumption, FS_CardinalityType

LEMMA IdType == \A k \in Int : k % IdWidth \in 0..IdWidth - 1
BY LocksAssumption

LEMMA InitTypeOK == Init => TypeOK
<1> SUFFICES ASSUME Init PROVE TypeOK
  OBVIOUS
<1>1. Idle \in ThreadState
  BY DEF Idle, ThreadState, At
<1>2. writers \in [Publisher -> SUBSET ((0..IdWidth - 1) \X Creation)]
  <2> SUFFICES ASSUME NEW p \in Publisher
               PROVE  {<<1 % IdWidth, MaxWriters + StartNumber[p]>>}
                        \subseteq (0..IdWidth - 1) \X Creation
    BY DEF Init
  <2>1. 1 % IdWidth \in 0..IdWidth - 1
    BY IdType
  <2>2. StartNumber[p] \in 1..Cardinality(Publisher)
    BY StartNumberType
  <2>3. MaxWriters + StartNumber[p] \in Creation
    BY <2>2, BoundsAreNat DEF Creation
  <2> QED BY <2>1, <2>3
<1> QED BY <1>1, <1>2, BoundsAreNat DEF Init, TypeOK, ThreadState

\* Most steps move one thread and some locks only.
LEMMA ThreadStep ==
  ASSUME TypeOK, UNCHANGED <<writers, proxies, known, created, expiries>>,
         NEW t \in Thread, NEW s \in ThreadState, thread' = [thread EXCEPT ![t] = s],
         holder' \in [Lock -> Thread \cup {Nobody}]
  PROVE  TypeOK'
BY DEF TypeOK, ThreadState

LEMMA GotoType ==
  ASSUME TypeOK, NEW t \in Thread, NEW at \in At, Goto(t, at)
  PROVE  /\ thread' \in [Thread -> ThreadState]
         /\ thread'[t].at = at
         /\ [thread[t] EXCEPT !.at = at] \in ThreadState
         /\ thread' = [thread EXCEPT ![t] = [thread[t] EXCEPT !.at = at]]
BY DEF Goto, TypeOK, ThreadState

LEMMA HoldType ==
  ASSUME TypeOK, NEW t \in Thread, NEW l \in Lock, Hold(t, l)
  PROVE  holder' \in [Lock -> Thread \cup {Nobody}]
BY DEF Hold, TypeOK

\* A section that goes on, with a lock or without one.
LEMMA GoOnType ==
  ASSUME TypeOK, NEW t \in Thread, NEW at \in At, Goto(t, at),
         UNCHANGED <<writers, proxies, known, created, expiries>>,
         UNCHANGED holder \/ \E l \in Lock : Hold(t, l)
  PROVE  TypeOK'
<1>1. holder' \in [Lock -> Thread \cup {Nobody}]
  BY HoldType DEF TypeOK
<1> QED BY <1>1, GotoType, ThreadStep

LEMMA CreateWriterType ==
  ASSUME TypeOK, NEW t \in Thread, NEW p \in Publisher, CreateWriter(t, p)
  PROVE  TypeOK'
<1>1. holder' \in [Lock -> Thread \cup {Nobody}]
  BY HoldType DEF CreateWriter, Lock
<1>2. thread' \in [Thread -> ThreadState]
  BY GotoType DEF CreateWriter, At
<1>3. created + 1 \in 0..MaxWriters /\ created + 1 \in Creation
  BY BoundsAreNat DEF CreateWriter, TypeOK, Creation
<1>4. NextId(p) \in 0..IdWidth - 1
  <2>1. IsFiniteSet(writers[p])
    <3>1. IsFiniteSet((0..IdWidth - 1) \X Creation)
      <4>1. IsFiniteSet(0..IdWidth - 1) /\ IsFiniteSet(Creation)
        BY BoundsAreNat, LocksAssumption, FS_Interval DEF Creation
      <4> QED BY <4>1, FS_Product
    <3> QED BY <3>1, FS_Subset DEF TypeOK
  <2>2. Cardinality(writers[p]) + 1 \in Int
    BY <2>1, FS_CardinalityType
  <2> QED BY <2>2, IdType DEF NextId
<1>5. writers' \in [Publisher -> SUBSET ((0..IdWidth - 1) \X Creation)]
  BY <1>3, <1>4 DEF CreateWriter, TypeOK
<1> QED BY <1>1, <1>2, <1>3, <1>5 DEF CreateWriter, TypeOK, ThreadState

\* The loops of matchmaking and of the housekeeping.
LEMMA LoopType ==
  ASSUME TypeOK, NEW t \in Thread, NEW p \in Publisher,
         (\E r \in RemoteReader : MatchWriters(t, r, p)) \/ VisitWriters(t, p)
  PROVE  TypeOK'
<1>1. /\ thread[t] \in ThreadState
      /\ \A w \in writers[p] : w[2] \in Creation
  BY DEF TypeOK, ThreadState
<1>2. ASSUME NEW r \in RemoteReader, MatchWriters(t, r, p) PROVE TypeOK'
  <2>1. proxies' \subseteq Creation \X RemoteReader
    BY <1>1, <1>2 DEF MatchWriters, TypeOK
  <2>2. thread' \in [Thread -> ThreadState]
    BY <1>1, <1>2 DEF MatchWriters, TypeOK, ThreadState
  <2> QED BY <1>2, <2>1, <2>2 DEF MatchWriters, TypeOK, ThreadState
<1>3. CASE VisitWriters(t, p)
  <2>1. proxies' \subseteq Creation \X RemoteReader
    BY <1>3 DEF VisitWriters, TypeOK
  <2>2. thread' \in [Thread -> ThreadState]
    BY <1>1, <1>3 DEF VisitWriters, TypeOK, ThreadState
  <2> QED BY <1>3, <2>1, <2>2 DEF VisitWriters, TypeOK, ThreadState
<1> QED BY <1>2, <1>3

LEMMA StartLoopType ==
  ASSUME TypeOK, NEW t \in Thread, LockReaders(t) \/ WalkPublishers(t)
  PROVE  TypeOK'
<1>1. thread[t] \in ThreadState /\ known \subseteq RemoteReader
  BY DEF TypeOK, ThreadState
<1>2. CASE LockReaders(t)
  <2>1. [thread[t] EXCEPT !.at = "match", !.todo = known \X Publisher] \in ThreadState
    BY <1>1 DEF ThreadState, At
  <2>2. thread' = [thread EXCEPT ![t] = [thread[t] EXCEPT !.at = "match",
                                                         !.todo = known \X Publisher]]
    BY <1>2 DEF LockReaders
  <2>3. holder' \in [Lock -> Thread \cup {Nobody}]
    BY <1>2, HoldType DEF LockReaders, Lock
  <2> QED BY <1>2, <2>1, <2>2, <2>3, ThreadStep DEF LockReaders
<1>3. CASE WalkPublishers(t)
  <2>1. [thread[t] EXCEPT !.at = "walk", !.todo = {Nobody} \X Publisher] \in ThreadState
    BY <1>1 DEF ThreadState, At
  <2>2. thread' = [thread EXCEPT ![t] = [thread[t] EXCEPT !.at = "walk",
                                                         !.todo = {Nobody} \X Publisher]]
    BY <1>3 DEF WalkPublishers
  <2>3. holder' \in [Lock -> Thread \cup {Nobody}]
    BY <1>3, HoldType DEF WalkPublishers, Lock
  <2> QED BY <1>3, <2>1, <2>2, <2>3, ThreadStep DEF WalkPublishers
<1> QED BY <1>2, <1>3

LEMMA ReturnType ==
  ASSUME TypeOK, NEW t \in Thread, Return(t)
  PROVE  TypeOK'
<1>1. Idle \in ThreadState
  BY DEF Idle, ThreadState, At
<1>2. holder' \in [Lock -> Thread \cup {Nobody}]
  BY DEF Return, TypeOK
<1> QED BY <1>1, <1>2, ThreadStep DEF Return

LEMMA KnownType ==
  ASSUME TypeOK, NEW t \in Thread, NEW r \in RemoteReader, Ingest(t, r) \/ ExpireLease(t, r)
  PROVE  TypeOK'
<1>1. CASE Ingest(t, r)
  BY <1>1, GotoType DEF Ingest, TypeOK, ThreadState, At
<1>2. CASE ExpireLease(t, r)
  <2>1. thread' \in [Thread -> ThreadState]
    <3>1. [thread[t] EXCEPT !.at = "unmatch", !.gone = {r}] \in ThreadState
      <4>1. thread[t] \in ThreadState
        BY DEF TypeOK, ThreadState
      <4> QED BY <4>1, Zenon DEF ThreadState, At
    <3>2. thread' = [thread EXCEPT ![t] = [thread[t] EXCEPT !.at = "unmatch", !.gone = {r}]]
      BY <1>2 DEF ExpireLease
    <3> QED BY <3>1, <3>2 DEF TypeOK, ThreadState
  <2>2. expiries' \in 0..MaxExpiries
    BY <1>2, BoundsAreNat DEF ExpireLease, TypeOK
  <2> QED BY <1>2, <2>1, <2>2 DEF ExpireLease, TypeOK, ThreadState
<1> QED BY <1>1, <1>2

LEMMA NextTypeOK == TypeOK /\ [Next]_vars => TypeOK'
<1> SUFFICES ASSUME TypeOK, [Next]_vars PROVE TypeOK'
  OBVIOUS
<1>1. ASSUME NEW t \in WriterCreator, NEW p \in Publisher,
             CreateWriter(t, p) \/ DeleteWriter(t, p)
      PROVE  TypeOK'
  <2>1. CASE DeleteWriter(t, p)
    BY <2>1 DEF DeleteWriter, TypeOK
  <2> QED BY <1>1, <2>1, CreateWriterType DEF Thread
<1>2. ASSUME NEW t \in ReaderCreator, CreateReader(t) PROVE TypeOK'
  BY <1>2, GoOnType DEF CreateReader, Thread, At, Lock
<1>3. ASSUME NEW t \in Thread, NEW r \in RemoteReader, Ingest(t, r) \/ ExpireLease(t, r)
      PROVE  TypeOK'
  BY <1>3, KnownType
<1>4. ASSUME NEW t \in Thread, Proceed(t) \/ WalkPublishers(t) PROVE TypeOK'
  <2>1. CASE RegisterEndpoint(t) \/ EnlistReader(t)
    BY <2>1, GoOnType DEF RegisterEndpoint, EnlistReader, At
  <2>2. CASE LockDiscovery(t) \/ LockPublishers(t)
    BY <2>2, GoOnType DEF LockDiscovery, LockPublishers, At, Lock
  <2> QED BY <1>4, <2>1, <2>2, LoopType, StartLoopType, ReturnType DEF Proceed
<1>5. CASE UNCHANGED vars
  BY <1>5 DEF vars, TypeOK
<1> QED BY <1>1, <1>2, <1>3, <1>4, <1>5 DEF Next, Thread

(***************************************************************************)
(* Whatever creations, ingestions, matches and removals interleave, locks  *)
(* are held by threads, proxies are of readers for writers, and every      *)
(* thread is at a section of its operation.                                *)
(***************************************************************************)
THEOREM LocksTypeCorrect == Spec => []TypeOK
BY InitTypeOK, NextTypeOK, PTL DEF Spec
-----------------------------------------------------------------------------
(* Matches                                                                 *)

\* A thread that has yet to read the known readers and the writers, or is on
\* its way to this pair of them.
ToMatch == {"register", "enlist", "lock_discovery", "lock_publishers", "lock_readers"}
WillMatch(t, p, r) ==
  thread[t].at \in ToMatch \/ (thread[t].at = "match" /\ <<r, p>> \in thread[t].todo)

\* The pairs without a proxy are those that some thread will come to.
NobodyMissed ==
  \A p \in Publisher, r \in known : \A w \in writers[p] :
    <<w[2], r>> \in proxies \/ \E t \in Thread : WillMatch(t, p, r)

\* While no lease expires, the housekeeping has no reader to unmatch.
NobodyGone == expiries = 0 /\ \A t \in Thread : thread[t].gone = {}

MatchInv == TypeOK /\ NobodyGone /\ NobodyMissed

LEMMA NextNobodyGone == MaxExpiries = 0 /\ TypeOK /\ NobodyGone /\ [Next]_vars => NobodyGone'
<1> SUFFICES ASSUME MaxExpiries = 0, TypeOK, NobodyGone, [Next]_vars PROVE NobodyGone'
  OBVIOUS
<1>1. thread \in [Thread -> ThreadState]
  BY DEF TypeOK, ThreadState
<1>2. ASSUME NEW t \in Thread, NEW p \in Publisher, CreateWriter(t, p) \/ DeleteWriter(t, p)
      PROVE  NobodyGone'
  BY <1>1, <1>2 DEF CreateWriter, DeleteWriter, Goto, NobodyGone, ThreadState
<1>3. ASSUME NEW t \in Thread, CreateReader(t) PROVE NobodyGone'
  BY <1>1, <1>3 DEF CreateReader, Goto, NobodyGone, ThreadState
<1>4. ASSUME NEW t \in Thread, NEW r \in RemoteReader, Ingest(t, r) \/ ExpireLease(t, r)
      PROVE  NobodyGone'
  <2>1. CASE Ingest(t, r)
    BY <1>1, <2>1 DEF Ingest, Goto, NobodyGone, ThreadState
  <2>2. ~ExpireLease(t, r)
    BY DEF ExpireLease, NobodyGone
  <2> QED BY <1>4, <2>1, <2>2
<1>5. ASSUME NEW t \in Thread, Proceed(t) \/ WalkPublishers(t) PROVE NobodyGone'
  <2>1. CASE RegisterEndpoint(t) \/ EnlistReader(t) \/ LockDiscovery(t) \/ LockPublishers(t)
    BY <1>1, <2>1
       DEF RegisterEndpoint, EnlistReader, LockDiscovery, LockPublishers, Goto, NobodyGone,
           ThreadState
  <2>2. CASE LockReaders(t) \/ WalkPublishers(t)
    BY <1>1, <2>2 DEF LockReaders, WalkPublishers, NobodyGone, ThreadState
  <2>3. ASSUME NEW p \in Publisher,
               (\E r \in RemoteReader : MatchWriters(t, r, p)) \/ VisitWriters(t, p)
        PROVE  NobodyGone'
    <3>1. ASSUME NEW r \in RemoteReader, MatchWriters(t, r, p) PROVE NobodyGone'
      BY <1>1, <3>1 DEF MatchWriters, NobodyGone, ThreadState
    <3>2. CASE VisitWriters(t, p)
      BY <1>1, <3>2 DEF VisitWriters, NobodyGone, ThreadState
    <3> QED BY <2>3, <3>1, <3>2
  <2>4. CASE Return(t)
    BY <1>1, <2>4 DEF Return, Idle, NobodyGone, ThreadState
  <2> QED BY <1>5, <2>1, <2>2, <2>3, <2>4 DEF Proceed
<1>6. CASE UNCHANGED vars
  BY <1>6 DEF vars, NobodyGone
<1> QED BY <1>2, <1>3, <1>4, <1>5, <1>6 DEF Next, Thread

\* A thread before its loop will come to every pair.
LEMMA ThreadWillMatch ==
  ASSUME NEW t \in Thread, thread'[t].at \in ToMatch
  PROVE  NobodyMissed'
BY DEF NobodyMissed, WillMatch

\* A step that adds no writer and no reader, keeps proxies, and whose thread
\* has nothing left to match that it had before.
LEMMA MissedKept ==
  ASSUME NobodyMissed, known' = known, proxies \subseteq proxies',
         \A p \in Publisher : writers'[p] \subseteq writers[p],
         \A t \in Thread, p \in Publisher, r \in known :
           WillMatch(t, p, r) => \/ WillMatch(t, p, r)'
                                 \/ \A w \in writers[p] : <<w[2], r>> \in proxies'
  PROVE  NobodyMissed'
<1> SUFFICES ASSUME NEW p \in Publisher, NEW r \in known, NEW w \in writers[p],
                    <<w[2], r>> \notin proxies'
             PROVE  \E t \in Thread : WillMatch(t, p, r)'
  BY DEF NobodyMissed
<1>1. PICK t \in Thread : WillMatch(t, p, r)
  BY DEF NobodyMissed
<1> QED BY <1>1

LEMMA LockReadersMatch ==
  ASSUME TypeOK, NEW t \in Thread, LockReaders(t)
  PROVE  NobodyMissed'
<1>1. thread'[t].at = "match" /\ thread'[t].todo = known' \X Publisher
  BY DEF LockReaders, TypeOK, ThreadState
<1> QED BY <1>1 DEF NobodyMissed, WillMatch

LEMMA MatchWritersMatch ==
  ASSUME MatchInv, NEW t \in Thread, NEW p \in Publisher, NEW r \in RemoteReader,
         MatchWriters(t, r, p)
  PROVE  NobodyMissed'
<1>1. /\ proxies' = proxies \cup {<<w[2], r>> : w \in writers[p]}
      /\ UNCHANGED <<writers, known>>
  BY DEF MatchWriters
<1>2. /\ thread'[t].at = thread[t].at /\ thread'[t].todo = thread[t].todo \ {<<r, p>>}
      /\ \A u \in Thread \ {t} : thread'[u] = thread[u]
  BY DEF MatchWriters, MatchInv, TypeOK, ThreadState
<1>3. ASSUME NEW u \in Thread, NEW q \in Publisher, NEW s \in known, WillMatch(u, q, s)
      PROVE  WillMatch(u, q, s)' \/ \A w \in writers[q] : <<w[2], s>> \in proxies'
  <2>1. CASE u = t /\ s = r /\ q = p
    BY <1>1, <2>1
  <2>2. CASE ~(u = t /\ s = r /\ q = p)
    BY <1>2, <1>3, <2>2 DEF WillMatch
  <2> QED BY <2>1, <2>2
<1> QED BY <1>1, <1>3, MissedKept DEF MatchInv

LEMMA NextNobodyMissed == MaxExpiries = 0 /\ MatchInv /\ [Next]_vars => NobodyMissed'
<1> SUFFICES ASSUME MaxExpiries = 0, MatchInv, [Next]_vars PROVE NobodyMissed'
  OBVIOUS
<1>1. thread \in [Thread -> ThreadState] /\ NobodyMissed /\ TypeOK
  BY DEF MatchInv, TypeOK, ThreadState
<1>2. ASSUME NEW t \in Thread, NEW at \in ToMatch, Goto(t, at) PROVE NobodyMissed'
  <2>1. thread'[t].at = at
    BY <1>1, <1>2 DEF Goto, ThreadState
  <2> QED BY <2>1, ThreadWillMatch
<1>3. ASSUME NEW t \in Thread, NEW p \in Publisher, CreateWriter(t, p) PROVE NobodyMissed'
  BY <1>2, <1>3 DEF CreateWriter, ToMatch
<1>4. ASSUME NEW t \in Thread, NEW p \in Publisher, DeleteWriter(t, p) PROVE NobodyMissed'
  <2>1. \A q \in Publisher : writers'[q] \subseteq writers[q]
    BY <1>1, <1>4 DEF DeleteWriter, TypeOK
  <2> QED BY <1>1, <1>4, <2>1, MissedKept DEF DeleteWriter, WillMatch
<1>5. ASSUME NEW t \in Thread, CreateReader(t) PROVE NobodyMissed'
  BY <1>2, <1>5 DEF CreateReader, ToMatch
<1>6. ASSUME NEW t \in Thread, NEW r \in RemoteReader, Ingest(t, r) PROVE NobodyMissed'
  BY <1>2, <1>6 DEF Ingest, ToMatch
<1>7. ASSUME NEW t \in Thread, NEW r \in RemoteReader, ExpireLease(t, r) PROVE NobodyMissed'
  BY <1>7 DEF ExpireLease, MatchInv, NobodyGone
<1>8. ASSUME NEW t \in Thread,
             RegisterEndpoint(t) \/ EnlistReader(t) \/ LockDiscovery(t) \/ LockPublishers(t)
      PROVE  NobodyMissed'
  BY <1>2, <1>8 DEF RegisterEndpoint, EnlistReader, LockDiscovery, LockPublishers, ToMatch
<1>9. ASSUME NEW t \in Thread, NEW p \in Publisher, VisitWriters(t, p) PROVE NobodyMissed'
  <2>1. proxies' = proxies
    BY <1>9 DEF VisitWriters, MatchInv, NobodyGone
  <2>2. \A u \in Thread, q \in Publisher, r \in known :
          WillMatch(u, q, r) => WillMatch(u, q, r)'
    BY <1>1, <1>9 DEF VisitWriters, WillMatch, ThreadState, ToMatch
  <2> QED BY <1>1, <1>9, <2>1, <2>2, MissedKept DEF VisitWriters
<1>10. ASSUME NEW t \in Thread, WalkPublishers(t) \/ Return(t) PROVE NobodyMissed'
  <2>1. UNCHANGED <<writers, proxies, known>>
    BY <1>10 DEF WalkPublishers, Return
  <2>2. \A u \in Thread \ {t} : thread'[u] = thread[u]
    BY <1>1, <1>10 DEF WalkPublishers, Return
  <2>3. \A q \in Publisher, r \in known : ~WillMatch(t, q, r)
    BY <1>10 DEF WalkPublishers, Return, WillMatch, ToMatch
  <2>4. \A u \in Thread, q \in Publisher, r \in known :
          WillMatch(u, q, r) => WillMatch(u, q, r)'
    BY <2>1, <2>2, <2>3 DEF WillMatch
  <2> QED BY <1>1, <2>1, <2>4, MissedKept
<1>11. CASE UNCHANGED vars
  BY <1>1, <1>11, MissedKept DEF vars, WillMatch
<1> QED BY <1>1, <1>3, <1>4, <1>5, <1>6, <1>7, <1>8, <1>9, <1>10, <1>11,
           LockReadersMatch, MatchWritersMatch DEF Next, Proceed, Thread

(***************************************************************************)
(* However endpoints are created, deleted and discovered, a writer lacks a *)
(* proxy for a known compatible reader only while some call or receive     *)
(* thread is on its way to match the two, as long as no lease expires.     *)
(***************************************************************************)
THEOREM MatchmakingIsComplete ==
  ASSUME MaxExpiries = 0
  PROVE  Spec => []EntitiesMatched
<1>1. Init => MatchInv
  BY InitTypeOK DEF Init, MatchInv, NobodyGone, NobodyMissed, Idle
<1>2. MatchInv /\ [Next]_vars => MatchInv'
  BY NextTypeOK, NextNobodyGone, NextNobodyMissed DEF MatchInv
<1>3. MatchInv => EntitiesMatched
  BY DEF MatchInv, NobodyMissed, WillMatch, ToMatch, EntitiesMatched, Live
<1> QED BY <1>1, <1>2, <1>3, PTL DEF Spec
-----------------------------------------------------------------------------
(* Locks                                                                   *)

HasDiscovery  == {"lock_publishers", "lock_readers", "match"}
HasPublishers == {"lock_readers", "match", "walk"}
HasSome       == HasDiscovery \cup HasPublishers

\* Where a thread is tells which of the three shared mutexes it holds.
LockInv ==
  \A t \in Thread :
    /\ holder[<<"discovery">>] = t <=> thread[t].at \in HasDiscovery
    /\ holder[<<"publishers">>] = t <=> thread[t].at \in HasPublishers
    /\ holder[<<"local_readers">>] = t <=> thread[t].at = "match"

\* The pairs that are left of a loop are those of that loop.
LoopInv ==
  \A t \in Thread :
    /\ thread[t].at = "match" => thread[t].todo \subseteq RemoteReader \X Publisher
    /\ thread[t].at = "walk" => thread[t].todo \subseteq {Nobody} \X Publisher

LEMMA LocksDiffer ==
  /\ <<"discovery">> # <<"publishers">> /\ <<"discovery">> # <<"local_readers">>
  /\ <<"publishers">> # <<"local_readers">>
  /\ \A l \in {<<"discovery">>, <<"publishers">>, <<"local_readers">>} :
       l \in Lock /\ l # <<"readers">> /\ \A p \in Publisher : l # WritersOf(p)
BY DEF Lock, WritersOf

\* A section that neither takes nor leaves one of the three.
LEMMA OutsideKept ==
  ASSUME LockInv, LoopInv, NEW t \in Thread,
         thread[t].at \notin HasSome, thread'[t].at \notin HasSome,
         \A u \in Thread \ {t} : thread'[u] = thread[u],
         \A l \in {<<"discovery">>, <<"publishers">>, <<"local_readers">>} :
           holder'[l] = holder[l]
  PROVE  LockInv' /\ LoopInv'
<1>1. "match" \in HasSome /\ "walk" \in HasSome
  BY DEF HasSome, HasDiscovery, HasPublishers
<1> QED BY <1>1 DEF LockInv, LoopInv, HasSome

\* create_datawriter, create_datareader, ingestion and the lease check.
LEMMA OutsideLocks ==
  ASSUME TypeOK, LockInv, LoopInv, NEW t \in Thread,
         \/ \E p \in Publisher : CreateWriter(t, p)
         \/ CreateReader(t) \/ RegisterEndpoint(t) \/ EnlistReader(t)
         \/ \E r \in RemoteReader : Ingest(t, r) \/ ExpireLease(t, r)
  PROVE  LockInv' /\ LoopInv'
<1> DEFINE Shared == {<<"discovery">>, <<"publishers">>, <<"local_readers">>}
           Out == {"idle", "register", "enlist", "lock_discovery", "unmatch"}
<1>1. Out \cap HasSome = {}
  BY DEF HasSome, HasDiscovery, HasPublishers
<1>2. /\ thread \in [Thread -> ThreadState]
      /\ holder \in [Lock -> Thread \cup {Nobody}]
  BY DEF TypeOK, ThreadState
<1>3. ASSUME NEW l \in Lock, l \notin Shared, Hold(t, l) PROVE \A k \in Shared : holder'[k] = holder[k]
  BY <1>2, <1>3, LocksDiffer DEF Hold
<1>4. ASSUME NEW at \in Out, Goto(t, at), thread[t].at \in Out,
             \A k \in Shared : holder'[k] = holder[k]
      PROVE  LockInv' /\ LoopInv'
  <2>1. thread'[t].at = at /\ \A u \in Thread \ {t} : thread'[u] = thread[u]
    BY <1>2, <1>4 DEF Goto, ThreadState
  <2> QED BY <1>1, <1>4, <2>1, OutsideKept
<1>5. ASSUME NEW p \in Publisher, CreateWriter(t, p) PROVE LockInv' /\ LoopInv'
  <2>1. WritersOf(p) \in Lock /\ WritersOf(p) \notin Shared
    BY LocksDiffer DEF Lock
  <2> QED BY <1>3, <1>4, <1>5, <2>1 DEF CreateWriter
<1>6. CASE CreateReader(t)
  <2>1. <<"readers">> \in Lock /\ <<"readers">> \notin Shared
    BY LocksDiffer DEF Lock
  <2> QED BY <1>3, <1>4, <1>6, <2>1 DEF CreateReader
<1>7. CASE RegisterEndpoint(t) \/ EnlistReader(t)
  BY <1>4, <1>7 DEF RegisterEndpoint, EnlistReader
<1>8. ASSUME NEW r \in RemoteReader, Ingest(t, r) PROVE LockInv' /\ LoopInv'
  BY <1>4, <1>8 DEF Ingest
<1>9. ASSUME NEW r \in RemoteReader, ExpireLease(t, r) PROVE LockInv' /\ LoopInv'
  <2>1. thread'[t].at = "unmatch" /\ \A u \in Thread \ {t} : thread'[u] = thread[u]
    <3>1. thread' = [thread EXCEPT ![t] = [thread[t] EXCEPT !.at = "unmatch", !.gone = {r}]]
      BY <1>9 DEF ExpireLease
    <3>2. thread[t] \in ThreadState
      BY <1>2
    <3> QED BY <1>2, <3>1, <3>2 DEF ThreadState
  <2> QED BY <1>1, <1>9, <2>1, OutsideKept DEF ExpireLease
<1> QED BY <1>5, <1>6, <1>7, <1>8, <1>9

\* A section that takes one of the three, or leaves matchmaking or a walk.
LEMMA InsideLocks ==
  ASSUME TypeOK, LockInv, LoopInv, NEW t \in Thread,
         LockDiscovery(t) \/ LockPublishers(t) \/ LockReaders(t) \/ WalkPublishers(t) \/ Return(t)
  PROVE  LockInv' /\ LoopInv'
<1> USE DEF LockInv, LoopInv, HasDiscovery, HasPublishers
<1>1. /\ thread \in [Thread -> ThreadState] /\ thread[t] \in ThreadState
      /\ holder \in [Lock -> Thread \cup {Nobody}]
      /\ Nobody \notin Thread /\ known \subseteq RemoteReader
  BY LocksAssumption DEF TypeOK, ThreadState
<1>2. CASE LockDiscovery(t)
  <2>1. /\ thread[t].at = "lock_discovery" /\ thread'[t].at = "lock_publishers"
        /\ \A u \in Thread \ {t} : thread'[u] = thread[u]
    BY <1>1, <1>2 DEF LockDiscovery, Goto, ThreadState
  <2>2. /\ holder[<<"discovery">>] = Nobody /\ holder'[<<"discovery">>] = t
        /\ holder'[<<"publishers">>] = holder[<<"publishers">>]
        /\ holder'[<<"local_readers">>] = holder[<<"local_readers">>]
    BY <1>1, <1>2, LocksDiffer DEF LockDiscovery, Hold, Free
  <2> QED BY <1>1, <2>1, <2>2
<1>3. CASE LockPublishers(t)
  <2>1. /\ thread[t].at = "lock_publishers" /\ thread'[t].at = "lock_readers"
        /\ \A u \in Thread \ {t} : thread'[u] = thread[u]
    BY <1>1, <1>3 DEF LockPublishers, Goto, ThreadState
  <2>2. /\ holder[<<"publishers">>] = Nobody /\ holder'[<<"publishers">>] = t
        /\ holder'[<<"discovery">>] = holder[<<"discovery">>]
        /\ holder'[<<"local_readers">>] = holder[<<"local_readers">>]
    BY <1>1, <1>3, LocksDiffer DEF LockPublishers, Hold, Free
  <2> QED BY <1>1, <2>1, <2>2
<1>4. CASE LockReaders(t)
  <2>1. /\ thread[t].at = "lock_readers" /\ thread'[t].at = "match"
        /\ thread'[t].todo = known \X Publisher
        /\ \A u \in Thread \ {t} : thread'[u] = thread[u]
    BY <1>1, <1>4 DEF LockReaders, ThreadState
  <2>2. /\ holder[<<"local_readers">>] = Nobody /\ holder'[<<"local_readers">>] = t
        /\ holder'[<<"discovery">>] = holder[<<"discovery">>]
        /\ holder'[<<"publishers">>] = holder[<<"publishers">>]
    BY <1>1, <1>4, LocksDiffer DEF LockReaders, Hold, Free
  <2>3. thread'[t].todo \subseteq RemoteReader \X Publisher
    BY <1>1, <2>1
  <2> QED BY <1>1, <2>1, <2>2, <2>3
<1>5. CASE WalkPublishers(t)
  <2>1. /\ thread[t].at \in {"idle", "unmatch"} /\ thread'[t].at = "walk"
        /\ thread'[t].todo = {Nobody} \X Publisher
        /\ \A u \in Thread \ {t} : thread'[u] = thread[u]
    BY <1>1, <1>5 DEF WalkPublishers, ThreadState
  <2>2. /\ holder[<<"publishers">>] = Nobody /\ holder'[<<"publishers">>] = t
        /\ holder'[<<"discovery">>] = holder[<<"discovery">>]
        /\ holder'[<<"local_readers">>] = holder[<<"local_readers">>]
    BY <1>1, <1>5, LocksDiffer DEF WalkPublishers, Hold, Free
  <2> QED BY <1>1, <2>1, <2>2
<1>6. CASE Return(t)
  <2>1. /\ thread[t].at \in {"match", "walk"} /\ thread'[t].at = "idle"
        /\ \A u \in Thread \ {t} : thread'[u] = thread[u]
    BY <1>1, <1>6 DEF Return, Idle
  <2>2. \A l \in {<<"discovery">>, <<"publishers">>, <<"local_readers">>} :
          holder'[l] = IF holder[l] = t THEN Nobody ELSE holder[l]
    BY <1>6, LocksDiffer DEF Return
  <2> QED BY <1>1, <2>1, <2>2
<1> QED BY <1>2, <1>3, <1>4, <1>5, <1>6

LEMMA LoopLocks ==
  ASSUME TypeOK, LockInv, LoopInv, NEW t \in Thread, NEW p \in Publisher,
         (\E r \in RemoteReader : MatchWriters(t, r, p)) \/ VisitWriters(t, p)
  PROVE  LockInv' /\ LoopInv'
<1>1. /\ thread \in [Thread -> ThreadState] /\ thread[t] \in ThreadState
  BY DEF TypeOK, ThreadState
<1> DEFINE Shrinks == /\ thread'[t].at = thread[t].at /\ thread'[t].todo \subseteq thread[t].todo
                      /\ \A u \in Thread \ {t} : thread'[u] = thread[u]
                      /\ holder' = holder
<1>2. Shrinks
  <2>1. ASSUME NEW r \in RemoteReader, MatchWriters(t, r, p) PROVE Shrinks
    BY <1>1, <2>1 DEF MatchWriters, ThreadState
  <2>2. CASE VisitWriters(t, p)
    BY <1>1, <2>2 DEF VisitWriters, ThreadState
  <2> QED BY <2>1, <2>2
<1> QED BY <1>2 DEF LockInv, LoopInv

LEMMA InitLocks == Init => LockInv /\ LoopInv
<1> SUFFICES ASSUME Init PROVE LockInv /\ LoopInv
  OBVIOUS
<1>1. Nobody \notin Thread
  BY LocksAssumption
<1>2. \A t \in Thread : thread[t].at = "idle"
  BY DEF Init, Idle
<1>3. \A l \in {<<"discovery">>, <<"publishers">>, <<"local_readers">>} : holder[l] = Nobody
  BY LocksDiffer DEF Init
<1> QED BY <1>1, <1>2, <1>3 DEF LockInv, LoopInv, HasDiscovery, HasPublishers

LEMMA NextLocks == TypeOK /\ LockInv /\ LoopInv /\ [Next]_vars => LockInv' /\ LoopInv'
<1> SUFFICES ASSUME TypeOK, LockInv, LoopInv, [Next]_vars PROVE LockInv' /\ LoopInv'
  OBVIOUS
<1>1. CASE UNCHANGED <<holder, thread>>
  BY <1>1 DEF LockInv, LoopInv
<1>2. ASSUME NEW t \in Thread, NEW p \in Publisher, DeleteWriter(t, p)
      PROVE  LockInv' /\ LoopInv'
  BY <1>1, <1>2 DEF DeleteWriter
<1>3. CASE UNCHANGED vars
  BY <1>1, <1>3 DEF vars
<1> QED BY <1>2, <1>3, OutsideLocks, InsideLocks, LoopLocks DEF Next, Proceed, Thread

SharedInv == TypeOK /\ LockInv /\ LoopInv

LEMMA SharedInvariant == Spec => []SharedInv
<1>1. Init => SharedInv
  BY InitTypeOK, InitLocks DEF SharedInv
<1>2. SharedInv /\ [Next]_vars => SharedInv'
  BY NextTypeOK, NextLocks DEF SharedInv
<1> QED BY <1>1, <1>2, PTL DEF Spec

\* The order of the three: who holds the last waits for none of them.
LEMMA NoCycle ==
  ASSUME SharedInv, \A p \in Publisher : Free(WritersOf(p)),
         NEW t \in Thread, thread[t].at # "idle"
  PROVE  \E u \in Thread : Ready(u)
<1>1. /\ \A u \in Thread : thread[u] \in ThreadState
      /\ \A l \in {<<"discovery">>, <<"publishers">>, <<"local_readers">>} :
           Free(l) \/ \E u \in Thread : holder[l] = u
  BY LocksDiffer DEF SharedInv, TypeOK, ThreadState, Free
<1>2. ASSUME NEW u \in Thread, thread[u].at \in {"match", "walk"} PROVE Ready(u)
  <2>1. CASE thread[u].todo = {}
    BY <1>2, <2>1 DEF Ready
  <2>2. CASE thread[u].todo # {} /\ thread[u].at = "match"
    <3>1. PICK r \in RemoteReader, p \in Publisher : <<r, p>> \in thread[u].todo
      BY <2>2 DEF SharedInv, LoopInv
    <3> QED BY <2>2, <3>1 DEF Ready
  <2>3. CASE thread[u].todo # {} /\ thread[u].at = "walk"
    <3>1. PICK p \in Publisher : <<Nobody, p>> \in thread[u].todo
      BY <2>3 DEF SharedInv, LoopInv
    <3> QED BY <2>3, <3>1 DEF Ready
  <2> QED BY <1>2, <2>1, <2>2, <2>3
<1>3. ASSUME NEW u \in Thread, thread[u].at \in {"enlist", "lock_readers"}
      PROVE  \E v \in Thread : Ready(v)
  <2>1. CASE Free(<<"local_readers">>)
    BY <1>3, <2>1 DEF Ready
  <2>2. CASE ~Free(<<"local_readers">>)
    BY <1>1, <1>2, <2>2 DEF SharedInv, LockInv
  <2> QED BY <2>1, <2>2
<1>4. ASSUME NEW u \in Thread, thread[u].at \in {"unmatch", "lock_publishers"}
      PROVE  \E v \in Thread : Ready(v)
  <2>1. CASE Free(<<"publishers">>)
    BY <1>4, <2>1 DEF Ready
  <2>2. CASE ~Free(<<"publishers">>)
    BY <1>1, <1>2, <1>3, <2>2 DEF SharedInv, LockInv, HasPublishers
  <2> QED BY <2>1, <2>2
<1>5. ASSUME thread[t].at \in {"register", "lock_discovery"}
      PROVE  \E v \in Thread : Ready(v)
  <2>1. CASE Free(<<"discovery">>)
    BY <1>5, <2>1 DEF Ready
  <2>2. CASE ~Free(<<"discovery">>)
    BY <1>1, <1>2, <1>3, <1>4, <2>2 DEF SharedInv, LockInv, HasDiscovery
  <2> QED BY <2>1, <2>2
<1>6. thread[t].at \in At
  BY <1>1 DEF ThreadState
<1> QED BY <1>2, <1>3, <1>4, <1>5, <1>6 DEF At

(***************************************************************************)
(* discovery, publishers and local_readers are always taken in that order, *)
(* by any number of threads, so that no cycle of waiting threads closes    *)
(* unless a create_datawriter that holds a writers map is part of it.      *)
(***************************************************************************)
THEOREM DeadlockNeedsCreation == Spec => []OnlyCreationsBlock
<1>1. SharedInv => OnlyCreationsBlock
  BY NoCycle DEF OnlyCreationsBlock
<1> QED BY <1>1, SharedInvariant, PTL

(***************************************************************************)
(* Matchmaking is atomic: while a thread goes through the pairs of known   *)
(* readers and publishers, although it locks the writers of one publisher  *)
(* after another, no other thread matches or unmatches.                    *)
(***************************************************************************)
OneAtATime ==
  \A t, u \in Thread :
    thread[t].at = "match" /\ thread[u].at \in {"match", "walk"} => t = u

THEOREM MatchmakingIsExclusive == Spec => []OneAtATime
<1>1. SharedInv => OneAtATime
  BY DEF SharedInv, LockInv, HasPublishers, OneAtATime
<1> QED BY <1>1, SharedInvariant, PTL

(***************************************************************************)
(* A create_datawriter that comes to match the writers of its own          *)
(* publisher waits for the mutex it holds.                                 *)
(***************************************************************************)
SelfLocked(t, p) ==
  /\ holder[WritersOf(p)] = t
  /\ thread[t].at = "match"
  /\ \E r \in RemoteReader : <<r, p>> \in thread[t].todo

\* The section that would end the loop waits, and no other thread releases.
LEMMA SelfLockedStays ==
  ASSUME TypeOK, [Next]_vars, NEW t \in Thread, NEW p \in Publisher, SelfLocked(t, p)
  PROVE  SelfLocked(t, p)'
<1> DEFINE Held(h) == h[WritersOf(p)] = t
           Waits(th) == /\ th[t].at = "match"
                        /\ \E r \in RemoteReader : <<r, p>> \in th[t].todo
           Stays == Held(holder') /\ Waits(thread')
<1>1. SUFFICES Stays
  BY DEF SelfLocked
<1>2. /\ Held(holder) /\ Waits(thread) /\ WritersOf(p) \in Lock /\ ~Free(WritersOf(p))
      /\ thread \in [Thread -> ThreadState] /\ holder \in [Lock -> Thread \cup {Nobody}]
  BY LocksAssumption DEF SelfLocked, TypeOK, ThreadState, Free, Lock
<1>3. ASSUME NEW u \in Thread, NEW l \in Lock, Hold(u, l) PROVE Held(holder')
  BY <1>2, <1>3 DEF Hold, Free
<1>4. ASSUME NEW u \in Thread, thread[u].at # "match", NEW s, thread' = [thread EXCEPT ![u] = s]
      PROVE  Waits(thread')
  BY <1>2, <1>4
<1>5. ASSUME NEW u \in Thread, NEW at, Goto(u, at), thread[u].at # "match"
      PROVE  Waits(thread')
  BY <1>4, <1>5 DEF Goto
<1>6. ASSUME NEW u \in Thread, NEW q \in Publisher, CreateWriter(u, q) \/ DeleteWriter(u, q)
      PROVE  Stays
  <2>1. CASE CreateWriter(u, q)
    BY <1>3, <1>5, <2>1 DEF CreateWriter, Lock
  <2>2. CASE DeleteWriter(u, q)
    BY <1>2, <2>2 DEF DeleteWriter
  <2> QED BY <1>6, <2>1, <2>2
<1>7. ASSUME NEW u \in Thread, CreateReader(u) \/ LockDiscovery(u) \/ LockPublishers(u) PROVE Stays
  BY <1>3, <1>5, <1>7 DEF CreateReader, LockDiscovery, LockPublishers, Lock
<1>8. ASSUME NEW u \in Thread, RegisterEndpoint(u) \/ EnlistReader(u) PROVE Stays
  BY <1>2, <1>5, <1>8 DEF RegisterEndpoint, EnlistReader
<1>9. ASSUME NEW u \in Thread, NEW r \in RemoteReader, Ingest(u, r) \/ ExpireLease(u, r) PROVE Stays
  <2>1. CASE Ingest(u, r)
    BY <1>2, <1>5, <2>1 DEF Ingest
  <2>2. CASE ExpireLease(u, r)
    BY <1>2, <1>4, <2>2 DEF ExpireLease
  <2> QED BY <1>9, <2>1, <2>2
<1>10. ASSUME NEW u \in Thread, LockReaders(u) \/ WalkPublishers(u) PROVE Stays
  <2>1. CASE LockReaders(u)
    BY <1>3, <1>4, <2>1, ZenonT(60) DEF LockReaders, Lock
  <2>2. CASE WalkPublishers(u)
    BY <1>3, <1>4, <2>2, ZenonT(60) DEF WalkPublishers, Lock
  <2> QED BY <1>10, <2>1, <2>2
<1>11. ASSUME NEW u \in Thread, NEW q \in Publisher, NEW r \in RemoteReader, MatchWriters(u, r, q)
       PROVE  Stays
  <2>1. q # p
    BY <1>2, <1>11 DEF MatchWriters
  <2>2. /\ holder' = holder
        /\ thread' = [thread EXCEPT ![u] = [thread[u] EXCEPT !.todo = @ \ {<<r, q>>}]]
    BY <1>11 DEF MatchWriters
  <2>3. CASE u = t
    <3>1. thread'[t].at = thread[t].at /\ thread'[t].todo = thread[t].todo \ {<<r, q>>}
      BY <1>2, <2>2, <2>3 DEF ThreadState
    <3> QED BY <1>2, <2>1, <2>2, <3>1
  <2>4. CASE u # t
    BY <1>2, <2>2, <2>4
  <2> QED BY <2>3, <2>4
<1>12. ASSUME NEW u \in Thread, NEW q \in Publisher, VisitWriters(u, q) PROVE Stays
  <2>1. thread[u].at # "match" /\ holder' = holder
    BY <1>12 DEF VisitWriters
  <2>2. thread' = [thread EXCEPT ![u] = [thread[u] EXCEPT !.todo = @ \ {<<Nobody, q>>}]]
    BY <1>12 DEF VisitWriters
  <2> QED BY <1>2, <1>4, <2>1, <2>2
<1>13. ASSUME NEW u \in Thread, Return(u) PROVE Stays
  <2>1. u # t
    BY <1>2, <1>13 DEF Return
  <2>2. Waits(thread')
    BY <1>2, <1>13, <2>1 DEF Return
  <2>3. Held(holder')
    BY <1>2, <1>13, <2>1 DEF Return
  <2> QED BY <2>2, <2>3
<1>14. CASE UNCHANGED vars
  BY <1>2, <1>14 DEF vars
<1> HIDE DEF Stays
<1> QED BY <1>6, <1>7, <1>8, <1>9, <1>10, <1>11, <1>12, <1>13, <1>14 DEF Next, Proceed, Thread

(***************************************************************************)
(* A create_datawriter that finds a known reader never returns: once it is *)
(* self-locked it stays so, whatever the other threads do, lease expiries  *)
(* included.  Its discovery, publishers and local_readers stay locked too. *)
(***************************************************************************)
THEOREM SelfLockIsForever ==
  Spec => [][\A t \in Thread, p \in Publisher : SelfLocked(t, p) => SelfLocked(t, p)']_vars
<1>1. TypeOK /\ [Next]_vars =>
        [\A t \in Thread, p \in Publisher : SelfLocked(t, p) => SelfLocked(t, p)']_vars
  BY SelfLockedStays
<1> QED BY <1>1, LocksTypeCorrect, PTL DEF Spec
=============================================================================
