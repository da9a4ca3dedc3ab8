-------------------------- MODULE Discovery_proofs --------------------------
(***************************************************************************)
(* Proofs about Discovery: types, and what a match stands on, for any      *)
(* remotes, endpoints and number of receive threads.                       *)
(***************************************************************************)
EXTENDS Discovery, FiniteSetTheorems, TLAPS

\* The announcer's snapshot holds registered endpoints, which stay registered.
SnapshotRegistered ==
  \A q \in Remotes : \A item \in announcing[q] : local[item[1]] # 0

TypeInv == TypeOK /\ SnapshotRegistered

\* The numbers in use are positive.
LEMMA RegisteredSn ==
  ASSUME TypeOK, NEW e \in Endpoints, local[e] # 0
  PROVE  local[e] \in Sn
BY DiscoveryAssumption DEF TypeOK, Sn

\* Heartbeats of a SEDP writer are messages.
LEMMA RangeIsMessage ==
  ASSUME NEW q \in Remotes, NEW k \in Kinds, NEW numbers \in SUBSET Sn
  PROVE  SedpWriterRange(q, k, numbers) \subseteq HeartbeatMsg
<1> SUFFICES ASSUME NEW m \in SedpWriterRange(q, k, numbers)
             PROVE  m \in HeartbeatMsg
  OBVIOUS
<1>1. PICK f \in numbers, l \in numbers :
        m = [type |-> "heartbeat", from |-> q, kind |-> k, first |-> f, last |-> l]
  BY DEF SedpWriterRange
<1>2. f \in Sn /\ l \in Sn
  OBVIOUS
<1> QED BY <1>1, <1>2 DEF HeartbeatMsg

LEMMA HeartbeatsAreMessages ==
  ASSUME TypeOK, NEW q \in Remotes
  PROVE  Heartbeats(q) \subseteq HeartbeatMsg
<1>1. ASSUME NEW k \in Kinds
      PROVE  SedpWriterRange(q, k, {local[e] : e \in OfKind(q, k)}) \subseteq HeartbeatMsg
  <2>1. {local[e] : e \in OfKind(q, k)} \subseteq Sn
    BY RegisteredSn DEF OfKind, Registered
  <2> QED BY <2>1, RangeIsMessage
<1> QED BY <1>1 DEF Heartbeats

LEMMA DataIsMessage ==
  ASSUME TypeOK, NEW e \in Endpoints, local[e] # 0, NEW c \in Sn
  PROVE  Data(e, c) \in DataMsg
BY RegisteredSn DEF Data, DataMsg

LEMMA AllDataIsMessage ==
  ASSUME TypeOK, NEW q \in Remotes
  PROVE  {Data(e, local[e]) : e \in Registered(q)} \subseteq DataMsg
BY RegisteredSn, DataIsMessage DEF Registered

LEMMA RequestIsMessage ==
  ASSUME NEW q \in Remotes
  PROVE  RequestSedp(q) \subseteq AckNackMsg
BY DEF RequestSedp, AckNack, AckNackMsg

LEMMA ReplyRangeIsMessage ==
  ASSUME TypeOK, NEW q \in Remotes, NEW k \in Kinds
  PROVE  RangeByGuid(q, k) \subseteq HeartbeatMsg
<1> SUFFICES ASSUME NEW m \in RangeByGuid(q, k)
             PROVE  m \in HeartbeatMsg
  OBVIOUS
<1>1. PICK f \in OfKind(q, k), l \in OfKind(q, k) :
        /\ m \in [type : {"heartbeat"}, from : {q}, kind : {k},
                  first : {local[e] : e \in {d \in OfKind(q, k) :
                             \A g \in OfKind(q, k) : GuidOrder[d] <= GuidOrder[g]}},
                  last : {local[e] : e \in {d \in OfKind(q, k) :
                             \A g \in OfKind(q, k) : GuidOrder[g] <= GuidOrder[d]}}]
        /\ m.first = local[f] /\ m.last = local[l]
  BY DEF RangeByGuid
<1>2. local[f] \in Sn /\ local[l] \in Sn
  BY RegisteredSn DEF OfKind, Registered
<1>3. m = [type |-> "heartbeat", from |-> q, kind |-> k, first |-> local[f], last |-> local[l]]
  BY <1>1
<1> QED BY <1>2, <1>3 DEF HeartbeatMsg

LEMMA InitTypeInv == Init => TypeInv
<1> SUFFICES ASSUME Init PROVE TypeInv
  OBVIOUS
<1>1. \A t \in Threads : Done(t) \in Places
  BY DEF Done, At, Places
<1>2. MaxSn \in Nat /\ MaxExpiries \in Nat /\ MaxLosses \in Nat
  BY DiscoveryAssumption
<1>3. nextSn \in [Remotes \X Kinds -> 1..MaxSn + 1]
  BY <1>2 DEF Init
<1>4. /\ received \in [Remotes \X Kinds -> SUBSET Sn]
      /\ announcing \in [Remotes -> SUBSET (Endpoints \X Sn)]
  BY DEF Init
<1>5. local \in [Endpoints -> 0..MaxSn] /\ discovered \in [Endpoints -> 0..MaxSn]
  BY <1>2 DEF Init
<1> QED BY <1>1, <1>2, <1>3, <1>4, <1>5 DEF Init, TypeOK, TypeInv, SnapshotRegistered

Messages == SpdpMsg \cup DataMsg \cup HeartbeatMsg \cup AckNackMsg

\* What a thread of the observer may become.
LEMMA ThreadType ==
  ASSUME TypeOK, NEW t \in Threads, NEW at \in At,
         NEW work \in SUBSET (Endpoints \X (0..MaxSn)), NEW from \in SUBSET Remotes,
         NEW sns \in SUBSET Sn
  PROVE  [thread EXCEPT ![t] = [at |-> at, work |-> work, from |-> from, sns |-> sns]]
           \in [Threads -> Places]
BY DEF TypeOK, Places

LEMMA ThreadMoves ==
  ASSUME TypeOK, NEW t \in Threads, NEW at \in At
  PROVE  /\ [thread EXCEPT ![t].at = at] \in [Threads -> Places]
         /\ [thread EXCEPT ![t].at = at, ![t].work = {}] \in [Threads -> Places]
         /\ [thread EXCEPT ![t].at = at, ![t].sns = {}] \in [Threads -> Places]
<1>1. thread \in [Threads -> Places]
  BY DEF TypeOK
<1>2. [thread EXCEPT ![t].at = at] \in [Threads -> Places]
  BY <1>1 DEF Places
<1>3. [thread EXCEPT ![t].at = at, ![t].work = {}] \in [Threads -> Places]
  <2>1. [thread EXCEPT ![t].at = at, ![t].work = {}]
          = [thread EXCEPT ![t] = [thread[t] EXCEPT !.at = at, !.work = {}]]
    BY <1>1 DEF Places
  <2>2. [thread[t] EXCEPT !.at = at, !.work = {}] \in Places
    BY <1>1 DEF Places
  <2> QED BY <1>1, <2>1, <2>2
<1>4. [thread EXCEPT ![t].at = at, ![t].sns = {}] \in [Threads -> Places]
  <2>1. [thread EXCEPT ![t].at = at, ![t].sns = {}]
          = [thread EXCEPT ![t] = [thread[t] EXCEPT !.at = at, !.sns = {}]]
    BY <1>1 DEF Places
  <2>2. [thread[t] EXCEPT !.at = at, !.sns = {}] \in Places
    BY <1>1 DEF Places
  <2> QED BY <1>1, <2>1, <2>2
<1> QED BY <1>2, <1>3, <1>4

\* The remotes' steps keep the types.
LEMMA RemoteTypeOK ==
  ASSUME TypeInv,
         \/ \E q \in Remotes : \/ AnnounceParticipant(q) \/ BeginAnnouncing(q)
                               \/ AnnounceNext(q) \/ AnnounceLocalEndpoints(q) \/ Crash(q)
         \/ \E e \in Endpoints : RegisterEndpoint(e)
         \/ \E m \in net : Lose(m) \/ ReplyToAckNack(m)
  PROVE  TypeInv'
<1> USE DEF remoteVars, observerVars, SnapshotRegistered
<1> TypeOK /\ SnapshotRegistered
  BY DEF TypeInv
<1>1. ASSUME NEW q \in Remotes, AnnounceParticipant(q)
      PROVE  TypeInv'
  <2>1. net' \subseteq Messages
    BY <1>1 DEF AnnounceParticipant, TypeOK, Messages, Spdp, SpdpMsg
  <2> QED BY <1>1, <2>1 DEF AnnounceParticipant, TypeOK, Messages, TypeInv
<1>2. ASSUME NEW q \in Remotes, BeginAnnouncing(q)
      PROVE  TypeInv'
  <2>1. {<<e, local[e]>> : e \in Registered(q)} \subseteq Endpoints \X Sn
    BY RegisteredSn DEF Registered
  <2>2. announcing' \in [Remotes -> SUBSET (Endpoints \X Sn)]
    BY <1>2, <2>1 DEF BeginAnnouncing, TypeOK
  <2>3. SnapshotRegistered'
    BY <1>2 DEF BeginAnnouncing, TypeOK, Registered
  <2> QED BY <1>2, <2>2, <2>3 DEF BeginAnnouncing, TypeOK, TypeInv
<1>4. ASSUME NEW q \in Remotes, AnnounceLocalEndpoints(q)
      PROVE  TypeInv'
  <2>1. net' \subseteq Messages
    BY <1>4, AllDataIsMessage, HeartbeatsAreMessages
    DEF AnnounceLocalEndpoints, TypeOK, Messages
  <2> QED BY <1>4, <2>1 DEF AnnounceLocalEndpoints, TypeOK, Messages, TypeInv
<1>5. ASSUME NEW q \in Remotes, Crash(q)
      PROVE  TypeInv'
  <2>1. announcing' \in [Remotes -> SUBSET (Endpoints \X Sn)]
    BY <1>5 DEF Crash, TypeOK
  <2>2. SnapshotRegistered'
    BY <1>5 DEF Crash, TypeOK
  <2> QED BY <1>5, <2>1, <2>2 DEF Crash, TypeOK, TypeInv
<1>6. ASSUME NEW e \in Endpoints, RegisterEndpoint(e)
      PROVE  TypeInv'
  <2> DEFINE q == Owner[e]
             sn == nextSn[<<q, Kind[e]>>]
             numbers == {sn} \cup {local[f] : f \in OfKind(q, Kind[e]) \ {e}}
  <2>1. q \in Remotes /\ Kind[e] \in Kinds /\ MaxSn \in Nat
    BY DiscoveryAssumption DEF Kinds
  <2>2. sn \in Sn
    BY <1>6 DEF RegisterEndpoint
  <2>3. numbers \in SUBSET Sn
    BY <2>2, RegisteredSn DEF OfKind, Registered
  <2>4. SedpWriterRange(q, Kind[e], numbers) \subseteq HeartbeatMsg
    BY <2>1, <2>3, RangeIsMessage
  <2>5. [type |-> "data", ep |-> e, content |-> sn, sn |-> sn] \in DataMsg
    BY <2>2 DEF DataMsg
  <2>6. net' \subseteq Messages
    BY <1>6, <2>4, <2>5 DEF RegisterEndpoint, TypeOK, Messages
  <2>7. local' \in [Endpoints -> 0..MaxSn]
    BY <1>6, <2>1, <2>2 DEF RegisterEndpoint, TypeOK, Sn
  <2>8. sn + 1 \in 1..MaxSn + 1
    BY <2>1, <2>2 DEF Sn
  <2>9. nextSn' \in [Remotes \X Kinds -> 1..MaxSn + 1]
    BY <1>6, <2>8 DEF RegisterEndpoint, TypeOK
  <2>10. SnapshotRegistered'
    BY <1>6, <2>2 DEF RegisterEndpoint, TypeOK, Sn
  <2> QED BY <1>6, <2>6, <2>7, <2>9, <2>10 DEF RegisterEndpoint, TypeOK, Messages, TypeInv
<1>7. ASSUME NEW m \in net, Lose(m)
      PROVE  TypeInv'
  <2>1. losses' \in 0..MaxLosses
    BY <1>7, DiscoveryAssumption DEF Lose, TypeOK
  <2> QED BY <1>7, <2>1 DEF Lose, TypeOK, TypeInv
<1>8. ASSUME NEW m \in net, ReplyToAckNack(m)
      PROVE  TypeInv'
  <2>1. m \in AckNackMsg
    BY <1>8 DEF ReplyToAckNack, TypeOK, SpdpMsg, DataMsg, HeartbeatMsg
  <2>2. m.to \in Remotes /\ m.kind \in Kinds
    BY <2>1 DEF AckNackMsg
  <2>3. {Data(e, local[e]) : e \in {f \in OfKind(m.to, m.kind) : local[f] \in m.sns}}
          \subseteq DataMsg
    BY <2>2, AllDataIsMessage DEF OfKind
  <2>4. net' \subseteq Messages
    BY <1>8, <2>2, <2>3, ReplyRangeIsMessage DEF ReplyToAckNack, TypeOK, Messages
  <2> QED BY <1>8, <2>4 DEF ReplyToAckNack, TypeOK, Messages, TypeInv
<1>3. ASSUME NEW q \in Remotes, AnnounceNext(q)
      PROVE  TypeInv'
  <2>1. PICK item \in announcing[q] :
          /\ announcing' = [announcing EXCEPT ![q] = @ \ {item}]
          /\ net' = net \cup {Data(item[1], item[2])} \cup Heartbeats(q)
          /\ UNCHANGED <<up, losses, local, nextSn, observerVars>>
    BY <1>3 DEF AnnounceNext
  <2>2. announcing' \in [Remotes -> SUBSET (Endpoints \X Sn)]
    BY <2>1 DEF TypeOK
  <2>3. item \in Endpoints \X Sn /\ local[item[1]] # 0
    BY <2>1 DEF TypeOK
  <2>4. item[1] \in Endpoints /\ item[2] \in Sn
    BY <2>3
  <2>5. Data(item[1], item[2]) \in DataMsg
    BY <2>3, <2>4, DataIsMessage
  <2>6. net' \subseteq Messages
    BY <2>1, <2>5, HeartbeatsAreMessages DEF TypeOK, Messages
  <2>7. SnapshotRegistered'
    BY <2>1 DEF TypeOK
  <2> QED BY <2>1, <2>2, <2>6, <2>7 DEF TypeOK, Messages, TypeInv
<1> QED BY <1>1, <1>2, <1>3, <1>4, <1>5, <1>6, <1>7, <1>8

\* The observer's steps keep the types.
LEMMA ObserverTypeOK ==
  ASSUME TypeInv,
         \/ \E t \in Threads :
              \/ \E q \in Remotes : ReceiveSpdp(t, q)
              \/ \E m \in net : ReceiveData(t, m) \/ ReceiveHeartbeat(t, m)
              \/ ThreadStep(t)
         \/ \E gone \in SUBSET known : CheckLeaseTimeouts(gone)
         \/ RunUnmatchRemoved \/ Wake \/ Wait
  PROVE  TypeInv'
<1> USE DEF remoteVars, observerVars, SnapshotRegistered
<1> TypeOK /\ SnapshotRegistered
  BY DEF TypeInv
<1>0. MainLoop \in Threads /\ MaxSn \in Nat /\ MaxExpiries \in Nat
  BY DiscoveryAssumption
<1>1. ASSUME NEW t \in Threads, NEW q \in Remotes, ReceiveSpdp(t, q)
      PROVE  TypeInv'
  <2>1. net' \subseteq Messages
    BY <1>1, RequestIsMessage DEF ReceiveSpdp, TypeOK, Messages
  <2>2. known' \subseteq Remotes
    BY <1>1 DEF ReceiveSpdp, TypeOK
  <2>3. thread' \in [Threads -> Places]
    BY <1>1, ThreadMoves DEF ReceiveSpdp, Goto, At
  <2> QED BY <1>1, <2>1, <2>2, <2>3 DEF ReceiveSpdp, TypeOK, Messages, TypeInv
<1>2. ASSUME NEW t \in Threads, NEW m \in net, ReceiveData(t, m)
      PROVE  TypeInv'
  <2>1. m \in DataMsg
    BY <1>2 DEF ReceiveData, TypeOK, SpdpMsg, AckNackMsg, HeartbeatMsg
  <2>2. m.ep \in Endpoints /\ m.content \in Sn /\ m.sn \in Sn
    BY <2>1 DEF DataMsg
  <2>3. Owner[m.ep] \in Remotes
    BY <2>2, DiscoveryAssumption
  <2>4. {<<m.ep, m.content>>} \in SUBSET (Endpoints \X (0..MaxSn)) /\ {m.sn} \in SUBSET Sn
    BY <1>0, <2>2 DEF Sn
  <2>5. thread' \in [Threads -> Places]
    <3>1. {Owner[m.ep]} \in SUBSET Remotes /\ "note" \in At
      BY <2>3 DEF At
    <3>2. thread' = [thread EXCEPT ![t] = [at |-> "note", work |-> {<<m.ep, m.content>>},
                                          from |-> {Owner[m.ep]}, sns |-> {m.sn}]]
      BY <1>2 DEF ReceiveData
    <3> QED BY <2>4, <3>1, <3>2, ThreadType
  <2> QED BY <1>2, <2>3, <2>5 DEF ReceiveData, TypeOK, TypeInv
<1>3. ASSUME NEW t \in Threads, NEW m \in net, ReceiveHeartbeat(t, m)
      PROVE  TypeInv'
  <2>1. m \in HeartbeatMsg
    BY <1>3 DEF ReceiveHeartbeat, TypeOK, SpdpMsg, AckNackMsg, DataMsg
  <2>2. m.from \in Remotes /\ m.kind \in Kinds /\ m.first \in Sn /\ m.last \in Sn
    BY <2>1 DEF HeartbeatMsg
  <2>3. (m.first..m.last) \subseteq Sn
    BY <1>0, <2>2 DEF Sn
  <2>4. AckNack(m.from, m.kind, (m.first..m.last) \ received[<<m.from, m.kind>>]) \in AckNackMsg
    BY <2>2, <2>3 DEF AckNack, AckNackMsg
  <2>5. net' \subseteq Messages
    BY <1>3, <2>4 DEF ReceiveHeartbeat, TypeOK, Messages
  <2>6. thread' \in [Threads -> Places]
    BY <1>3, ThreadType DEF ReceiveHeartbeat, Done, At
  <2> QED BY <1>3, <2>5, <2>6 DEF ReceiveHeartbeat, TypeOK, Messages, TypeInv
<1>4. ASSUME NEW t \in Threads, InsertEndpoint(t)
      PROVE  TypeInv'
  <2>1. discovered' \in [Endpoints -> 0..MaxSn]
    BY <1>4 DEF InsertEndpoint, TypeOK, Places
  <2>2. thread' \in [Threads -> Places]
    BY <1>4, ThreadMoves DEF InsertEndpoint, At
  <2> QED BY <1>4, <2>1, <2>2 DEF InsertEndpoint, TypeOK, TypeInv
<1>5. ASSUME NEW t \in Threads, RunMatchmaking(t)
      PROVE  TypeInv'
  <2>1. UNION {RequestSedp(q) : q \in thread[t].from \cap known} \subseteq AckNackMsg
    BY RequestIsMessage DEF TypeOK
  <2>2. net' \subseteq Messages
    BY <1>5, <2>1 DEF RunMatchmaking, TypeOK, Messages
  <2>3. matched' \subseteq Endpoints
    BY <1>5 DEF RunMatchmaking, Matchable, Discovered, TypeOK
  <2>4. thread' \in [Threads -> Places]
    BY <1>5, ThreadType DEF RunMatchmaking, Done, At
  <2> QED BY <1>5, <2>2, <2>3, <2>4 DEF RunMatchmaking, TypeOK, Messages, TypeInv
<1>6. ASSUME NEW gone \in SUBSET known, CheckLeaseTimeouts(gone)
      PROVE  TypeInv'
  <2>1. IsFiniteSet(gone \cap up)
    BY DiscoveryAssumption, FS_Subset DEF TypeOK
  <2>2. Cardinality(gone \cap up) \in Nat
    BY <2>1, FS_CardinalityType
  <2>3. expiries' \in 0..MaxExpiries
    BY <1>0, <1>6, <2>2 DEF CheckLeaseTimeouts, TypeOK
  <2>4. discovered' \in [Endpoints -> 0..MaxSn]
    BY <1>0, <1>6 DEF CheckLeaseTimeouts, TypeOK
  <2>5. {<<e, discovered[e]>> : e \in {d \in Discovered : Owner[d] \in gone}}
          \in SUBSET (Endpoints \X (0..MaxSn))
    BY DEF Discovered, TypeOK
  <2>6. thread' \in [Threads -> Places]
    BY <1>0, <1>6, <2>5, ThreadType DEF CheckLeaseTimeouts, At
  <2>7. known' \subseteq Remotes
    BY <1>6 DEF CheckLeaseTimeouts, TypeOK
  <2> QED BY <1>6, <2>3, <2>4, <2>6, <2>7 DEF CheckLeaseTimeouts, TypeOK, TypeInv
<1>7. ASSUME RunUnmatchRemoved
      PROVE  TypeInv'
  <2>1. matched' \subseteq Endpoints
    BY <1>7 DEF RunUnmatchRemoved, TypeOK
  <2>2. thread' \in [Threads -> Places]
    BY <1>0, <1>7, ThreadMoves DEF RunUnmatchRemoved, At
  <2> QED BY <1>7, <2>1, <2>2 DEF RunUnmatchRemoved, TypeOK, TypeInv
<1>8. ASSUME Wake \/ Wait
      PROVE  TypeInv'
  <2>1. thread' \in [Threads -> Places]
    <3>1. "check" \in At /\ "idle" \in At
      BY DEF At
    <3>2. \/ thread' = [thread EXCEPT ![MainLoop].at = "check"]
          \/ thread' = [thread EXCEPT ![MainLoop].at = "idle"]
      BY <1>8 DEF Wake, Wait, Goto
    <3>3. \A at \in At : [thread EXCEPT ![MainLoop].at = at] \in [Threads -> Places]
      BY <1>0, ThreadMoves
    <3> QED BY <3>1, <3>2, <3>3
  <2>2. UNCHANGED <<remoteVars, net, losses, known, discovered, received, matched, expiries>>
    BY <1>8 DEF Wake, Wait
  <2>3. TypeOK'
    BY <2>1, <2>2 DEF TypeOK
  <2> QED BY <2>2, <2>3 DEF TypeInv
<1>9. ASSUME NEW t \in Threads, NoteNumber(t)
      PROVE  TypeInv'
  <2>1. PICK item \in thread[t].work :
          received' = [received EXCEPT ![<<Owner[item[1]], Kind[item[1]]>>] =
                         @ \cup thread[t].sns]
    BY <1>9 DEF NoteNumber
  <2> DEFINE w == <<Owner[item[1]], Kind[item[1]]>>
  <2>2. w \in Remotes \X Kinds
    BY DiscoveryAssumption DEF TypeOK, Places, Kinds
  <2>3. received[w] \cup thread[t].sns \in SUBSET Sn
    BY <2>2 DEF TypeOK, Places
  <2>4. received' \in [Remotes \X Kinds -> SUBSET Sn]
    BY <2>1, <2>2, <2>3 DEF TypeOK
  <2>5. thread' \in [Threads -> Places]
    BY <1>9, ThreadMoves DEF NoteNumber, At
  <2>6. UNCHANGED <<remoteVars, net, losses, known, discovered, matched, expiries>>
    BY <1>9 DEF NoteNumber
  <2>7. TypeOK'
    BY <2>4, <2>5, <2>6 DEF TypeOK
  <2> QED BY <2>6, <2>7 DEF TypeInv
<1> QED BY <1>1, <1>2, <1>3, <1>4, <1>5, <1>6, <1>7, <1>8, <1>9 DEF ThreadStep

LEMMA TypeStep == TypeInv /\ [Next]_vars => TypeInv'
<1> SUFFICES ASSUME TypeInv, [Next]_vars PROVE TypeInv'
  OBVIOUS
<1>1. CASE UNCHANGED vars
  BY <1>1 DEF vars, remoteVars, observerVars, TypeInv, TypeOK, SnapshotRegistered
<1>2. CASE Next
  BY <1>2, RemoteTypeOK, ObserverTypeOK DEF Next
<1> QED BY <1>1, <1>2

\* The types, and that SEDP announcers send registered endpoints only.
LEMMA TypeInvariant == Spec => []TypeInv
BY InitTypeInv, TypeStep, PTL DEF Spec

\* Every reachable state of discovery is well typed, for any remotes, endpoints
\* and number of receive threads.
THEOREM DiscoveryTypeCorrect == Spec => []TypeOK
<1>1. TypeInv => TypeOK
  BY DEF TypeInv
<1> QED BY <1>1, TypeInvariant, PTL

-----------------------------------------------------------------------------
\* What a match stands on; neither part is inductive without the other.
MatchInv == MatchedIsDiscovered /\ MatchedReaderReachable

LEMMA InitMatchInv == Init => MatchInv
BY DEF Init, MatchInv, MatchedIsDiscovered, MatchedReaderReachable

\* A step that leaves the main loop where it is, or moves it between places
\* other than the removal, leaves what is pending.
LEMMA PendingStays ==
  ASSUME TypeInv, NEW t \in Threads, thread[t].at # "unmatch", thread'[t].at # "unmatch",
         \A u \in Threads \ {t} : thread'[u] = thread[u]
  PROVE  Pending' = Pending
<1>1. MainLoop \in Threads
  BY DiscoveryAssumption
<1>2. CASE t = MainLoop
  BY <1>2 DEF Pending
<1>3. CASE t # MainLoop
  BY <1>1, <1>3 DEF Pending
<1> QED BY <1>2, <1>3

LEMMA MatchStep == TypeInv /\ MatchInv /\ [Next]_vars => MatchInv'
<1> SUFFICES ASSUME TypeInv, MatchInv, [Next]_vars PROVE MatchInv'
  OBVIOUS
<1> USE DEF remoteVars, observerVars, MatchInv, MatchedIsDiscovered, MatchedReaderReachable
<1>0. TypeOK /\ MainLoop \in Threads
  BY DiscoveryAssumption DEF TypeInv
<1>1. ASSUME UNCHANGED observerVars
      PROVE  MatchInv'
  BY <1>1 DEF Discovered, Pending
<1>2. ASSUME NEW t \in Threads, NEW q \in Remotes, ReceiveSpdp(t, q)
      PROVE  MatchInv'
  <2>1. /\ thread[t].at # "unmatch" /\ thread'[t].at # "unmatch"
        /\ \A u \in Threads \ {t} : thread'[u] = thread[u]
    BY <1>0, <1>2 DEF ReceiveSpdp, Goto, TypeOK
  <2>2. Pending' = Pending
    BY <2>1, PendingStays
  <2> QED BY <1>2, <2>2 DEF ReceiveSpdp, Discovered
<1>3. ASSUME NEW t \in Threads, NEW m \in net, ReceiveData(t, m)
      PROVE  MatchInv'
  <2>1. /\ thread[t].at # "unmatch" /\ thread'[t].at # "unmatch"
        /\ \A u \in Threads \ {t} : thread'[u] = thread[u]
    BY <1>0, <1>3 DEF ReceiveData, TypeOK
  <2>2. Pending' = Pending
    BY <2>1, PendingStays
  <2> QED BY <1>3, <2>2 DEF ReceiveData, Discovered
<1>4. ASSUME NEW t \in Threads, InsertEndpoint(t)
      PROVE  MatchInv'
  <2>1. /\ thread[t].at # "unmatch" /\ thread'[t].at # "unmatch"
        /\ \A u \in Threads \ {t} : thread'[u] = thread[u]
    BY <1>0, <1>4 DEF InsertEndpoint, TypeOK
  <2>2. Pending' = Pending
    BY <2>1, PendingStays
  <2>3. Discovered \subseteq Discovered'
    BY <1>0, <1>4 DEF InsertEndpoint, Discovered, TypeOK, Places
  <2> QED BY <1>4, <2>2, <2>3 DEF InsertEndpoint
<1>5. ASSUME NEW t \in Threads, RunMatchmaking(t)
      PROVE  MatchInv'
  <2>1. /\ thread[t].at # "unmatch" /\ thread'[t].at # "unmatch"
        /\ \A u \in Threads \ {t} : thread'[u] = thread[u]
    BY <1>0, <1>5 DEF RunMatchmaking, Done, TypeOK
  <2>2. Pending' = Pending
    BY <2>1, PendingStays
  <2> QED BY <1>5, <2>2 DEF RunMatchmaking, Matchable, Discovered
<1>6. ASSUME NEW t \in Threads, NEW m \in net, ReceiveHeartbeat(t, m)
      PROVE  MatchInv'
  <2>1. /\ thread[t].at # "unmatch" /\ thread'[t].at # "unmatch"
        /\ \A u \in Threads \ {t} : thread'[u] = thread[u]
    BY <1>0, <1>6 DEF ReceiveHeartbeat, Done, TypeOK
  <2>2. Pending' = Pending
    BY <2>1, PendingStays
  <2> QED BY <1>6, <2>2 DEF ReceiveHeartbeat, Discovered
<1>7. ASSUME NEW gone \in SUBSET known, CheckLeaseTimeouts(gone)
      PROVE  MatchInv'
  <2>1. Pending = {}
    BY <1>7 DEF CheckLeaseTimeouts, Pending
  <2>2. matched \subseteq Discovered
    BY <2>1
  <2>3. Pending' = {d \in Discovered : Owner[d] \in gone}
    <3> DEFINE removed == {<<e, discovered[e]>> : e \in {d \in Discovered : Owner[d] \in gone}}
    <3>1. thread'[MainLoop].at = "unmatch" /\ thread'[MainLoop].work = removed
      BY <1>0, <1>7 DEF CheckLeaseTimeouts, TypeOK
    <3>2. {item[1] : item \in removed} = {d \in Discovered : Owner[d] \in gone}
      <4>1. ASSUME NEW d \in Discovered, Owner[d] \in gone
            PROVE  <<d, discovered[d]>> \in removed /\ <<d, discovered[d]>>[1] = d
        BY <4>1
      <4>2. ASSUME NEW item \in removed
            PROVE  item[1] \in {d \in Discovered : Owner[d] \in gone}
        BY <4>2
      <4> HIDE DEF removed
      <4> QED BY <4>1, <4>2
    <3> QED BY <3>1, <3>2 DEF Pending
  <2>4. Discovered' = {d \in Discovered : Owner[d] \notin gone}
    BY <1>7 DEF CheckLeaseTimeouts, Discovered
  <2>5. matched' = matched /\ known' = known \ gone
    BY <1>7 DEF CheckLeaseTimeouts
  <2> HIDE DEF Pending, Discovered
  <2> QED BY <2>1, <2>2, <2>3, <2>4, <2>5
<1>8. ASSUME RunUnmatchRemoved
      PROVE  MatchInv'
  <2>1. Pending' = {}
    BY <1>0, <1>8 DEF RunUnmatchRemoved, Pending, TypeOK
  <2>2. matched' = matched \ Pending
    BY <1>8 DEF RunUnmatchRemoved, Pending
  <2> QED BY <1>8, <2>1, <2>2 DEF RunUnmatchRemoved, Discovered
<1>9. ASSUME \/ \E q \in Remotes : \/ AnnounceParticipant(q) \/ BeginAnnouncing(q)
                                   \/ AnnounceNext(q) \/ AnnounceLocalEndpoints(q) \/ Crash(q)
             \/ \E e \in Endpoints : RegisterEndpoint(e)
             \/ \E m \in net : Lose(m) \/ ReplyToAckNack(m)
             \/ UNCHANGED vars
      PROVE  UNCHANGED observerVars
  BY <1>9 DEF AnnounceParticipant, BeginAnnouncing, AnnounceNext, AnnounceLocalEndpoints,
              Crash, RegisterEndpoint, Lose, ReplyToAckNack, vars
<1>10. ASSUME Wake \/ Wait
       PROVE  MatchInv'
  <2>1. /\ thread[MainLoop].at # "unmatch" /\ thread'[MainLoop].at # "unmatch"
        /\ \A u \in Threads \ {MainLoop} : thread'[u] = thread[u]
    BY <1>0, <1>10 DEF Wake, Wait, Goto, TypeOK, Places
  <2>2. Pending' = Pending
    BY <1>0, <2>1, PendingStays
  <2> QED BY <1>10, <2>2 DEF Wake, Wait, Discovered
<1>11. ASSUME NEW t \in Threads, NoteNumber(t)
       PROVE  MatchInv'
  <2>1. /\ thread[t].at # "unmatch" /\ thread'[t].at # "unmatch"
        /\ \A u \in Threads \ {t} : thread'[u] = thread[u]
    BY <1>0, <1>11 DEF NoteNumber, TypeOK
  <2>2. Pending' = Pending
    BY <2>1, PendingStays
  <2> QED BY <1>11, <2>2 DEF NoteNumber, Discovered
<1> QED BY <1>1, <1>2, <1>3, <1>4, <1>5, <1>6, <1>7, <1>8, <1>9, <1>10, <1>11
        DEF Next, ThreadStep

LEMMA MatchInvariant == Spec => []MatchInv
BY InitMatchInv, MatchStep, TypeInvariant, PTL DEF Spec

\* Ingestion on any number of threads and the removal of participants in two
\* sections leave no match of an endpoint that is not discovered, except the ones
\* the main loop is about to undo.
THEOREM MatchesAreDiscovered == Spec => []MatchedIsDiscovered
<1>1. MatchInv => MatchedIsDiscovered
  BY DEF MatchInv
<1> QED BY <1>1, MatchInvariant, PTL

\* Nor a match of a remote reader whose participant is gone.
THEOREM MatchedReadersReachable == Spec => []MatchedReaderReachable
<1>1. MatchInv => MatchedReaderReachable
  BY DEF MatchInv
<1> QED BY <1>1, MatchInvariant, PTL

-----------------------------------------------------------------------------
\* What the observer has, and what is on its way to it, comes from registrations
\* that were made; no two endpoints of a SEDP writer share a number; and the
\* number the next registration takes was never received, so that its heartbeat
\* asks for it whatever came before under the same GUID.
NextNumberIsMissing ==
  /\ \A e \in Endpoints : discovered[e] <= local[e]
  /\ \A e, f \in Endpoints :
       e # f /\ Owner[e] = Owner[f] /\ Kind[e] = Kind[f] /\ local[e] # 0
         => local[e] # local[f]
  /\ \A w \in Remotes \X Kinds : nextSn[w] \notin received[w]

\* Numbers in use, received, in flight, in a snapshot and in a thread's hands
\* all lie below the next one.
UsedBelow == \A e \in Endpoints : local[e] < nextSn[<<Owner[e], Kind[e]>>]
ReceivedBelow == \A w \in Remotes \X Kinds : \A n \in received[w] : n < nextSn[w]
DataBelow ==
  \A m \in net : m.type = "data" => m.content <= local[m.ep] /\ m.sn <= local[m.ep]
SnapshotBelow == \A q \in Remotes : \A item \in announcing[q] : item[2] <= local[item[1]]
WorkBelow ==
  \A t \in Threads : \A item \in thread[t].work :
    item[2] <= local[item[1]] /\ \A n \in thread[t].sns : n <= local[item[1]]

SedpInv ==
  /\ NextNumberIsMissing
  /\ UsedBelow /\ ReceivedBelow /\ DataBelow /\ SnapshotBelow /\ WorkBelow

LEMMA InitSedpInv == Init => SedpInv
<1> SUFFICES ASSUME Init PROVE SedpInv
  OBVIOUS
<1>1. \A e \in Endpoints : <<Owner[e], Kind[e]>> \in Remotes \X Kinds
  BY DiscoveryAssumption DEF Kinds
<1> QED BY <1>1 DEF Init, Done, SedpInv, NextNumberIsMissing, UsedBelow, ReceivedBelow,
             DataBelow, SnapshotBelow, WorkBelow

\* No announcement but data carries a content or a number.
LEMMA OthersCarryNoContent ==
  ASSUME NEW m \in SpdpMsg \cup HeartbeatMsg \cup AckNackMsg
  PROVE  m.type # "data"
BY DEF SpdpMsg, HeartbeatMsg, AckNackMsg

\* The data of a registered endpoint, under a content that is not newer.
LEMMA SentBelow ==
  ASSUME NEW e \in Endpoints, NEW c, c <= local[e], TypeOK
  PROVE  /\ Data(e, c).ep = e
         /\ Data(e, c).content <= local[e]
         /\ Data(e, c).sn <= local[e]
BY DEF Data, TypeOK

LEMMA AllSentBelow ==
  ASSUME TypeOK, NEW S \in SUBSET Endpoints, NEW m \in {Data(e, local[e]) : e \in S}
  PROVE  m.content <= local[m.ep] /\ m.sn <= local[m.ep]
<1>1. PICK e \in S : m = Data(e, local[e])
  OBVIOUS
<1>2. e \in Endpoints /\ local[e] <= local[e]
  BY DiscoveryAssumption DEF TypeOK
<1> QED BY <1>1, <1>2, SentBelow

\* A step of the remotes that registers nothing.
LEMMA SendStep ==
  ASSUME TypeInv, SedpInv, UNCHANGED <<local, nextSn, received, discovered, thread>>,
         \A m \in net' \ net :
           m.type = "data" => m.content <= local[m.ep] /\ m.sn <= local[m.ep],
         \A q \in Remotes : \A item \in announcing'[q] : item[2] <= local[item[1]]
  PROVE  SedpInv'
BY DEF SedpInv, NextNumberIsMissing, UsedBelow, ReceivedBelow, DataBelow, SnapshotBelow,
       WorkBelow

\* A registration takes the next number, above all that went before.
LEMMA RegisterStep ==
  ASSUME TypeInv, SedpInv, NEW e \in Endpoints, RegisterEndpoint(e)
  PROVE  SedpInv'
<1> DEFINE w == <<Owner[e], Kind[e]>>
           n == nextSn[w]
<1> USE DEF remoteVars, observerVars
<1>1. TypeOK /\ TypeInv' /\ TypeOK'
  <2>1. TypeInv'
    BY RemoteTypeOK
  <2> QED BY <2>1 DEF TypeInv
<1>2. /\ w \in Remotes \X Kinds /\ MaxSn \in Nat
      /\ \A f \in Endpoints : <<Owner[f], Kind[f]>> \in Remotes \X Kinds
  BY DiscoveryAssumption DEF Kinds
<1>3. /\ local' = [local EXCEPT ![e] = n]
      /\ nextSn' = [nextSn EXCEPT ![w] = n + 1]
      /\ UNCHANGED <<announcing, received, discovered, thread>>
  BY DEF RegisterEndpoint
<1>4. n \in Nat /\ local[e] < n /\ \A f \in Endpoints : local[f] \in Nat
  <2>1. nextSn \in [Remotes \X Kinds -> 1..MaxSn + 1] /\ local \in [Endpoints -> 0..MaxSn]
    BY <1>1 DEF TypeOK
  <2> QED BY <1>2, <2>1 DEF SedpInv, UsedBelow
<1>5. \A f \in Endpoints : local'[f] = IF f = e THEN n ELSE local[f]
  BY <1>1, <1>3 DEF TypeOK
<1>6. \A v \in Remotes \X Kinds : nextSn'[v] = IF v = w THEN n + 1 ELSE nextSn[v]
  BY <1>1, <1>3 DEF TypeOK
<1>7. \A f \in Endpoints : \A i \in Nat : i <= local[f] => i <= local'[f]
  BY <1>4, <1>5
<1>8. UsedBelow'
  BY <1>2, <1>4, <1>5, <1>6 DEF SedpInv, UsedBelow
<1>9. ReceivedBelow'
  <2> SUFFICES ASSUME NEW v \in Remotes \X Kinds, NEW i \in received[v]
               PROVE  i < nextSn'[v]
    BY <1>3 DEF ReceivedBelow
  <2>1. i \in Nat /\ nextSn[v] \in Nat
    BY <1>1, <1>2 DEF TypeOK, Sn
  <2>2. i < nextSn[v]
    BY DEF SedpInv, ReceivedBelow
  <2> QED BY <1>4, <1>6, <2>1, <2>2
<1>10. SnapshotBelow'
  <2> SUFFICES ASSUME NEW q \in Remotes, NEW item \in announcing[q]
               PROVE  item[2] <= local'[item[1]]
    BY <1>3 DEF SnapshotBelow
  <2>1. item[1] \in Endpoints /\ item[2] \in Nat
    BY <1>1 DEF TypeOK, Sn
  <2> QED BY <1>7, <2>1 DEF SedpInv, SnapshotBelow
<1>11. WorkBelow'
  <2> SUFFICES ASSUME NEW t \in Threads, NEW item \in thread[t].work
               PROVE  /\ item[2] <= local'[item[1]]
                      /\ \A i \in thread[t].sns : i <= local'[item[1]]
    BY <1>3 DEF WorkBelow
  <2>1. item[1] \in Endpoints /\ item[2] \in Nat /\ thread[t].sns \in SUBSET Nat
    BY <1>1, <1>2 DEF TypeOK, Places, Sn
  <2>2. item[2] <= local[item[1]] /\ \A i \in thread[t].sns : i <= local[item[1]]
    BY DEF SedpInv, WorkBelow
  <2> QED BY <1>7, <2>1, <2>2
<1>12. DataBelow'
  <2> DEFINE d == [type |-> "data", ep |-> e, content |-> n, sn |-> n]
             numbers == {n} \cup {local[f] : f \in OfKind(Owner[e], Kind[e]) \ {e}}
             beat == SedpWriterRange(Owner[e], Kind[e], numbers)
  <2>1. net' = net \cup {d} \cup beat
    BY DEF RegisterEndpoint
  <2>2. \A m \in beat : m.type # "data"
    BY DEF SedpWriterRange
  <2>3. d.content <= local'[d.ep] /\ d.sn <= local'[d.ep]
    BY <1>4, <1>5
  <2>4. ASSUME NEW m \in net, m.type = "data"
        PROVE  m.content <= local'[m.ep] /\ m.sn <= local'[m.ep]
    <3>1. m \in DataMsg
      BY <1>1, <2>4, OthersCarryNoContent DEF TypeOK
    <3>2. m.ep \in Endpoints /\ m.content \in Nat /\ m.sn \in Nat
      BY <3>1 DEF DataMsg, Sn
    <3>3. m.content <= local[m.ep] /\ m.sn <= local[m.ep]
      BY <2>4 DEF SedpInv, DataBelow
    <3> QED BY <1>7, <3>2, <3>3
  <2> HIDE DEF d, beat
  <2> QED BY <2>1, <2>2, <2>3, <2>4 DEF DataBelow
<1>13. NextNumberIsMissing'
  <2>1. \A f \in Endpoints : discovered'[f] <= local'[f]
    <3>1. \A f \in Endpoints : discovered[f] \in Nat
      BY <1>1, <1>2 DEF TypeOK
    <3>2. \A f \in Endpoints : discovered[f] <= local[f]
      BY DEF SedpInv, NextNumberIsMissing
    <3> QED BY <1>3, <1>7, <3>1, <3>2
  <2>2. \A v \in Remotes \X Kinds : nextSn'[v] \notin received'[v]
    <3>1. \A v \in Remotes \X Kinds : nextSn'[v] \in Nat
      BY <1>1, <1>2 DEF TypeOK
    <3> QED BY <1>9, <3>1 DEF ReceivedBelow
  <2>3. ASSUME NEW f \in Endpoints, NEW g \in Endpoints, f # g, Owner[f] = Owner[g],
               Kind[f] = Kind[g], local'[f] # 0
        PROVE  local'[f] # local'[g]
    <3>1. CASE f = e
      BY <1>4, <1>5, <2>3, <3>1 DEF SedpInv, UsedBelow
    <3>2. CASE g = e
      BY <1>4, <1>5, <2>3, <3>2 DEF SedpInv, UsedBelow
    <3>3. CASE f # e /\ g # e
      BY <1>5, <2>3, <3>3 DEF SedpInv, NextNumberIsMissing
    <3> QED BY <3>1, <3>2, <3>3
  <2> QED BY <2>1, <2>2, <2>3 DEF NextNumberIsMissing
<1> QED BY <1>8, <1>9, <1>10, <1>11, <1>12, <1>13 DEF SedpInv

\* A datagram that is answered with data answers with data below.
LEMMA HeartbeatsCarryNone ==
  ASSUME NEW q, NEW m \in Heartbeats(q)
  PROVE  m.type # "data"
BY DEF Heartbeats, SedpWriterRange

\* What the remotes do keeps the numbers apart and below the next one.
LEMMA RemoteSedpStep ==
  ASSUME TypeInv, SedpInv,
         \/ \E q \in Remotes : \/ AnnounceParticipant(q) \/ BeginAnnouncing(q)
                               \/ AnnounceNext(q) \/ AnnounceLocalEndpoints(q) \/ Crash(q)
         \/ \E e \in Endpoints : RegisterEndpoint(e)
         \/ \E m \in net : Lose(m) \/ ReplyToAckNack(m)
  PROVE  SedpInv'
<1> USE DEF remoteVars, observerVars
<1>0. TypeOK /\ \A q \in Remotes : \A item \in announcing[q] : item[2] <= local[item[1]]
  BY DEF TypeInv, SedpInv, SnapshotBelow
<1>a. \A e \in Endpoints : local[e] <= local[e]
  BY <1>0, DiscoveryAssumption DEF TypeOK
<1>1. ASSUME NEW q \in Remotes, AnnounceParticipant(q)
      PROVE  SedpInv'
  BY <1>0, <1>1, SendStep DEF AnnounceParticipant, Spdp
<1>2. ASSUME NEW q \in Remotes, BeginAnnouncing(q)
      PROVE  SedpInv'
  <2>1. \A item \in {<<e, local[e]>> : e \in Registered(q)} : item[2] <= local[item[1]]
    BY <1>a DEF Registered
  <2>2. \A p \in Remotes : \A item \in announcing'[p] : item[2] <= local[item[1]]
    BY <1>0, <1>2, <2>1 DEF BeginAnnouncing, TypeOK
  <2> QED BY <1>2, <2>2, SendStep DEF BeginAnnouncing
<1>3. ASSUME NEW q \in Remotes, AnnounceNext(q)
      PROVE  SedpInv'
  <2>1. PICK item \in announcing[q] :
          /\ announcing' = [announcing EXCEPT ![q] = @ \ {item}]
          /\ net' = net \cup {Data(item[1], item[2])} \cup Heartbeats(q)
          /\ UNCHANGED <<up, losses, local, nextSn, observerVars>>
    BY <1>3 DEF AnnounceNext
  <2>2. \A p \in Remotes : \A i \in announcing'[p] : i[2] <= local[i[1]]
    BY <1>0, <2>1 DEF TypeOK
  <2>3. item[1] \in Endpoints /\ item[2] <= local[item[1]]
    BY <1>0, <2>1 DEF TypeOK
  <2>4. \A m \in net' \ net :
          m.type = "data" => m.content <= local[m.ep] /\ m.sn <= local[m.ep]
    <3> DEFINE d == Data(item[1], item[2])
    <3>1. d.content <= local[d.ep] /\ d.sn <= local[d.ep]
      BY <1>0, <2>3, SentBelow
    <3>2. net' = net \cup {d} \cup Heartbeats(q)
      BY <2>1
    <3> HIDE DEF d
    <3> QED BY <3>1, <3>2, HeartbeatsCarryNone
  <2> QED BY <2>1, <2>2, <2>4, SendStep
<1>4. ASSUME NEW q \in Remotes, AnnounceLocalEndpoints(q)
      PROVE  SedpInv'
  <2>1. \A m \in net' \ net :
          m.type = "data" => m.content <= local[m.ep] /\ m.sn <= local[m.ep]
    <3> DEFINE sent == {Data(e, local[e]) : e \in Registered(q)}
    <3>1. Registered(q) \in SUBSET Endpoints
      BY DEF Registered
    <3>2. \A m \in sent : m.content <= local[m.ep] /\ m.sn <= local[m.ep]
      BY <1>0, <3>1, AllSentBelow
    <3>3. net' = net \cup sent \cup Heartbeats(q)
      BY <1>4 DEF AnnounceLocalEndpoints
    <3> HIDE DEF sent
    <3> QED BY <3>2, <3>3, HeartbeatsCarryNone
  <2> QED BY <1>0, <1>4, <2>1, SendStep DEF AnnounceLocalEndpoints
<1>5. ASSUME NEW q \in Remotes, Crash(q)
      PROVE  SedpInv'
  <2>1. \A p \in Remotes : \A i \in announcing'[p] : i[2] <= local[i[1]]
    BY <1>0, <1>5 DEF Crash, TypeOK
  <2> QED BY <1>5, <2>1, SendStep DEF Crash
<1>6. ASSUME NEW m \in net, Lose(m)
      PROVE  SedpInv'
  BY <1>0, <1>6, SendStep DEF Lose
<1>7. ASSUME NEW m \in net, ReplyToAckNack(m)
      PROVE  SedpInv'
  <2>1. \A r \in RangeByGuid(m.to, m.kind) : r.type # "data"
    BY DEF RangeByGuid
  <2>2. \A r \in net' \ net :
          r.type = "data" => r.content <= local[r.ep] /\ r.sn <= local[r.ep]
    <3> DEFINE S == {f \in OfKind(m.to, m.kind) : local[f] \in m.sns}
               sent == {Data(e, local[e]) : e \in S}
    <3>1. S \in SUBSET Endpoints
      BY DEF OfKind, Registered
    <3>2. net' = (net \ {m}) \cup sent \cup RangeByGuid(m.to, m.kind)
      BY <1>7 DEF ReplyToAckNack
    <3> HIDE DEF S
    <3>3. \A r \in sent : r.content <= local[r.ep] /\ r.sn <= local[r.ep]
      BY <1>0, <3>1, AllSentBelow
    <3> HIDE DEF sent
    <3> QED BY <2>1, <3>2, <3>3
  <2> QED BY <1>0, <1>7, <2>2, SendStep DEF ReplyToAckNack
<1> QED BY <1>1, <1>2, <1>3, <1>4, <1>5, <1>6, <1>7, RegisterStep

\* A step of the observer registers nothing and sends no data.
LEMMA ObserverSedpStep ==
  ASSUME TypeInv, SedpInv,
         \/ \E t \in Threads :
              \/ \E q \in Remotes : ReceiveSpdp(t, q)
              \/ \E m \in net : ReceiveData(t, m) \/ ReceiveHeartbeat(t, m)
              \/ ThreadStep(t)
         \/ \E gone \in SUBSET known : CheckLeaseTimeouts(gone)
         \/ RunUnmatchRemoved \/ Wake \/ Wait
  PROVE  SedpInv'
<1> USE DEF remoteVars, observerVars
<1>0. /\ TypeOK
      /\ NextNumberIsMissing /\ UsedBelow /\ ReceivedBelow /\ DataBelow /\ SnapshotBelow
      /\ WorkBelow
  BY DEF TypeInv, SedpInv
<1>a. MainLoop \in Threads
  BY DiscoveryAssumption
<1>b. \A q : \A m \in RequestSedp(q) : m.type # "data"
  BY DEF RequestSedp, AckNack
<1>1. ASSUME NEW t \in Threads, NEW q \in Remotes, ReceiveSpdp(t, q)
      PROVE  SedpInv'
  <2>1. DataBelow'
    BY <1>0, <1>b, <1>1 DEF ReceiveSpdp, DataBelow
  <2>2. WorkBelow'
    BY <1>0, <1>1 DEF ReceiveSpdp, Goto, WorkBelow, TypeOK
  <2> QED BY <1>0, <1>1, <2>1, <2>2
      DEF ReceiveSpdp, SedpInv, NextNumberIsMissing, UsedBelow, ReceivedBelow, SnapshotBelow
<1>2. ASSUME NEW t \in Threads, NEW m \in net, ReceiveData(t, m)
      PROVE  SedpInv'
  <2>1. m.content <= local[m.ep] /\ m.sn <= local[m.ep]
    BY <1>0, <1>2 DEF ReceiveData, DataBelow
  <2>2. DataBelow'
    BY <1>0, <1>2 DEF ReceiveData, DataBelow
  <2>3. WorkBelow'
    <3>1. thread' = [thread EXCEPT ![t] = [at |-> "note", work |-> {<<m.ep, m.content>>},
                                          from |-> {Owner[m.ep]}, sns |-> {m.sn}]]
      BY <1>2 DEF ReceiveData
    <3>2. local' = local
      BY <1>2 DEF ReceiveData
    <3> QED BY <1>0, <2>1, <3>1, <3>2 DEF WorkBelow, TypeOK
  <2> QED BY <1>0, <1>2, <2>2, <2>3
      DEF ReceiveData, SedpInv, NextNumberIsMissing, UsedBelow, ReceivedBelow, SnapshotBelow
<1>3. ASSUME NEW t \in Threads, NEW m \in net, ReceiveHeartbeat(t, m)
      PROVE  SedpInv'
  <2>1. DataBelow'
    BY <1>0, <1>3 DEF ReceiveHeartbeat, AckNack, DataBelow
  <2>2. WorkBelow'
    BY <1>0, <1>3 DEF ReceiveHeartbeat, Done, WorkBelow, TypeOK
  <2> QED BY <1>0, <1>3, <2>1, <2>2
      DEF ReceiveHeartbeat, SedpInv, NextNumberIsMissing, UsedBelow, ReceivedBelow,
          SnapshotBelow
<1>4. ASSUME NEW t \in Threads, InsertEndpoint(t)
      PROVE  SedpInv'
  <2>1. PICK item \in thread[t].work :
          discovered' = [discovered EXCEPT ![item[1]] = item[2]]
    BY <1>4 DEF InsertEndpoint
  <2>2. item[2] <= local[item[1]]
    BY <1>0, <2>1 DEF WorkBelow
  <2>3. \A e \in Endpoints : discovered'[e] <= local'[e]
    BY <1>0, <1>4, <2>1, <2>2 DEF InsertEndpoint, NextNumberIsMissing, TypeOK
  <2>4. WorkBelow'
    BY <1>0, <1>4 DEF InsertEndpoint, WorkBelow, TypeOK
  <2> QED BY <1>0, <1>4, <2>3, <2>4
      DEF InsertEndpoint, SedpInv, NextNumberIsMissing, UsedBelow, ReceivedBelow, DataBelow,
          SnapshotBelow
<1>5. ASSUME NEW t \in Threads, RunMatchmaking(t)
      PROVE  SedpInv'
  <2>1. DataBelow'
    BY <1>0, <1>b, <1>5 DEF RunMatchmaking, DataBelow
  <2>2. WorkBelow'
    BY <1>0, <1>5 DEF RunMatchmaking, Done, WorkBelow, TypeOK
  <2> QED BY <1>0, <1>5, <2>1, <2>2
      DEF RunMatchmaking, SedpInv, NextNumberIsMissing, UsedBelow, ReceivedBelow, SnapshotBelow
<1>6. ASSUME NEW gone \in SUBSET known, CheckLeaseTimeouts(gone)
      PROVE  SedpInv'
  <2> DEFINE removed == {<<e, discovered[e]>> : e \in {d \in Discovered : Owner[d] \in gone}}
  <2>1. discovered' = [e \in Endpoints |-> IF Owner[e] \in gone THEN 0 ELSE discovered[e]]
    BY <1>6 DEF CheckLeaseTimeouts
  <2>2. \A e \in Endpoints : discovered'[e] <= local'[e]
    <3>1. \A e \in Endpoints : local[e] \in Nat /\ discovered[e] <= local[e]
      BY <1>0, DiscoveryAssumption DEF TypeOK, NextNumberIsMissing
    <3> QED BY <1>6, <2>1, <3>1 DEF CheckLeaseTimeouts
  <2>3. \A item \in removed : item[2] <= local[item[1]]
    BY <1>0 DEF Discovered, NextNumberIsMissing
  <2>4. WorkBelow'
    <3>1. /\ thread' = [thread EXCEPT ![MainLoop] =
                          [at |-> "unmatch", from |-> {}, sns |-> {}, work |-> removed]]
          /\ local' = local
      BY <1>6 DEF CheckLeaseTimeouts
    <3> HIDE DEF removed
    <3> QED BY <1>0, <1>a, <2>3, <3>1 DEF WorkBelow, TypeOK
  <2> QED BY <1>0, <1>6, <2>2, <2>4
      DEF CheckLeaseTimeouts, SedpInv, NextNumberIsMissing, UsedBelow, ReceivedBelow,
          DataBelow, SnapshotBelow
<1>7. ASSUME RunUnmatchRemoved
      PROVE  SedpInv'
  <2>1. WorkBelow'
    BY <1>0, <1>a, <1>7 DEF RunUnmatchRemoved, WorkBelow, TypeOK
  <2> QED BY <1>0, <1>7, <2>1
      DEF RunUnmatchRemoved, SedpInv, NextNumberIsMissing, UsedBelow, ReceivedBelow,
          DataBelow, SnapshotBelow
<1>8. ASSUME Wake \/ Wait
      PROVE  SedpInv'
  <2>1. WorkBelow'
    BY <1>0, <1>a, <1>8 DEF Wake, Wait, Goto, WorkBelow, TypeOK, Places
  <2> QED BY <1>0, <1>8, <2>1
      DEF Wake, Wait, SedpInv, NextNumberIsMissing, UsedBelow, ReceivedBelow, DataBelow,
          SnapshotBelow
<1>9. ASSUME NEW t \in Threads, NoteNumber(t)
      PROVE  SedpInv'
  <2>1. PICK item \in thread[t].work :
          received' = [received EXCEPT ![<<Owner[item[1]], Kind[item[1]]>>] =
                         @ \cup thread[t].sns]
    BY <1>9 DEF NoteNumber
  <2> DEFINE w == <<Owner[item[1]], Kind[item[1]]>>
  <2>2. item[1] \in Endpoints /\ w \in Remotes \X Kinds /\ thread[t].sns \in SUBSET Nat
    BY <1>0, DiscoveryAssumption DEF TypeOK, Places, Kinds, Sn
  <2>3. local[item[1]] \in Nat /\ nextSn[w] \in Nat /\ local[item[1]] < nextSn[w]
    <3>1. nextSn \in [Remotes \X Kinds -> 1..MaxSn + 1] /\ local \in [Endpoints -> 0..MaxSn]
      BY <1>0 DEF TypeOK
    <3>2. MaxSn \in Nat
      BY DiscoveryAssumption
    <3>3. local[item[1]] < nextSn[w]
      BY <1>0, <2>2 DEF UsedBelow
    <3> QED BY <2>2, <3>1, <3>2, <3>3
  <2>4. \A n \in thread[t].sns : n <= local[item[1]]
    BY <1>0 DEF WorkBelow
  <2>5. \A n \in thread[t].sns : n < nextSn[w]
    BY <2>2, <2>3, <2>4
  <2>6. ReceivedBelow'
    <3>1. nextSn' = nextSn
      BY <1>9 DEF NoteNumber
    <3> HIDE DEF w
    <3>2. received' = [received EXCEPT ![w] = @ \cup thread[t].sns]
      BY <2>1 DEF w
    <3> QED BY <1>0, <2>2, <2>5, <3>1, <3>2 DEF ReceivedBelow, TypeOK
  <2>7. NextNumberIsMissing'
    <3>1. \A v \in Remotes \X Kinds : nextSn'[v] \in Nat
      BY <1>0, <1>9, DiscoveryAssumption DEF NoteNumber, TypeOK
    <3>2. \A v \in Remotes \X Kinds : nextSn'[v] \notin received'[v]
      BY <2>6, <3>1 DEF ReceivedBelow
    <3> QED BY <1>0, <1>9, <3>2 DEF NoteNumber, NextNumberIsMissing
  <2>8. WorkBelow'
    BY <1>0, <1>9 DEF NoteNumber, WorkBelow, TypeOK
  <2> QED BY <1>0, <1>9, <2>6, <2>7, <2>8
      DEF NoteNumber, SedpInv, UsedBelow, DataBelow, SnapshotBelow
<1> QED BY <1>1, <1>2, <1>3, <1>4, <1>5, <1>6, <1>7, <1>8, <1>9 DEF ThreadStep

LEMMA SedpStep == TypeInv /\ SedpInv /\ [Next]_vars => SedpInv'
<1> SUFFICES ASSUME TypeInv, SedpInv, [Next]_vars PROVE SedpInv'
  OBVIOUS
<1>1. CASE UNCHANGED vars
  BY <1>1, SendStep DEF vars, remoteVars, observerVars, SedpInv, SnapshotBelow
<1>2. CASE Next
  BY <1>2, RemoteSedpStep, ObserverSedpStep DEF Next
<1> QED BY <1>1, <1>2

\* However late, lost, repeated or overtaken the announcements are, on any number
\* of threads and across expiries and registrations under the same GUID, the
\* observer never holds a registration that was not made, and the number of the
\* next one is always still to be asked for.
THEOREM NextNumberMissing == Spec => []NextNumberIsMissing
<1>1. SedpInv => NextNumberIsMissing
  BY DEF SedpInv
<1> QED BY <1>1, InitSedpInv, SedpStep, TypeInvariant, PTL DEF Spec
=============================================================================
