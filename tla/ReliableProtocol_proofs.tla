----------------------- MODULE ReliableProtocol_proofs ----------------------
(***************************************************************************)
(* Machine-checked theorems about ReliableProtocol, for any number of      *)
(* writers and readers, any history policy and any bound.                  *)
(***************************************************************************)
EXTENDS ReliableProtocol, TLAPS

(***************************************************************************)
(* What a writer holds it has stored, and it numbers no sample twice.      *)
(***************************************************************************)
StoreInv ==
  \A w \in Writer :
    /\ cache[w] \subseteq published[w]
    /\ Samples(durable[w]) \subseteq published[w]
    /\ pending[w] \cap published[w] = {}
    /\ \A s \in pending[w] \cup published[w] : s < nextSn[w]

(***************************************************************************)
(* Datagrams tell the truth for as long as the network keeps them.         *)
(***************************************************************************)
NetInv ==
  \A m \in net :
    /\ m.type = "DATA" => m.sn \in published[m.w]
    /\ m.type = "HEARTBEAT" => m.last = 0 \/ m.last \in published[m.w]
    /\ m.type = "ACKNACK" => m.ack = 0 \/ m.ack \in published[m.w] \cap received[m.r]

IInv == TypeOK /\ StoreInv /\ NetInv /\ ProgressIsReceived /\ OnlyStoredDelivered

-----------------------------------------------------------------------------
(* The operators the actions are built from                                *)

\* A two-level update changes one entry.
LEMMA UpdateEntry ==
  ASSUME NEW S, NEW f \in [Writer -> [Reader -> S]],
         NEW w \in Writer, NEW r \in Reader, NEW x \in S
  PROVE  /\ [f EXCEPT ![w][r] = x] \in [Writer -> [Reader -> S]]
         /\ \A v \in Writer, q \in Reader :
              [f EXCEPT ![w][r] = x][v][q] = IF v = w /\ q = r THEN x ELSE f[v][q]
OBVIOUS

\* What each kind of datagram carries.
LEMMA MessageFields ==
  ASSUME NEW m \in Message
  PROVE  /\ m.w \in Writer
         /\ m.r \in Reader
         /\ m.type = "DATA" => m.sn \in Sn
         /\ m.type = "HEARTBEAT" => /\ m.first \in Sn
                                    /\ m.last \in 0..MaxSn
                                    /\ m.last = 0 \/ m.first <= m.last
         /\ m.type = "ACKNACK" => /\ m.ack \in 0..MaxSn
                                  /\ m.missing \in SUBSET Sn
<1>1. CASE m \in DataMsg
  BY <1>1 DEF DataMsg
<1>2. CASE m \in HeartbeatMsg
  BY <1>2 DEF HeartbeatMsg
<1>3. CASE m \in AckNackMsg
  <2>1. m.missing \in {{}} \/ m.missing \in SUBSET Sn
    BY <1>3 DEF AckNackMsg
  <2>2. /\ m.w \in Writer /\ m.r \in Reader /\ m.type = "ACKNACK"
        /\ m.ack \in 0..MaxSn \/ m.ack = 0
    BY <1>3 DEF AckNackMsg
  <2> QED BY <2>1, <2>2, ProtocolAssumption
<1> QED BY <1>1, <1>2, <1>3 DEF Message

\* The datagrams the actions build are datagrams.
LEMMA DataIsMessage ==
  ASSUME NEW w \in Writer, NEW r \in Reader, NEW S \in SUBSET Sn
  PROVE  /\ Data(w, r, S) \subseteq Message
         /\ \A m \in Data(w, r, S) : m.type = "DATA" /\ m.w = w /\ m.r = r /\ m.sn \in S
BY DEF Data, Message, DataMsg

LEMMA HeartbeatIsMessage ==
  ASSUME NEW w \in Writer, NEW r \in Reader, NEW f \in Sn, NEW l \in 0..MaxSn,
         l = 0 \/ f <= l
  PROVE  /\ Heartbeat(w, r, f, l) \in Message
         /\ Heartbeat(w, r, f, l).type = "HEARTBEAT"
         /\ Heartbeat(w, r, f, l).w = w
         /\ Heartbeat(w, r, f, l).last = l
BY DEF Heartbeat, Message, HeartbeatMsg

LEMMA AckNackIsMessage ==
  ASSUME NEW w \in Writer, NEW r \in Reader, NEW a \in 0..MaxSn, NEW S \in SUBSET Sn,
         a = 0 \/ S = {}
  PROVE  /\ AckNack(w, r, a, S) \in Message
         /\ AckNack(w, r, a, S).type = "ACKNACK"
         /\ AckNack(w, r, a, S).w = w
         /\ AckNack(w, r, a, S).r = r
         /\ AckNack(w, r, a, S).ack = a
BY DEF AckNack, Message, AckNackMsg

\* An insertion brings nothing into the cache but the new number.
LEMMA AddChangeBound ==
  ASSUME NEW q, NEW c, NEW sn
  PROVE  AddChange(q, c, sn) \subseteq c \cup {sn}
BY DEF AddChange, TrimToDepth, MakeRoom, DropOldest

\* ... and into the durability cache.
LEMMA PushDurableBound ==
  ASSUME NEW q, NEW S, NEW d \in Seq(S), NEW sn \in S
  PROVE  /\ PushDurable(q, d, sn) \in Seq(S)
         /\ Samples(PushDurable(q, d, sn)) \subseteq Samples(d) \cup {sn}
<1> DEFINE grown == Append(d, sn)
<1>1. /\ grown \in Seq(S)
      /\ Len(grown) = Len(d) + 1
      /\ \A i \in 1..Len(d) : grown[i] = d[i]
      /\ grown[Len(d) + 1] = sn
  OBVIOUS
<1>2. Samples(grown) \subseteq Samples(d) \cup {sn}
  BY <1>1 DEF Samples
<1>3. /\ Tail(grown) \in Seq(S)
      /\ \A i \in 1..Len(Tail(grown)) : Tail(grown)[i] = grown[i + 1]
      /\ Len(Tail(grown)) = Len(d)
  BY <1>1
<1>4. Samples(Tail(grown)) \subseteq Samples(grown)
  BY <1>1, <1>3 DEF Samples
<1> QED BY <1>1, <1>2, <1>3, <1>4 DEF PushDurable

-----------------------------------------------------------------------------
LEMMA InitIInv == Init => IInv
<1> SUFFICES ASSUME Init PROVE IInv
  OBVIOUS
<1>1. TypeOK
  BY ProtocolAssumption DEF Init, TypeOK, Sn
<1>2. StoreInv /\ NetInv
  BY DEF Init, StoreInv, NetInv, Samples
<1>3. ProgressIsReceived /\ OnlyStoredDelivered
  BY DEF Init, ProgressIsReceived, OnlyStoredDelivered
<1> QED BY <1>1, <1>2, <1>3 DEF IInv

-----------------------------------------------------------------------------
(* Each action preserves the invariant. Every lemma says which conjuncts   *)
(* the action can disturb; the others follow from what it leaves alone.    *)

LEMMA AllocateSnInv ==
  ASSUME IInv, NEW w \in Writer, AllocateSn(w)
  PROVE  IInv'
<1> USE DEF IInv, AllocateSn, readerVars, bounds
<1>1. nextSn[w] \in Sn
  BY ProtocolAssumption DEF TypeOK, Sn
<1>2. TypeOK'
  BY <1>1, ProtocolAssumption DEF TypeOK, Sn
<1>3. StoreInv'
  BY <1>1 DEF TypeOK, StoreInv, Sn
<1>4. NetInv'
  BY DEF NetInv
<1>5. (ProgressIsReceived /\ OnlyStoredDelivered)'
  BY DEF ProgressIsReceived, OnlyStoredDelivered
<1> QED BY <1>2, <1>3, <1>4, <1>5

LEMMA RefuseChangeInv ==
  ASSUME IInv, NEW w \in Writer, NEW sn \in Sn, RefuseChange(w, sn)
  PROVE  IInv'
<1> USE DEF IInv, RefuseChange, readerVars, bounds
<1>1. TypeOK'
  BY DEF TypeOK
<1>2. StoreInv'
  BY DEF TypeOK, StoreInv
<1>3. NetInv'
  BY DEF NetInv
<1>4. (ProgressIsReceived /\ OnlyStoredDelivered)'
  BY DEF ProgressIsReceived, OnlyStoredDelivered
<1> QED BY <1>1, <1>2, <1>3, <1>4

LEMMA StoreChangeInv ==
  ASSUME IInv, NEW w \in Writer, NEW sn \in Sn, StoreChange(w, sn)
  PROVE  IInv'
<1> USE DEF IInv, StoreChange, readerVars, bounds
<1>1. AddChange(Qos, cache[w], sn) \subseteq cache[w] \cup {sn}
  BY AddChangeBound
<1>2. durable[w] \in Seq(Sn)
  BY DEF TypeOK
<1>3. /\ PushDurable(Qos, durable[w], sn) \in Seq(Sn)
      /\ Samples(PushDurable(Qos, durable[w], sn)) \subseteq Samples(durable[w]) \cup {sn}
  BY <1>2, PushDurableBound
<1>4. TypeOK'
  BY <1>1, <1>3 DEF TypeOK
<1>5. \A v \in Writer : published[v] \subseteq published'[v]
  BY DEF TypeOK
<1>6. StoreInv'
  <2> SUFFICES ASSUME NEW v \in Writer
               PROVE  /\ cache'[v] \subseteq published'[v]
                      /\ Samples(durable'[v]) \subseteq published'[v]
                      /\ pending'[v] \cap published'[v] = {}
                      /\ \A s \in pending'[v] \cup published'[v] : s < nextSn'[v]
    BY DEF StoreInv
  <2>1. CASE v = w
    <3>1. cache'[v] \subseteq published'[v]
      BY <2>1, <1>1 DEF TypeOK, StoreInv
    <3>2. Samples(durable'[v]) \subseteq published'[v]
      BY <2>1, <1>3 DEF TypeOK, StoreInv
    <3>3. pending'[v] \cap published'[v] = {}
      BY <2>1 DEF TypeOK, StoreInv
    <3>4. \A s \in pending'[v] \cup published'[v] : s < nextSn'[v]
      BY <2>1 DEF TypeOK, StoreInv
    <3> QED BY <3>1, <3>2, <3>3, <3>4
  <2>2. CASE v # w
    BY <2>2 DEF TypeOK, StoreInv
  <2> QED BY <2>1, <2>2
<1>7. NetInv'
  <2> SUFFICES ASSUME NEW m \in net PROVE NetInv!(m)'
    BY DEF NetInv
  <2>1. m.w \in Writer
    BY MessageFields DEF TypeOK
  <2> QED BY <2>1, <1>5 DEF NetInv
<1>8. ProgressIsReceived'
  BY <1>5 DEF ProgressIsReceived
<1>9. OnlyStoredDelivered'
  BY <1>5 DEF OnlyStoredDelivered, TypeOK
<1> QED BY <1>4, <1>6, <1>7, <1>8, <1>9

\* Heartbeats announce the ends of the cache, DATA what is in it.
LEMMA TickInv ==
  ASSUME IInv, NEW w \in Writer, Tick(w)
  PROVE  IInv'
<1> USE DEF IInv, Tick, writerVars, readerVars, bounds
<1> PICK first \in Sn, last \in 0..MaxSn :
      /\ IsHeartbeatRange(cache[w], first, last)
      /\ net' = net \cup (UNION {Data(w, r, Unsent(w, r)) : r \in Proxies(w)})
                    \cup {Heartbeat(w, r, first, last) : r \in Proxies(w)}
  OBVIOUS
<1>1. last = 0 \/ first <= last
  BY DEF IsHeartbeatRange
<1>2. last = 0 \/ last \in published[w]
  BY DEF IsHeartbeatRange, StoreInv
<1>3. \A r \in Proxies(w) : r \in Reader /\ Unsent(w, r) \in SUBSET Sn
                            /\ Unsent(w, r) \subseteq published[w]
  BY DEF Proxies, Unsent, TypeOK, StoreInv
<1>4. ASSUME NEW m \in net'
      PROVE  /\ m \in Message
             /\ NetInv!(m)
  <2>1. CASE m \in net
    BY <2>1 DEF NetInv, TypeOK
  <2>2. CASE \E r \in Proxies(w) : m \in Data(w, r, Unsent(w, r))
    <3> PICK r \in Proxies(w) : m \in Data(w, r, Unsent(w, r))
      BY <2>2
    <3>1. m \in Message /\ m.type = "DATA" /\ m.w = w /\ m.sn \in Unsent(w, r)
      BY <1>3, DataIsMessage
    <3> QED BY <3>1, <1>3
  <2>3. CASE \E r \in Proxies(w) : m = Heartbeat(w, r, first, last)
    <3> PICK r \in Proxies(w) : m = Heartbeat(w, r, first, last)
      BY <2>3
    <3>1. m \in Message /\ m.type = "HEARTBEAT" /\ m.w = w /\ m.last = last
      BY <1>1, <1>3, HeartbeatIsMessage
    <3> QED BY <3>1, <1>2
  <2> QED BY <2>1, <2>2, <2>3
<1>5. TypeOK'
  BY <1>4 DEF TypeOK
<1>6. NetInv'
  BY <1>4 DEF NetInv
<1>7. (StoreInv /\ ProgressIsReceived /\ OnlyStoredDelivered)'
  BY DEF StoreInv, ProgressIsReceived, OnlyStoredDelivered
<1> QED BY <1>5, <1>6, <1>7

-----------------------------------------------------------------------------
(* A fresh proxy owes nothing, or starts past what it was sent unasked.    *)
LEMMA MatchReaderInv ==
  ASSUME IInv, NEW w \in Writer, NEW r \in Reader, MatchReader(w, r)
  PROVE  IInv'
<1> USE DEF IInv, MatchReader, writerVars, readerVars, bounds
<1>1. CASE Qos.durability = "Volatile"
  <2>1. /\ nextUnsent' = [nextUnsent EXCEPT ![w][r] = 1]
        /\ net' = net
    BY <1>1
  <2>2. TypeOK'
    BY <2>1, ProtocolAssumption DEF TypeOK
  <2>3. (StoreInv /\ NetInv /\ OnlyStoredDelivered)'
    BY <2>1 DEF StoreInv, NetInv, OnlyStoredDelivered
  <2>4. ProgressIsReceived'
    BY <2>1 DEF ProgressIsReceived, TypeOK
  <2> QED BY <2>2, <2>3, <2>4
<1>2. CASE Qos.durability # "Volatile"
  <2> PICK n \in 1..MaxSn + 1 :
        /\ IsJoinPoint(durable[w], n)
        /\ nextUnsent' = [nextUnsent EXCEPT ![w][r] = n]
        /\ net' = net \cup Data(w, r, Samples(durable[w]))
    BY <1>2
  <2>1. Samples(durable[w]) \subseteq published[w] /\ published[w] \in SUBSET Sn
    BY DEF StoreInv, TypeOK
  <2>2. n = 1 \/ n - 1 \in published[w]
    BY <2>1 DEF IsJoinPoint
  <2>3. /\ Data(w, r, Samples(durable[w])) \subseteq Message
        /\ \A m \in Data(w, r, Samples(durable[w])) :
             m.type = "DATA" /\ m.w = w /\ m.sn \in Samples(durable[w])
    BY <2>1, DataIsMessage
  <2>4. TypeOK'
    BY <2>3 DEF TypeOK
  <2>5. (StoreInv /\ OnlyStoredDelivered)'
    BY DEF StoreInv, OnlyStoredDelivered
  <2>6. NetInv'
    BY <2>1, <2>3 DEF NetInv
  <2>7. ProgressIsReceived'
    BY <1>2, <2>2 DEF ProgressIsReceived, TypeOK
  <2> QED BY <2>4, <2>5, <2>6, <2>7
<1> QED BY <1>1, <1>2

LEMMA MatchWriterInv ==
  ASSUME IInv, NEW w \in Writer, NEW r \in Reader, MatchWriter(r, w)
  PROVE  IInv'
<1> USE DEF IInv, MatchWriter, writerVars, readerVars, bounds
<1>1. TypeOK'
  BY DEF TypeOK
<1>2. (StoreInv /\ NetInv /\ ProgressIsReceived /\ OnlyStoredDelivered)'
  BY DEF StoreInv, NetInv, ProgressIsReceived, OnlyStoredDelivered
<1> QED BY <1>1, <1>2

LEMMA UnmatchReaderInv ==
  ASSUME IInv, NEW w \in Writer, NEW r \in Reader, UnmatchReader(w, r)
  PROVE  IInv'
<1> USE DEF IInv, UnmatchReader, writerVars, readerVars
<1>1. TypeOK'
  BY ProtocolAssumption DEF TypeOK
<1>2. (StoreInv /\ NetInv /\ OnlyStoredDelivered)'
  BY DEF StoreInv, NetInv, OnlyStoredDelivered
<1>3. ProgressIsReceived'
  BY DEF ProgressIsReceived, TypeOK
<1> QED BY <1>1, <1>2, <1>3

LEMMA UnmatchWriterInv ==
  ASSUME IInv, NEW w \in Writer, NEW r \in Reader, UnmatchWriter(r, w)
  PROVE  IInv'
<1> USE DEF IInv, UnmatchWriter, writerVars, readerVars
<1>1. TypeOK'
  BY ProtocolAssumption DEF TypeOK
<1>2. (StoreInv /\ NetInv /\ ProgressIsReceived /\ OnlyStoredDelivered)'
  BY DEF StoreInv, NetInv, ProgressIsReceived, OnlyStoredDelivered
<1> QED BY <1>1, <1>2

LEMMA LoseInv ==
  ASSUME IInv, NEW m \in net, Lose(m)
  PROVE  IInv'
<1> USE DEF IInv, Lose, writerVars, readerVars
<1>1. TypeOK'
  BY ProtocolAssumption DEF TypeOK
<1>2. (StoreInv /\ NetInv /\ ProgressIsReceived /\ OnlyStoredDelivered)'
  BY DEF StoreInv, NetInv, ProgressIsReceived, OnlyStoredDelivered
<1> QED BY <1>1, <1>2

-----------------------------------------------------------------------------
(* What is delivered was stored, so its acknowledgement is true.           *)
LEMMA ReceiveDataInv ==
  ASSUME IInv, NEW m \in net, NEW rest \in SUBSET net, ReceiveData(m, rest)
  PROVE  IInv'
<1> USE DEF IInv, ReceiveData, writerVars, bounds
<1>1. /\ m \in Message
      /\ m.w \in Writer /\ m.r \in Reader /\ m.sn \in Sn
      /\ m.sn \in published[m.w]
  BY MessageFields DEF TypeOK, NetInv
<1>2. CASE m.w \notin matched[m.r]
  <2>1. received' = received /\ delivered' = delivered /\ net' = rest
    BY <1>2 DEF readerVars
  <2>2. TypeOK'
    BY <2>1 DEF TypeOK
  <2>3. (StoreInv /\ NetInv /\ ProgressIsReceived /\ OnlyStoredDelivered)'
    BY <2>1 DEF StoreInv, NetInv, ProgressIsReceived, OnlyStoredDelivered
  <2> QED BY <2>2, <2>3
<1>3. CASE m.w \in matched[m.r]
  <2> DEFINE a == AckNack(m.w, m.r, m.sn, {})
  <2>1. /\ received' = [received EXCEPT ![m.r] = @ \cup {m.sn}]
        /\ delivered' = [delivered EXCEPT ![m.r] = @ \cup {<<m.w, m.sn>>}]
        /\ net' \subseteq net \cup {a}
    BY <1>3
  <2>2. a \in Message /\ a.type = "ACKNACK" /\ a.w = m.w /\ a.r = m.r /\ a.ack = m.sn
    BY <1>1, AckNackIsMessage DEF Sn
  <2>3. \A r \in Reader : received[r] \subseteq received'[r]
    BY <2>1 DEF TypeOK
  <2>4. m.sn \in received'[m.r]
    BY <1>1, <2>1 DEF TypeOK
  <2>5. TypeOK'
    BY <1>1, <2>1, <2>2 DEF TypeOK
  <2>6. StoreInv'
    BY DEF StoreInv
  <2>7. NetInv'
    <3> SUFFICES ASSUME NEW k \in net' PROVE NetInv!(k)'
      BY DEF NetInv
    <3>1. CASE k = a
      BY <3>1, <1>1, <2>2, <2>4
    <3>2. CASE k \in net
      <4>1. k.r \in Reader
        BY <3>2, MessageFields DEF TypeOK
      <4> QED BY <3>2, <4>1, <2>3 DEF NetInv
    <3> QED BY <3>1, <3>2, <2>1
  <2>8. ProgressIsReceived'
    BY <2>3 DEF ProgressIsReceived
  <2>9. OnlyStoredDelivered'
    <3> SUFFICES ASSUME NEW r \in Reader
                 PROVE  /\ \A d \in delivered'[r] : d[2] \in published[d[1]]
                        /\ received'[r] = {d[2] : d \in delivered'[r]}
      BY DEF OnlyStoredDelivered
    <3>1. CASE r = m.r
      <4>1. /\ delivered'[r] = delivered[r] \cup {<<m.w, m.sn>>}
            /\ received'[r] = received[r] \cup {m.sn}
        BY <3>1, <1>1, <2>1 DEF TypeOK
      <4> DEFINE x == <<m.w, m.sn>>
      <4>2. x[1] = m.w /\ x[2] = m.sn
        OBVIOUS
      <4>3. \A d \in delivered[r] : d[2] \in published[d[1]]
        BY <3>1, <1>1 DEF OnlyStoredDelivered
      <4>4. received[r] = {d[2] : d \in delivered[r]}
        BY <3>1, <1>1 DEF OnlyStoredDelivered
      <4>5. delivered'[r] = delivered[r] \cup {x}
        BY <4>1
      <4> HIDE DEF x
      <4>6. \A d \in delivered'[r] : d[2] \in published[d[1]]
        BY <4>2, <4>3, <4>5, <1>1
      <4>7. received'[r] = {d[2] : d \in delivered'[r]}
        BY <4>1, <4>2, <4>4, <4>5
      <4> QED BY <4>6, <4>7
    <3>2. CASE r # m.r
      BY <3>2, <1>1, <2>1 DEF TypeOK, OnlyStoredDelivered
    <3> QED BY <3>1, <3>2
  <2> QED BY <2>5, <2>6, <2>7, <2>8, <2>9
<1> QED BY <1>2, <1>3

\* A Heartbeat is acknowledged only when its last number was received.
LEMMA ReceiveHeartbeatInv ==
  ASSUME IInv, NEW m \in net, NEW rest \in SUBSET net, ReceiveHeartbeat(m, rest)
  PROVE  IInv'
<1> USE DEF IInv, ReceiveHeartbeat, writerVars, readerVars, bounds
<1> DEFINE missing == (m.first..m.last) \ received[m.r]
           through == IF missing = {} THEN m.last ELSE 0
           a == AckNack(m.w, m.r, through, InWindow(missing))
<1>1. /\ m \in Message /\ m.w \in Writer /\ m.r \in Reader
      /\ m.first \in Sn /\ m.last \in 0..MaxSn
      /\ m.last = 0 \/ m.first <= m.last
      /\ m.last = 0 \/ m.last \in published[m.w]
  BY MessageFields DEF TypeOK, NetInv
<1>2. missing \in SUBSET Sn /\ InWindow(missing) \in SUBSET Sn
  BY <1>1, ProtocolAssumption DEF Sn, InWindow
<1>3. through \in 0..MaxSn
  BY <1>1, ProtocolAssumption
<1>4. through = 0 \/ InWindow(missing) = {}
  BY DEF InWindow
<1>5. through = 0 \/ through \in published[m.w] \cap received[m.r]
  BY <1>1 DEF Sn
<1> HIDE DEF missing, through
<1>6. a \in Message /\ a.type = "ACKNACK" /\ a.w = m.w /\ a.r = m.r /\ a.ack = through
  BY <1>1, <1>2, <1>3, <1>4, AckNackIsMessage
<1>7. net' \subseteq net \cup {a}
  BY DEF missing, through
<1>8. TypeOK'
  BY <1>6, <1>7 DEF TypeOK
<1>9. NetInv'
  BY <1>5, <1>6, <1>7 DEF NetInv
<1>10. (StoreInv /\ ProgressIsReceived /\ OnlyStoredDelivered)'
  BY DEF StoreInv, ProgressIsReceived, OnlyStoredDelivered
<1> QED BY <1>8, <1>9, <1>10

\* A proxy moves to what the AckNack says, which is true.
LEMMA ReceiveAckNackInv ==
  ASSUME IInv, NEW m \in net, NEW rest \in SUBSET net, ReceiveAckNack(m, rest)
  PROVE  IInv'
<1>1. /\ TypeOK /\ StoreInv /\ NetInv /\ ProgressIsReceived /\ OnlyStoredDelivered
      /\ UNCHANGED <<writerVars, matched, readerVars, bounds>>
  BY DEF IInv, ReceiveAckNack
<1> DEFINE D == Data(m.w, m.r, m.missing \cap cache[m.w])
<1>2. /\ m \in Message /\ m.w \in Writer /\ m.r \in Reader
      /\ m.ack \in 0..MaxSn /\ m.missing \in SUBSET Sn
      /\ m.ack = 0 \/ m.ack \in published[m.w] \cap received[m.r]
  BY <1>1, MessageFields DEF TypeOK, NetInv, ReceiveAckNack
<1>3. m.missing \cap cache[m.w] \in SUBSET Sn
  BY <1>2
<1>4. /\ D \subseteq Message
      /\ \A d \in D : d.type = "DATA" /\ d.w = m.w /\ d.sn \in cache[m.w]
  BY <1>1, <1>2, <1>3, DataIsMessage
<1> HIDE DEF D
<1>5. net' \subseteq net \cup D
  BY DEF D, ReceiveAckNack
<1>6. \/ nextUnsent' = nextUnsent
      \/ nextUnsent' = [nextUnsent EXCEPT ![m.w][m.r] = m.ack + 1]
  BY DEF ReceiveAckNack
<1>7. m.ack + 1 \in 0..MaxSn + 1 /\ m.ack + 1 - 1 = m.ack
  BY <1>2, ProtocolAssumption
<1>8. nextUnsent \in [Writer -> [Reader -> 0..MaxSn + 1]]
  BY <1>1 DEF TypeOK
<1>9. TypeOK'
  <2>1. [nextUnsent EXCEPT ![m.w][m.r] = m.ack + 1] \in [Writer -> [Reader -> 0..MaxSn + 1]]
    BY <1>2, <1>7, <1>8, UpdateEntry
  <2>2. nextUnsent' \in [Writer -> [Reader -> 0..MaxSn + 1]]
    BY <1>6, <1>8, <2>1
  <2> QED BY <2>2, <1>1, <1>4, <1>5 DEF TypeOK, writerVars, readerVars, bounds
<1>10. StoreInv' /\ OnlyStoredDelivered'
  BY <1>1 DEF StoreInv, OnlyStoredDelivered, writerVars, readerVars
<1>11. NetInv'
  <2> SUFFICES ASSUME NEW k \in net' PROVE NetInv!(k)'
    BY DEF NetInv
  <2>1. CASE k \in D
    BY <2>1, <1>1, <1>2, <1>4 DEF StoreInv, writerVars
  <2>2. CASE k \in net
    BY <2>2, <1>1 DEF NetInv, writerVars, readerVars
  <2> QED BY <2>1, <2>2, <1>5
<1>12. ProgressIsReceived'
  <2> SUFFICES ASSUME NEW w \in Writer, NEW r \in Reader, nextUnsent'[w][r] > 1
               PROVE  ProgressIsReceived!(w, r)!2'
    BY DEF ProgressIsReceived
  <2>1. CASE nextUnsent'[w][r] = nextUnsent[w][r]
    BY <2>1, <1>1 DEF ProgressIsReceived, writerVars, readerVars
  <2>2. CASE nextUnsent'[w][r] # nextUnsent[w][r]
    <3>1. w = m.w /\ r = m.r /\ nextUnsent'[w][r] = m.ack + 1
      <4>1. nextUnsent' = [nextUnsent EXCEPT ![m.w][m.r] = m.ack + 1]
        BY <1>6, <2>2
      <4>2. nextUnsent'[w][r] = IF w = m.w /\ r = m.r THEN m.ack + 1 ELSE nextUnsent[w][r]
        BY <1>2, <1>7, <1>8, <4>1, UpdateEntry
      <4> QED BY <2>2, <4>2
    <3>2. m.ack # 0 /\ nextUnsent'[w][r] - 1 = m.ack
      BY <1>2, <1>7, <3>1
    <3> QED BY <1>1, <1>2, <3>1, <3>2 DEF writerVars, readerVars
  <2> QED BY <2>1, <2>2
<1> QED BY <1>9, <1>10, <1>11, <1>12 DEF IInv

-----------------------------------------------------------------------------
LEMMA NextIInv == IInv /\ [Next]_vars => IInv'
<1> SUFFICES ASSUME IInv, [Next]_vars PROVE IInv'
  OBVIOUS
<1>1. ASSUME NEW w \in Writer, AllocateSn(w) PROVE IInv'
  BY <1>1, AllocateSnInv
<1>2. ASSUME NEW w \in Writer, NEW sn \in Sn, RefuseChange(w, sn) PROVE IInv'
  BY <1>2, RefuseChangeInv
<1>3. ASSUME NEW w \in Writer, NEW sn \in Sn, StoreChange(w, sn) PROVE IInv'
  BY <1>3, StoreChangeInv
<1>4. ASSUME NEW w \in Writer, Tick(w) PROVE IInv'
  BY <1>4, TickInv
<1>5. ASSUME NEW w \in Writer, NEW r \in Reader, MatchReader(w, r) PROVE IInv'
  BY <1>5, MatchReaderInv
<1>6. ASSUME NEW w \in Writer, NEW r \in Reader, MatchWriter(r, w) PROVE IInv'
  BY <1>6, MatchWriterInv
<1>7. ASSUME NEW w \in Writer, NEW r \in Reader, UnmatchReader(w, r) PROVE IInv'
  BY <1>7, UnmatchReaderInv
<1>8. ASSUME NEW w \in Writer, NEW r \in Reader, UnmatchWriter(r, w) PROVE IInv'
  BY <1>8, UnmatchWriterInv
<1>9. ASSUME NEW m \in net, NEW rest \in SUBSET net, Receive(m, rest) PROVE IInv'
  BY <1>9, ReceiveDataInv, ReceiveHeartbeatInv, ReceiveAckNackInv DEF Receive
<1>10. ASSUME NEW m \in net, Lose(m) PROVE IInv'
  BY <1>10, LoseInv
<1>11. CASE UNCHANGED vars
  BY <1>11 DEF IInv, TypeOK, StoreInv, NetInv, ProgressIsReceived, OnlyStoredDelivered,
               vars, writerVars, readerVars, bounds
<1>12. \A m \in net : net \ {m} \in SUBSET net /\ net \in SUBSET net
  OBVIOUS
<1> QED BY <1>1, <1>2, <1>3, <1>4, <1>5, <1>6, <1>7, <1>8, <1>9, <1>10, <1>11, <1>12
        DEF Next

(***************************************************************************)
(* The inductive invariant: the two properties below are consequences.     *)
(***************************************************************************)
THEOREM ProtocolInvariant == Spec => []IInv
BY InitIInv, NextIInv, PTL DEF Spec

\* Every variable of the protocol keeps its type, whatever the network does.
THEOREM TypeCorrect == Spec => []TypeOK
BY ProtocolInvariant, PTL DEF IInv

(***************************************************************************)
(* No loss, delay, reordering, repetition or rematch makes a writer        *)
(* believe a reader to be past a sample that the reader did not receive:   *)
(* apply_reader_acknack never runs ahead of push_sample_sn.                *)
(***************************************************************************)
THEOREM ProgressIsSound == Spec => []ProgressIsReceived
BY ProtocolInvariant, PTL DEF IInv

\* No reader is handed a number that its writer did not store.
THEOREM DeliveryIsSound == Spec => []OnlyStoredDelivered
BY ProtocolInvariant, PTL DEF IInv

-----------------------------------------------------------------------------
(***************************************************************************)
(* Refinement.                                                             *)
(* ReliableProtocol implements ReliableDelivery: every step of the         *)
(* protocol is a step of the promise under the refinement mapping of       *)
(* Abstract, or changes nothing it can see.                                *)
(***************************************************************************)

\* The abstract progress: one number less than next_unsent_sn.
Progress == [w \in Writer |-> [r \in Reader |->
               IF nextUnsent[w][r] = 0 THEN 0 ELSE nextUnsent[w][r] - 1]]

LEMMA ProgressEntry ==
  ASSUME NEW w \in Writer, NEW r \in Reader
  PROVE  Progress[w][r] = IF nextUnsent[w][r] = 0 THEN 0 ELSE nextUnsent[w][r] - 1
BY DEF Progress

LEMMA InitRefines == Init => Abstract!Init
BY DEF Init, Abstract!Init

\* A step that leaves the three mapped variables alone is a stutter.
LEMMA StutterRefines ==
  ASSUME UNCHANGED <<published, delivered, nextUnsent>>
  PROVE  UNCHANGED Abstract!vars
BY DEF Abstract!vars

\* A step that moves one proxy, and what it is for the progress.
MovesProxy(w, r, n) == nextUnsent' = [nextUnsent EXCEPT ![w][r] = n]
MovesProgress(w, r, k) == Progress' = [Progress EXCEPT ![w][r] = k]

LEMMA SameRow ==
  ASSUME NEW f, NEW g, f = [q \in Reader |-> f[q]], g = [q \in Reader |-> g[q]],
         \A q \in Reader : f[q] = g[q]
  PROVE  f = g
OBVIOUS

\* Changing one proxy changes one entry of the progress.
LEMMA ProxyUpdate ==
  ASSUME TypeOK, NEW w \in Writer, NEW r \in Reader, NEW n \in 0..MaxSn + 1,
         MovesProxy(w, r, n),
         NEW k, k = IF n = 0 THEN 0 ELSE n - 1
  PROVE  MovesProgress(w, r, k)
<1>1. nextUnsent \in [Writer -> [Reader -> 0..MaxSn + 1]]
  BY DEF TypeOK
<1> DEFINE U == [Progress EXCEPT ![w][r] = k]
<1>2. ASSUME NEW v \in Writer, NEW q \in Reader
      PROVE  nextUnsent'[v][q] = IF v = w /\ q = r THEN n ELSE nextUnsent[v][q]
  BY <1>1, UpdateEntry DEF MovesProxy
<1>3. ASSUME NEW v \in Writer, NEW q \in Reader
      PROVE  Progress'[v][q] = IF v = w /\ q = r THEN k ELSE Progress[v][q]
  BY <1>2 DEF Progress
<1>4. ASSUME NEW v \in Writer, NEW q \in Reader
      PROVE  U[v][q] = IF v = w /\ q = r THEN k ELSE Progress[v][q]
  BY DEF Progress
<1>5. \A v \in Writer : /\ Progress'[v] = [q \in Reader |-> Progress'[v][q]]
                        /\ U[v] = [q \in Reader |-> U[v][q]]
  BY DEF Progress
<1>6. Progress' = [v \in Writer |-> Progress'[v]] /\ U = [v \in Writer |-> U[v]]
  BY DEF Progress
<1> HIDE DEF U
<1>7. ASSUME NEW v \in Writer PROVE Progress'[v] = U[v]
  <2>1. \A q \in Reader : Progress'[v][q] = U[v][q]
    BY <1>3, <1>4
  <2> QED BY <1>5, <2>1, SameRow
<1>8. Progress' = U
  BY <1>6, <1>7
<1> QED BY <1>8 DEF U, MovesProgress

\* A stored number was pending, so it was never published before.
LEMMA StoreRefines ==
  ASSUME IInv, NEW w \in Writer, NEW sn \in Sn, StoreChange(w, sn)
  PROVE  Abstract!Publish(w, sn)
<1>1. sn \notin published[w]
  BY DEF StoreChange, IInv, StoreInv
<1>2. UNCHANGED <<delivered, nextUnsent>>
  BY DEF StoreChange, readerVars
<1> QED BY <1>1, <1>2 DEF StoreChange, Abstract!Publish

LEMMA DataRefines ==
  ASSUME IInv, NEW m \in net, NEW rest, ReceiveData(m, rest)
  PROVE  Abstract!Next \/ UNCHANGED Abstract!vars
<1>1. m.w \in Writer /\ m.r \in Reader /\ m.sn \in 1..MaxSn /\ m.sn \in published[m.w]
  BY MessageFields DEF IInv, TypeOK, NetInv, ReceiveData, Sn
<1>2. UNCHANGED <<published, nextUnsent>>
  BY DEF ReceiveData, writerVars
<1>3. CASE m.w \in matched[m.r]
  <2>1. Abstract!Deliver(m.r, m.w, m.sn)
    BY <1>1, <1>2, <1>3 DEF ReceiveData, Abstract!Deliver
  <2> QED BY <1>1, <2>1 DEF Abstract!Next
<1>4. CASE m.w \notin matched[m.r]
  BY <1>2, <1>4, StutterRefines DEF ReceiveData, readerVars
<1> QED BY <1>3, <1>4

\* A proxy moves to a number that the reader holds from some writer.
LEMMA AckNackRefines ==
  ASSUME IInv, NEW m \in net, NEW rest, ReceiveAckNack(m, rest)
  PROVE  Abstract!Next \/ UNCHANGED Abstract!vars
<1>1. /\ m.w \in Writer /\ m.r \in Reader /\ m.ack \in 0..MaxSn
      /\ m.ack = 0 \/ m.ack \in published[m.w] \cap received[m.r]
  BY MessageFields DEF IInv, TypeOK, NetInv, ReceiveAckNack
<1>2. nextUnsent[m.w][m.r] \in 0..MaxSn + 1
  BY <1>1 DEF IInv, TypeOK
<1>3. UNCHANGED <<published, delivered>>
  BY DEF ReceiveAckNack, writerVars, readerVars
<1>4. CASE nextUnsent' = nextUnsent
  BY <1>3, <1>4, StutterRefines
<1>5. CASE nextUnsent' # nextUnsent
  <2>1. /\ nextUnsent[m.w][m.r] # 0
        /\ m.ack + 1 > nextUnsent[m.w][m.r]
        /\ nextUnsent' = [nextUnsent EXCEPT ![m.w][m.r] = m.ack + 1]
    BY <1>5 DEF ReceiveAckNack
  <2>2. m.ack \in 1..MaxSn /\ m.ack + 1 \in 0..MaxSn + 1 /\ m.ack > Progress[m.w][m.r]
    BY <1>1, <1>2, <2>1, ProgressEntry, ProtocolAssumption
  <2>3. Progress' = [Progress EXCEPT ![m.w][m.r] = m.ack]
    <3>1. TypeOK /\ m.ack = IF m.ack + 1 = 0 THEN 0 ELSE m.ack + 1 - 1
      BY <2>2 DEF IInv
    <3>2. MovesProxy(m.w, m.r, m.ack + 1)
      BY <2>1 DEF MovesProxy
    <3>3. MovesProgress(m.w, m.r, m.ack)
      BY <1>1, <2>2, <3>1, <3>2, ProxyUpdate
    <3> QED BY <3>3 DEF MovesProgress
  <2>4. \E v \in Writer : <<v, m.ack>> \in delivered[m.r]
    <3>1. PICK d \in delivered[m.r] : m.ack = d[2]
      BY <1>1, <2>2 DEF IInv, OnlyStoredDelivered
    <3>2. d \in Writer \X Sn
      BY <1>1 DEF IInv, TypeOK
    <3> QED BY <3>1, <3>2
  <2>5. m.ack \in published[m.w]
    BY <1>1, <2>2
  <2>6. Abstract!Acknowledge(m.w, m.r, m.ack)
    BY Zenon, <1>3, <2>2, <2>3, <2>4, <2>5 DEF Abstract!Acknowledge, Progress
  <2> QED BY <1>1, <2>2, <2>6 DEF Abstract!Next
<1> QED BY <1>4, <1>5

\* A new proxy starts at 1, which the promise cannot see, or, for a durable
\* writer, after the greatest sample it holds.
LEMMA MatchReaderRefines ==
  ASSUME IInv, NEW w \in Writer, NEW r \in Reader, MatchReader(w, r)
  PROVE  Abstract!Next \/ UNCHANGED Abstract!vars
<1>1. /\ nextUnsent[w][r] = 0
      /\ UNCHANGED <<published, delivered>>
  BY DEF MatchReader, writerVars, readerVars
<1>2. PICK n \in 1..MaxSn + 1 :
        /\ nextUnsent' = [nextUnsent EXCEPT ![w][r] = n]
        /\ n = 1 \/ (Qos.durability # "Volatile" /\ IsJoinPoint(durable[w], n))
  BY ProtocolAssumption DEF MatchReader
<1>3. Progress' = [Progress EXCEPT ![w][r] = n - 1]
  <2>1. n \in 0..MaxSn + 1 /\ TypeOK /\ n - 1 = IF n = 0 THEN 0 ELSE n - 1
    BY ProtocolAssumption DEF IInv
  <2>2. MovesProxy(w, r, n)
    BY <1>2 DEF MovesProxy
  <2>3. MovesProgress(w, r, n - 1)
    BY Zenon, <2>1, <2>2, ProxyUpdate
  <2> QED BY <2>3 DEF MovesProgress
<1>4. Progress[w][r] = 0
  BY <1>1, ProgressEntry
<1>5. CASE n = 1
  <2>1. n - 1 = 0
    BY <1>5
  <2>2. [Progress EXCEPT ![w][r] = 0] = Progress
    <3>1. [Progress EXCEPT ![w][r] = Progress[w][r]] = Progress
      BY DEF Progress
    <3> QED BY <1>4, <3>1
  <2>3. Progress' = Progress
    BY <1>3, <2>1, <2>2
  <2> QED BY <1>1, <2>3 DEF Abstract!vars, Progress
<1>6. CASE n # 1
  <2>1. Qos.durability # "Volatile" /\ n - 1 \in Samples(durable[w])
    BY <1>2, <1>6 DEF IsJoinPoint
  <2>2. n - 1 \in published[w] /\ n - 1 \in 1..MaxSn
    BY <2>1 DEF IInv, TypeOK, StoreInv, Sn
  <2>3. Abstract!Join(w, r, n - 1)
    BY Zenon, <1>1, <1>3, <1>4, <2>1, <2>2 DEF Abstract!Join, Progress
  <2> QED BY <2>2, <2>3 DEF Abstract!Next
<1> QED BY <1>5, <1>6

LEMMA StepRefines ==
  ASSUME IInv, [Next]_vars
  PROVE  Abstract!Next \/ UNCHANGED Abstract!vars
<1>1. ASSUME NEW w \in Writer, NEW sn \in Sn, StoreChange(w, sn)
      PROVE  Abstract!Next
  BY <1>1, StoreRefines DEF Abstract!Next, Sn
<1>2. ASSUME NEW w \in Writer, NEW r \in Reader, MatchReader(w, r)
      PROVE  Abstract!Next \/ UNCHANGED Abstract!vars
  BY <1>2, MatchReaderRefines
<1>3. ASSUME NEW w \in Writer, NEW r \in Reader, UnmatchReader(w, r)
      PROVE  Abstract!Next
  <2>1. /\ nextUnsent' = [nextUnsent EXCEPT ![w][r] = 0]
        /\ UNCHANGED <<published, delivered>>
    BY <1>3 DEF UnmatchReader, writerVars, readerVars
  <2>2. Progress' = [Progress EXCEPT ![w][r] = 0]
    <3>1. 0 \in 0..MaxSn + 1 /\ TypeOK /\ 0 = IF 0 = 0 THEN 0 ELSE 0 - 1
      BY ProtocolAssumption DEF IInv
    <3>2. MovesProxy(w, r, 0)
      BY <2>1 DEF MovesProxy
    <3>3. MovesProgress(w, r, 0)
      BY Zenon, <3>1, <3>2, ProxyUpdate
    <3> QED BY <3>3 DEF MovesProgress
  <2>3. Abstract!Forget(w, r)
    BY <2>1, <2>2 DEF Abstract!Forget, Progress
  <2> QED BY <2>3 DEF Abstract!Next
<1>4. ASSUME NEW m \in net, NEW rest, Receive(m, rest)
      PROVE  Abstract!Next \/ UNCHANGED Abstract!vars
  <2>1. CASE ReceiveHeartbeat(m, rest)
    BY <2>1, StutterRefines DEF ReceiveHeartbeat, writerVars, readerVars
  <2> QED BY <1>4, <2>1, DataRefines, AckNackRefines DEF Receive
<1>5. CASE \E w \in Writer : \/ AllocateSn(w) \/ Tick(w)
                             \/ \E sn \in Sn : RefuseChange(w, sn)
                             \/ \E r \in Reader : MatchWriter(r, w) \/ UnmatchWriter(r, w)
  <2>1. UNCHANGED <<published, delivered, nextUnsent>>
    BY <1>5 DEF AllocateSn, RefuseChange, Tick, MatchWriter, UnmatchWriter,
                writerVars, readerVars
  <2> QED BY <2>1, StutterRefines
<1>6. CASE \E m \in net : Lose(m)
  <2>1. UNCHANGED <<published, delivered, nextUnsent>>
    BY <1>6 DEF Lose, writerVars, readerVars
  <2> QED BY <2>1, StutterRefines
<1>7. CASE UNCHANGED vars
  BY <1>7, StutterRefines DEF vars, writerVars, readerVars
<1> QED BY <1>1, <1>2, <1>3, <1>4, <1>5, <1>6, <1>7 DEF Next

(***************************************************************************)
(* Volatile or durable, writers and their readers keep the promise of      *)
(* ReliableDelivery over a network that loses, delays, reorders and        *)
(* repeats datagrams.                                                      *)
(***************************************************************************)
THEOREM ProtocolImplementsDelivery == Spec => ImplementsDelivery
<1>1. Init => Abstract!Init
  BY InitRefines
<1>2. IInv /\ [Next]_vars => [Abstract!Next]_(Abstract!vars)
  BY StepRefines
<1> QED BY <1>1, <1>2, ProtocolInvariant, PTL DEF Spec, ImplementsDelivery, Abstract!Spec
=============================================================================
