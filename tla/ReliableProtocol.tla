-------------------------- MODULE ReliableProtocol --------------------------
(***************************************************************************)
(* The reliable wire protocol between StatefulWriters (dds-rtps) and the   *)
(* DataReaders they are matched with (dds-core), over UDP.                 *)
(*                                                                         *)
(* A reader is the one its participant registered for the topic, so a DATA *)
(* or Heartbeat sent to that participant reaches it. The network is a set  *)
(* of datagrams that are delivered in any order, lost, delayed for ever or *)
(* delivered several times.                                                *)
(***************************************************************************)
EXTENDS HistoryCache

CONSTANTS
  Writer,          \* matched StatefulWriters, each of one application thread
                   \* or more: pending holds what their writes have numbered
  Reader,          \* the topic's DataReader of each remote participant
  ReliableReader,  \* the readers whose reliability QoS is Reliable
  Qos,             \* what the caches read of every writer's DataWriterQos
  NackWindow,      \* 256: the widest SequenceNumberSet bitmap
  MaxSn,           \* bound: the greatest number a writer allocates
  MaxLosses,       \* bound: datagrams the network loses
  MaxUnmatches     \* bound: matches undone by discovery

ASSUME ProtocolAssumption ==
  /\ ReliableReader \subseteq Reader
  /\ IsWriterQos(Qos)
  /\ NackWindow \in Nat \ {0}
  /\ {MaxSn, MaxLosses, MaxUnmatches} \subseteq Nat

VARIABLES
  nextSn,      \* DataWriter.next_sn
  pending,     \* numbers allocated by a write that has not stored them yet
  cache,       \* StatefulWriter.writer_cache
  durable,     \* DataWriter.durability_cache
  published,   \* history: the numbers each writer ever stored
  nextUnsent,  \* next_unsent_sn of the ReaderProxy of each reader; 0: no proxy
  matched,     \* DataReader.matched_writers
  received,    \* DataReader.received_sns, ONE set for all its writers
  delivered,   \* history: <<writer, number>> handed to push_sample_sn
  net,         \* datagrams in flight
  losses,      \* datagrams lost so far
  unmatches    \* matches undone so far

writerVars == <<nextSn, pending, cache, durable, published>>
readerVars == <<received, delivered>>
bounds     == <<losses, unmatches>>
vars == <<writerVars, nextUnsent, matched, readerVars, net, bounds>>

-----------------------------------------------------------------------------
(* Datagrams                                                               *)

Sn == 1..MaxSn

DataMsg == [type : {"DATA"}, w : Writer, r : Reader, sn : Sn]
HeartbeatMsg == {h \in [type : {"HEARTBEAT"}, w : Writer, r : Reader,
                         first : Sn, last : 0..MaxSn] : h.last = 0 \/ h.first <= h.last}
\* A pure ACK or a bitmap of missing numbers. ack = 0 stands for no ack_through
\* and for Some(0) alike: neither moves a proxy.
AckNackMsg ==
  [type : {"ACKNACK"}, w : Writer, r : Reader, ack : 0..MaxSn, missing : {{}}]
    \cup [type : {"ACKNACK"}, w : Writer, r : Reader, ack : {0}, missing : SUBSET Sn]
Message == DataMsg \cup HeartbeatMsg \cup AckNackMsg

Data(w, r, S) == {[type |-> "DATA", w |-> w, r |-> r, sn |-> s] : s \in S}
Heartbeat(w, r, f, l) ==
  [type |-> "HEARTBEAT", w |-> w, r |-> r, first |-> f, last |-> l]
AckNack(w, r, a, S) ==
  [type |-> "ACKNACK", w |-> w, r |-> r, ack |-> a, missing |-> S]

(***************************************************************************)
(* serialize_sequence_number_set: the bitmap starts at the first missing   *)
(* number and is cut at its widest.                                        *)
(***************************************************************************)
InWindow(S) == {s \in S : \A t \in S : s < t + NackWindow}

TypeOK ==
  /\ nextSn \in [Writer -> 1..MaxSn + 1]
  /\ pending \in [Writer -> SUBSET Sn]
  /\ cache \in [Writer -> SUBSET Sn]
  /\ durable \in [Writer -> Seq(Sn)]
  /\ published \in [Writer -> SUBSET Sn]
  /\ nextUnsent \in [Writer -> [Reader -> 0..MaxSn + 1]]
  /\ matched \in [Reader -> SUBSET Writer]
  /\ received \in [Reader -> SUBSET Sn]
  /\ delivered \in [Reader -> SUBSET (Writer \X Sn)]
  /\ net \subseteq Message
  /\ losses \in 0..MaxLosses
  /\ unmatches \in 0..MaxUnmatches

Init ==
  /\ nextSn = [w \in Writer |-> 1]
  /\ pending = [w \in Writer |-> {}]
  /\ cache = [w \in Writer |-> {}]
  /\ durable = [w \in Writer |-> <<>>]
  /\ published = [w \in Writer |-> {}]
  /\ nextUnsent = [w \in Writer |-> [r \in Reader |-> 0]]
  /\ matched = [r \in Reader |-> {}]
  /\ received = [r \in Reader |-> {}]
  /\ delivered = [r \in Reader |-> {}]
  /\ net = {}
  /\ losses = 0
  /\ unmatches = 0

-----------------------------------------------------------------------------
(* DataWriter::write: number the sample, then store it under rtps_writer.  *)

AllocateSn(w) ==
  /\ nextSn[w] <= MaxSn
  /\ nextSn' = [nextSn EXCEPT ![w] = @ + 1]
  /\ pending' = [pending EXCEPT ![w] = @ \cup {nextSn[w]}]
  /\ UNCHANGED <<cache, durable, published, nextUnsent, matched, readerVars, net, bounds>>

RefuseChange(w, sn) ==
  /\ sn \in pending[w]
  /\ Rejects(Qos, cache[w])
  /\ pending' = [pending EXCEPT ![w] = @ \ {sn}]
  /\ UNCHANGED <<nextSn, cache, durable, published, nextUnsent, matched, readerVars,
                 net, bounds>>

StoreChange(w, sn) ==
  /\ sn \in pending[w]
  /\ ~Rejects(Qos, cache[w])
  /\ pending' = [pending EXCEPT ![w] = @ \ {sn}]
  /\ cache' = [cache EXCEPT ![w] = AddChange(Qos, @, sn)]
  /\ durable' = IF Qos.durability = "Volatile" THEN durable
                ELSE [durable EXCEPT ![w] = PushDurable(Qos, @, sn)]
  /\ published' = [published EXCEPT ![w] = @ \cup {sn}]
  /\ UNCHANGED <<nextSn, nextUnsent, matched, readerVars, net, bounds>>

-----------------------------------------------------------------------------
(* RtpsEngine::tick, every 10 ms, under rtps_writer from start to end.     *)

Proxies(w) == {r \in Reader : nextUnsent[w][r] # 0}

\* Every cached change at or after next_unsent_sn, which tick leaves alone.
Unsent(w, r) == {s \in cache[w] : s >= nextUnsent[w][r]}

Tick(w) ==
  /\ \E first \in Sn, last \in 0..MaxSn :
       /\ IsHeartbeatRange(cache[w], first, last)
       /\ net' = net \cup (UNION {Data(w, r, Unsent(w, r)) : r \in Proxies(w)})
                     \cup {Heartbeat(w, r, first, last) : r \in Proxies(w)}
  /\ UNCHANGED <<writerVars, nextUnsent, matched, readerVars, bounds>>

-----------------------------------------------------------------------------
(* Matchmaking, on either side of the wire and at its own time.            *)

\* Mutant: a Volatile writer too starts a proxy behind what it stored.
MatchReaderAtEnd(w, r) ==
  /\ nextUnsent[w][r] = 0
  /\ nextUnsent' = [nextUnsent EXCEPT ![w][r] = nextSn[w]]
  /\ UNCHANGED <<writerVars, matched, readerVars, net, bounds>>

\* run_matchmaking, remote reader -> local writer.
MatchReader(w, r) ==
  /\ nextUnsent[w][r] = 0
  /\ IF Qos.durability = "Volatile"
     THEN nextUnsent' = [nextUnsent EXCEPT ![w][r] = 1] /\ UNCHANGED net
     ELSE \E n \in 1..MaxSn + 1 :
            /\ IsJoinPoint(durable[w], n)
            /\ nextUnsent' = [nextUnsent EXCEPT ![w][r] = n]
            /\ net' = net \cup Data(w, r, Samples(durable[w]))
  /\ UNCHANGED <<writerVars, matched, readerVars, bounds>>

\* run_matchmaking, remote writer -> local reader.
MatchWriter(r, w) ==
  /\ w \notin matched[r]
  /\ matched' = [matched EXCEPT ![r] = @ \cup {w}]
  /\ UNCHANGED <<writerVars, nextUnsent, readerVars, net, bounds>>

\* run_unmatch_removed after a lease expiry, on the writer's side ...
UnmatchReader(w, r) ==
  /\ unmatches < MaxUnmatches
  /\ nextUnsent[w][r] # 0
  /\ nextUnsent' = [nextUnsent EXCEPT ![w][r] = 0]
  /\ unmatches' = unmatches + 1
  /\ UNCHANGED <<writerVars, matched, readerVars, net, losses>>

\* ... and on the reader's, which keeps received_sns.
UnmatchWriter(r, w) ==
  /\ unmatches < MaxUnmatches
  /\ w \in matched[r]
  /\ matched' = [matched EXCEPT ![r] = @ \ {w}]
  /\ unmatches' = unmatches + 1
  /\ UNCHANGED <<writerVars, nextUnsent, readerVars, net, losses>>

-----------------------------------------------------------------------------
(* The user-traffic receive loops. `rest` is what stays in flight of the   *)
(* datagrams when m is delivered: net itself when m will come again.       *)

\* Mutants of the DATA handler: an ACK one too far, a number that is not
\* recorded, a number recorded before the writer is looked up.
ReceiveDataAckPast(m, rest) ==
  /\ m.type = "DATA"
  /\ m.w \in matched[m.r]
  /\ received' = [received EXCEPT ![m.r] = @ \cup {m.sn}]
  /\ delivered' = [delivered EXCEPT ![m.r] = @ \cup {<<m.w, m.sn>>}]
  /\ net' = rest \cup {AckNack(m.w, m.r, m.sn + 1, {})}
  /\ UNCHANGED <<writerVars, nextUnsent, matched, bounds>>
ReceiveDataUnrecorded(m, rest) ==
  /\ m.type = "DATA"
  /\ m.w \in matched[m.r]
  /\ delivered' = [delivered EXCEPT ![m.r] = @ \cup {<<m.w, m.sn>>}]
  /\ net' = rest
  /\ UNCHANGED <<writerVars, nextUnsent, matched, received, bounds>>
ReceiveDataRecordFirst(m, rest) ==
  /\ m.type = "DATA"
  /\ received' = [received EXCEPT ![m.r] = @ \cup {m.sn}]
  /\ IF m.w \in matched[m.r]
     THEN /\ delivered' = [delivered EXCEPT ![m.r] = @ \cup {<<m.w, m.sn>>}]
          /\ net' = rest \cup {AckNack(m.w, m.r, m.sn, {})}
     ELSE UNCHANGED delivered /\ net' = rest
  /\ UNCHANGED <<writerVars, nextUnsent, matched, bounds>>

\* DATA: only a matched writer's sample is pushed; a Reliable reader answers
\* with a pure ACK through that very number.
ReceiveData(m, rest) ==
  /\ m.type = "DATA"
  /\ IF m.w \in matched[m.r]
     THEN /\ received' = [received EXCEPT ![m.r] = @ \cup {m.sn}]
          /\ delivered' = [delivered EXCEPT ![m.r] = @ \cup {<<m.w, m.sn>>}]
          /\ net' = rest \cup (IF m.r \in ReliableReader
                               THEN {AckNack(m.w, m.r, m.sn, {})} ELSE {})
     ELSE UNCHANGED readerVars /\ net' = rest
  /\ UNCHANGED <<writerVars, nextUnsent, matched, bounds>>

\* Mutant: everything announced is acknowledged.
ReceiveHeartbeatAckAll(m, rest) ==
  /\ m.type = "HEARTBEAT"
  /\ net' = rest \cup {AckNack(m.w, m.r, m.last, {})}
  /\ UNCHANGED <<writerVars, nextUnsent, matched, readerVars, bounds>>

\* HEARTBEAT: answered by any Reliable reader, matched with the writer or not,
\* from the set of numbers it received from whichever writer.
ReceiveHeartbeat(m, rest) ==
  /\ m.type = "HEARTBEAT"
  /\ LET missing == (m.first..m.last) \ received[m.r]
         answer  == AckNack(m.w, m.r, IF missing = {} THEN m.last ELSE 0,
                            InWindow(missing))
     IN  net' = rest \cup (IF m.r \in ReliableReader THEN {answer} ELSE {})
  /\ UNCHANGED <<writerVars, nextUnsent, matched, readerVars, bounds>>

\* Mutant: a proxy that stops at the number acknowledged.
ReceiveAckNackShort(m, rest) ==
  /\ m.type = "ACKNACK"
  /\ nextUnsent' = IF nextUnsent[m.w][m.r] # 0 /\ m.ack > nextUnsent[m.w][m.r]
                   THEN [nextUnsent EXCEPT ![m.w][m.r] = m.ack]
                   ELSE nextUnsent
  /\ net' = rest
  /\ UNCHANGED <<writerVars, matched, readerVars, bounds>>

\* ACKNACK: apply_reader_acknack moves the proxy forward only, and what is
\* asked for and still cached is sent again. Without a proxy nothing happens.
ReceiveAckNack(m, rest) ==
  /\ m.type = "ACKNACK"
  /\ IF nextUnsent[m.w][m.r] = 0
     THEN UNCHANGED nextUnsent /\ net' = rest
     ELSE /\ nextUnsent' = IF m.ack + 1 > nextUnsent[m.w][m.r]
                           THEN [nextUnsent EXCEPT ![m.w][m.r] = m.ack + 1]
                           ELSE nextUnsent
          /\ net' = rest \cup Data(m.w, m.r, m.missing \cap cache[m.w])
  /\ UNCHANGED <<writerVars, matched, readerVars, bounds>>

Receive(m, rest) ==
  \/ ReceiveData(m, rest)
  \/ ReceiveHeartbeat(m, rest)
  \/ ReceiveAckNack(m, rest)

Lose(m) ==
  /\ losses < MaxLosses
  /\ net' = net \ {m}
  /\ losses' = losses + 1
  /\ UNCHANGED <<writerVars, nextUnsent, matched, readerVars, unmatches>>

Next ==
  \/ \E w \in Writer :
       \/ AllocateSn(w)
       \/ \E sn \in Sn : RefuseChange(w, sn) \/ StoreChange(w, sn)
       \/ Tick(w)
  \/ \E w \in Writer, r \in Reader :
       \/ MatchReader(w, r) \/ MatchWriter(r, w)
       \/ UnmatchReader(w, r) \/ UnmatchWriter(r, w)
  \/ \E m \in net : Receive(m, net) \/ Receive(m, net \ {m})
  \/ \E m \in net : Lose(m)

Spec == Init /\ [][Next]_vars

(***************************************************************************)
(* The engine thread ticks for ever, the receive loops take what the       *)
(* socket holds, discovery announces until both sides are matched, and a   *)
(* write that has its number goes on. Nobody is obliged to write. After    *)
(* MaxLosses losses and MaxUnmatches lease expiries the network and        *)
(* discovery behave, which is what a reliable protocol needs to finish.    *)
(***************************************************************************)
Fairness ==
  /\ \A w \in Writer : WF_vars(Tick(w))
  /\ \A w \in Writer, sn \in Sn : WF_vars(RefuseChange(w, sn) \/ StoreChange(w, sn))
  /\ \A w \in Writer, r \in Reader :
       WF_vars(MatchReader(w, r)) /\ WF_vars(MatchWriter(r, w))
  /\ \A m \in Message : WF_vars(m \in net /\ Receive(m, net \ {m}))

FairSpec == Spec /\ Fairness

-----------------------------------------------------------------------------
(* Safety                                                                  *)

(***************************************************************************)
(* The progress of a proxy rests on a receipt: whatever was lost, delayed, *)
(* repeated or left over from an earlier match, the number just before     *)
(* next_unsent_sn is one the writer stored and one in the reader's         *)
(* received_sns (apply_reader_acknack against the two senders of AckNacks).*)
(* It says nothing of lower numbers: see PureAckIsComplete.                *)
(* A TransientLocal writer starts a proxy past what it sent unasked.       *)
(***************************************************************************)
ProgressIsReceived ==
  \A w \in Writer, r \in Reader : nextUnsent[w][r] > 1 =>
    /\ nextUnsent[w][r] - 1 \in published[w]
    /\ Qos.durability = "Volatile" => nextUnsent[w][r] - 1 \in received[r]

(***************************************************************************)
(* push_sample_sn is only ever handed samples that their writer stored,    *)
(* and the numbers a reader believes to have received are exactly those.   *)
(***************************************************************************)
OnlyStoredDelivered ==
  \A r \in Reader :
    /\ \A d \in delivered[r] : d[2] \in published[d[1]]
    /\ received[r] = {d[2] : d \in delivered[r]}

(***************************************************************************)
(* "a pure ACK (all sequence numbers through `through` received)", says    *)
(* dds-rtps/src/lib.rs:1999. The answer to a DATA refutes it: that ACK     *)
(* goes through the number of the DATA whatever is missing below, and the  *)
(* proxy passes the missing ones by until a Heartbeat asks for them.       *)
(***************************************************************************)
PureAckIsComplete ==
  \A m \in net : m.type = "ACKNACK" /\ m.missing = {} =>
    published[m.w] \cap 1..m.ack \subseteq received[m.r]

(***************************************************************************)
(* The protocol keeps the promise of ReliableDelivery: readers are handed  *)
(* what was stored, and a proxy only moves on to a number the reader has,  *)
(* starts at the beginning or, for a durable writer, behind what it sent,  *)
(* although datagrams of an earlier match are still on their way.          *)
(***************************************************************************)
Abstract == INSTANCE ReliableDelivery WITH
  Durable <- Qos.durability # "Volatile",
  acked <- [w \in Writer |-> [r \in Reader |->
              IF nextUnsent[w][r] = 0 THEN 0 ELSE nextUnsent[w][r] - 1]]

ImplementsDelivery == Abstract!Spec

-----------------------------------------------------------------------------
(* Liveness                                                                *)

(***************************************************************************)
(* A sample that stays in its writer's cache reaches every reader, matched *)
(* early or late: "Guaranteed delivery" (qos.rs:249).                      *)
(***************************************************************************)
EventuallyDelivered ==
  \A w \in Writer, r \in Reader, sn \in Sn :
    sn \in cache[w] ~> (<<w, sn>> \in delivered[r] \/ sn \notin cache[w])

(***************************************************************************)
(* The engine goes quiet: every reliable reader ends up matched and past   *)
(* everything in the cache, so tick has nothing left to resend.            *)
(***************************************************************************)
EventuallyQuiet ==
  \A w \in Writer, r \in ReliableReader :
    <>[](r \in Proxies(w) /\ Unsent(w, r) = {})

=============================================================================
