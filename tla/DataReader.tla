----------------------------- MODULE DataReader -----------------------------
(***************************************************************************)
(* The sample cache of one DataReader of dds-core, filled by the receive   *)
(* threads (user port and metatraffic port) and drained by application     *)
(* threads.                                                                *)
(*                                                                         *)
(* push_sample_sn takes received_sns, last_received_time, samples and      *)
(* listener one after the other and reads the clock between the first two; *)
(* read and take lock samples twice, to expire and then to look. Each      *)
(* section is an action. Liveliness is in ReaderLiveliness.                *)
(***************************************************************************)
EXTENDS Integers, FiniteSets, Sequences

CONSTANTS
  Receiver,     \* receive threads
  Taker,        \* application threads that call read and take
  ReaderQos,    \* the QoS a run creates its reader with, one of them
  Infinite,     \* the lifespan of samples that never expire
  Sn,           \* the sequence numbers of the samples received, never 0;
                \* the reader does no more than tell them apart
  MaxPushes,    \* bound: DATA submessages received
  MaxTime       \* bound: ticks of the clock

\* LENGTH_UNLIMITED is i32::MAX.
Unlimited == 2147483647

(***************************************************************************)
(* A reader's history and limit, as create_datareader accepts them, its    *)
(* minimum_separation (0: no filter), the lifespan of its topic and its    *)
(* subscriber's autoenable_created_entities. A depth of 0 is left out.     *)
(***************************************************************************)
ASSUME DataReaderAssumption ==
  /\ ReaderQos \subseteq
       [kind : {"KeepLast", "KeepAll"}, depth : Nat \ {0}, maxSamples : Nat,
        minSep : Nat, lifespan : Nat \cup {Infinite}, autoenable : BOOLEAN]
  /\ \A q \in ReaderQos : q.kind = "KeepLast" => q.maxSamples >= q.depth
  /\ {MaxPushes, MaxTime} \subseteq Nat

VARIABLES
  qos,      \* the qos given to create_datareader
  now,      \* Instant::now
  enabled,  \* is_enabled
  received, \* received_sns
  lastRx,   \* last_received_time; -1: None
  samples,  \* samples, in the order of the Vec
  notified, \* history: the pushes whose sample an on_data_available could see
  passed,   \* history: the times the filter let through, in its order
  taken,    \* history: push and number of the samples take removed
  pushes,   \* DATA received so far; numbers the pushes
  rx,       \* each receive thread: where it is and what it carries
  tk        \* each application thread: where it is, the clock it read

vars == <<qos, now, enabled, received, lastRx, samples, notified, passed, taken, pushes, rx, tk>>

Sample == [id : 1..MaxPushes, sn : Sn, at : 0..MaxTime]
NoSample == [id |-> 0, sn |-> 0, at |-> 0]
Ids(s) == {s[i].id : i \in DOMAIN s}

TypeOK ==
  /\ qos \in ReaderQos
  /\ now \in 0..MaxTime
  /\ enabled \in BOOLEAN
  /\ received \subseteq Sn
  /\ lastRx \in -1..MaxTime
  /\ samples \in Seq(Sample)
  /\ Len(samples) <= qos.maxSamples
  /\ qos.kind = "KeepLast" => Len(samples) <= qos.depth
  /\ notified \subseteq 1..MaxPushes
  /\ passed \in Seq(0..MaxTime)
  /\ taken \subseteq (1..MaxPushes) \X Sn
  /\ pushes \in 0..MaxPushes
  /\ rx \in [Receiver -> [pc : {"idle", "recorded", "clocked", "filtered", "stored"},
                          s : Sample \cup {NoSample}]]
  /\ tk \in [Taker -> [pc : {"idle", "expiring", "looking"}, at : 0..MaxTime]]

Init ==
  /\ qos \in ReaderQos
  /\ now = 0
  /\ enabled = qos.autoenable
  /\ received = {}
  /\ lastRx = -1
  /\ samples = <<>>
  /\ notified = {}
  /\ passed = <<>>
  /\ taken = {}
  /\ pushes = 0
  /\ rx = [p \in Receiver |-> [pc |-> "idle", s |-> NoSample]]
  /\ tk = [t \in Taker |-> [pc |-> "idle", at |-> 0]]

-----------------------------------------------------------------------------
(* push_sample_sn, in the order of its lock sections.                      *)

Goto(p, pc) == rx' = [rx EXCEPT ![p].pc = pc]
Abandon(p)  == rx' = [rx EXCEPT ![p] = [pc |-> "idle", s |-> NoSample]]

\* The number is recorded first, whatever becomes of the sample.
RecordSn(p, sn) ==
  /\ rx[p].pc = "idle"
  /\ pushes < MaxPushes
  /\ pushes' = pushes + 1
  /\ received' = received \cup {sn}
  /\ rx' = [rx EXCEPT ![p] = [pc |-> "recorded",
                              s |-> [id |-> pushes + 1, sn |-> sn, at |-> 0]]]
  /\ UNCHANGED <<qos, now, enabled, lastRx, samples, notified, passed, taken, tk>>

\* The is_enabled test and the reading of the clock.
ReadClock(p) ==
  /\ rx[p].pc = "recorded"
  /\ IF enabled THEN rx' = [rx EXCEPT ![p].pc = "clocked", ![p].s.at = now] ELSE Abandon(p)
  /\ UNCHANGED <<qos, now, enabled, received, lastRx, samples, notified, passed, taken, pushes, tk>>

\* Instant::duration_since saturates at zero.
Since(t, earlier) == IF t > earlier THEN t - earlier ELSE 0

\* Mutant: the distance of two times, whichever is later.
TooNear(at) ==
  lastRx # -1 /\ qos.minSep # 0 /\ Since(at, lastRx) + Since(lastRx, at) < qos.minSep

TooSoon(at) == lastRx # -1 /\ qos.minSep # 0 /\ Since(at, lastRx) < qos.minSep

ApplyFilter(p) ==
  /\ rx[p].pc = "clocked"
  /\ IF TooSoon(rx[p].s.at)
     THEN Abandon(p) /\ UNCHANGED <<lastRx, passed>>
     ELSE /\ Goto(p, "filtered")
          /\ lastRx' = rx[p].s.at
          /\ passed' = Append(passed, rx[p].s.at)
  /\ UNCHANGED <<qos, now, enabled, received, samples, notified, taken, pushes, tk>>

Full(s) == Len(s) >= qos.maxSamples

\* Mutants: no depth loop, and a depth loop for KeepAll too.
InsertUntrimmed(s, x) == Append(IF Full(s) THEN Tail(s) ELSE s, x)
InsertTrimAlways(s, x) ==
  LET grown == Append(s, x) IN IF Len(grown) > qos.depth THEN Tail(grown) ELSE grown

\* samples.remove(0) at the limit, push, then the depth loop (once at most).
Insert(s, x) ==
  LET room  == IF Full(s) THEN Tail(s) ELSE s
      grown == Append(room, x)
  IN  IF qos.kind = "KeepLast" /\ Len(grown) > qos.depth THEN Tail(grown) ELSE grown

\* Mutant: the listener is called only when the cache was empty.
StoreQuietly(p) ==
  /\ rx[p].pc = "filtered"
  /\ IF samples = <<>> THEN Goto(p, "stored") ELSE Abandon(p)
  /\ samples' = Insert(samples, rx[p].s)
  /\ UNCHANGED <<qos, now, enabled, received, lastRx, notified, passed, taken, pushes, tk>>

\* A KeepAll reader at its limit drops what it just received.
StoreSample(p) ==
  /\ rx[p].pc = "filtered"
  /\ IF qos.kind = "KeepAll" /\ Full(samples)
     THEN Abandon(p) /\ UNCHANGED samples
     ELSE Goto(p, "stored") /\ samples' = Insert(samples, rx[p].s)
  /\ UNCHANGED <<qos, now, enabled, received, lastRx, notified, passed, taken, pushes, tk>>

\* on_data_available, called without the samples lock.
NotifyListener(p) ==
  /\ rx[p].pc = "stored"
  /\ notified' = notified \cup Ids(samples)
  /\ Abandon(p)
  /\ UNCHANGED <<qos, now, enabled, received, lastRx, samples, passed, taken, pushes, tk>>

-----------------------------------------------------------------------------
(* read and take: expire_lifespan_samples, then the first sample left.     *)

Call(t) ==
  /\ tk[t].pc = "idle"
  /\ enabled
  /\ tk' = [tk EXCEPT ![t] = [pc |-> "expiring", at |-> now]]
  /\ UNCHANGED <<qos, now, enabled, received, lastRx, samples, notified, passed, taken, pushes, rx>>

Fresh(x, at) == qos.lifespan = Infinite \/ Since(at, x.at) <= qos.lifespan

\* The indices K of a sequence from the least to the greatest.
InOrder(K) ==
  {f \in [1..Cardinality(K) -> K] :
     /\ \A i, j \in DOMAIN f : i < j => f[i] < f[j]
     /\ \A k \in K : \E i \in DOMAIN f : f[i] = k}

\* samples.retain
ExpireSamples(t) ==
  /\ tk[t].pc = "expiring"
  /\ \E f \in InOrder({i \in DOMAIN samples : Fresh(samples[i], tk[t].at)}) :
       samples' = [i \in DOMAIN f |-> samples[f[i]]]
  /\ tk' = [tk EXCEPT ![t] = [pc |-> "looking", at |-> 0]]
  /\ UNCHANGED <<qos, now, enabled, received, lastRx, notified, passed, taken, pushes, rx>>

Answer(t) == tk' = [tk EXCEPT ![t].pc = "idle"]

\* read, or NoData from either call.
ReadFirst(t) ==
  /\ tk[t].pc = "looking"
  /\ Answer(t)
  /\ UNCHANGED <<qos, now, enabled, received, lastRx, samples, notified, passed, taken, pushes, rx>>

\* Mutant: the sample taken is left in place.
TakeAndLeave(t) ==
  /\ tk[t].pc = "looking"
  /\ samples # <<>>
  /\ Answer(t)
  /\ taken' = taken \cup {<<Head(samples).id, Head(samples).sn>>}
  /\ UNCHANGED <<qos, now, enabled, received, lastRx, samples, notified, passed, pushes, rx>>

\* take marks the sample taken and retains the others in one section.
TakeFirst(t) ==
  /\ tk[t].pc = "looking"
  /\ samples # <<>>
  /\ Answer(t)
  /\ samples' = Tail(samples)
  /\ taken' = taken \cup {<<Head(samples).id, Head(samples).sn>>}
  /\ UNCHANGED <<qos, now, enabled, received, lastRx, notified, passed, pushes, rx>>

Enable ==
  /\ ~enabled
  /\ enabled' = TRUE
  /\ UNCHANGED <<qos, now, received, lastRx, samples, notified, passed, taken, pushes, rx, tk>>

Advance ==
  /\ now < MaxTime
  /\ now' = now + 1
  /\ UNCHANGED <<qos, enabled, received, lastRx, samples, notified, passed, taken, pushes, rx, tk>>

Push(p) ==
  \/ \E sn \in Sn : RecordSn(p, sn)
  \/ ReadClock(p) \/ ApplyFilter(p) \/ StoreSample(p) \/ NotifyListener(p)

Take(t) == Call(t) \/ ExpireSamples(t) \/ ReadFirst(t) \/ TakeFirst(t)

Next ==
  \/ \E p \in Receiver : Push(p)
  \/ \E t \in Taker : Take(t)
  \/ Enable
  \/ Advance

Spec == Init /\ [][Next]_vars

-----------------------------------------------------------------------------
(* Properties                                                              *)

(***************************************************************************)
(* Samples that pass the time-based filter are minimum_separation apart,   *)
(* although two receive threads read the clock before they lock            *)
(* last_received_time and may reach it in the other order.                 *)
(***************************************************************************)
FilterSeparates ==
  qos.minSep # 0 => \A i, j \in DOMAIN passed : i < j => passed[j] - passed[i] >= qos.minSep

(***************************************************************************)
(* One push is returned by one take at most and never read after it,       *)
(* whatever pushes and expiries run at the same time.                      *)
(***************************************************************************)
TakenOnce == \A x \in taken : x[1] \notin Ids(samples)

(***************************************************************************)
(* No sample waits in silence: a sample in the cache was there for a call  *)
(* of on_data_available, or a receive thread is about to make one.         *)
(***************************************************************************)
NoSilentSample ==
  (Ids(samples) \subseteq notified) \/ \E p \in Receiver : rx[p].pc = "stored"

(***************************************************************************)
(* "Guaranteed delivery" (qos.rs:249): a number that the reader records,   *)
(* and from then on acknowledges, is on its way to the application, in the *)
(* cache, or was taken.                                                    *)
(***************************************************************************)
RecordedIsHeld ==
  \A sn \in received :
    \/ \E p \in Receiver : rx[p].s.sn = sn
    \/ \E i \in DOMAIN samples : samples[i].sn = sn
    \/ \E x \in taken : x[2] = sn

\* A reader whose QoS gives nothing away.
Lossless(q) ==
  /\ q.kind = "KeepAll" /\ q.maxSamples = Unlimited
  /\ q.minSep = 0 /\ q.lifespan = Infinite
  /\ q.autoenable

\* Such a reader keeps all it records until the application takes it, whatever
\* pushes, reads and takes of other threads interleave (push_sample_sn, take).
NothingLost == Lossless(qos) => RecordedIsHeld
=============================================================================
