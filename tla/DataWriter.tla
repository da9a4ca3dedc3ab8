----------------------------- MODULE DataWriter -----------------------------
(***************************************************************************)
(* One DataWriter of dds-core shared by application threads.               *)
(*                                                                         *)
(* `write` takes three locks one after the other and holds none of them    *)
(* across two steps: registered_instances for the instance check, next_sn  *)
(* for the sequence number, rtps_writer for the insertion. Each section is *)
(* an action, so writes, dispose and unregister interleave as the threads  *)
(* of a real program can.                                                  *)
(***************************************************************************)
EXTENDS HistoryCache

CONSTANTS
  Thread,      \* application threads that call write
  Instance,    \* keys of the topic type; NoKey stands for a keyless type
  NoKey,
  WriterQos,   \* the QoS a run creates its writer with, one of them
  MaxSn        \* bound: the greatest sequence number a run allocates

ASSUME DataWriterAssumption ==
  /\ \A q \in WriterQos : IsWriterQos(q)
  /\ Instance # {}
  /\ MaxSn \in Nat

VARIABLES
  qos,        \* the qos given to create_datawriter
  enabled,    \* is_enabled
  nextSn,     \* next_sn
  cache,      \* rtps_writer.writer_cache
  durable,    \* durability_cache
  instances,  \* registered_instances: "None" when absent from the map
  pc,         \* where each thread is inside write
  key,        \* the instance each thread is writing
  sn,         \* the sequence number each thread holds (0: none)
  accepted    \* history: the numbers whose write returned Ok

vars == <<qos, enabled, nextSn, cache, durable, instances, pc, key, sn, accepted>>

\* Keyless types skip the instance check (key_hash.is_nil()).
Writable(i) == i # NoKey => instances[i] = "Alive"

TypeOK ==
  /\ qos \in WriterQos
  /\ enabled \in BOOLEAN
  /\ nextSn \in 1..MaxSn + 1
  /\ cache \subseteq 1..MaxSn
  /\ durable \in Seq(1..MaxSn)
  /\ instances \in [Instance \ {NoKey} -> {"None", "Alive", "Disposed"}]
  /\ pc \in [Thread -> {"idle", "checked", "numbered"}]
  /\ key \in [Thread -> Instance]
  /\ sn \in [Thread -> 0..MaxSn]
  /\ accepted \subseteq 1..MaxSn

\* Mutant: sequence numbers from zero.
InitAtZero ==
  /\ qos \in WriterQos
  /\ enabled = TRUE
  /\ nextSn = 0
  /\ cache = {}
  /\ durable = <<>>
  /\ instances = [i \in Instance \ {NoKey} |-> "None"]
  /\ pc = [t \in Thread |-> "idle"]
  /\ key = [t \in Thread |-> CHOOSE i \in Instance : TRUE]
  /\ sn = [t \in Thread |-> 0]
  /\ accepted = {}

Init ==
  /\ qos \in WriterQos
  /\ enabled \in BOOLEAN   \* autoenable_created_entities
  /\ nextSn = 1
  /\ cache = {}
  /\ durable = <<>>
  /\ instances = [i \in Instance \ {NoKey} |-> "None"]
  /\ pc = [t \in Thread |-> "idle"]
  /\ key = [t \in Thread |-> CHOOSE i \in Instance : TRUE]
  /\ sn = [t \in Thread |-> 0]
  /\ accepted = {}

-----------------------------------------------------------------------------
(* write, in the order of its lock sections.                               *)

\* write returns NotEnabled or PreconditionNotMet unless this is enabled.
CheckInstance(t, i) ==
  /\ pc[t] = "idle"
  /\ enabled
  /\ Writable(i)
  /\ pc' = [pc EXCEPT ![t] = "checked"]
  /\ key' = [key EXCEPT ![t] = i]
  /\ UNCHANGED <<qos, enabled, nextSn, cache, durable, instances, sn, accepted>>

AllocateSn(t) ==
  /\ pc[t] = "checked"
  /\ nextSn <= MaxSn
  /\ sn' = [sn EXCEPT ![t] = nextSn]
  /\ nextSn' = nextSn + 1
  /\ pc' = [pc EXCEPT ![t] = "numbered"]
  /\ UNCHANGED <<qos, enabled, cache, durable, instances, key, accepted>>

\* Mutant: the number of a refused write is given back.
RefuseAndGiveBack(t) ==
  /\ pc[t] = "numbered"
  /\ Rejects(qos, cache)
  /\ nextSn' = nextSn - 1
  /\ pc' = [pc EXCEPT ![t] = "idle"]
  /\ sn' = [sn EXCEPT ![t] = 0]
  /\ UNCHANGED <<qos, enabled, cache, durable, instances, key, accepted>>

\* OutOfResources: the number is spent, nothing is stored.
RefuseChange(t) ==
  /\ pc[t] = "numbered"
  /\ Rejects(qos, cache)
  /\ pc' = [pc EXCEPT ![t] = "idle"]
  /\ sn' = [sn EXCEPT ![t] = 0]
  /\ UNCHANGED <<qos, enabled, nextSn, cache, durable, instances, key, accepted>>

\* The rtps_writer section also fills the durability cache.
StoreChange(t) ==
  /\ pc[t] = "numbered"
  /\ ~Rejects(qos, cache)
  /\ cache' = AddChange(qos, cache, sn[t])
  /\ durable' = IF qos.durability = "Volatile" THEN durable
                ELSE PushDurable(qos, durable, sn[t])
  /\ accepted' = accepted \cup {sn[t]}
  /\ pc' = [pc EXCEPT ![t] = "idle"]
  /\ sn' = [sn EXCEPT ![t] = 0]
  /\ UNCHANGED <<qos, enabled, nextSn, instances, key>>

-----------------------------------------------------------------------------
(* The instance life cycle and enable, one lock section each.              *)

SetInstance(i, state) ==
  /\ instances' = [instances EXCEPT ![i] = state]
  /\ UNCHANGED <<qos, enabled, nextSn, cache, durable, pc, key, sn, accepted>>

RegisterInstance(i) == SetInstance(i, "Alive")

Dispose(i) == instances[i] = "Alive" /\ SetInstance(i, "Disposed")

UnregisterInstance(i) == instances[i] # "None" /\ SetInstance(i, "None")

Enable ==
  /\ enabled' = TRUE
  /\ UNCHANGED <<qos, nextSn, cache, durable, instances, pc, key, sn, accepted>>

Next ==
  \/ \E t \in Thread, i \in Instance : CheckInstance(t, i)
  \/ \E t \in Thread : AllocateSn(t)
  \/ \E t \in Thread : RefuseChange(t)
  \/ \E t \in Thread : StoreChange(t)
  \/ \E i \in Instance \ {NoKey} : RegisterInstance(i)
  \/ \E i \in Instance \ {NoKey} : Dispose(i)
  \/ \E i \in Instance \ {NoKey} : UnregisterInstance(i)
  \/ Enable

Spec == Init /\ [][Next]_vars

-----------------------------------------------------------------------------
(* Properties                                                              *)

(***************************************************************************)
(* The history cache holds what the history QoS promises of the writes     *)
(* that returned Ok: all of them for KeepAll, the Depth newest for         *)
(* KeepLast, in whatever order concurrent writers reached rtps_writer.     *)
(***************************************************************************)
KeepsNewest ==
  IF qos.kind = "KeepAll" THEN cache = accepted
  ELSE IsNewest(cache, accepted, qos.depth)

(***************************************************************************)
(* No two samples share a sequence number: the numbers held by threads in  *)
(* the middle of write differ from one another and from every number of a  *)
(* sample already accepted, refused writes included.                       *)
(***************************************************************************)
NumbersAreUnique ==
  \A t \in Thread : pc[t] = "numbered" =>
    /\ sn[t] \notin accepted
    /\ \A u \in Thread \ {t} : pc[u] = "numbered" => sn[u] # sn[t]

(***************************************************************************)
(* The cached samples that a reader joining at n is never sent unasked:    *)
(* send_durability_to_proxy sends what durability_cache holds, in arrival  *)
(* order, and the engine what lies at or after the join point.             *)
(***************************************************************************)
Missed(n) == {s \in cache : s < n} \ Samples(durable)

(***************************************************************************)
(* The history cache drops the least number, the durability cache the one  *)
(* that arrived first, and concurrent writers can arrive out of order. A   *)
(* late joiner still gets as many samples as the depth promises, and       *)
(* misses a cached one only where an older one, which a later store left   *)
(* in the durability cache, is sent in its place. A KeepAll writer's late  *)
(* joiner misses none.                                                     *)
(***************************************************************************)
OnlyOvertakenMissed ==
  \A n \in 1..MaxSn + 1 : IsJoinPoint(durable, n) =>
    \A s \in Missed(n) :
      /\ qos.kind = "KeepLast"
      /\ Cardinality(Samples(durable)) = qos.depth
      /\ \E d \in Samples(durable) : d < s

(***************************************************************************)
(* A late joiner misses nothing. So it is while one thread writes; several *)
(* threads and KeepLast refute it (see OnlyOvertakenMissed).               *)
(***************************************************************************)
LateJoinerServed == \A n \in 1..MaxSn + 1 : IsJoinPoint(durable, n) => Missed(n) = {}

(***************************************************************************)
(* "Writing to disposed instance should fail"                              *)
(* (tests/e2e_instance_lifecycle.rs): no sample of a disposed instance     *)
(* enters the cache.                                                       *)
(***************************************************************************)
DisposedNeverStored ==
  [][\A t \in Thread : sn[t] \in cache' \ cache => Writable(key[t])]_vars
=============================================================================
