--------------------------- MODULE EndpointMatch ---------------------------
(***************************************************************************)
(* Who matches whom: the requested/offered tests of dds-core and the SEDP  *)
(* parameters over which each side learns the other's policies.            *)
(*                                                                         *)
(* A match is decided twice, in two processes: the writer's participant    *)
(* compares its own writer with the reader it parsed, the reader's         *)
(* participant the writer it parsed with its own reader.                   *)
(*                                                                         *)
(* Enumerations are their discriminants, a name is a sequence of bytes, a  *)
(* parameter is a record of the fields its value holds.                    *)
(***************************************************************************)
EXTENDS WireTime, Layout, FiniteSets, Functions

\* The policies that SEDP carries; DataReaderQos and DataWriterQos share them.
Qos == [durability : 0..3, reliability : 0..1, blocking : Duration,
        history : 0..1, depth : Nat, liveliness : 0..2, lease : Duration,
        deadline : Duration, latency : Duration, ownership : 0..1, order : 0..1]

\* The defaults of the policies' wrappers; 100 ms is a tenth of a second.
DefaultQos ==
  [durability |-> 0, reliability |-> 0,
   blocking |-> [seconds |-> 0, nanoseconds |-> NanosPerSec \div 10],
   history |-> 0, depth |-> 1, liveliness |-> 0, lease |-> Infinite,
   deadline |-> Infinite, latency |-> Seconds(0), ownership |-> 0, order |-> 0]

-----------------------------------------------------------------------------
(***************************************************************************)
(* check_qos_compatibility, whose durations are compared by `>`.           *)
(***************************************************************************)
CheckQosCompatibility(offered, requested) ==
  /\ offered.durability  >= requested.durability
  /\ offered.reliability >= requested.reliability
  /\ ~Shorter(requested.deadline, offered.deadline)
  /\ offered.liveliness  >= requested.liveliness
  /\ ~Shorter(requested.lease, offered.lease)
  /\ ~Shorter(requested.latency, offered.latency)
  /\ offered.ownership = requested.ownership
  /\ offered.order >= requested.order

\* A list without a name stands for the default partition, whose name is "".
OrDefault(names) == IF names = <<>> THEN << <<>> >> ELSE names

\* check_partition_names and, for a Publisher's own policy, check_partition_compatibility.
CheckPartitionNames(remote, local) ==
  \E r \in Range(OrDefault(remote)), l \in Range(OrDefault(local)) : r = l

-----------------------------------------------------------------------------
(***************************************************************************)
(* A list on the wire: behind 4 bytes each item has a length and a value.  *)
(* The writer lays the items one behind the other; the reader steps by the *)
(* length it reads, padded to 4, and stops where no item begins.           *)
(***************************************************************************)
Walk(wire, count) ==
  LET walk[k \in 0..count] ==
        IF k = 0 THEN [offset |-> 4, read |-> <<>>]
        ELSE LET w == walk[k - 1] IN
             IF w.offset \notin DOMAIN wire.at THEN w
             ELSE [offset |-> w.offset + Pad4(4 + wire.at[w.offset].length),
                   read |-> Append(w.read, wire.at[w.offset].value)]
  IN  walk

ReadOut(wire, count) == Walk(wire, count)[count].read

\* A PL-CDR string is a u32 length, the bytes and a NUL.
StringSize(name) == Pad4(4 + Len(name) + 1)

StringSequence(names) ==
  [count |-> Len(names),
   strings |-> LayOut(4, [i \in DOMAIN names |-> StringSize(names[i])],
                      [i \in DOMAIN names |-> [length |-> Len(names[i]) + 1,
                                              value |-> names[i]]])]

\* The loop over PID_PARTITION.
ParseNames(value) == ReadOut(value.strings, value.count)

(***************************************************************************)
(* serialize_rtps_plcdr and parse_rtps_parameter_list: behind 4 bytes of   *)
(* encapsulation each parameter is a pid, the padded length of its value,  *)
(* cut to a u16, and the value.                                            *)
(***************************************************************************)
ValueSize(p) ==
  CASE p.pid \in {"TopicName", "TypeName"} -> StringSize(p.name)
    [] p.pid = "Partition" -> p.names.strings.size
    [] p.pid = "TypeInformation" -> Len(p.wire)
    [] p.pid = "VendorId" -> 2
    [] p.pid \in {"Durability", "Ownership", "DestinationOrder", "ProtocolVersion",
                  "DomainId", "BuiltinEndpointSet"} -> 4
    [] p.pid \in {"History", "Deadline", "LatencyBudget", "LeaseDuration"} -> 8
    [] p.pid \in {"Reliability", "Liveliness", "DataRepresentation"} -> 12
    [] p.pid \in {"ParticipantGuid", "EndpointGuid"} -> 16
    [] OTHER -> 24                                     \* a locator

Frame(parameters) ==
  LET padded(i) == Pad4(ValueSize(parameters[i]))
  IN  LayOut(4, [i \in DOMAIN parameters |-> 4 + padded(i)],
             [i \in DOMAIN parameters |-> [length |-> padded(i) % (MaxU16 + 1),
                                          value |-> parameters[i]]])

\* Behind the last parameter is the sentinel.
Unframe(wire) == ReadOut(wire, Cardinality(DOMAIN wire.at))

-----------------------------------------------------------------------------
(***************************************************************************)
(* append_endpoint_qos_writer and append_endpoint_qos_reader append the    *)
(* same parameters.  Reliability counts from 1 on the wire.                *)
(***************************************************************************)
QosParameters(q) ==
  << [pid |-> "Durability",       kind |-> q.durability],
     [pid |-> "Reliability",      kind |-> q.reliability + 1, time |-> ToWire(q.blocking)],
     [pid |-> "History",          kind |-> q.history, depth |-> q.depth],
     [pid |-> "Liveliness",       kind |-> q.liveliness, time |-> ToWire(q.lease)],
     [pid |-> "Deadline",         time |-> ToWire(q.deadline)],
     [pid |-> "LatencyBudget",    time |-> ToWire(q.latency)],
     [pid |-> "Ownership",        kind |-> q.ownership],
     [pid |-> "DestinationOrder", kind |-> q.order] >>

\* The apply_..._param functions; a kind they do not know becomes the default.
Known(kind, last) == IF kind \in 0..last THEN kind ELSE 0

ApplyQos(q, p) ==
  CASE p.pid = "Durability"       -> [q EXCEPT !.durability = Known(p.kind, 3)]
    [] p.pid = "Reliability"      -> [q EXCEPT !.reliability = IF p.kind = 2 THEN 1 ELSE 0,
                                               !.blocking = FromWire(p.time)]
    [] p.pid = "History"          -> [q EXCEPT !.history = Known(p.kind, 1), !.depth = p.depth]
    [] p.pid = "Liveliness"       -> [q EXCEPT !.liveliness = Known(p.kind, 2),
                                               !.lease = FromWire(p.time)]
    [] p.pid = "Deadline"         -> [q EXCEPT !.deadline = FromWire(p.time)]
    [] p.pid = "LatencyBudget"    -> [q EXCEPT !.latency = FromWire(p.time)]
    [] p.pid = "Ownership"        -> [q EXCEPT !.ownership = Known(p.kind, 1)]
    [] p.pid = "DestinationOrder" -> [q EXCEPT !.order = Known(p.kind, 1)]
    [] OTHER -> q

(***************************************************************************)
(* An endpoint of the program: register_writer and register_reader take    *)
(* the names of its topic and the partition of its Publisher or            *)
(* Subscriber; sedp_to_plcdr sends both, parse_sedp_packet reads them and  *)
(* refuses an endpoint whose topic or type has the empty name.             *)
(***************************************************************************)
Register(entity) == [topic |-> entity.topic, type |-> entity.type, qos |-> entity.qos,
                     info |-> entity.info, partition |-> OrDefault(entity.partition)]

SedpParameters(ep) ==
  << [pid |-> "TopicName", name |-> ep.topic] >>
  \o (IF ep.info = <<>> THEN <<>> ELSE << [pid |-> "TypeInformation", wire |-> ep.info] >>)
  \o << [pid |-> "TypeName", name |-> ep.type] >>
  \o QosParameters(ep.qos)
  \o << [pid |-> "DataRepresentation"], [pid |-> "EndpointGuid"],
        [pid |-> "Partition", names |-> StringSequence(OrDefault(ep.partition))] >>

(***************************************************************************)
(* What the program's types allow; a parameter that a u16 cannot measure   *)
(* would not fit into a datagram.                                          *)
(***************************************************************************)
IsEntity(e) ==
  /\ {e.topic, e.type, e.info} \subseteq Seq(Nat)
  /\ e.partition \in Seq(Seq(Nat))
  /\ e.qos \in Qos
  /\ \A p \in Range(SedpParameters(Register(e))) : Pad4(ValueSize(p)) <= MaxU16

\* No endpoint: what parse_sedp_packet returns as None.
None == [topic |-> <<>>]

\* The arms of the match: a partition's names are added, all else replaced.
ApplyParameter(ep, p) ==
  CASE p.pid = "TopicName" -> [ep EXCEPT !.topic = p.name]
    [] p.pid = "TypeName"  -> [ep EXCEPT !.type = p.name]
    [] p.pid = "Partition" -> [ep EXCEPT !.partition = @ \o ParseNames(p.names)]
    [] OTHER               -> [ep EXCEPT !.qos = ApplyQos(@, p)]

Unread == [topic |-> <<>>, type |-> <<>>, qos |-> DefaultQos, partition |-> <<>>]

ApplyParameters(parameters) ==
  LET read[k \in 0..Len(parameters)] ==
        IF k = 0 THEN Unread ELSE ApplyParameter(read[k - 1], parameters[k])
  IN  read

ParseSedp(parameters) ==
  LET ep == ApplyParameters(parameters)[Len(parameters)]
  IN  IF <<>> \in {ep.topic, ep.type} THEN None ELSE ep

Announced(entity) == ParseSedp(Unframe(Frame(SedpParameters(Register(entity)))))

-----------------------------------------------------------------------------
(***************************************************************************)
(* run_matchmaking, on the writer's side and on the reader's side.  The    *)
(* writer's side reads its Publisher's policy, the reader's side the       *)
(* endpoint it registered.  That a remote reader must also have locators   *)
(* depends on what is known of its participant (Matchable of Discovery).   *)
(***************************************************************************)
WriterSideMatches(writer, remote) ==
  /\ remote # None
  /\ CheckPartitionNames(remote.partition, writer.partition)
  /\ writer.topic = remote.topic /\ writer.type = remote.type
  /\ CheckQosCompatibility(writer.qos, remote.qos)

ReaderSideMatches(reader, remote) ==
  /\ remote # None
  /\ reader.topic = remote.topic /\ reader.type = remote.type
  /\ CheckQosCompatibility(remote.qos, reader.qos)
  /\ CheckPartitionNames(remote.partition, Register(reader).partition)

-----------------------------------------------------------------------------
(***************************************************************************)
(* Both participants reach the same verdict, so neither sends to a reader  *)
(* that drops its samples or waits for a writer that does not know it; and *)
(* an endpoint is refused for an empty name only.                          *)
(***************************************************************************)
SidesAgree(writer, reader) ==
  /\ \A e \in {writer, reader} : Announced(e) = None <=> <<>> \in {e.topic, e.type}
  /\ WriterSideMatches(writer, Announced(reader))
       <=> ReaderSideMatches(reader, Announced(writer))
=============================================================================
