# TLA+ models of AI-DDS

AI-DDS is an implementation of DDS (a publish/subscribe middleware) and of its
wire protocol RTPS, in Rust. These modules model the parts of it in which
threads, datagrams and timers interleave, and the pure parts that two processes
must agree on: what one writes on the wire and the other reads. TLC checks them
on small instances and TLAPS proves the central results for every value of the
constants.
Paths below are relative to `crates/` of the repository.

## 1. Inventory

| Component | State it keeps | Operations | Interacts with | Status |
|---|---|---|---|---|
| Writer history cache (`dds-rtps`, `HistoryCache`) | sorted changes, history kind, depth, limit | `add_change`, `get_seq_num_min/max` | DataWriter, engine | modelled |
| DataWriter (`dds-core`) | `next_sn`, `registered_instances`, `durability_cache`, `is_enabled`, its `StatefulWriter` | `write`, `register_instance`, `dispose`, `unregister_instance`, `enable` | application threads; the engine and matchmaking lock its `rtps_writer` | modelled, but for writer-side liveliness |
| Wire protocol (`RtpsEngine`, `StatefulWriter`, the user receive loop) | `reader_proxies` with `next_unsent_sn`, `received_sns`, datagrams | `tick`, DATA, Heartbeat, AckNack, match, unmatch | UDP, DataReader, discovery | modelled, without fragments |
| DataReader cache | `samples`, `received_sns`, `last_received_time`, `is_enabled` | `push_sample_sn`, `read`, `take`, `expire_lifespan_samples`, `enable` | receive threads, application threads, listener | modelled |
| Reader-side liveliness | `matched_writers`, `writer_liveliness_last`, `writer_is_alive`, `alive_writer_count` | `note_writer_liveliness`, `check_liveliness_timeouts`, reader half of `run_unmatch_removed` | receive, discovery and main loop | modelled |
| Participant (`ParticipantHooks`, `Publisher`, `Subscriber`) | mutexes `discovery`, `publishers`, `local_readers`, `writers`, `readers` | `create_datawriter`, `create_datareader`, `delete_datawriter`, `run_matchmaking`, `run_unmatch_removed`, `check_all_liveliness`, SEDP ingestion | everything | locks and proxies modelled |
| Matchmaking predicates | QoS, partitions, types | `check_qos_compatibility`, partition match, `check_type_compatibility` | participant; SEDP carries the policies | modelled |
| Discovery (`dds-discovery`) | participants, endpoints, leases, announcements, `sedp_received` | SPDP, SEDP with its own Heartbeats and AckNacks, ingestion, lease check | participant, UDP | modelled, without the security handshake |
| Fragmentation | one reassembly buffer per sample | fragments of `tick`, `DataFrag`, `HeartbeatFrag` | engine, main loop | modelled for one sample |
| RTPS codec (`dds-rtps`) | none that lasts | `serialize_rtps_message`, `parse_rtps_message` | everything that sends | modelled |
| CDR (`dds-cdr`) | buffer and offset | serializer, deserializer, XCDR2 headers, parameter lists | payloads, TypeLookup | modelled |
| XTypes, TypeLookup (`dds-xtypes`) | type-object database | `is_assignable_from`, `getTypes`, `getTypeDependencies` | discovery, CDR | modelled, without the dynamic data container |
| Time and locators (`dds-types`) | none | order, arithmetic, wire form; filters and remapping | matchmaking, discovery | modelled |
| Writer-side liveliness | lease, last assertion, lost count | assert, check | housekeeping | not modelled |
| Conditions, WaitSet | conditions, trigger | attach, detach, wait | application | not modelled |
| Listeners and statuses | counters | callbacks | all | `on_data_available` and the alive count only |
| Security, IDL tools, monitor, UDP sockets | | | | not modelled (section 8) |

Threads of a participant: the application's; one *engine* thread per writer,
which calls `tick` every 10 ms; the *user receive loop* (DATA, Heartbeat,
AckNack); the *metatraffic and multicast loops* (SPDP and SEDP, then
`run_matchmaking`); the *main loop*, which does the housekeeping (leases,
unmatching, liveliness) and then blocks in `recv`. They share state under
`std::sync::Mutex`, mostly one small section after another. So the hard
behaviour is: what happens between two sections of one operation; mutexes held
across calls; datagrams lost, repeated and reordered; two sides of a match that
come and go at different times; a housekeeping that depends on traffic.

What makes each component correct: the cache holds what its history QoS says,
in whatever order threads store; sequence numbers are not reused; a writer's view of
a reader rests on what that reader acknowledged, and what stays cached arrives; a
reader's filter, limit, lifespan and takes neither lose nor repeat a sample
beyond what the QoS allows; the alive count matches the writers and a silent one
expires; matchmaking misses no pair, and operations return. Discovery ends with
what remotes have now, and forgets the dead; two processes that exchange policies,
locators, messages, types or samples understand each other: the same verdict on a
match, the same destinations, the same values.

## 2. Modules

| Module | Models | Extends / instantiates |
|---|---|---|
| `HistoryCache` | operators of the two caches of a writer | |
| `DataWriter` | `write` by lock section, instance life cycle, `enable` | `HistoryCache` |
| `ReliableProtocol` | writers, engine, network, readers, matching | `HistoryCache`; `ReliableDelivery` for the refinement |
| `ReliableDelivery` | the abstract promise: samples are stored before they are delivered, and progress moves only forward and to delivered numbers | |
| `DataReader` | `push_sample_sn`, `read`, `take` by lock section | |
| `ReaderLiveliness` | liveliness of a reader's writers by lock section | |
| `ParticipantLocks` | mutexes held across calls, matching of endpoints | |
| `Discovery` | remote participants, the network and the observer's threads, by lock section | |
| `WireTime` | `Duration` and `Timestamp`: order, arithmetic, wire form | |
| `Layout` | items one behind the other in a buffer, found by their offsets | |
| `EndpointMatch` | the requested/offered tests and the SEDP parameters | `WireTime`, `Layout` |
| `DiscoveryWire` | locators in SPDP and SEDP: filters, sorts, remapping, destinations | `EndpointMatch` |
| `RtpsMessage` | submessages and their parser | `WireTime`, `Layout` |
| `Fragments` | a long sample: its cut, the arrival of its fragments, the requests for missing ones | `RtpsMessage` |
| `CdrStream` | alignment, primitives and member headers of a CDR stream | |
| `Cdr` | serializer and deserializer, driven by a type | `CdrStream` |
| `TypeCompatibility` | `check_type_compatibility`, `is_assignable_from` | |
| `TypeLookup` | type objects, the TypeLookup service | `Cdr` |
| `Parts` | the pure parts that are proved about, over sets of inputs | `CdrStream`, `TypeCompatibility`, `Fragments`, `DiscoveryWire` |
| `MCParts` | the inputs of `Parts` for TLC, and the cases of the other pure parts | `Parts`, `TypeLookup` |
| other `MC*` | QoS values, endpoints and owners for TLC | the module they are named after |
| `*_proofs` | theorems | their module and `TLAPS` |

Conventions. One action is one critical section of the code, or one that locks
nothing else; `pc` fields say where a thread is between two of them. A variable
has the name of the field it models, history variables are marked so in their
comment, and bounds (`MaxSn`, `MaxPushes`, `MaxTime`, `MaxLosses`,
`MaxUnmatches`, `MaxRemovals`, `MaxWriters`, `MaxExpiries`, `MaxArrivals`) stand in guards.
Operators marked *Mutant* are plausible bugs of the operator that follows them;
no specification uses them.

**HistoryCache.** `changes` is sorted and without duplicates, so it is the set
of its sequence numbers; `remove(0)` drops the least. Payloads, timestamps and
instance handles are left out: `add_change` looks at none of them. The
operators take the QoS as an argument, the record `IsWriterQos` describes.

**DataWriter.** `CheckInstance` is the `is_enabled` test and the
`registered_instances` section of `write`; `AllocateSn` the `next_sn` section;
`RefuseChange` and `StoreChange` the `rtps_writer` section, the latter with the
push to `durability_cache`, which happens under the same guard. The life cycle
calls and `enable` are one section each.

**ReliableProtocol.** `AllocateSn` and `StoreChange`/`RefuseChange` are `write`
seen from the protocol: `pending` holds the numbers of the writes under way, so
any number of threads may write to one writer. `Tick` is the whole of
`RtpsEngine::tick`, which holds `rtps_writer` throughout: it sends every cached
change from `next_unsent_sn` on and a Heartbeat to every proxy, and moves no
proxy. `MatchReader` and `MatchWriter` are the two halves of `run_matchmaking`,
which run in different processes at different times; the first sends the
durability samples. `ReceiveData`, `ReceiveHeartbeat` and `ReceiveAckNack` are
the branches of the receive loop with the answers they send. A datagram that is
received may stay in the network (`Receive(m, net)`), which models duplication;
since the network is a set there is no order.

**DataReader.** `RecordSn`, `ReadClock`, `ApplyFilter`, `StoreSample`,
`NotifyListener` are the sections of `push_sample_sn` in its order, with its
early returns (disabled, too soon, KeepAll at the limit). `Call`,
`ExpireSamples`, then `ReadFirst` or `TakeFirst` are `read` and `take`. The
instant of a call is read at `Call`; the sample's at `ReadClock`.

**ReaderLiveliness.** `BeginNote`, `Stamp`, `MarkAlive` are
`note_writer_liveliness`; `Unmatch`, `ForgetAlive`, `ForgetStamp` the three
sections of a removal; `CollectLate` and `Expire` the two loops of
`check_liveliness_timeouts`. Instants are modelled by the age of the stamp.

**ParticipantLocks.** `holder` maps each mutex to the thread that holds it; a
section that takes one mutex and drops it is one step that needs the mutex
free. `create_datawriter` and `create_datareader` hold the map of their entity
from the beginning to the end, through `register_*` and `run_matchmaking`,
which takes `discovery`, `publishers`, `local_readers` and then each publisher's
`writers`. Entity numbers are the code's `(len + 1) as u8`.

**Discovery.** One participant, the observer, sees remotes that run the same
code. A remote's state is its registered endpoints (`local`: the SEDP number of
each, 0 for none), the next number of each SEDP writer, and what its announcer
thread still has to send of the snapshot it took: `BeginAnnouncing` copies the
endpoints under the lock, `AnnounceNext` sends one, with the content of the
snapshot and the number of the moment. `RegisterEndpoint` on a registered GUID is
an application that deletes an entity and creates another: the GUID repeats, the
content and the number do not. The observer's state is the `DiscoveryManager`'s
maps, `sedp_received`, its matches, and for each receive thread where it is:
`ReceiveData` makes the participant known, `NoteNumber` notes the number,
`InsertEndpoint` and `RunMatchmaking` follow, each in a section of its own. The main
loop passes the lease check before each wait: `CheckLeaseTimeouts` removes under the
lock and `RunUnmatchRemoved` unmatches after it, or no lease ran out; `Wait` is the
`recv` that follows, and `Wake` its end by a datagram of others than the remotes
modelled. The content of an
endpoint is the number of its registration. Every announcement goes to the
multicast group and to the metatraffic locators, so either thread may get it.

**WireTime, EndpointMatch, DiscoveryWire.** Operators. `Announced(entity)` takes
an entity through `register_*`, `sedp_to_plcdr`, the parameter framing and
`parse_sedp_packet`; `WriterSideMatches` and `ReaderSideMatches` are the two
places that decide on a match. A PL-CDR list is kept by offset (`Layout`): the reader
steps by the lengths it reads, so a length that is off by one loses what follows it.
`ReceivedParticipant` and `ReceivedEndpoint` do the same for locators. `retain`,
`sort_by_key` and `dedup` say which places of a list they take and in which order
(`Keep`, `SortBy`, `Dedup`): a stable sort puts an element behind those that are
counted before it.

**RtpsMessage, Fragments.** A body maps an offset to the field that begins there, with
its size, and a message an offset to the submessage. `Serialize` lays them out with
lengths, flags and padding; `Parse` steps from header to header by the lengths it
reads, and takes fields from the offsets of the code. What is read where nothing of that
size begins is `Garbage`.
`Fragments` has steps: `Cut` is the fragmentation in `tick`, `ReceiveDataFrag` the
branch of the main loop that fills the `FragmentBuffer` (`Fill`), delivers when it is
complete and otherwise asks for what is `Missing`, `ReceiveHeartbeatFrag` the branch
that repeats the question. `came` counts the arrivals of each fragment and
`delivered` what the reader was given.

**CdrStream, Cdr, TypeCompatibility, TypeLookup.** A buffer has one cell per byte, and a
primitive leaves cells that name its size, value and byte order, so that reading at
another place or in another order is seen. `Encode` and `Decode` follow a type.
`CdrStream` is what they append and take one at a time; it and `TypeCompatibility` are
kept apart because nothing in them is recursive and so they can be proved about.
`TypeLookup` gives the types of the service's messages and what a participant answers
from its database; `Ask` is a request and its reply, both over the wire.

## 3. Runs

| Run | Shows |
|---|---|
| `DW_History` | three threads, three QoS, five numbers: histories and numbers are right whatever the order of the lock sections, and a late joiner misses only samples that a depth of others overtook |
| `RP_Safety` | a proxy stands just past a number that was stored and received, delivery is of stored samples, and the protocol implements `ReliableDelivery` |
| `RP_Live` | every cached sample arrives and the engine goes quiet |
| `RP_TwoWriters` (violation) | two writers that number alike starve a reader they share |
| `DR_Cache` | filter, callbacks, takes and the lossless reader, two receive threads and two application threads |
| `RL_Busy` | the alive count and the expiry of crashed writers |
| `PL_Matched` | no pair of endpoints is missed; while no `create_datawriter` holds a `writers` map, somebody under way can go on |
| `PL_Rediscovered` | no deadlock and no starvation without new writers; a participant that returns during its removal is matched again |
| `PL_SelfLock` (violation) | `create_datawriter` locks a mutex it holds |
| `DI_Safety` | matches are of discovered endpoints and matched readers are reachable, whatever the order of the sections of two receive threads |
| `DI_Live` | where other traffic wakes the main loop, the observer ends with the present content of live endpoints and without crashed participants |
| `WI_Parts` | both sides agree on a match; destinations, messages, samples and typed values survive the wire; fragments are put together whatever their order, and a request names what completes the sample; number sets, evolved types and type lookups are exact |

### Bounds

* `DW_History`: the hazards need two threads out of order and a third that meets
  the result; five numbers let a cache of depth 2 turn over twice and a KeepAll
  cache of 3 refuse two writes. The cache of depth 2 is TransientLocal, so that the
  durability cache loses other samples than the history cache. Threads beyond three repeat the roles of these.
* `RP_Safety`: three numbers and a limit of two make a refused write happen
  between stored ones, and leave datagrams of three generations in flight at once;
  one unmatch on either side brings in proxies that start anew among old AckNacks.
  `ReliableProtocol_proofs` lifts the bounds.
* `RP_Live`: two samples are the least that a pure ACK can overtake; one loss hits
  each kind of datagram; the reader matches before, between and after the writes.
  Unmatching is left to `RP_Safety`, to keep the temporal check small.
* `NackWindow` is the code's 256, so a run never cuts a bitmap; the theorems hold for
  any window, and `WI_Parts` cuts number sets of 4 bits.
* `DR_Cache`: with a separation of 2 and three instants a late clock read can be
  told from an early one; three pushes overfill each bounded history. The numbers
  are model values (`push_sample_sn` compares them for equality only), so TLC may
  permute them.
* `RL_Busy`: a lease of 0 ticks makes a stamp late after one; one removal of
  either writer, at any time, meets every step of a note.
* `PL_*`: two publishers, so that the loops of matchmaking and of the
  housekeeping are seen in the middle; two discovery threads compete for
  `discovery`.
* `DI_Safety`: one remote with a reader, whose match needs the participant's
  locators, and a writer, whose match does not; two receive threads, so that an
  endpoint is ingested, in all its sections, while the main loop removes its
  participant, and two
  expiries of a live lease besides those after a crash. Nothing is lost, since a
  lost datagram is one that stays in flight. `Discovery_proofs` lifts the bounds.
* `DI_Live`: one reader that is registered twice, one loss, one expiry of a live
  lease: enough for old content to arrive after new, for a removal to meet late
  datagrams, and for a crash before, between and after all of these. One thread
  does everything here, in the sections of the code, to keep the temporal check
  small.
* `WI_Parts`: units are small so that rounding and limits are met by small values: 10
  nanoseconds and 32 fractions to the second (the rounding error stays below one half,
  as 10^9 is to 2^32); sequence numbers take a second word from 4 on; number sets have 4
  bits in words of 2, so that two words and a cut occur; fragments have 2 bytes, samples
  up to 6, so three fragments, each of which arrives up to 3 times in any order: a
  sample is completed, and its buffer begun again, three times. QoS differ from the
  default in one or two fields on either side, partitions have no, one and several names
  of lengths around a multiple of 4; messages are all pairs of 39 submessages and
  triples of a few; typed values begin at each of 8 alignments in both byte orders; type
  graphs have all edges between 4 known types and an unknown one; the versions of a type
  are all those of two members. Announcements with the placeholder's port on loopback
  are left out: nobody can be reached at it (section 6). A case of any part but
  fragments is chosen in one step and its property is of operators; fragments have
  steps, all of which are reached.

Deadlock is checked where the system may not stop (`RL_*`, `RP_*`,
`PL_Rediscovered`). It is not where bounded numbers, pushes or
time run out (`DW_*`, `DR_*`, and `DI_*`, whose crashed remote falls silent), where
a behaviour is one case (`WI_Parts`), nor in `PL_Matched` and `PL_SelfLock`, whose
writer creation does block for ever: that is the finding of `PL_SelfLock`.

## 4. Fairness

* `ReliableProtocol!FairSpec`: the engine thread ticks for ever (`WF` on
  `Tick`); a write that has its number goes on; discovery announces
  periodically, so both halves of a match happen as long as they are missing; a
  datagram that stays in flight is received, which is the assumption about the
  network that reliability needs once losses have ended. No fairness makes
  anyone write, lose or unmatch.
* `ReaderLiveliness`: `QuietSpec` says that threads run and the clock ticks, and
  nothing more; `BusySpec` adds that datagrams of other participants keep waking
  the main loop. The code justifies only the first in general; `RL_Busy` assumes
  the second, and section 6 says what fails without it.
* `Discovery!FairSpec`: the SPDP and SEDP timers of a live remote fire, threads
  finish what they hold (`WF`); a SPDP or SEDP datagram that is sent again and
  again is received in the end, and a main loop that comes to the lease check again
  and again finds in the end that the lease of a dead participant has run out,
  however often a late datagram brings it back (`SF`; a dead one sends nothing,
  and late ones are finitely many). Nothing in `FairSpec` makes the main loop come
  there: it waits in `recv` without a timeout, and the observer's own announcements
  reach another socket. `Discovery!BusySpec` adds that traffic: datagrams of
  participants that are not modelled go on arriving (`WF` on `Wake`). `CrashForgotten`
  needs it (section 6); `EventuallyCurrent` does not, and TLC confirms it under
  `FairSpec` too. No
  fairness for AckNacks, Heartbeats and replies: the periodic announcements alone
  must do.
* `ParticipantLocks!FairSpec`: strong fairness of every thread's next section,
  since a mutex that is released again and again is obtained in the end on the
  platforms of the code; and of the ingestion of each remote endpoint, which is
  announced again and again. Nobody is obliged to create or delete.

## 5. Proofs

Assumptions are those the modules state (`ProtocolAssumption`: a QoS that
`create_datawriter` accepts, `ReliableReader` among the readers, a positive window;
`DataWriterAssumption`, `DataReaderAssumption`, `LivelinessAssumption`,
`DiscoveryAssumption`, `LocksAssumption`; `WireTimeAssumption`: a second has at least
twice as many fractions as nanoseconds; `RtpsAssumption`: garbage is no number;
`PartsAssumption`: lists of missing numbers ascend, as the walk over a range builds them,
identifiers have 28 bits, endpoints have policies of their types and parameters that a
u16 can measure (`IsEntity`), messages have submessages of their types that a u16 can
measure, inline QoS of whole words, and ask for fragments from their first missing one
on (`IsMessage`), and a participant announces loopback or the address of an interface
(`IsAnnouncement`), but not loopback with the port of the placeholder (section 6);
`DiscoveryWireAssumption`: ports are positive; `FragmentsAssumption`: fragments and
samples have at least one octet; `UnreadableAssumption`), and one more where it is named. The numbers of writers,
readers and threads are arbitrary, and the bounds any naturals.

* **`DataWriter_proofs`.** It begins with lemmas about the operators of
  `HistoryCache`: `add_change` only adds the new number, the least element that
  `remove(0)` drops exists, a KeepLast cache with room keeps the newest
  (`KeepLastKeepsNewest`), and as long as numbers come in order, the queue that `push`
  shortens at its front and the sorted list that `add_change` shortens at its least
  number lose the same sample (`DurableInOrder`).
  `SequenceNumbersUnique` rests on `NumberInv`: all that
  was numbered, accepted or still held by a thread between the `next_sn` and the
  `rtps_writer` section, lies below `next_sn`, and is pairwise different.
  `HistoryIsNewest` adds `WithinDepth`, without which the single removal of
  `TrimToDepth` would not do, and assumes `RoomToSpare`: a KeepLast limit greater
  than the depth. At equality the theorem is false (section 6). `WriterTypeCorrect`
  needs that a thread about to store holds a number (`HoldsNumber`).
  `LateJoinersMissOnlyOvertaken` has no such assumption: it is of every QoS that
  `create_datawriter` accepts, the limit at the depth included. What a late joiner
  is not sent is absent from `durability_cache` and below the join point. `DurableInv`
  says what that cache is. Of a KeepAll writer it has all that was accepted; of a
  KeepLast one the last arrivals, as many as the depth once so many came
  (`LastArrivals`), and one of these that the history cache dropped is older than
  whatever the history cache still holds of the arrivals before it (`NewerKept`). So a
  cached sample that is missed was overtaken by a full depth of later arrivals; were
  all of them newer, the history cache would hold them all and that sample too, one
  more than its depth. Hence one of them is older.
  Where one thread writes nothing goes wrong: `OneThreadKeepsNewest` and
  `OneThreadServesLateJoiners` say that the history is the newest and that a late
  joiner misses nothing, for every QoS that `create_datawriter` accepts. `SerialInv`
  adds `InOrder`: the number a thread holds is above all accepted ones, and
  `durability_cache` is the ascending list of what the history cache holds.
* **`ReaderLiveliness_proofs`.** `CountIsSound`: what the count rests on is only
  that a note or a removal under way has a writer (`CountType`). Each section
  changes the map of one writer, so the set of the alive gains or loses at most
  one element, and the count never gains without it nor keeps one it lost.
  `LivelinessTypeCorrect` (for a reader with a writer to hear of): `TypeOK` is
  inductive as it stands.
* **`ReliableProtocol_proofs`.** None of the safety properties is inductive:
  what a writer may conclude from an AckNack depends on what was true when the
  reader sent it. `IInv` adds what every datagram in flight carries with it
  (`NetInv`): a DATA a stored number, a Heartbeat a last number that was stored,
  an AckNack a number that was stored and received; and (`StoreInv`) that what the
  caches hold was stored. As `published` and `received` only grow, such facts
  survive the datagram's delay and duplication. One lemma per action shows that
  `IInv` is kept; `TypeCorrect`, `ProgressIsSound` and `DeliveryIsSound` follow.
  `ProgressIsSound` is of the number just before `next_unsent_sn` only: of the lower ones
  it would be false (section 6).
  `ProtocolImplementsDelivery`, for every durability: initial states map to initial
  states, and under `IInv` each step maps to a step of `ReliableDelivery` or to a
  stutter. A TransientLocal writer starts a proxy past samples that it sent unasked and
  that nobody acknowledged. The abstract specification says so openly: only a durable
  writer has the step `Join`, only from 0, and only to a number it stored.
* **`DataReader_proofs`.** `FilterIsSound`: `last_received_time` is the last
  instant that passed (`FilterInv`), so a sample that passes is late enough after
  it, and hence after all earlier ones; `duration_since` saturates, so an older
  clock read is dropped by the filter. `ReaderTypeCorrect` bounds the cache: one
  `remove(0)` is enough for the limit and one for the depth. What insertion, expiry
  and take leave is drawn from what was there (`Draws`: elements of the old cache,
  each once), which is all the others need. `CallbackSeesSamples`: nothing enters
  but by a thread that is then on its way to the callback. `TakesAreUnique` rests
  on `OneOwner`: a push is with one receive thread, in one place of the cache, or
  taken. `LosslessReaderKeeps` assumes at most 2^31 - 1 pushes: the distinct pushes
  in the cache are then fewer than `LENGTH_UNLIMITED`, so the limit never bites;
  in `StillHeld` a thread that has stored its sample no longer counts.
* **`ParticipantLocks_proofs`.** `LocksTypeCorrect`, and `MatchmakingIsComplete`
  for `MaxExpiries = 0`: a pair of a writer and a known reader without a proxy is
  one that some thread will come to (`NobodyMissed`), because whoever adds a writer
  or a reader goes on to read both lists, and whoever reads them goes through all
  pairs. It does not need the locks. When a lease expires, the removal may undo a
  match made in between; then only the temporal `EventuallyMatched` holds, which
  `PL_Rediscovered` checks.
  The locks rest on `SharedInv`: the section a thread is in tells which of
  `discovery`, `publishers` and `local_readers` it holds (`LockInv`), and what is left
  of a loop is of that loop (`LoopInv`). They are always taken in that order, so the
  one who holds the last waits for none of them: `DeadlockNeedsCreation`. Hence also
  `MatchmakingIsExclusive`: the loop over publishers locks one `writers` map at a
  time and is still not interleaved with another match or removal.
  `SelfLockIsForever` is the other side: a `create_datawriter` that comes to its own
  publisher stays where it is, whatever the others do; `PL_SelfLock` shows that it
  gets there.
* **`Discovery_proofs`.** `DiscoveryTypeCorrect` needs `SnapshotRegistered`: an
  announcer may send what its snapshot held because what was registered stays so,
  and only then is its number at least 1. `MatchesAreDiscovered` and
  `MatchedReadersReachable` are proved together: unmatching is right because the
  endpoints it works on are those that left `discovered` in the section in which
  the participant left `known` (`PendingStays`), whatever other threads insert or
  match in between. That a matched endpoint is discovered does not make its participant
  known: of a reader the second theorem says so, of a writer it is false (section 6).
  `NextNumberMissing`: the observer holds no registration that was not made, endpoints
  of a SEDP writer have different numbers, and the number the next registration takes
  was never received, so the next Heartbeat asks for it, whatever came before under the
  same GUID. `SedpInv` follows the numbers through every place they may be in: in use, in the
  snapshot of an announcer, in flight, in the hands of a receive thread, in
  `sedp_received`. All lie below the next.
* **`EndpointMatch_proofs`.** Theorems about durations, instants and entities of any
  value and size.
  *Time.* `DurationSurvivesWire`: rounding down to fractions and to the nearest
  nanosecond back is exact when a second has at least twice as many fractions as
  nanoseconds; no finite value is written as INFINITE. `ElapsedIsAdded`: `Minus`
  undoes `Plus` and the reverse, through every carry and borrow, below the second
  that stands for an invalid time.
  *Lists.* Items that have bytes begin apart, so each is found where it begins, and a
  reader that steps by padded lengths comes to one after the other and
  stops behind the last (`Layout`). It holds for parameters because a u16 holds their
  padded lengths, and for the names of a partition inside one of them.
  *Matches.* `EntitiesAgree`: of each policy the reader's value is the announced one from
  its parameter on and the default before it; names and partition likewise. What is parsed
  is therefore what was registered, or `None` if a name is empty, and then neither
  side matches. The verdicts agree because both sides compare the same values.
  *Locators.* `AnnouncersAreReached`: a filtered, sorted or deduplicated list is what
  stands at a set of places (`PlacesAre`). A participant of the program announces one
  locator of each kind, under one pid or two, so that a list has it once or twice
  (`RepeatedIs`): a filter keeps all of it or nothing, a sort leaves it, dedup makes it
  one. Among the parameters of an announcement those of a kind of locators are
  found by their pids (`EndpointLocators`, `ParticipantLocators`); loopback gives way to
  the source of the datagram, which leaves the port.
* **`Parts_proofs`.** Theorems about inputs of any number and size.
  *Fragments.* `ReassemblyIsFaithful` and `RequestsComplete`, for samples of any
  length, fragments of any size and any number of arrivals. `FragmentsInv` says that a
  buffer is determined by its mask: `buffer` has the sample at the fragments marked and
  0 elsewhere, and `received` is the sum of their lengths, or less if a zero was
  trimmed (`IsBufferOf`). So it is complete just when all are marked; that a buffer
  that is kept is incomplete, and that a fragment is delivered or marked no more often
  than it came, completes the invariant.
  *Number sets.* `NacksAskForMissing`, for any window: bits are numbered through the
  words, and a number has the bit of its distance from the base, which the list's
  order keeps apart.
  *Member headers.* `MemberHeadersSurvive`: length code, must-understand bit and
  identifier are three digits of one number, and what the serializer aligns the
  deserializer skips from the same offset.
  *Types.* `AcceptedTypesAreSound`: acceptance composes along a chain of versions
  when the versions between keep what the reader knows.
  *Matches.* `ParticipantsAgree` is `EntitiesAgree` for the pairs of a run, and
  *Locators* `DestinationsAreRight` is `AnnouncersAreReached` for its announcements.
  *Messages.* `MessagesSurvive`, for messages of any number of submessages of any kind
  but `InfoSrc` (section 6). In a body (`Bodies`), each field is found where
  it was put, fields of variable length behind the fixed ones included; a number set
  comes back as the window of its base; a payload comes back less its zeros at the
  end. In a message (`Messages`), the parser's turns go from header to header, because
  `octetsToNext` counts the padding, and only an `InfoTs` is ever empty, the one kind
  whose length 0 does not mean the rest of the message.

Only model-checked, and why:

* liveness and everything under fairness (`RP_Live`, `DI_Live`, `RL_Busy`,
  `PL_Rediscovered`), which is out of the prover's reach, as is `ENABLED`;
* `ValuesAreReadBack`, `OldReadersSkip` and `LookupsAreComplete`: `Encode`, `Decode` and the
  closure of dependencies follow a type with RECURSIVE operators.

Every other invariant of the passing runs is also proved, under the assumptions
named above.

## 6. What the code does otherwise

The violation runs are the findings of `PROJECT.json`. While modelling we met
these too; the models contain the behaviour unless it says otherwise, and no
property of a passing run asserts the opposite.

Six that TLC shows at once, with a definition of the modules as invariant or
property, but that have no run of their own:

* `DisposedNeverStored` (`DataWriter`): `write` checks the instance under one lock
  and stores under another (`dds-core/src/lib.rs:264`, `:291`); a dispose in between
  lets the sample of a disposed instance in, which
  `dds/tests/e2e_instance_lifecycle.rs:83` says should fail.
* `RecordedIsHeld` (`DataReader`, a KeepAll QoS with a limit): the number is in
  `received_sns` before the limit drops the sample (`dds-core/src/lib.rs:748`), so it
  is acknowledged and never sent again.
* `SilentExpires` under `QuietSpec` (`ReaderLiveliness`): leases are checked before
  a `recv` without a timeout (`dds-core/src/lib.rs:2540`), so in a silent domain
  nothing expires.
* `CrashForgotten` under `FairSpec` (`Discovery`, `DI_Live.cfg` with that specification):
  for the same reason a remote that was the only one is never forgotten once it is dead.
* `PureAckIsComplete` (`ReliableProtocol`, `RP_Safety.cfg`): "a pure ACK (all sequence
  numbers through `through` received)" (`dds-rtps/src/lib.rs:1999`) is sent for each
  DATA, missing lower numbers or not (`dds-core/src/lib.rs:1141`); the proxy passes
  them by and only the next Heartbeat brings them back.
* `LateJoinerServed` (`DataWriter`, `DW_History.cfg`): with several writing threads a
  TransientLocal KeepLast writer can hold a sample in its history that is neither in
  `durability_cache` nor after the join point; a reliable reader still obtains it by
  asking after a Heartbeat. `OnlyOvertakenMissed` is what holds instead.

Writers, readers and their liveliness:

* A KeepLast writer whose `max_samples_per_instance` equals its depth evicts its
  oldest change before it inserts; a late lower number then stays and a newer one
  goes (`dds-rtps/src/lib.rs:1637`). `DW_History` leaves that equality out; with one
  writing thread it is harmless (`OneThreadKeepsNewest`).
* "Keep the last N samples per instance" (`dds-types/src/qos.rs:326`): the depth
  is applied to all instances together (`dds-rtps/src/lib.rs:1649`).
* An AckNack that names missing numbers has them sent again, acknowledged since or
  not: a late one makes the writer repeat what the reader has, though the proxy does
  not move back.
* `tick` does not advance `next_unsent_sn` as its doc says (`:1356`), so a sample
  is sent every 10 ms until acknowledged, and `push_sample_sn` stores each copy:
  a sample may come back after it was taken.
* A KeepLast reader trims by arrival in its cache: two receive threads out of order
  can evict the newer sample and keep the older. `NoSilentSample` is of the callback
  only.
* A sample whose thread stalls between its clock read and the cache can be
  returned after its lifespan.
* A writer that expired and is then removed is subtracted from
  `alive_writer_count` twice; a Heartbeat of a writer that is not matched marks it
  alive; a writer heard from between the two loops of
  `check_liveliness_timeouts` is declared dead with a fresh stamp; a writer matched
  again between the sections of its removal keeps no stamp and never expires,
  which `SilentExpires` exempts (`age[w] = -1`).
* The housekeeping locks `publishers` and then `writers`, `create_datawriter`
  the reverse.
* Entity numbers repeat across publishers and after deletions.
* A BestEffort reader sends no AckNack, so the engine resends its whole cache every
  10 ms for ever (`dds-rtps/src/lib.rs:1410`).
* A second reader of a topic replaces the first in `reader_registry`
  (`dds-core/src/lib.rs:1058`), and the first gets no more samples.
* Entities with a history depth of 0 panic in `remove(0)`.

Discovery and matchmaking:

* The derived order of `Duration` compares nanoseconds before seconds
  (`dds-types/src/time.rs:27`): an offered deadline of 2.0 s is accepted for a
  requested one of 1.5 s, though "offered period must be ≤ requested period"
  (`dds-types/src/qos.rs:149`). `Shorter` is that order; both sides agree on the
  verdict. `from_rtps_wire` can round a fraction of a foreign peer up to 10^9
  nanoseconds, which `Duration::new` refuses with a panic.
* SEDP does not refresh `last_contact`; a participant whose SPDP is lost expires
  while its SEDP arrives.
* An endpoint may be inserted after its participant was removed
  (`dds-core/src/lib.rs:1629`). `check_lease_timeouts` walks `discovered_participants`
  only (`dds-discovery/src/lib.rs:1351`), so it stays discovered until the participant
  returns and expires again; if that one crashed, for ever. A reader is then not
  matched, for want of locators; a writer is, and stays so as long. `Discovery` has
  it; `MatchedIsDiscovered` allows it.
* A deleted endpoint stays in `local_endpoints` and is announced for ever;
  `builtin_mappings` grows with every repeated SEDP.
* The Heartbeat that answers a SEDP AckNack takes its range from the order of the
  GUIDs (`dds-discovery/src/lib.rs:860`) and may be empty or partial.
* Every SPDP and SEDP datagram is answered with AckNacks, and these with all the
  endpoints asked for; the network is a set here, so the amplification is not seen.
* A participant on loopback whose user port is 12345 is taken for a placeholder and
  not sent to; `user_traffic_locators` sorts by port only, so two addresses on two
  equal ports can leave duplicates.
* Presentation is documented as requested/offered and not tested;
  `check_type_compatibility` is called by tests only, accepts a Final sender for a
  Mutable receiver, and looks at none of the other fields of its policy.

Messages and payloads:

* `trim_submessage_padding` (`dds-rtps/src/lib.rs:460`), "Trim trailing zero bytes added
  for 4-byte RTPS submessage alignment", removes every zero at the end of a payload,
  those of the data included: a CDR payload whose last field ends in zero reaches the
  reader truncated. `Trim` is that function; the payloads of `WI_Parts` end in other
  octets, or their fragments are exempt.
* Fragments go to the user port, whose loop handles DATA, Heartbeat and AckNack
  (`dds-rtps/src/lib.rs:1472`, `dds-core/src/lib.rs:2252`); reassembly is in the main
  loop, on the metatraffic socket. A large sample arrives as the whole DATA with which
  an AckNack is answered, and to a BestEffort reader never. Writers ignore NackFrag.
* A fragment that ends in zero is trimmed, counted short and marked received: its
  sample is never complete and nothing is asked for. A duplicate that comes after
  completion opens a buffer that stays.
* `InfoSrc` is written with 16 bytes and read from 20 on, so it is never read back.
* A parameter list's length wraps past 64 KiB, and a member may have the identifier
  of the sentinel or of the padding.
* XCDR2 members are serialized from an alignment of their own and read in place: an
  8-byte field inside one is misplaced. The TypeLookup messages have none.
* `direct_dependencies` does not follow hashes inside sequences and arrays.

## 7. Plan

Done, in this order: `HistoryCache` and `DataWriter`; `ReliableProtocol` and
`ReliableDelivery`, at first for volatile writers and then for durable ones, whose
proxies start ahead; `DataReader`, `ReaderLiveliness`, `ParticipantLocks` and
`Discovery`, each with its proofs; the pure parts (`WireTime`, `EndpointMatch`,
`DiscoveryWire`, `RtpsMessage`, `Fragments`, `Cdr`, `TypeLookup`); the order of the
locks and writers of one thread; the theorems about the pure parts, where buffers
are kept by offset (`Layout`) and lists by places so that no recursion is needed.

Left, most useful first:

1. `RP_Live` with a BestEffort reader, which is sent the whole cache for ever, and with
   a `NackWindow` of 1.
2. The map of reassembly buffers with a writer that resends, so that a buffer opened by
   a late duplicate meets the next sample.
3. Conditions and `WaitSet`, whose `wait` sleeps with its conditions locked; the calls
   of listeners with locks held.
4. Writer-side liveliness; the statuses.
5. `Encode` and `Decode` by offset, as messages are, for theorems about typed values of
   bounded nesting.

## 8. Not modelled

* UDP sockets: I/O; the network is a set of datagrams that may be lost, repeated
  and reordered.
* Security: cryptography, certificates and the handshake; messages are modelled in
  the clear.
* IDL parser and compiler, monitor and facade: sequential tools and re-exports.
* The dynamic data container of `dds-xtypes`, which no other component uses.
* Conditions and `WaitSet`; listener callbacks other than the call of
  `on_data_available`, and the statuses; writer-side liveliness.
* Best-effort `StatelessWriter`, `StatefulReader` and `add_reader_proxy_to_all`:
  only tests use them.
* The contents of primitives and strings: a value is taken whole, with its size, its
  place and its byte order. Digests of types are letters, so collisions are left out.
* A history depth of 0, which makes `remove(0)` panic.
