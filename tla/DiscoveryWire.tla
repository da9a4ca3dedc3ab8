--------------------------- MODULE DiscoveryWire ---------------------------
(***************************************************************************)
(* The locators that SPDP and SEDP announce and what a receiver makes of   *)
(* them: the filters, the fallbacks, the replacement of loopback addresses *)
(* by the source of the datagram, and the destinations user data and SEDP  *)
(* requests are sent to.                                                   *)
(*                                                                         *)
(* An address is one of the five kinds the code tells apart; the bridge is *)
(* 172.17/16 and a kind on the wire is its i32.                            *)
(***************************************************************************)
EXTENDS EndpointMatch, SequencesExt

CONSTANTS MulticastPort,    \* PORT_BASE + DOMAIN_ID_GAIN * domain_id
          PlaceholderPort   \* 12345

ASSUME DiscoveryWireAssumption == {MulticastPort, PlaceholderPort} \subseteq Nat \ {0}

Addresses == {"loopback", "unspecified", "bridge", "lan", "group"}

Locator(kind, address, port) == [kind |-> kind, address |-> address, port |-> port]
UdpV4(address, port) == Locator(1, address, port)

\* Kind::from_i32 and its inverse, `as i32`.
LocatorKind(i) == IF i \in {1, 2} THEN i ELSE -1

ParseLocator(value) == Locator(LocatorKind(value.kind), value.address, value.port)

HasIpv4(loc) == loc.kind = 1
IsLoopback(loc) == HasIpv4(loc) /\ loc.address = "loopback"
IsBridge(loc) == HasIpv4(loc) /\ loc.address = "bridge"
IsPlaceholder(loc) == IsLoopback(loc) /\ loc.port = PlaceholderPort

(***************************************************************************)
(* filter and retain, sort_by_key and dedup, as functions of places: what  *)
(* SelectSeq and SortSeq compute, in a form that can be reasoned about.    *)
(***************************************************************************)
Nth(places, k) == CHOOSE i \in places : Cardinality({j \in places : j < i}) = k - 1

\* The elements at some places of a list, in order.
AtPlaces(list, places) == [k \in 1..Cardinality(places) |-> list[Nth(places, k)]]

Keep(list, Test(_)) == AtPlaces(list, {i \in DOMAIN list : Test(list[i])})

\* An element goes behind those that `ahead` counts.
Arrange(list, ahead) ==
  [k \in DOMAIN list |-> list[CHOOSE i \in DOMAIN list : ahead[i] = k - 1]]

\* The sort is stable: equal elements keep their order.
SortBy(list, Below(_, _)) ==
  Arrange(list, [i \in DOMAIN list |->
    Cardinality({j \in DOMAIN list : \/ Below(list[j], list[i])
                                     \/ ~Below(list[i], list[j]) /\ j < i})])

\* Vec::dedup removes a repetition of the element before it only.
Dedup(list) ==
  AtPlaces(list, {i \in DOMAIN list : i = 1 \/ list[i] # list[i - 1]})

FilterValid(locators) == Keep(locators, LAMBDA loc : HasIpv4(loc) /\ loc.port # 0)

SortByPort(locators) == SortBy(locators, LAMBDA a, b : a.port < b.port)

\* sort_by_key of (port, address), octets in order: equal locators are adjacent.
Rank == [unspecified |-> 0, loopback |-> 1, bridge |-> 2, lan |-> 3, group |-> 4]

SortByPortAndAddress(locators) ==
  SortBy(locators, LAMBDA a, b : \/ a.port < b.port
                                 \/ a.port = b.port /\ Rank[a.address] < Rank[b.address])

FirstNonEmpty(lists) ==
  LET full == {i \in DOMAIN lists : lists[i] # <<>>}
  IN  IF full = {} THEN <<>> ELSE lists[CHOOSE i \in full : \A j \in full : i <= j]

-----------------------------------------------------------------------------
(***************************************************************************)
(* user_traffic_locators and sedp_request_destinations.  The fallbacks are *)
(* tried before the placeholder is dropped, the bridge after.              *)
(***************************************************************************)
ParticipantFirst(ep, participant) ==           \* mutant of UserTrafficLocators
  Dedup(SortByPort(FirstNonEmpty(<<FilterValid(participant.metatraffic),
                                   FilterValid(ep.unicast)>>)))

UserTrafficLocators(ep, participant) ==
  LET found == FirstNonEmpty(<<FilterValid(ep.unicast), FilterValid(ep.metatraffic),
                               FilterValid(participant.unicast),
                               FilterValid(participant.metatraffic)>>)
      real  == Keep(found, LAMBDA loc : ~IsPlaceholder(loc))
      routable == \E i \in DOMAIN real : ~IsLoopback(real[i]) /\ ~IsBridge(real[i])
  IN  Dedup(SortByPort(IF routable THEN Keep(real, LAMBDA loc : ~IsBridge(loc))
                                   ELSE real))

SedpRequestDestinations(participant) ==
  LET found == FirstNonEmpty(<<FilterValid(participant.metatraffic),
                               FilterValid(participant.unicast)>>)
  IN  Dedup(SortByPort(Keep(found, LAMBDA loc : ~IsPlaceholder(loc))))

MulticastLocator == UdpV4("group", MulticastPort)
SedpAllDestinations(participant) ==
  Append(SedpRequestDestinations(participant), MulticastLocator)

-----------------------------------------------------------------------------
(***************************************************************************)
(* remap_loopback_locators and remap_participant_locators; the latter also *)
(* replaces 0.0.0.0.                                                       *)
(***************************************************************************)
Remap(locators, replaced, source) ==
  [i \in DOMAIN locators |->
     IF source # "loopback" /\ HasIpv4(locators[i]) /\ locators[i].address \in replaced
     THEN UdpV4(source, locators[i].port) ELSE locators[i]]

RemapAll(x, replaced, source) ==
  [x EXCEPT !.unicast = Remap(@, replaced, source),
            !.metatraffic = Remap(@, replaced, source),
            !.multicast = Remap(@, replaced, source)]

-----------------------------------------------------------------------------
(***************************************************************************)
(* SPDP.  spdp_to_plcdr sends every multicast locator under two pids.      *)
(***************************************************************************)
LocatorParameters(pid, locators) ==
  [i \in DOMAIN locators |-> [pid |-> pid, locator |-> locators[i]]]

UnderEach(pids, locators) ==
  [i \in 1..Len(pids) * Len(locators) |->
     [pid     |-> pids[((i - 1) % Len(pids)) + 1],
      locator |-> locators[((i - 1) \div Len(pids)) + 1]]]

LocatorsOf(parameters, pids) ==
  LET chosen == Keep(parameters, LAMBDA p : p.pid \in pids)
  IN  [i \in DOMAIN chosen |-> ParseLocator(chosen[i].locator)]

SpdpToPlcdr(participant) ==
  << [pid |-> "ProtocolVersion"], [pid |-> "VendorId"], [pid |-> "DomainId"],
     [pid |-> "BuiltinEndpointSet"],
     [pid |-> "ParticipantGuid", prefix |-> participant.prefix],
     [pid |-> "LeaseDuration", time |-> ToWire(participant.lease)] >>
  \o LocatorParameters("MetatrafficUnicast", participant.metatraffic)
  \o LocatorParameters("DefaultUnicast", participant.unicast)
  \o UnderEach(<<"DefaultMulticast", "MetatrafficMulticast">>, participant.multicast)

(***************************************************************************)
(* parse_spdp_packet.  Either unicast list stands in for the other when it *)
(* is empty; the multicast list is sorted whole before its dedup.          *)
(***************************************************************************)
ParseSpdp(parameters) ==
  LET value(pid) == Last(Keep(parameters, LAMBDA p : p.pid = pid))
      unicast == FilterValid(LocatorsOf(parameters, {"DefaultUnicast", "Unicast"}))
      metatraffic == FilterValid(LocatorsOf(parameters, {"MetatrafficUnicast"}))
      multicast == FilterValid(LocatorsOf(parameters,
                     {"DefaultMulticast", "Multicast", "MetatrafficMulticast"}))
  IN  [prefix |-> value("ParticipantGuid").prefix,
       lease |-> FromWire(value("LeaseDuration").time),
       unicast |-> FirstNonEmpty(<<unicast, metatraffic>>),
       metatraffic |-> FirstNonEmpty(<<metatraffic, unicast>>),
       multicast |-> Dedup(SortByPortAndAddress(multicast))]

(***************************************************************************)
(* The locators of SEDP: sedp_to_plcdr repeats a unicast locator under the *)
(* legacy pid, parse_sedp_packet keeps both.                               *)
(***************************************************************************)
SedpLocators(ep) ==
  LocatorParameters("MetatrafficUnicast", ep.metatraffic)
  \o UnderEach(<<"DefaultUnicast", "Unicast">>, ep.unicast)
  \o UnderEach(<<"DefaultMulticast", "Multicast">>, ep.multicast)

ParseSedpLocators(parameters) ==
  [unicast |-> FilterValid(LocatorsOf(parameters, {"Unicast", "DefaultUnicast"})),
   metatraffic |-> FilterValid(LocatorsOf(parameters, {"MetatrafficUnicast"})),
   multicast |-> FilterValid(LocatorsOf(parameters,
                   {"Multicast", "DefaultMulticast", "MetatrafficMulticast"}))]

(***************************************************************************)
(* A participant of the program on the port its metatraffic socket got:    *)
(* spdp_locators and the locators of register_writer, register_reader.     *)
(***************************************************************************)
UserPort(port) == port + 1          \* USER_UNICAST_OFFSET - SPDP_UNICAST_OFFSET

OwnParticipant(prefix, lease, address, port) ==
  [prefix |-> prefix, lease |-> lease, unicast |-> <<UdpV4(address, UserPort(port))>>,
   metatraffic |-> <<UdpV4(address, port)>>, multicast |-> <<MulticastLocator>>]

OwnEndpoint(address, port) ==
  [unicast |-> <<UdpV4(address, UserPort(port))>>,
   metatraffic |-> <<UdpV4(address, port)>>, multicast |-> <<>>]

\* process_spdp_packet_from and the head of ingest_remote_sedp_endpoint.
ReceivedParticipant(p, source) ==
  RemapAll(ParseSpdp(Unframe(Frame(SpdpToPlcdr(p)))), {"loopback", "unspecified"}, source)
ReceivedEndpoint(ep, source) ==
  RemapAll(ParseSedpLocators(Unframe(Frame(SedpLocators(ep)))), {"loopback"}, source)

\* The participant invented for an endpoint whose SPDP has not come: the
\* source of the datagram for both kinds of traffic, 120 s of lease.
InventedParticipant(prefix, source, port) ==
  [prefix |-> prefix, lease |-> Seconds(120), unicast |-> <<UdpV4(source, port)>>,
   metatraffic |-> <<UdpV4(source, port)>>, multicast |-> <<>>]

(***************************************************************************)
(* The program announces the address of an interface, or loopback where it *)
(* has none. Nobody can reach it there on the port of the placeholder.     *)
(***************************************************************************)
IsAnnouncement(a) ==
  /\ {a.address, a.source} \subseteq {"loopback", "bridge", "lan"}
  /\ a.port \in Nat \ {0}
  /\ a.lease \in Duration
  /\ {a.address, a.source} = {"loopback"} => PlaceholderPort \notin {a.port, UserPort(a.port)}

-----------------------------------------------------------------------------
(***************************************************************************)
(* A participant that announces `address` and sends from `source` is sent  *)
(* user data at its user port and SEDP at its metatraffic port, once each, *)
(* whether or not its SPDP came before its SEDP, and at an address that is *)
(* not the receiver's own loopback unless they share the host.             *)
(***************************************************************************)
DestinationIsAnnouncer(prefix, lease, address, source, port) ==
  LET own  == OwnParticipant(prefix, lease, address, port)
      seen == IF address = "loopback" THEN source ELSE address
      ep   == ReceivedEndpoint(OwnEndpoint(address, port), source)
      announced == ReceivedParticipant(own, source)
  IN  /\ announced.prefix = prefix /\ announced.lease = lease
      /\ announced.multicast = <<MulticastLocator>>
      /\ SedpRequestDestinations(announced) = <<UdpV4(seen, port)>>
      /\ \A p \in {announced, InventedParticipant(prefix, source, port)} :
           UserTrafficLocators(ep, p) = <<UdpV4(seen, UserPort(port))>>
=============================================================================
