-------------------------------- MODULE Parts --------------------------------
(***************************************************************************)
(* The pure parts of the program about which there are theorems: member    *)
(* headers, number sets, messages, type compatibility, who matches whom    *)
(* and where data is sent to, each a case of the variable case over any    *)
(* set of inputs, and fragments, which have steps.                         *)
(***************************************************************************)
EXTENDS CdrStream, TypeCompatibility, Fragments, DiscoveryWire

CONSTANTS MissingLists,     \* what readers miss
          Identifiers,      \* of members
          Lengths,          \* of serialized members
          TypeObjects,
          Pairs,           \* a writer and a reader, on one domain
          Messages,
          Announcements     \* addresses, ports and leases of participants

\* A list of missing numbers, as a walk from the first to the last builds it.
IsMissingList(list) ==
  /\ list \in Seq(Nat) /\ list # <<>>
  /\ Ascending(list)

ASSUME PartsAssumption ==
  /\ \A list \in MissingLists : IsMissingList(list)
  /\ Identifiers \subseteq 0..LongForm - 1     \* 28 bits
  /\ Lengths \subseteq Nat
  /\ \A obj \in TypeObjects : IsTypeObject(obj)
  /\ \A pair \in Pairs : IsEntity(pair.writer) /\ IsEntity(pair.reader)
  /\ \A message \in Messages : IsMessage(message)
  /\ \A a \in Announcements : IsAnnouncement(a)

VARIABLE case

partVars == <<case, fragmentVars>>

InitParts == case = [part |-> "none"] /\ InitFragments

Miss == \E list \in MissingLists : case' = [part |-> "nack", missing |-> list]

HeadMember ==
  \E order \in {"little", "big"}, before \in 0..7, id \in Identifiers, length \in Lengths :
    case' = [part |-> "header", order |-> order, before |-> before, id |-> id, length |-> length]

Coerce ==
  \E requested, offered \in TypeObjects :
    case' = [part |-> "coerce", requested |-> requested, offered |-> offered]

Match ==
  \E pair \in Pairs :
    case' = [part |-> "match", writer |-> pair.writer, reader |-> pair.reader]

Exchange == \E message \in Messages : case' = [part |-> "message", subs |-> message]

Announce ==
  \E a \in Announcements :
    case' = [part |-> "announce", address |-> a.address, source |-> a.source,
             port |-> a.port, lease |-> a.lease]

Pick ==
  /\ case.part = "none" /\ payload = <<>>
  /\ Miss \/ HeadMember \/ Coerce \/ Match \/ Exchange \/ Announce
  /\ UNCHANGED fragmentVars

Reassemble == case.part = "none" /\ NextFragments /\ UNCHANGED case

SpecParts == InitParts /\ [][Pick \/ Reassemble]_partVars

-----------------------------------------------------------------------------
(* serialize_sequence_number_set of what a reader misses. *)
NacksAreSound == case.part = "nack" => NackIsSound(case.missing)

(* serialize_emheader and deserialize_emheader. *)
HeadersSurvive ==
  case.part = "header" => EmheaderSurvives(case.order, case.before, case.id, case.length)

(* check_type_compatibility. *)
TypesAreCompatible ==
  case.part = "coerce" => CompatibilityIsSound(case.requested, case.offered, TypeObjects)

(* run_matchmaking reaches the same verdict in both processes. *)
BothSidesAgree == case.part = "match" => SidesAgree(case.writer, case.reader)

(* user_traffic_locators and sedp_request_destinations of what was announced. *)
DestinationsAreAnnounced ==
  case.part = "announce" =>
    DestinationIsAnnouncer(31, case.lease, case.address, case.source, case.port)

(* parse_rtps_message after serialize_rtps_message. *)
MessagesAreReadBack == case.part = "message" => MessageIsReadBack(case.subs)
=============================================================================
