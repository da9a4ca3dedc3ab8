------------------------------ MODULE MCParts ------------------------------
(***************************************************************************)
(* The pure parts of the program for TLC: each behaviour takes one case of *)
(* one part, and the invariants say what the part does with it.  Seconds   *)
(* have 10 nanoseconds and 32 fractions, a sequence number's high word     *)
(* begins at 4, a set has 4 bits in words of 2, a fragment 2 bytes.        *)
(***************************************************************************)
EXTENDS Parts, TypeLookup

Nanos(s, n) == [seconds |-> s, nanoseconds |-> n]

-----------------------------------------------------------------------------
\* Policies that differ from the defaults in one field or in two.
Durations == {Seconds(0), Nanos(0, 9), Nanos(1, 3), Nanos(1, 7), Seconds(2), Infinite}

Varied ==
  {DefaultQos}
  \cup {[DefaultQos EXCEPT !.durability = d] : d \in 0..3}
  \cup {[DefaultQos EXCEPT !.reliability = 1, !.blocking = d] : d \in Durations}
  \cup {[DefaultQos EXCEPT !.history = 1, !.depth = 3]}
  \cup {[DefaultQos EXCEPT !.liveliness = k, !.lease = d] : k \in 0..2, d \in Durations}
  \cup {[DefaultQos EXCEPT !.deadline = d] : d \in Durations}
  \cup {[DefaultQos EXCEPT !.latency = d] : d \in Durations}
  \cup {[DefaultQos EXCEPT !.ownership = 1], [DefaultQos EXCEPT !.order = 1]}

Partitions == {<<>>, << <<>> >>, << <<1>> >>, << <<1, 1, 1>>, <<2>> >>,
               << <<2>>, <<>>, <<1, 1, 1, 1>> >>, << <<1, 1, 1, 1>> >>}

Entity(topic, info, qos, partition) ==
  [topic |-> topic, type |-> <<5>>, info |-> info, qos |-> qos, partition |-> partition]

MCPairs ==
  {[writer |-> Entity(<<4>>, <<>>, offered, <<>>),
    reader |-> Entity(<<4>>, <<>>, requested, <<>>)] : offered, requested \in Varied}
  \cup {[writer |-> Entity(<<4>>, info, DefaultQos, p),
         reader |-> Entity(topic, <<>>, DefaultQos, q)] :
           p, q \in Partitions, topic \in {<<>>, <<4>>, <<6>>}, info \in {<<>>, <<1, 2, 3>>}}

\* Port 8 makes the user port the placeholder's, port 9 is it.
MCAnnouncements ==
  {a \in [address : {"loopback", "bridge", "lan"}, source : {"loopback", "bridge", "lan"},
          port : {2, 3, 8, 9}, lease : {Seconds(10), Nanos(1, 7)}] : IsAnnouncement(a)}

-----------------------------------------------------------------------------
\* One or more of each submessage, with odd sizes, empty and full lists.
Pool ==
  {[kind |-> "InfoTs", timestamp |-> t] : t \in {NoTimestamp, Nanos(3, 7)}}
  \cup {[kind |-> "InfoDst", prefix |-> 11]}
  \cup {[kind |-> "InfoReply", unicast |-> u, multicast |-> v] :
          u \in {<<>>, <<21>>, <<21, 22>>}, v \in {Garbage, <<>>, <<23>>}}
  \cup {[kind |-> "Data", reader |-> 1, writer |-> 2, sn |-> 7, qos |-> q, payload |-> p] :
          q \in {<<>>, <<8, 0, 8, 0>>}, p \in {<<>>, <<9>>, <<0, 9, 9>>, <<9, 0, 9, 0>>}}
  \cup {[kind |-> "DataFrag", reader |-> 1, writer |-> 2, sn |-> 3, starting |-> 2,
         count |-> 1, fragmentSize |-> 2, dataSize |-> 4, payload |-> p] :
          p \in {<<9>>, <<0, 9>>}}
  \cup {[kind |-> "Heartbeat", reader |-> 0, writer |-> 2, first |-> 2, last |-> 9, count |-> 6,
         flags |-> f] : f \in {{}, {"bit1", "bit2"}}}
  \cup {[kind |-> "AckNack", reader |-> 1, writer |-> 2, state |-> s, through |-> t, count |-> 6] :
          s \in {<<>>, <<3>>, <<5, 3, 6>>, <<3, 6, 9>>}, t \in {Garbage, 5}}
  \cup {[kind |-> "Gap", reader |-> 1, writer |-> 2, start |-> 5, list |-> l] :
          l \in {<<>>, <<6, 7>>, <<6, 9>>}}
  \cup {[kind |-> "NackFrag", reader |-> 1, writer |-> 2, sn |-> 6, starting |-> 1,
         state |-> s, count |-> 1] : s \in {<<2>>, <<1, 4>>, <<2, 3, 7>>}}
  \cup {[kind |-> "HeartbeatFrag", reader |-> 1, writer |-> 2, sn |-> 6, last |-> 4, count |-> 2]}

Few == {sub \in Pool : \/ sub.kind = "InfoTs"
                       \/ sub.kind = "Data" /\ Len(sub.payload) \in {0, 3}
                       \/ sub.kind = "AckNack" /\ sub.state = <<3, 6, 9>>}

MCMessages == (Pool \X Pool) \cup (Few \X Few \X Few)

MCMissingLists == {SetToSortSeq(S, <) : S \in SUBSET (1..6) \ {{}}}

\* Samples of two and three fragments, some with a zero at the end of one.
MCPayloads == {<<1, 2, 3>>, <<1, 0, 2>>, <<1, 1, 0, 2>>, <<0, 1, 0, 2, 1>>, <<1, 0, 0, 0, 2, 2>>}

-----------------------------------------------------------------------------
\* A typed value behind 0 to 7 octets, so that it begins at every alignment.
Members == <<Member(1, Prim(1)), Member(2, Str), Member(70000, Vec(Prim(2))), Member(4, Prim(4))>>
Inner == Mutable(<<Member(1, Str), Member(2, Prim(2))>>)

Typed ==
  {<<Prim(n), 77>> : n \in {1, 2, 4, 8}}
  \cup {<<Str, s>> : s \in {<<>>, <<1, 2, 3>>, <<1, 2, 3, 4>>}}
  \cup {<<Vec(Prim(8)), v>> : v \in {<<>>, <<5, 6>>}}
  \cup {<<Vec(Str), <<<<1>>, <<>>>>>>, <<Opt(Prim(4)), <<>>>>, <<Opt(Prim(4)), <<3>>>>,
        <<Struct(<<Prim(1), Prim(8), Prim(2), Str, Prim(4)>>), <<1, 8, 2, <<3>>, 4>>>>,
        <<Union(4, 1 :> Str @@ 2 :> Prim(8)), [tag |-> 2, arm |-> 9]>>,
        <<Mutable(<<Member(1, Inner), Member(2, Inner)>>),
          <<<<<<<<<<7>>>>, <<6>>>>>>, <<<<<<>>, <<6>>>>>>>>>>,
        <<Parameters, <<>>>>,
        <<Parameters, <<[pid |-> 112, value |-> <<1, 2, 3>>], [pid |-> 113, value |-> <<>>]>>>>}
  \cup {<<Mutable(Members), <<a, b, <<<<8, 8, 8>>>>, <<6>>>>>> :
          a \in {<<>>, <<5>>}, b \in {<<>>, <<<<>>>>, <<<<1, 2>>>>}}

Pack ==
  \E typed \in Typed, n \in 0..7, order \in {"little", "big"} :
    case' = [part |-> "value", order |-> order,
             type |-> Struct(<<Array(Prim(1), n), typed[1], Prim(1)>>),
             value |-> <<[i \in 1..n |-> i], typed[2], 3>>]

\* The serializer is created with the order the header will announce.
Wrap ==
  \E typed \in Typed, kind \in EncapsulationKinds :
    case' = [part |-> "value", order |-> OrderOf(kind),
             type |-> Encapsulated(kind, typed[1]), value |-> typed[2]]

Evolve ==
  \E known \in SUBSET (1..4), a \in {<<>>, <<5>>}, b \in {<<>>, <<<<>>>>, <<<<1, 2>>>>} :
    case' = [part |-> "evolve", known |-> known,
             value |-> <<a, b, <<<<8, 8, 8>>>>, <<6>>>>]

MCIdentifiers == {1, 65535, 65536, 268435455}
MCLengths == {0, 1, 4095, 4096, 16383, 16384, 65535, 65536}

-----------------------------------------------------------------------------
\* Objects 1 to 4; an object mentions only later ones, whose digests it holds.
ObjectId(i) == [tag |-> IF i = 3 THEN TiMinimal ELSE TiComplete, arm |-> [k \in 1..14 |-> i]]

Object(i, edges) ==
  LET later == SetToSeq({j \in i + 1..5 : <<i, j>> \in edges})
  IN  [tag |-> IF i = 3 THEN 0 ELSE 1,
       arm |-> <<<<i>>, i % 3,
                 <<<<<<8>>, [tag |-> 4, arm |-> <<>>], 0, 1>>>>
                 \o [k \in DOMAIN later |-> <<<<9, 9>>, ObjectId(later[k]), 1, 0>>]>>]

Database(edges) ==
  FoldLeft(LAMBDA db, i : RegisterTypeObject(db, Object(i, edges)), <<>>, <<1, 2, 3, 4>>)

\* Object 5 is mentioned and not known.
Lookup ==
  \E edges \in SUBSET {<<1, 2>>, <<1, 3>>, <<2, 3>>, <<2, 4>>, <<3, 4>>, <<3, 5>>},
     roots \in {{1}, {2}, {1, 2}} :
    case' = [part |-> "lookup", edges |-> edges, roots |-> {ObjectId(i) : i \in roots}]

\* Versions of a type with members 10 and 11, of every extensibility.
MCTypeObjects ==
  LET flags == {<<0, 0>>, <<0, 1>>, <<1, 1>>}
      first == {<<<<10>>, [tag |-> t, arm |-> <<>>], f[1], f[2]>> : t \in {4, 7}, f \in flags}
      second == {<<<<11>>, [tag |-> 4, arm |-> <<>>], f[1], f[2]>> : f \in flags}
  IN  {[tag |-> 1, arm |-> <<<<1>>, kind, list>>] :
         kind \in 0..2,
         list \in {<<>>} \cup {<<m>> : m \in first \cup second} \cup (first \X second)}

PickAny ==
  /\ case.part = "none" /\ payload = <<>>
  /\ Pack \/ Wrap \/ Evolve \/ Lookup
  /\ UNCHANGED fragmentVars

Next == Pick \/ PickAny \/ Reassemble

Spec == InitParts /\ [][Next]_partVars

-----------------------------------------------------------------------------
(* CdrDeserializer after CdrSerializer. *)
ValuesAreReadBack ==
  case.part = "value" => ValueIsReadBack(case.order, case.type, case.value)

(* A reader of the mutable types of type_lookup.rs that knows fewer members. *)
OldReadersSkip ==
  case.part = "evolve" => UnknownMembersSkipped("little", Members, case.value, case.known)

(* handle_get_types and handle_get_type_dependencies, over the wire: a client gets *)
(* every type that the members of the roots and of their dependencies name         *)
(* directly. A hash inside a sequence or an array is not followed, by the code     *)
(* either, and the client that asks again and again is this specification's own.   *)
LookupsAreComplete ==
  case.part = "lookup" =>
    LookupReachesEveryType(<<<<[i \in 1..16 |-> i], 0, 7>>, <<1, 2, 3>>>>,
                           case.roots, Database(case.edges))
=============================================================================
