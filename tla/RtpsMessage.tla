---------------------------- MODULE RtpsMessage ----------------------------
(***************************************************************************)
(* The message codec of dds-rtps: serialize_rtps_message and               *)
(* parse_rtps_message.                                                     *)
(*                                                                         *)
(* The writer is a table per submessage of the fields it puts, in order,   *)
(* with their sizes; the reader is the offsets it takes fields from.  A    *)
(* body maps an offset to its cell, so a field read where none of that     *)
(* size was written is Garbage, and so is a header looked for between      *)
(* headers.                                                                *)
(* A sequence number is put as a high and a low word (HighUnit = 2^32), a  *)
(* set of them as a base and a bitmap of at most MaxBits = 256 bits in     *)
(* words of WordBits = 32.  An identifier, a locator or a byte is a number.*)
(***************************************************************************)
EXTENDS WireTime, Layout, FiniteSets, SequencesExt, FiniteSetsExt

CONSTANTS HighUnit, WordBits, MaxBits, Garbage, NoTimestamp

ASSUME RtpsAssumption ==
  /\ {HighUnit, WordBits, MaxBits} \subseteq Nat \ {0}
  /\ Garbage \notin Int

HeaderSize == 20           \* RTPS_HEADER_SIZE
SubHeaderSize == 4         \* SUBMESSAGE_HEADER_SIZE

\* SequenceNumber::to_high_low and from_high_low.
High(sn) == sn \div HighUnit
Low(sn) == sn % HighUnit
FromHighLow(high, low) ==
  IF Garbage \in {high, low} THEN Garbage ELSE high * HighUnit + low

\* The fraction of an InfoTs is rounded down both ways, unlike a Duration's.
InfoTsTime(t) ==
  IF t = NoTimestamp THEN t
  ELSE [seconds |-> t.seconds,
        nanoseconds |-> (ToWire(t).fraction * NanosPerSec) \div FractionsPerSec]

-----------------------------------------------------------------------------
(***************************************************************************)
(* SequenceNumberSet and FragmentNumberSet.  The base is the first of the  *)
(* list, or what the caller gives; numbers below it or past the window are *)
(* left out.  bits is the set of the positions that are 1.                 *)
(***************************************************************************)
NumberSet(base, numbers) ==
  LET top  == Max(Range(numbers))
      bits == IF numbers = <<>> THEN 0
              ELSE Min({Max({top - base + 1, 0}), MaxBits})
  IN  [base |-> base, numBits |-> bits,
       bits |-> {n - base : n \in Range(numbers)} \cap 0..bits - 1]

OffByOneSet(numbers) ==                       \* mutant of SequenceNumberSet
  LET set == NumberSet(IF numbers = <<>> THEN 1 ELSE Head(numbers), numbers)
  IN  [set EXCEPT !.bits = @ \ {set.numBits - 1}]

SequenceNumberSet(numbers) ==
  NumberSet(IF numbers = <<>> THEN 1 ELSE Head(numbers), numbers)

AckThroughSet(through) == [base |-> through + 1, numBits |-> 0, bits |-> {}]

BitmapSize(set) == 4 * ((set.numBits + WordBits - 1) \div WordBits)

\* The bits that are 1, in ascending order.
Numbers(set) ==
  LET below(b) == {c \in set.bits : c < b}
  IN  [i \in 1..Cardinality(set.bits) |->
         set.base + CHOOSE b \in set.bits : Cardinality(below(b)) = i - 1]

\* A non-empty window without a bit stands for its base.
ParseSequenceNumbers(set) ==
  IF set.bits = {} /\ set.numBits > 0 THEN <<set.base>> ELSE Numbers(set)

-----------------------------------------------------------------------------
(***************************************************************************)
(* What serialize_rtps_message puts for each submessage, as <<size, value>>*)
(* pairs.  InfoSrc announces 20 bytes and puts 16; the length is patched   *)
(* afterwards in every case.                                               *)
(***************************************************************************)
Long(value) == <<4, value>>
Short(value) == <<2, value>>
Bytes(list) == <<Len(list), list>>
Bitmap(set) == <<BitmapSize(set), set.bits>>

DataFields(sub) ==
  <<Short(0), Short(16), Long(sub.reader), Long(sub.writer), Long(High(sub.sn)),
    Long(Low(sub.sn)), Bytes(sub.qos), Bytes(sub.payload)>>

DataFragFields(sub) ==
  <<Short(0), Short(32), Long(sub.reader), Long(sub.writer), Long(High(sub.sn)),
    Long(Low(sub.sn)), Long(sub.starting), Short(sub.count), Short(sub.fragmentSize),
    Long(sub.dataSize), Bytes(sub.payload)>>

HeartbeatFields(sub) ==
  <<Long(sub.reader), Long(sub.writer), Long(High(sub.first)), Long(Low(sub.first)),
    Long(High(sub.last)), Long(Low(sub.last)), Long(sub.count)>>

AckNackSet(sub) ==
  IF sub.state = <<>> /\ sub.through # Garbage THEN AckThroughSet(sub.through)
  ELSE SequenceNumberSet(sub.state)

AckNackFields(sub) ==
  LET set == AckNackSet(sub)
  IN  <<Long(sub.reader), Long(sub.writer), Long(High(set.base)), Long(Low(set.base)),
        Long(set.numBits), Bitmap(set), Long(sub.count)>>

GapFields(sub) ==
  LET set == SequenceNumberSet(sub.list)
  IN  <<Long(sub.reader), Long(sub.writer), Long(High(sub.start)), Long(Low(sub.start)),
        Long(High(set.base)), Long(Low(set.base)), Long(set.numBits), Bitmap(set)>>

NackFragFields(sub) ==
  LET set == NumberSet(sub.starting, sub.state)
  IN  <<Long(sub.reader), Long(sub.writer), Long(High(sub.sn)), Long(Low(sub.sn)),
        Long(sub.starting), Long(set.base), Long(set.numBits), Bitmap(set), Long(sub.count)>>

HeartbeatFragFields(sub) ==
  <<Long(sub.reader), Long(sub.writer), Long(High(sub.sn)), Long(Low(sub.sn)),
    Long(sub.last), Long(sub.count)>>

InfoTsFields(sub) ==
  IF sub.timestamp = NoTimestamp THEN <<>>
  ELSE <<Long(sub.timestamp.seconds), Long(ToWire(sub.timestamp).fraction)>>

\* A locator list is a count and the locators.
LocatorField(list, k) == IF k = 0 THEN Long(Len(list)) ELSE <<24, list[k]>>

InfoReplyFields(sub) ==
  LET n == Len(sub.unicast)
      more == IF sub.multicast = Garbage THEN 0 ELSE 1 + Len(sub.multicast)
  IN  [i \in 1..2 + n + more |->
         IF i = 1 THEN Long(0)
         ELSE IF i <= 2 + n THEN LocatorField(sub.unicast, i - 2)
         ELSE LocatorField(sub.multicast, i - 3 - n)]

Fields(sub) ==
  CASE sub.kind = "InfoTs"    -> InfoTsFields(sub)
    [] sub.kind = "InfoDst"   -> << <<12, sub.prefix>> >>
    [] sub.kind = "InfoSrc"   -> << Short(sub.version), Short(sub.vendor), <<12, sub.prefix>> >>
    [] sub.kind = "InfoReply" -> InfoReplyFields(sub)
    [] sub.kind = "Data"      -> DataFields(sub)
    [] sub.kind = "DataFrag"  -> DataFragFields(sub)
    [] sub.kind = "Heartbeat" -> HeartbeatFields(sub)
    [] sub.kind = "AckNack"   -> AckNackFields(sub)
    [] sub.kind = "Gap"       -> GapFields(sub)
    [] sub.kind = "NackFrag"  -> NackFragFields(sub)
    [] sub.kind = "HeartbeatFrag" -> HeartbeatFragFields(sub)

\* The flags beside the byte order: bit 1 says four different things, a Heartbeat
\* brings its own. FLAG_DATA_PAYLOAD, which no reader looks at, is left out.
Flags(sub) ==
  CASE sub.kind = "InfoTs"    -> IF sub.timestamp = NoTimestamp THEN {"bit1"} ELSE {}
    [] sub.kind = "InfoReply" -> IF sub.multicast = Garbage THEN {} ELSE {"bit1"}
    [] sub.kind = "Data"      -> IF sub.qos = <<>> THEN {} ELSE {"bit1"}
    [] sub.kind = "Heartbeat" -> sub.flags
    [] OTHER -> {}

Body(fields) == LayOut(0, [i \in DOMAIN fields |-> fields[i][1]], fields)

(***************************************************************************)
(* A submessage is padded to 4 bytes and its octetsToNextHeader patched to *)
(* count the padding, unless no u16 holds that; the next begins there.     *)
(***************************************************************************)
Serialize(message) ==
  LET body == [i \in DOMAIN message |-> Body(Fields(message[i]))]
      padded == [i \in DOMAIN message |-> Pad4(body[i].size)]
  IN  LayOut(HeaderSize, [i \in DOMAIN message |-> SubHeaderSize + padded[i]],
        [i \in DOMAIN message |->
           [kind |-> message[i].kind, flags |-> Flags(message[i]), body |-> body[i],
            octetsToNext |-> IF padded[i] <= MaxU16 THEN padded[i]
                             ELSE body[i].size % (MaxU16 + 1)]])

-----------------------------------------------------------------------------
(***************************************************************************)
(* Reading.  A body of n bytes may be longer than what was put: padding,   *)
(* or the rest of the message.                                             *)
(***************************************************************************)
FieldAt(body, offset, size) ==
  IF offset \in DOMAIN body.at /\ body.at[offset][1] = size THEN body.at[offset][2] ELSE Garbage

SnAt(body, offset) == FromHighLow(FieldAt(body, offset, 4), FieldAt(body, offset + 4, 4))

\* trim_submessage_padding: every zero at the end goes, whoever put it.
Trim(bytes) ==
  LET nonzero == {i \in DOMAIN bytes : bytes[i] # 0}
  IN  SubSeq(bytes, 1, IF nonzero = {} THEN 0 ELSE Max(nonzero))

PayloadAt(body, offset, n) ==
  IF n <= offset THEN <<>>
  ELSE IF offset \notin DOMAIN body.at THEN Garbage
  ELSE Trim(body.at[offset][2] \o [i \in 1..n - body.size |-> 0])

SetAt(body, offset) ==
  LET bits == FieldAt(body, offset + 8, 4)
      set  == [base |-> SnAt(body, offset), numBits |-> bits, bits |-> {}]
  IN  IF Garbage \in {bits, set.base} THEN Garbage
      ELSE IF bits = 0 THEN set
      ELSE [set EXCEPT !.bits = FieldAt(body, offset + 12, BitmapSize(set))]

FragmentsAt(body, offset) ==
  LET set == [base |-> FieldAt(body, offset, 4), numBits |-> FieldAt(body, offset + 4, 4),
              bits |-> {}]
  IN  IF set.numBits = 0 THEN set
      ELSE [set EXCEPT !.bits = FieldAt(body, offset + 8, BitmapSize(set))]

\* parse_locator_list: the list and the offset after it.
LocatorsAt(body, offset) ==
  LET count == FieldAt(body, offset, 4)
  IN  [list |-> [i \in 1..count |-> FieldAt(body, offset + 4 + 24 * (i - 1), 24)],
       next |-> offset + 4 + 24 * count]

ReadAckNack(body) ==
  LET set == SetAt(body, 8)
  IN  [kind |-> "AckNack", reader |-> FieldAt(body, 0, 4), writer |-> FieldAt(body, 4, 4),
       state |-> ParseSequenceNumbers(set),
       through |-> IF set.numBits = 0 /\ set.base > 0 THEN set.base - 1 ELSE Garbage,
       count |-> FieldAt(body, 20 + BitmapSize(set), 4)]

ReadData(sub, n) ==
  LET body == sub.body
      qos == IF "bit1" \in sub.flags /\ n > 20 THEN body.at[20][2] ELSE <<>>
  IN  [kind |-> "Data", reader |-> FieldAt(body, 4, 4), writer |-> FieldAt(body, 8, 4),
       sn |-> SnAt(body, 12), qos |-> qos, payload |-> PayloadAt(body, 20 + Len(qos), n)]

ReadDataFrag(body, n) ==
  [kind |-> "DataFrag", reader |-> FieldAt(body, 4, 4), writer |-> FieldAt(body, 8, 4),
   sn |-> SnAt(body, 12), starting |-> FieldAt(body, 20, 4), count |-> FieldAt(body, 24, 2),
   fragmentSize |-> FieldAt(body, 26, 2), dataSize |-> FieldAt(body, 28, 4),
   payload |-> PayloadAt(body, 32, n)]

ReadHeartbeat(sub) ==
  LET body == sub.body
  IN  [kind |-> "Heartbeat", reader |-> FieldAt(body, 0, 4), writer |-> FieldAt(body, 4, 4),
       first |-> SnAt(body, 8), last |-> SnAt(body, 16), count |-> FieldAt(body, 24, 4),
       flags |-> sub.flags]

ReadGap(body) ==
  [kind |-> "Gap", reader |-> FieldAt(body, 0, 4), writer |-> FieldAt(body, 4, 4),
   start |-> SnAt(body, 8), list |-> ParseSequenceNumbers(SetAt(body, 16))]

ReadHeartbeatFrag(body) ==
  [kind |-> "HeartbeatFrag", reader |-> FieldAt(body, 0, 4), writer |-> FieldAt(body, 4, 4),
   sn |-> SnAt(body, 8), last |-> FieldAt(body, 16, 4), count |-> FieldAt(body, 20, 4)]

ReadNackFrag(body) ==
  LET set == FragmentsAt(body, 20)
  IN  [kind |-> "NackFrag", reader |-> FieldAt(body, 0, 4), writer |-> FieldAt(body, 4, 4),
       sn |-> SnAt(body, 8), starting |-> FieldAt(body, 16, 4), state |-> Numbers(set),
       count |-> FieldAt(body, 28 + BitmapSize(set), 4)]

ReadInfoReply(sub) ==
  LET unicast == LocatorsAt(sub.body, 4)
  IN  [kind |-> "InfoReply", unicast |-> unicast.list,
       multicast |-> IF "bit1" \in sub.flags
                     THEN LocatorsAt(sub.body, unicast.next).list ELSE Garbage]

ReadInfoTs(sub, n) ==
  [kind |-> "InfoTs",
   timestamp |-> IF "bit1" \in sub.flags \/ n < 8 THEN NoTimestamp
                 ELSE [seconds |-> FieldAt(sub.body, 0, 4),
                       nanoseconds |-> (FieldAt(sub.body, 4, 4) * NanosPerSec)
                                          \div FractionsPerSec]]

\* The least length each kind is parsed at; a shorter one is skipped.
Least(kind) ==
  CASE kind \in {"InfoTs", "InfoReply"} -> 0
    [] kind = "InfoDst"       -> 12
    [] kind = "InfoSrc"       -> 20
    [] kind = "Data"          -> 20
    [] kind = "DataFrag"      -> 32
    [] kind = "Heartbeat"     -> 28
    [] kind = "AckNack"       -> 20
    [] kind = "Gap"           -> 16
    [] kind = "NackFrag"      -> 24
    [] kind = "HeartbeatFrag" -> 24

Read(sub, n) ==
  LET body == sub.body IN
  CASE sub.kind = "InfoTs"    -> ReadInfoTs(sub, n)
    [] sub.kind = "InfoDst"   -> [kind |-> "InfoDst", prefix |-> FieldAt(body, 0, 12)]
    [] sub.kind = "InfoSrc"   -> [kind |-> "InfoSrc", version |-> FieldAt(body, 4, 2),
                                  vendor |-> FieldAt(body, 6, 2), prefix |-> FieldAt(body, 8, 12)]
    [] sub.kind = "InfoReply" -> ReadInfoReply(sub)
    [] sub.kind = "Data"      -> ReadData(sub, n)
    [] sub.kind = "DataFrag"  -> ReadDataFrag(body, n)
    [] sub.kind = "Heartbeat" -> ReadHeartbeat(sub)
    [] sub.kind = "AckNack"   -> ReadAckNack(body)
    [] sub.kind = "Gap"       -> ReadGap(body)
    [] sub.kind = "NackFrag"  -> ReadNackFrag(body)
    [] sub.kind = "HeartbeatFrag" -> ReadHeartbeatFrag(body)

(***************************************************************************)
(* The end of a body: a length of 0 means the rest of the message, except  *)
(* of an InfoTs.                                                           *)
(***************************************************************************)
ZeroIsRest(sub, offset, size) ==                        \* mutant of BodyEnd
  IF sub.octetsToNext = 0 THEN size ELSE Min({offset + sub.octetsToNext, size})

BodyEnd(sub, offset, size) ==
  IF sub.octetsToNext = 0
  THEN IF sub.kind = "InfoTs" THEN offset ELSE size
  ELSE Min({offset + sub.octetsToNext, size})

\* One turn of the parser's loop, which stops where no header fits.
ReadNext(wire, s) ==
  IF s.offset + SubHeaderSize > wire.size THEN s
  ELSE IF s.offset \notin DOMAIN wire.at THEN [s EXCEPT !.read = Append(@, Garbage)]
  ELSE LET sub == wire.at[s.offset]
           from == s.offset + SubHeaderSize
           end == BodyEnd(sub, from, wire.size)
       IN  [offset |-> Pad4(end),
            read |-> IF end - from < Least(sub.kind) THEN s.read
                     ELSE Append(s.read, Read(sub, end - from))]

Parse(wire, turns) ==
  LET step[k \in 0..turns] ==
        IF k = 0 THEN [offset |-> HeaderSize, read |-> <<>>] ELSE ReadNext(wire, step[k - 1])
  IN  step

ParseMessage(wire) ==
  LET turns == Cardinality(DOMAIN wire.at) IN Parse(wire, turns)[turns].read

-----------------------------------------------------------------------------
(***************************************************************************)
(* The submessages that the engine sends.  Numbers count up from 0 or 1;   *)
(* inline QoS is a parameter list, of whole words; a NackFrag asks from    *)
(* its first missing fragment on.  An InfoSrc is not among them: nothing   *)
(* sends one, and its 16 bytes are fewer than the reader asks for.         *)
(***************************************************************************)
Kinds == {"InfoTs", "InfoDst", "InfoReply", "Data", "DataFrag", "Heartbeat",
          "AckNack", "Gap", "NackFrag", "HeartbeatFrag"}

SubmessageOf(kind) ==
  CASE kind = "InfoTs"    -> [kind : {kind}, timestamp : Instant \cup {NoTimestamp}]
    [] kind = "InfoDst"   -> [kind : {kind}, prefix : Nat]
    [] kind = "InfoReply" -> [kind : {kind}, unicast : Seq(Nat),
                              multicast : Seq(Nat) \cup {Garbage}]
    [] kind = "Data"      -> [kind : {kind}, reader : Nat, writer : Nat, sn : Nat,
                              qos : Seq(Nat), payload : Seq(Nat)]
    [] kind = "DataFrag"  -> [kind : {kind}, reader : Nat, writer : Nat, sn : Nat,
                              starting : Nat, count : Nat, fragmentSize : Nat,
                              dataSize : Nat, payload : Seq(Nat)]
    [] kind = "Heartbeat" -> [kind : {kind}, reader : Nat, writer : Nat, first : Nat,
                              last : Nat, count : Nat, flags : SUBSET {"bit1", "bit2"}]
    [] kind = "AckNack"   -> [kind : {kind}, reader : Nat, writer : Nat, state : Seq(Nat),
                              through : Nat \cup {Garbage}, count : Nat]
    [] kind = "Gap"       -> [kind : {kind}, reader : Nat, writer : Nat, start : Nat,
                              list : Seq(Nat)]
    [] kind = "NackFrag"  -> [kind : {kind}, reader : Nat, writer : Nat, sn : Nat,
                              starting : Nat, state : Seq(Nat), count : Nat]
    [] kind = "HeartbeatFrag" -> [kind : {kind}, reader : Nat, writer : Nat, sn : Nat,
                                  last : Nat, count : Nat]

\* A body that a u16 cannot measure would not fit into a datagram.
IsSubmessage(sub) ==
  /\ sub.kind \in Kinds /\ sub \in SubmessageOf(sub.kind)
  /\ Pad4(Body(Fields(sub)).size) <= MaxU16
  /\ sub.kind = "Data" => Len(sub.qos) % 4 = 0
  /\ sub.kind = "NackFrag" => \A n \in Range(sub.state) : n >= sub.starting

IsMessage(message) ==
  message \in Seq(Range(message)) /\ \A sub \in Range(message) : IsSubmessage(sub)

-----------------------------------------------------------------------------
Ascending(list) == \A i, j \in DOMAIN list : i < j => list[i] < list[j]

\* The numbers of a list from base on that a window holds, in order.
IsWindow(got, base, numbers) ==
  /\ Ascending(got)
  /\ Range(got) = {n \in Range(numbers) : n >= base /\ n < base + MaxBits}

\* A payload less the zeros at its end.
IsTrimmed(got, bytes) ==
  /\ got = SubSeq(bytes, 1, Len(got))
  /\ \A i \in DOMAIN bytes : i > Len(got) => bytes[i] = 0
  /\ got # <<>> => got[Len(got)] # 0

(***************************************************************************)
(* What comes back of a submessage.  An InfoTs loses up to a nanosecond; a *)
(* payload loses the zeros at its end; a set is sent as far as its window  *)
(* reaches, in order; an AckNack that is empty acknowledges.               *)
(***************************************************************************)
Survives(sent, read) ==
  CASE sent.kind = "InfoTs" -> read = [sent EXCEPT !.timestamp = InfoTsTime(@)]
    [] sent.kind \in {"Data", "DataFrag"} ->
         /\ read = [sent EXCEPT !.payload = read.payload]
         /\ IsTrimmed(read.payload, sent.payload)
    [] sent.kind = "AckNack" ->
         IF sent.state = <<>>
         THEN read = [sent EXCEPT !.through = IF @ = Garbage THEN 0 ELSE @]
         ELSE /\ read = [sent EXCEPT !.state = read.state, !.through = Garbage]
              /\ IsWindow(read.state, Head(sent.state), sent.state)
    [] sent.kind = "Gap" ->
         /\ read = [sent EXCEPT !.list = read.list]
         /\ IF sent.list = <<>> THEN read.list = <<>>
            ELSE IsWindow(read.list, Head(sent.list), sent.list)
    [] sent.kind = "NackFrag" ->
         /\ read = [sent EXCEPT !.state = read.state]
         /\ IsWindow(read.state, sent.starting, sent.state)
    [] OTHER -> read = sent

(***************************************************************************)
(* Whatever the order and the sizes, the reader finds every submessage and *)
(* every field where the writer put it: no odd payload, empty InfoTs or    *)
(* bitmap shifts what follows it.                                          *)
(***************************************************************************)
MessageIsReadBack(message) ==
  LET read == ParseMessage(Serialize(message))
  IN  /\ Len(read) = Len(message)
      /\ \A i \in DOMAIN message : Survives(message[i], read[i])

(***************************************************************************)
(* A NACK built from a sorted list of missing numbers asks for nothing     *)
(* that is not missing, acknowledges nothing that is, and always asks for  *)
(* the first, so that answering each Heartbeat goes forward.               *)
(***************************************************************************)
NackIsSound(missing) ==
  LET set == SequenceNumberSet(missing)
      asked == ParseSequenceNumbers(set)
  IN  /\ Range(asked) \subseteq Range(missing)
      /\ Head(missing) \in Range(asked)
      /\ \A n \in Range(missing) : n >= set.base
      /\ \A n \in Range(missing) \ Range(asked) : n >= set.base + MaxBits
=============================================================================
