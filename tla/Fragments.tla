----------------------------- MODULE Fragments -----------------------------
(***************************************************************************)
(* A sample that is longer than one DataFrag: RtpsEngine::tick cuts it,    *)
(* the receive loop of dds-core puts it together again in a buffer of its  *)
(* own for each (writer, sequence number), in whatever order and as often  *)
(* as the fragments arrive.  A writer does not listen to a NackFrag; it    *)
(* sends all the fragments again when an AckNack asks for the sample.      *)
(***************************************************************************)
EXTENDS RtpsMessage

CONSTANTS MaxPayload,      \* 1000 bytes
          NoBuffer,
          Payloads,        \* the samples that may be sent
          MaxArrivals      \* of each fragment

ASSUME FragmentsAssumption ==
  /\ MaxPayload \in Nat \ {0}
  /\ MaxArrivals \in Nat
  /\ \A p \in Payloads : p \in Seq(Nat) /\ p # <<>>
  /\ NoBuffer \notin [dataSize : Nat, received : Nat, mask : SUBSET Nat,
                      fragments : Nat, buffer : Seq(Nat)]

VARIABLES payload,      \* the sample under way, <<>> until there is one
          came,         \* how often each of its fragments has arrived
          entry,        \* its FragmentBuffer, or NoBuffer
          delivered,    \* the samples handed to the reader
          asked         \* the fragments the last datagram was answered with

fragmentVars == <<payload, came, entry, delivered, asked>>

DivCeil(a, b) == (a + b - 1) \div b

FragmentsOf(sample) ==
  LET n == Len(sample)
  IN  [f \in 1..DivCeil(n, MaxPayload) |->
         [starting |-> f, count |-> 1, fragmentSize |-> MaxPayload, dataSize |-> n,
          payload |-> SubSeq(sample, (f - 1) * MaxPayload + 1, Min({f * MaxPayload, n}))]]

\* FragmentBuffer: bytes not received are 0; mask is the set of those that are.
NewBuffer(frag) ==
  [dataSize |-> frag.dataSize, received |-> 0, mask |-> {},
   fragments |-> DivCeil(frag.dataSize, frag.fragmentSize),
   buffer |-> [i \in 1..frag.dataSize |-> 0]]

CountTwice(buf, frag) ==                               \* mutant of Fill
  LET chunk == Trim(frag.payload)
      from == (frag.starting - 1) * frag.fragmentSize
  IN  [buf EXCEPT !.mask = @ \union {frag.starting},
                  !.received = @ + Len(chunk),
                  !.buffer = [i \in DOMAIN @ |-> IF i - from \in DOMAIN chunk
                                                 THEN chunk[i - from] ELSE @[i]]]

\* The chunk as parse_rtps_message leaves it, without the zeros at its end;
\* one that is empty by then is not marked.
Fill(buf, frag) ==
  LET chunk == Trim(frag.payload)
      from == (frag.starting - 1) * frag.fragmentSize
  IN  IF frag.starting > buf.fragments \/ frag.starting \in buf.mask \/ chunk = <<>>
      THEN buf
      ELSE [buf EXCEPT !.mask = @ \union {frag.starting},
                       !.received = @ + Len(chunk),
                       !.buffer = [i \in DOMAIN @ |-> IF i - from \in DOMAIN chunk
                                                      THEN chunk[i - from] ELSE @[i]]]

FromZero(buf) == {f \in 0..buf.fragments - 1 : f + 1 \notin buf.mask}   \* mutant of Missing

Missing(buf) == (1..buf.fragments) \ buf.mask

Complete(buf) == buf.received >= buf.dataSize

-----------------------------------------------------------------------------
InitFragments ==
  /\ payload = <<>> /\ came = <<>>
  /\ entry = NoBuffer /\ delivered = <<>> /\ asked = {}

\* tick cuts the sample; from now on its fragments arrive.
Cut ==
  /\ payload = <<>>
  /\ \E sample \in Payloads :
       payload' = sample /\ came' = [f \in DOMAIN FragmentsOf(sample) |-> 0]
  /\ UNCHANGED <<entry, delivered, asked>>

(***************************************************************************)
(* One DataFrag.  A complete sample leaves the map and goes to the reader; *)
(* of any other the missing fragments are asked for, if there are any.     *)
(***************************************************************************)
ReceiveDataFrag(f) ==
  /\ came[f] < MaxArrivals
  /\ came' = [came EXCEPT ![f] = @ + 1]
  /\ LET frag == FragmentsOf(payload)[f]
         filled == Fill(IF entry = NoBuffer THEN NewBuffer(frag) ELSE entry, frag)
     IN  IF Complete(filled)
         THEN entry' = NoBuffer /\ delivered' = Append(delivered, filled.buffer) /\ asked' = {}
         ELSE entry' = filled /\ delivered' = delivered /\ asked' = Missing(filled)
  /\ payload' = payload

\* A HeartbeatFrag only repeats the question.
ReceiveHeartbeatFrag ==
  /\ payload # <<>>
  /\ asked' = IF entry = NoBuffer \/ Complete(entry) THEN {} ELSE Missing(entry)
  /\ UNCHANGED <<payload, came, entry, delivered>>

NextFragments ==
  Cut \/ (\E f \in DOMAIN came : ReceiveDataFrag(f)) \/ ReceiveHeartbeatFrag

SpecFragments == InitFragments /\ [][NextFragments]_fragmentVars

-----------------------------------------------------------------------------
\* Whether no fragment of the sample loses a zero to the parser.
NoZeroEnds(sample) ==
  \A f \in DOMAIN FragmentsOf(sample) :
    Trim(FragmentsOf(sample)[f].payload) = FragmentsOf(sample)[f].payload

(***************************************************************************)
(* Whatever is delivered is what was sent, zeros at the ends of fragments  *)
(* included; it is delivered no more often than the fragment that came     *)
(* least; and when no fragment ends in a zero it is delivered once every   *)
(* fragment has come.  (A fragment that ends in a zero is trimmed, counted *)
(* short and marked received: the sample is then never delivered.)         *)
(***************************************************************************)
SamplesAreReassembled ==
  /\ \A k \in DOMAIN delivered : delivered[k] = payload
  /\ \A f \in DOMAIN came : Len(delivered) <= came[f]
  /\ (payload # <<>> /\ NoZeroEnds(payload) /\ \A f \in DOMAIN came : came[f] > 0) => delivered # <<>>

(***************************************************************************)
(* While a sample without zero ends is incomplete, the last answer asked   *)
(* for something, and what it asked for is what completes the sample: the  *)
(* last of them does, and any other does not.                              *)
(***************************************************************************)
MissingIsAsked ==
  entry # NoBuffer /\ NoZeroEnds(payload) =>
    /\ asked # {} /\ asked \subseteq DOMAIN came
    /\ \A f \in asked :
         Complete(Fill(entry, FragmentsOf(payload)[f])) <=> asked = {f}
=============================================================================
