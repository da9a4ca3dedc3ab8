-------------------------- MODULE ReliableDelivery --------------------------
(***************************************************************************)
(* What the reliable protocol promises, without cache, heartbeat, proxy or *)
(* network: a reader is handed only what a writer stored, and the progress *)
(* a writer records for a reader only moves to numbers the writer stored   *)
(* and the reader received. The one exception is where a durable writer    *)
(* starts: at a number it stored, whether the reader received it or not.   *)
(***************************************************************************)
EXTENDS Integers

CONSTANTS
  Writer, Reader, MaxSn,
  Durable     \* whether writers keep samples for the readers that join late

VARIABLES
  published,  \* the numbers each writer stored
  delivered,  \* the <<writer, number>> pairs each reader was handed
  acked       \* the number each writer has recorded as a reader's progress

vars == <<published, delivered, acked>>

Init ==
  /\ published = [w \in Writer |-> {}]
  /\ delivered = [r \in Reader |-> {}]
  /\ acked = [w \in Writer |-> [r \in Reader |-> 0]]

\* A number is stored once.
Publish(w, sn) ==
  /\ sn \notin published[w]
  /\ published' = [published EXCEPT ![w] = @ \cup {sn}]
  /\ UNCHANGED <<delivered, acked>>

Deliver(r, w, sn) ==
  /\ sn \in published[w]
  /\ delivered' = [delivered EXCEPT ![r] = @ \cup {<<w, sn>>}]
  /\ UNCHANGED <<published, acked>>

\* The reader received that number, from this writer or from another.
Acknowledge(w, r, sn) ==
  /\ sn \in published[w]
  /\ \E v \in Writer : <<v, sn>> \in delivered[r]
  /\ sn > acked[w][r]
  /\ acked' = [acked EXCEPT ![w][r] = sn]
  /\ UNCHANGED <<published, delivered>>

\* A reader joins late: the writer sends what it kept and starts after it.
Join(w, r, sn) ==
  /\ Durable
  /\ acked[w][r] = 0
  /\ sn \in published[w]
  /\ acked' = [acked EXCEPT ![w][r] = sn]
  /\ UNCHANGED <<published, delivered>>

\* Discovery takes the reader away.
Forget(w, r) ==
  /\ acked' = [acked EXCEPT ![w][r] = 0]
  /\ UNCHANGED <<published, delivered>>

Next ==
  \E w \in Writer :
    \/ \E sn \in 1..MaxSn : Publish(w, sn)
    \/ \E r \in Reader :
         \/ \E sn \in 1..MaxSn :
              Deliver(r, w, sn) \/ Acknowledge(w, r, sn) \/ Join(w, r, sn)
         \/ Forget(w, r)

Spec == Init /\ [][Next]_vars
=============================================================================
