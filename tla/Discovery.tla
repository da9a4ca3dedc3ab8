----------------------------- MODULE Discovery -----------------------------
(***************************************************************************)
(* SPDP, SEDP, leases and matchmaking of dds-discovery and dds-core, as    *)
(* one participant, the observer, sees remote participants that run the    *)
(* same code.                                                              *)
(*                                                                         *)
(* A remote announces itself each second, numbers its endpoints on the     *)
(* built-in SEDP writers, announces them on creation, each second and when *)
(* the observer asks. The observer ingests on two threads: the multicast   *)
(* receiver and the main loop, which looks at the leases before each wait  *)
(* for a datagram. Every section under a mutex is one step.                *)
(*                                                                         *)
(* The content of an endpoint (topic, type, QoS) is the number of the      *)
(* registration it comes from: an application that deletes a writer and    *)
(* creates another gets the same GUID again, with other content. Every     *)
(* announcement goes to the multicast group and to the metatraffic         *)
(* locators, so a datagram may be picked up by either thread.              *)
(***************************************************************************)
EXTENDS Integers, FiniteSets, Functions

CONSTANTS
  Remotes,     \* the other participants
  Endpoints,   \* GUIDs of their endpoints
  Owner,       \* the participant of each endpoint
  Kind,        \* the SEDP writer that announces it
  GuidOrder,   \* rank of each endpoint by the bytes of its GUID
  Threads,     \* the observer's receive threads
  MainLoop,    \* the one that expires leases
  MaxSn,       \* bound: registrations per participant and kind
  MaxExpiries, \* bound: live participants taken for dead
  MaxLosses    \* bound: datagrams lost

\* The SEDP writers with something to announce; nothing answers for the others.
Kinds == {Kind[e] : e \in Endpoints}

ASSUME DiscoveryAssumption ==
  /\ IsFiniteSet(Endpoints) /\ IsFiniteSet(Remotes)
  /\ Owner \in [Endpoints -> Remotes]
  /\ Kind \in [Endpoints -> {"publications", "subscriptions"}]
  /\ GuidOrder \in [Endpoints -> Nat]
  /\ MainLoop \in Threads
  /\ {MaxSn, MaxExpiries, MaxLosses} \subseteq Nat

VARIABLES
  up,          \* the remotes whose process runs
  local,       \* local_endpoints and sedp_endpoint_sn of the remotes: 0 is none
  nextSn,      \* next_sedp_publication_sn, next_sedp_subscription_sn
  announcing,  \* what is left of each SEDP announcer's snapshot
  net,         \* datagrams in flight
  losses,      \* datagrams lost so far
  known,       \* observer: discovered_participants
  discovered,  \* observer: content of discovered_endpoints, 0 is none
  received,    \* observer: sedp_received
  matched,     \* observer: remote endpoints matched with its own
  thread,      \* observer: where its threads are
  expiries     \* live participants removed so far

remoteVars == <<up, local, nextSn, announcing>>
observerVars == <<known, discovered, received, matched, thread, expiries>>
vars == <<remoteVars, net, losses, observerVars>>

Sn == 1..MaxSn
At == {"check", "idle", "note", "insert", "match", "unmatch"}
Places == [at : At, work : SUBSET (Endpoints \X (0..MaxSn)),
           from : SUBSET Remotes, sns : SUBSET Sn]

SpdpMsg == [type : {"spdp"}, from : Remotes]
DataMsg == [type : {"data"}, ep : Endpoints, content : Sn, sn : Sn]
HeartbeatMsg == [type : {"heartbeat"}, from : Remotes, kind : Kinds, first : Sn, last : Sn]
AckNackMsg == [type : {"acknack"}, to : Remotes, kind : Kinds, sns : SUBSET (Sn \cup {1})]

\* Every variable has its type.
TypeOK ==
  /\ up \subseteq Remotes
  /\ local \in [Endpoints -> 0..MaxSn]
  /\ nextSn \in [Remotes \X Kinds -> 1..MaxSn + 1]
  /\ announcing \in [Remotes -> SUBSET (Endpoints \X Sn)]
  /\ net \subseteq SpdpMsg \cup DataMsg \cup HeartbeatMsg \cup AckNackMsg
  /\ losses \in 0..MaxLosses
  /\ known \subseteq Remotes
  /\ discovered \in [Endpoints -> 0..MaxSn]
  /\ received \in [Remotes \X Kinds -> SUBSET Sn]
  /\ matched \subseteq Endpoints
  /\ thread \in [Threads -> Places]
  /\ expiries \in 0..MaxExpiries

\* Done with a datagram: the receiver waits for the next one, the main loop looks
\* at the leases first.
Done(t) == [at |-> IF t = MainLoop THEN "check" ELSE "idle",
            work |-> {}, from |-> {}, sns |-> {}]

\* Mutant: SEDP numbers start at 0.
InitAtZero ==
  /\ up = Remotes
  /\ local = [e \in Endpoints |-> 0]
  /\ nextSn = [w \in Remotes \X Kinds |-> 0]
  /\ announcing = [q \in Remotes |-> {}]
  /\ net = {} /\ losses = 0 /\ known = {} /\ matched = {} /\ expiries = 0
  /\ discovered = [e \in Endpoints |-> 0]
  /\ received = [w \in Remotes \X Kinds |-> {}]
  /\ thread = [t \in Threads |-> Done(t)]

Init ==
  /\ up = Remotes
  /\ local = [e \in Endpoints |-> 0]
  /\ nextSn = [w \in Remotes \X Kinds |-> 1]
  /\ announcing = [q \in Remotes |-> {}]
  /\ net = {} /\ losses = 0 /\ known = {} /\ matched = {} /\ expiries = 0
  /\ discovered = [e \in Endpoints |-> 0]
  /\ received = [w \in Remotes \X Kinds |-> {}]
  /\ thread = [t \in Threads |-> Done(t)]

-----------------------------------------------------------------------------
(* What remotes send. *)

Registered(q) == {e \in Endpoints : Owner[e] = q /\ local[e] # 0}
OfKind(q, k) == {e \in Registered(q) : Kind[e] = k}

Spdp(q) == [type |-> "spdp", from |-> q]
Data(e, content) == [type |-> "data", ep |-> e, content |-> content, sn |-> local[e]]

\* The heartbeat of a SEDP writer: the lowest and the highest number in use.
SedpWriterRange(q, k, numbers) ==
  {[type |-> "heartbeat", from |-> q, kind |-> k, first |-> f, last |-> l] :
     f \in {n \in numbers : \A m \in numbers : n <= m},
     l \in {n \in numbers : \A m \in numbers : m <= n}}

Heartbeats(q) ==
  UNION {SedpWriterRange(q, k, {local[e] : e \in OfKind(q, k)}) : k \in Kinds}

AckNack(q, k, sns) == [type |-> "acknack", to |-> q, kind |-> k, sns |-> sns]
RequestSedp(q) == {AckNack(q, k, {1}) : k \in Kinds}

AnnounceParticipant(q) ==
  /\ q \in up
  /\ net' = net \cup {Spdp(q)}
  /\ UNCHANGED <<remoteVars, losses, observerVars>>

\* create_datawriter, create_datareader: register and announce in one section.
RegisterEndpoint(e) ==
  LET q == Owner[e]
      sn == nextSn[<<q, Kind[e]>>]
      numbers == {sn} \cup {local[f] : f \in OfKind(q, Kind[e]) \ {e}}
  IN /\ q \in up
     /\ sn \in Sn
     /\ local' = [local EXCEPT ![e] = sn]
     /\ nextSn' = [nextSn EXCEPT ![<<q, Kind[e]>>] = sn + 1]
     /\ net' = net \cup {[type |-> "data", ep |-> e, content |-> sn, sn |-> sn]}
                   \cup SedpWriterRange(q, Kind[e], numbers)
     /\ UNCHANGED <<up, losses, announcing, observerVars>>

\* The SEDP announcer copies the endpoints in one section...
BeginAnnouncing(q) ==
  /\ q \in up
  /\ announcing[q] = {}
  /\ announcing' = [announcing EXCEPT ![q] = {<<e, local[e]>> : e \in Registered(q)}]
  /\ UNCHANGED <<up, losses, local, nextSn, net, observerVars>>

\* Mutant: the periodic announcement is the Heartbeat alone.
HeartbeatNext(q) ==
  \E item \in announcing[q] :
    /\ announcing' = [announcing EXCEPT ![q] = @ \ {item}]
    /\ net' = net \cup Heartbeats(q)
    /\ UNCHANGED <<up, losses, local, nextSn, observerVars>>

\* ...and sends each in a section of its own, under the number it has by then.
AnnounceNext(q) ==
  \E item \in announcing[q] :
    /\ announcing' = [announcing EXCEPT ![q] = @ \ {item}]
    /\ net' = net \cup {Data(item[1], item[2])} \cup Heartbeats(q)
    /\ UNCHANGED <<up, losses, local, nextSn, observerVars>>

\* A remote that hears the observer's SPDP or SEDP sends it everything.
AnnounceLocalEndpoints(q) ==
  /\ q \in up
  /\ net' = net \cup {Data(e, local[e]) : e \in Registered(q)} \cup Heartbeats(q)
  /\ UNCHANGED <<remoteVars, losses, observerVars>>

\* The reply's heartbeat takes its range from the order of the GUIDs.
RangeByGuid(q, k) ==
  {m \in [type : {"heartbeat"}, from : {q}, kind : {k},
          first : {local[e] : e \in {d \in OfKind(q, k) :
                     \A f \in OfKind(q, k) : GuidOrder[d] <= GuidOrder[f]}},
          last : {local[e] : e \in {d \in OfKind(q, k) :
                     \A f \in OfKind(q, k) : GuidOrder[f] <= GuidOrder[d]}}] :
     m.first <= m.last}

ReplyToAckNack(m) ==
  /\ m \in net /\ m.type = "acknack"
  /\ m.to \in up
  /\ net' = (net \ {m})
              \cup {Data(e, local[e]) : e \in {f \in OfKind(m.to, m.kind) : local[f] \in m.sns}}
              \cup RangeByGuid(m.to, m.kind)
  /\ UNCHANGED <<remoteVars, losses, observerVars>>

Crash(q) ==
  /\ q \in up
  /\ up' = up \ {q}
  /\ announcing' = [announcing EXCEPT ![q] = {}]
  /\ UNCHANGED <<local, nextSn, net, losses, observerVars>>

Lose(m) ==
  /\ losses < MaxLosses
  /\ losses' = losses + 1
  /\ net' = net \ {m}
  /\ UNCHANGED <<remoteVars, observerVars>>

-----------------------------------------------------------------------------
(* What the observer does. *)

Goto(t, at) == thread' = [thread EXCEPT ![t].at = at]

\* process_spdp_packet_from and announce_local_endpoints_to_participant.
ReceiveSpdp(t, q) ==
  /\ thread[t].at = "idle"
  /\ Spdp(q) \in net
  /\ known' = known \cup {q}
  /\ net' = (net \ {Spdp(q)}) \cup RequestSedp(q)
  /\ Goto(t, "match")
  /\ UNCHANGED <<remoteVars, losses, discovered, received, matched, expiries>>

\* ingest_remote_sedp_endpoint makes sure that the participant is known...
ReceiveData(t, m) ==
  /\ thread[t].at = "idle"
  /\ m \in net /\ m.type = "data"
  /\ net' = net \ {m}
  /\ known' = known \cup {Owner[m.ep]}
  /\ thread' = [thread EXCEPT ![t] =
                  [at |-> "note", work |-> {<<m.ep, m.content>>},
                   from |-> {Owner[m.ep]}, sns |-> {m.sn}]]
  /\ UNCHANGED <<remoteVars, losses, discovered, received, matched, expiries>>

\* ...notes the number in a second section...
NoteNumber(t) ==
  /\ thread[t].at = "note"
  /\ \E item \in thread[t].work :
       received' = [received EXCEPT ![<<Owner[item[1]], Kind[item[1]]>>] =
                      @ \cup thread[t].sns]
  /\ thread' = [thread EXCEPT ![t].at = "insert", ![t].sns = {}]
  /\ UNCHANGED <<remoteVars, losses, net, known, discovered, matched, expiries>>

\* ...and inserts the endpoint in a third.
InsertEndpoint(t) ==
  /\ thread[t].at = "insert"
  /\ \E item \in thread[t].work : discovered' = [discovered EXCEPT ![item[1]] = item[2]]
  /\ thread' = [thread EXCEPT ![t].at = "match", ![t].work = {}]
  /\ UNCHANGED <<remoteVars, losses, net, known, received, matched, expiries>>

Discovered == {e \in Endpoints : discovered[e] # 0}

\* Mutant: a remote reader is matched without locators to send to.
MatchableAnyway == Discovered

\* Remote readers need their participant's locators, remote writers do not.
Matchable == {e \in Discovered : Kind[e] = "subscriptions" => Owner[e] \in known}

\* run_matchmaking, and the requests of announce_local_endpoints_to_participant
\* at the end of ingest_remote_sedp_endpoint.
RunMatchmaking(t) ==
  /\ thread[t].at = "match"
  /\ matched' = matched \cup Matchable
  /\ net' = net \cup UNION {RequestSedp(q) : q \in thread[t].from \cap known}
  /\ thread' = [thread EXCEPT ![t] = Done(t)]
  /\ UNCHANGED <<remoteVars, losses, known, discovered, received, expiries>>

\* maybe_send_builtin_sedp_acknack.
ReceiveHeartbeat(t, m) ==
  LET missing == (m.first..m.last) \ received[<<m.from, m.kind>>] IN
  /\ thread[t].at = "idle"
  /\ m \in net /\ m.type = "heartbeat"
  /\ net' = (net \ {m}) \cup (IF missing = {} THEN {}
                              ELSE {AckNack(m.from, m.kind, missing)})
  /\ thread' = [thread EXCEPT ![t] = Done(t)]
  /\ UNCHANGED <<remoteVars, losses, known, discovered, received, matched, expiries>>

\* Any other datagram, of participants that are not modelled, gets the main loop
\* out of recv_from_blocking.
Wake ==
  /\ thread[MainLoop].at = "idle"
  /\ Goto(MainLoop, "check")
  /\ UNCHANGED <<remoteVars, losses, net, known, discovered, received, matched, expiries>>

\* No lease has run out, or it is less than a second since the last look.
Wait ==
  /\ thread[MainLoop].at = "check"
  /\ Goto(MainLoop, "idle")
  /\ UNCHANGED <<remoteVars, losses, net, known, discovered, received, matched, expiries>>

\* Mutant: the endpoints to unmatch are collected after they were removed.
ExpireThenCollect(gone) ==
  /\ thread[MainLoop].at = "check"
  /\ gone # {}
  /\ gone \subseteq known
  /\ expiries + Cardinality(gone \cap up) <= MaxExpiries
  /\ expiries' = expiries + Cardinality(gone \cap up)
  /\ known' = known \ gone
  /\ discovered' = [e \in Endpoints |-> IF Owner[e] \in gone THEN 0 ELSE discovered[e]]
  /\ thread' = [thread EXCEPT ![MainLoop] = [at |-> "unmatch", work |-> {}, from |-> {}, sns |-> {}]]
  /\ UNCHANGED <<remoteVars, losses, net, received, matched>>

\* Mutant: only participants with endpoints are looked at.
ExpireWithEndpoints(gone) ==
  /\ thread[MainLoop].at = "check"
  /\ gone # {}
  /\ gone \subseteq known \cap {Owner[e] : e \in Discovered}
  /\ expiries + Cardinality(gone \cap up) <= MaxExpiries
  /\ expiries' = expiries + Cardinality(gone \cap up)
  /\ known' = known \ gone
  /\ discovered' = [e \in Endpoints |-> IF Owner[e] \in gone THEN 0 ELSE discovered[e]]
  /\ thread' = [thread EXCEPT ![MainLoop] =
                  [at |-> "unmatch", from |-> {}, sns |-> {},
                   work |-> {<<e, discovered[e]>> : e \in {d \in Discovered : Owner[d] \in gone}}]]
  /\ UNCHANGED <<remoteVars, losses, net, received, matched>>

\* check_lease_timeouts; a lease of a live remote runs out when its SPDP is lost.
CheckLeaseTimeouts(gone) ==
  /\ thread[MainLoop].at = "check"
  /\ gone # {}
  /\ gone \subseteq known
  /\ expiries + Cardinality(gone \cap up) <= MaxExpiries
  /\ expiries' = expiries + Cardinality(gone \cap up)
  /\ known' = known \ gone
  /\ discovered' = [e \in Endpoints |-> IF Owner[e] \in gone THEN 0 ELSE discovered[e]]
  /\ thread' = [thread EXCEPT ![MainLoop] =
                  [at |-> "unmatch", from |-> {}, sns |-> {},
                   work |-> {<<e, discovered[e]>> : e \in {d \in Discovered : Owner[d] \in gone}}]]
  /\ UNCHANGED <<remoteVars, losses, net, received, matched>>

\* run_unmatch_removed, after the discovery lock was released.
RunUnmatchRemoved ==
  /\ thread[MainLoop].at = "unmatch"
  /\ matched' = matched \ {item[1] : item \in thread[MainLoop].work}
  /\ thread' = [thread EXCEPT ![MainLoop].at = "idle", ![MainLoop].work = {}]
  /\ UNCHANGED <<remoteVars, losses, net, known, discovered, received, expiries>>

ThreadStep(t) == NoteNumber(t) \/ InsertEndpoint(t) \/ RunMatchmaking(t)

Next ==
  \/ \E q \in Remotes :
       \/ AnnounceParticipant(q) \/ BeginAnnouncing(q) \/ AnnounceNext(q)
       \/ AnnounceLocalEndpoints(q) \/ Crash(q)
  \/ \E e \in Endpoints : RegisterEndpoint(e)
  \/ \E m \in net : Lose(m) \/ ReplyToAckNack(m)
  \/ \E t \in Threads :
       \/ \E q \in Remotes : ReceiveSpdp(t, q)
       \/ \E m \in net : ReceiveData(t, m) \/ ReceiveHeartbeat(t, m)
       \/ ThreadStep(t)
  \/ \E gone \in SUBSET known : CheckLeaseTimeouts(gone)
  \/ RunUnmatchRemoved \/ Wake \/ Wait

Spec == Init /\ [][Next]_vars

\* Timers and threads run; a datagram that is sent again and again arrives. The
\* lease of a crashed participant is found to have run out if the main loop looks
\* again and again; nothing here makes it look, for recv_from_blocking has no timeout.
Fairness ==
  /\ \A q \in Remotes :
       /\ WF_vars(AnnounceParticipant(q))
       /\ WF_vars(BeginAnnouncing(q))
       /\ WF_vars(AnnounceNext(q))
       /\ SF_vars(\E t \in Threads : ReceiveSpdp(t, q))
       /\ SF_vars(q \notin up /\ CheckLeaseTimeouts({q}))
  /\ \A m \in DataMsg : SF_vars(\E t \in Threads : ReceiveData(t, m))
  /\ \A t \in Threads : WF_vars(ThreadStep(t))
  /\ WF_vars(RunUnmatchRemoved \/ Wait)

FairSpec == Spec /\ Fairness

\* The traffic that is assumed of the network: other participants' datagrams go on
\* arriving. The observer's own announcements do not reach the main loop's socket.
BusySpec == FairSpec /\ WF_vars(Wake)

-----------------------------------------------------------------------------
Pending == IF thread[MainLoop].at = "unmatch"
           THEN {item[1] : item \in thread[MainLoop].work} ELSE {}

\* A matched endpoint is a discovered one, or the main loop is about to unmatch
\* it: the removal of a participant in two sections, with ingestion on another
\* thread in between, leaves no match behind whose endpoint is gone. It does not
\* say that the participant is known: an endpoint inserted after its participant
\* was removed stays discovered, and a writer so inserted stays matched, until
\* the participant comes back and expires again (check_lease_timeouts walks
\* discovered_participants only).
MatchedIsDiscovered == matched \subseteq Discovered \cup Pending

\* A local writer never keeps a remote reader whose participant is gone, also
\* when SEDP ingestion inserts the reader after its participant expired.
MatchedReaderReachable ==
  \A e \in matched \ Pending : Kind[e] = "subscriptions" => Owner[e] \in known

\* Whatever is lost, late, expired or deleted and created again, the observer
\* ends up matched with the present endpoints of every live participant, and
\* with their present content.
EventuallyCurrent ==
  \A e \in Endpoints :
    <>[](Owner[e] \in up => /\ discovered[e] = local[e]
                            /\ local[e] # 0 => e \in matched)

\* With the traffic of BusySpec a crashed participant is removed in the end, although its
\* datagrams arrive late and bring it back. FairSpec alone does not imply it: a
\* dead remote that was the only one stays known for ever.
CrashForgotten == \A q \in Remotes : <>[](q \notin up => q \notin known)
=============================================================================
