-------------------------- MODULE ParticipantLocks --------------------------
(***************************************************************************)
(* Creating, discovering, matching and removing endpoints in one           *)
(* DomainParticipant of dds-core, with the mutexes these operations hold   *)
(* across one another: discovery, the lists of publishers and local        *)
(* readers, each publisher's writers map and the subscriber's readers map. *)
(*                                                                         *)
(* std::sync::Mutex is not reentrant: a thread that locks what it already  *)
(* holds waits for itself. A section that locks nothing else is one step.  *)
(***************************************************************************)
EXTENDS Integers, FiniteSets

CONSTANTS
  Publisher,
  RemoteReader,   \* compatible remote readers with a user locator
  WriterCreator,  \* application threads that create and delete writers
  ReaderCreator,  \* application threads that create readers
  Discoverer,     \* receive threads that ingest SEDP
  Housekeeper,    \* the main receive loop
  Nobody,
  IdWidth,        \* 256: an entity number is (len + 1) as u8
  StartWriters,   \* writers each publisher has from before discovery starts
  MaxWriters,     \* bound: writers created
  MaxExpiries     \* bound: participants whose lease expires

Thread == WriterCreator \cup ReaderCreator \cup Discoverer \cup Housekeeper

ASSUME LocksAssumption ==
  /\ IsFiniteSet(Publisher)
  /\ Nobody \notin Thread
  /\ IdWidth \in Nat \ {0}
  /\ StartWriters \in {0, 1}
  /\ {MaxWriters, MaxExpiries} \subseteq Nat

VARIABLES
  holder,     \* the thread that holds each mutex
  thread,     \* where each thread is and what is left of its loop
  writers,    \* Publisher.writers: entity number and creation of each writer
  proxies,    \* <<creation, reader>>: the reader_proxies of every writer
  known,      \* remote readers in discovered_endpoints
  created,    \* writers created so far; numbers the creations
  expiries    \* lease expiries so far

vars == <<holder, thread, writers, proxies, known, created, expiries>>

WritersOf(p) == <<"writers", p>>
Lock == {<<"discovery">>, <<"publishers">>, <<"local_readers">>, <<"readers">>}
          \cup {WritersOf(p) : p \in Publisher}

Creation == 1..MaxWriters + Cardinality(Publisher)
At == {"idle", "register", "enlist", "lock_discovery", "lock_publishers",
       "lock_readers", "match", "unmatch", "walk"}

TypeOK ==
  /\ holder \in [Lock -> Thread \cup {Nobody}]
  /\ thread \in [Thread -> [at : At, todo : SUBSET ((RemoteReader \cup {Nobody}) \X Publisher),
                            gone : SUBSET RemoteReader]]
  /\ writers \in [Publisher -> SUBSET ((0..IdWidth - 1) \X Creation)]
  /\ proxies \subseteq Creation \X RemoteReader
  /\ known \subseteq RemoteReader
  /\ created \in 0..MaxWriters
  /\ expiries \in 0..MaxExpiries

\* The numbering of the writers that publishers start with.
StartNumber == CHOOSE f \in [Publisher -> 1..Cardinality(Publisher)] :
                 \A p, q \in Publisher : p # q => f[p] # f[q]

Idle == [at |-> "idle", todo |-> {}, gone |-> {}]

Init ==
  /\ holder = [l \in Lock |-> Nobody]
  /\ thread = [t \in Thread |-> Idle]
  /\ writers = [p \in Publisher |->
                  IF StartWriters = 1 THEN {<<1 % IdWidth, MaxWriters + StartNumber[p]>>}
                  ELSE {}]
  /\ proxies = {}
  /\ known = {}
  /\ created = 0
  /\ expiries = 0

-----------------------------------------------------------------------------
Free(l) == holder[l] = Nobody
Hold(t, l) == Free(l) /\ holder' = [holder EXCEPT ![l] = t]
Goto(t, at) == thread' = [thread EXCEPT ![t].at = at]

\* Mutant: counted from the wrong end.
NextIdShort(p) == Cardinality(writers[p]) - 1

\* The entity number of a new writer: its publisher's writers counted, plus 1.
NextId(p) == (Cardinality(writers[p]) + 1) % IdWidth

\* create_datawriter keeps publisher.writers locked until it returns.
CreateWriter(t, p) ==
  /\ thread[t].at = "idle"
  /\ created < MaxWriters
  /\ Hold(t, WritersOf(p))
  /\ created' = created + 1
  /\ writers' = [writers EXCEPT ![p] =
                   {w \in @ : w[1] # NextId(p)} \cup {<<NextId(p), created + 1>>}]
  /\ Goto(t, "register")
  /\ UNCHANGED <<proxies, known, expiries>>

\* create_datareader keeps the subscriber's readers locked until it returns.
CreateReader(t) ==
  /\ thread[t].at = "idle"
  /\ Hold(t, <<"readers">>)
  /\ Goto(t, "register")
  /\ UNCHANGED <<writers, proxies, known, created, expiries>>

\* Mutant: create_datawriter returns without matchmaking.
RegisterOnly(t) ==
  /\ thread[t].at = "register"
  /\ Free(<<"discovery">>)
  /\ holder' = [l \in Lock |-> IF holder[l] = t THEN Nobody ELSE holder[l]]
  /\ thread' = [thread EXCEPT ![t] = Idle]
  /\ UNCHANGED <<writers, proxies, known, created, expiries>>

\* register_local_endpoint and announce_endpoint, one discovery section.
RegisterEndpoint(t) ==
  /\ thread[t].at = "register"
  /\ Free(<<"discovery">>)
  /\ Goto(t, IF t \in ReaderCreator THEN "enlist" ELSE "lock_discovery")
  /\ UNCHANGED <<holder, writers, proxies, known, created, expiries>>

\* register_reader pushes the reader to local_readers.
EnlistReader(t) ==
  /\ thread[t].at = "enlist"
  /\ Free(<<"local_readers">>)
  /\ Goto(t, "lock_discovery")
  /\ UNCHANGED <<holder, writers, proxies, known, created, expiries>>

\* delete_datawriter forgets the writer in the publisher's map only.
DeleteWriter(t, p) ==
  /\ thread[t].at = "idle"
  /\ Free(WritersOf(p))
  /\ \E w \in writers[p] : writers' = [writers EXCEPT ![p] = @ \ {w}]
  /\ UNCHANGED <<holder, thread, proxies, known, created, expiries>>

\* Mutant: an endpoint that is known already is not matched again.
IngestOnce(t, r) ==
  /\ thread[t].at = "idle"
  /\ Free(<<"discovery">>)
  /\ r \notin known
  /\ known' = known \cup {r}
  /\ Goto(t, "lock_discovery")
  /\ UNCHANGED <<holder, writers, proxies, created, expiries>>

\* ingest_remote_sedp_endpoint, up to its run_matchmaking. The remote side
\* announces again and again.
Ingest(t, r) ==
  /\ thread[t].at = "idle"
  /\ Free(<<"discovery">>)
  /\ known' = known \cup {r}
  /\ Goto(t, "lock_discovery")
  /\ UNCHANGED <<holder, writers, proxies, created, expiries>>

-----------------------------------------------------------------------------
(* run_matchmaking: three locks, kept to its end, and publisher.writers    *)
(* for each remote reader and publisher in turn.                           *)

LockDiscovery(t) ==
  /\ thread[t].at = "lock_discovery"
  /\ Hold(t, <<"discovery">>)
  /\ Goto(t, "lock_publishers")
  /\ UNCHANGED <<writers, proxies, known, created, expiries>>

LockPublishers(t) ==
  /\ thread[t].at = "lock_publishers"
  /\ Hold(t, <<"publishers">>)
  /\ Goto(t, "lock_readers")
  /\ UNCHANGED <<writers, proxies, known, created, expiries>>

LockReaders(t) ==
  /\ thread[t].at = "lock_readers"
  /\ Hold(t, <<"local_readers">>)
  /\ thread' = [thread EXCEPT ![t].at = "match", ![t].todo = known \X Publisher]
  /\ UNCHANGED <<writers, proxies, known, created, expiries>>

\* matched_reader_add for every writer of the publisher without that proxy.
MatchWriters(t, r, p) ==
  /\ thread[t].at = "match"
  /\ <<r, p>> \in thread[t].todo
  /\ Free(WritersOf(p))
  /\ proxies' = proxies \cup {<<w[2], r>> : w \in writers[p]}
  /\ thread' = [thread EXCEPT ![t].todo = @ \ {<<r, p>>}]
  /\ UNCHANGED <<holder, writers, known, created, expiries>>

\* Mutant: the guard of local_readers outlives the operation.
ReturnHolding(t) ==
  /\ thread[t].at \in {"match", "walk"}
  /\ thread[t].todo = {}
  /\ holder' = [l \in Lock |-> IF holder[l] = t /\ l # <<"local_readers">> THEN Nobody
                               ELSE holder[l]]
  /\ thread' = [thread EXCEPT ![t] = Idle]
  /\ UNCHANGED <<writers, proxies, known, created, expiries>>

\* Every guard of the operation is dropped on its return.
Return(t) ==
  /\ thread[t].at \in {"match", "walk"}
  /\ thread[t].todo = {}
  /\ holder' = [l \in Lock |-> IF holder[l] = t THEN Nobody ELSE holder[l]]
  /\ thread' = [thread EXCEPT ![t] = Idle]
  /\ UNCHANGED <<writers, proxies, known, created, expiries>>

-----------------------------------------------------------------------------
(* The housekeeping of the main loop, at most once a second.               *)

\* check_lease_timeouts removes a participant with its endpoints ...
ExpireLease(t, r) ==
  /\ thread[t].at = "idle"
  /\ Free(<<"discovery">>)
  /\ expiries < MaxExpiries
  /\ r \in known
  /\ known' = known \ {r}
  /\ thread' = [thread EXCEPT ![t].at = "unmatch", ![t].gone = {r}]
  /\ expiries' = expiries + 1
  /\ UNCHANGED <<holder, writers, proxies, created>>

\* ... and run_unmatch_removed, like check_all_liveliness a second later,
\* locks publishers and then the writers of each.
WalkPublishers(t) ==
  /\ thread[t].at \in {"idle", "unmatch"}
  /\ Hold(t, <<"publishers">>)
  /\ thread' = [thread EXCEPT ![t].at = "walk", ![t].todo = {Nobody} \X Publisher]
  /\ UNCHANGED <<writers, proxies, known, created, expiries>>

VisitWriters(t, p) ==
  /\ thread[t].at = "walk"
  /\ <<Nobody, p>> \in thread[t].todo
  /\ Free(WritersOf(p))
  /\ proxies' = proxies \ {<<w[2], r>> : w \in writers[p], r \in thread[t].gone}
  /\ thread' = [thread EXCEPT ![t].todo = @ \ {<<Nobody, p>>}]
  /\ UNCHANGED <<holder, writers, known, created, expiries>>

Proceed(t) ==
  \/ RegisterEndpoint(t) \/ EnlistReader(t)
  \/ LockDiscovery(t) \/ LockPublishers(t) \/ LockReaders(t)
  \/ \E r \in RemoteReader, p \in Publisher : MatchWriters(t, r, p)
  \/ thread[t].at = "unmatch" /\ WalkPublishers(t)
  \/ \E p \in Publisher : VisitWriters(t, p)
  \/ Return(t)

Next ==
  \/ \E t \in WriterCreator, p \in Publisher : CreateWriter(t, p) \/ DeleteWriter(t, p)
  \/ \E t \in ReaderCreator : CreateReader(t)
  \/ \E t \in Discoverer, r \in RemoteReader : Ingest(t, r)
  \/ \E t \in Housekeeper, r \in RemoteReader : ExpireLease(t, r)
  \/ \E t \in Housekeeper : WalkPublishers(t)
  \/ \E t \in Thread : Proceed(t)

Spec == Init /\ [][Next]_vars

(***************************************************************************)
(* A thread that can go on does so, a mutex that is free again and again   *)
(* is obtained in the end, and remote participants announce for ever.      *)
(***************************************************************************)
FairSpec ==
  /\ Spec
  /\ \A t \in Thread : SF_vars(Proceed(t))
  /\ \A r \in RemoteReader : SF_vars(\E t \in Discoverer : Ingest(t, r))

-----------------------------------------------------------------------------
(* Properties                                                              *)

Live == UNION {writers[p] : p \in Publisher}

(***************************************************************************)
(* Matchmaking misses nobody: when no operation is under way, every writer *)
(* has a proxy for every known compatible reader, in whatever order the    *)
(* two were created and discovered.                                        *)
(***************************************************************************)
EntitiesMatched ==
  (\A t \in Thread : thread[t].at = "idle") =>
    \A w \in Live, r \in known : <<w[2], r>> \in proxies

(***************************************************************************)
(* A reader that comes back while its removal is under way loses its proxy *)
(* but gets another: while it stays known it is matched in the end.        *)
(***************************************************************************)
EventuallyMatched ==
  \A r \in RemoteReader :
    [](r \in known => <>(\A w \in Live : <<w[2], r>> \in proxies))

\* The mutex that the next section of a thread needs is free.
Ready(t) ==
  LET at == thread[t].at IN
  \/ at \in {"register", "lock_discovery"} /\ Free(<<"discovery">>)
  \/ at \in {"unmatch", "lock_publishers"} /\ Free(<<"publishers">>)
  \/ at \in {"enlist", "lock_readers"} /\ Free(<<"local_readers">>)
  \/ at \in {"match", "walk"} /\ thread[t].todo = {}
  \/ /\ at = "match"
     /\ \E r \in RemoteReader, p \in Publisher :
          <<r, p>> \in thread[t].todo /\ Free(WritersOf(p))
  \/ at = "walk" /\ \E p \in Publisher : <<Nobody, p>> \in thread[t].todo /\ Free(WritersOf(p))

(***************************************************************************)
(* create_datawriter, which goes on to matchmaking with the writers of its *)
(* publisher locked, is the one operation that can block the others: while *)
(* no writers map is held, somebody under way can always go on, in         *)
(* whatever order creations of readers, ingestions and the housekeeping    *)
(* have taken discovery, publishers and local_readers.                     *)
(***************************************************************************)
OnlyCreationsBlock ==
  (\A p \in Publisher : Free(WritersOf(p))) /\ (\E t \in Thread : thread[t].at # "idle") =>
    \E t \in Thread : Ready(t)

(***************************************************************************)
(* Every operation returns: no thread waits for a mutex that is never      *)
(* released, by itself or by a thread that waits for it.                   *)
(***************************************************************************)
CallsReturn == \A t \in Thread : thread[t].at # "idle" ~> thread[t].at = "idle"
=============================================================================
