----------------------- MODULE ReaderLiveliness_proofs -----------------------
(***************************************************************************)
(* The alive count of a reader never runs ahead of the writers it holds    *)
(* alive, for any number of writers, threads and removals and any lease.   *)
(***************************************************************************)
EXTENDS ReaderLiveliness, FiniteSetTheorems, TLAPS

State == {"none", "alive", "dead"}

\* Init takes any writer for the unused fields, and there may be none.
SomeWriter == Writer \cup {CHOOSE w \in Writer : TRUE}

\* The part of TypeOK that the count rests on: the writer of a note or of a
\* removal under way is one of the writers.
CountType ==
  /\ alive \in [Writer -> State]
  /\ aliveCount \in Nat
  /\ note \in [Thread -> [pc : {"idle", "stamp", "mark"}, w : SomeWriter, lag : Int]]
  /\ \A t \in Thread : note[t].pc # "idle" => note[t].w \in Writer
  /\ main \in [pc : {"recv", "leases", "forget", "unstamp", "expire"},
               w : SomeWriter, late : SUBSET Writer]
  /\ main.pc = "forget" => main.w \in Writer
  /\ matched \subseteq Writer

CountInv == CountType /\ CountIsBounded

\* The writers held alive, after the state of w has become s.
AliveAfter(w, s) == {v \in Writer : [alive EXCEPT ![w] = s][v] = "alive"}

LEMMA AliveFinite == IsFiniteSet(AliveWriters) /\ Cardinality(AliveWriters) \in Nat
<1>1. IsFiniteSet(AliveWriters)
  BY LivelinessAssumption, FS_Subset DEF AliveWriters
<1> QED BY <1>1, FS_CardinalityType

\* Setting the state of one writer changes the set of the alive by that writer.
LEMMA AliveCounted ==
  ASSUME alive \in [Writer -> State], NEW w \in Writer, NEW s \in State
  PROVE  Cardinality(AliveAfter(w, s)) =
           Cardinality(AliveWriters)
             + (IF s = "alive" /\ alive[w] # "alive" THEN 1 ELSE 0)
             - (IF s # "alive" /\ alive[w] = "alive" THEN 1 ELSE 0)
<1>1. CASE s = "alive"
  <2>1. AliveAfter(w, s) = AliveWriters \cup {w}
    BY <1>1 DEF AliveAfter, AliveWriters
  <2>2. w \in AliveWriters <=> alive[w] = "alive"
    BY DEF AliveWriters
  <2> QED BY <1>1, <2>1, <2>2, AliveFinite, FS_AddElement
<1>2. CASE s # "alive"
  <2>1. AliveAfter(w, s) = AliveWriters \ {w}
    BY <1>2 DEF AliveAfter, AliveWriters
  <2>2. CASE alive[w] = "alive"
    <3>1. w \in AliveWriters
      BY <2>2 DEF AliveWriters
    <3>2. Cardinality(AliveWriters \ {w}) = Cardinality(AliveWriters) - 1
      BY <3>1, AliveFinite, FS_RemoveElement
    <3> QED BY <1>2, <2>1, <2>2, <3>2, AliveFinite
  <2>3. CASE alive[w] # "alive"
    <3>1. AliveWriters \ {w} = AliveWriters
      BY <2>3 DEF AliveWriters
    <3> QED BY <1>2, <2>1, <2>3, <3>1, AliveFinite
  <2> QED BY <2>2, <2>3
<1> QED BY <1>1, <1>2

\* An alive writer is one to count.
LEMMA AliveIsCounted ==
  ASSUME NEW w \in Writer, alive[w] = "alive"
  PROVE  Cardinality(AliveWriters) >= 1
<1>1. AliveWriters # {}
  BY DEF AliveWriters
<1>2. Cardinality(AliveWriters) # 0
  BY <1>1, AliveFinite, FS_EmptySet
<1> QED BY <1>2, AliveFinite

LEMMA AlivePrimed ==
  ASSUME NEW w \in Writer, NEW s \in State, alive' = [alive EXCEPT ![w] = s]
  PROVE  AliveWriters' = AliveAfter(w, s)
BY DEF AliveWriters, AliveAfter

LEMMA InitCountInv == Init => CountInv
<1> SUFFICES ASSUME Init PROVE CountInv
  OBVIOUS
<1>1. \A w \in Writer : alive[w] = "none"
  BY DEF Init
<1>2. AliveWriters = {}
  BY <1>1 DEF AliveWriters
<1>3. CountIsBounded
  BY <1>2, FS_EmptySet DEF Init, CountIsBounded
<1>4. CountType
  BY DEF Init, CountType, State, SomeWriter
<1> QED BY <1>3, <1>4 DEF CountInv

-----------------------------------------------------------------------------
\* A step that leaves the map of alive writers and the count alone.
LEMMA CountUntouched ==
  ASSUME CountIsBounded, UNCHANGED <<alive, aliveCount>>
  PROVE  CountIsBounded'
BY DEF CountIsBounded, AliveWriters

\* Decrement loses one writer, or none that was counted, with the count.
LEMMA DecrementIsBounded ==
  ASSUME CountIsBounded, CountType, NEW w \in Writer, NEW s \in State,
         s # "alive", alive' = [alive EXCEPT ![w] = s], Decrement
  PROVE  aliveCount' \in Nat /\ CountIsBounded'
<1>1. Cardinality(AliveWriters') >= Cardinality(AliveWriters) - 1
  <2>1. AliveWriters' = AliveAfter(w, s)
    BY AlivePrimed
  <2>2. Cardinality(AliveAfter(w, s)) =
          Cardinality(AliveWriters) - (IF alive[w] = "alive" THEN 1 ELSE 0)
    BY AliveCounted, AliveFinite DEF CountType
  <2> QED BY <2>1, <2>2, AliveFinite
<1>2. Cardinality(AliveWriters') \in Nat
  <2>1. IsFiniteSet(AliveWriters')
    BY LivelinessAssumption, FS_Subset DEF AliveWriters
  <2> QED BY <2>1, FS_CardinalityType
<1>3. Cardinality(AliveWriters)' = Cardinality(AliveWriters')
  OBVIOUS
<1> QED BY <1>1, <1>2, <1>3, AliveFinite DEF Decrement, CountIsBounded, CountType

\* The mark of a note adds the writer to the count when it adds it to the map.
LEMMA MarkStep ==
  ASSUME CountInv, NEW t \in Thread, MarkAlive(t)
  PROVE  CountInv'
<1> DEFINE w == note[t].w
<1>1. w \in Writer /\ "alive" \in State
  BY DEF CountInv, CountType, MarkAlive, State
<1>2. alive' = [alive EXCEPT ![w] = "alive"]
  BY DEF MarkAlive
<1>3. aliveCount' = aliveCount + (IF alive[w] # "alive" THEN 1 ELSE 0)
  BY DEF MarkAlive, CountInv, CountType
<1>4. Cardinality(AliveWriters') =
        Cardinality(AliveWriters) + (IF alive[w] # "alive" THEN 1 ELSE 0)
  <2>1. AliveWriters' = AliveAfter(w, "alive")
    BY <1>1, <1>2, AlivePrimed
  <2>2. alive \in [Writer -> State]
    BY DEF CountInv, CountType
  <2> HIDE DEF w
  <2>3. Cardinality(AliveAfter(w, "alive")) =
          Cardinality(AliveWriters) + (IF alive[w] # "alive" THEN 1 ELSE 0)
    BY <1>1, <2>2, AliveCounted, AliveFinite
  <2> QED BY <2>1, <2>3
<1>5. CountIsBounded'
  <2> HIDE DEF w
  <2> QED BY <1>3, <1>4, AliveFinite DEF CountInv, CountType, CountIsBounded
<1>6. alive' \in [Writer -> State] /\ aliveCount' \in Nat
  BY <1>1, <1>2, <1>3 DEF CountInv, CountType
<1>7. /\ note' \in [Thread -> [pc : {"idle", "stamp", "mark"}, w : SomeWriter, lag : Int]]
      /\ \A u \in Thread : note'[u].pc # "idle" => note'[u].w \in Writer
  BY DEF MarkAlive, CountInv, CountType
<1> QED BY <1>5, <1>6, <1>7 DEF MarkAlive, CountInv, CountType

\* A removal drops the writer's entry, whatever it says, with one from the count.
LEMMA ForgetStep ==
  ASSUME CountInv, ForgetAlive
  PROVE  CountInv'
<1>1. main.w \in Writer /\ "none" \in State
  BY DEF CountInv, CountType, ForgetAlive, State
<1>2. alive' = [alive EXCEPT ![main.w] = "none"]
  BY DEF ForgetAlive
<1>3. aliveCount' \in Nat /\ CountIsBounded'
  <2>1. CASE alive[main.w] = "none"
    <3>1. alive' = alive /\ aliveCount' = aliveCount
      BY <1>2, <2>1 DEF ForgetAlive, CountInv, CountType
    <3> QED BY <3>1, CountUntouched DEF CountInv, CountType
  <2>2. CASE alive[main.w] # "none"
    BY <1>1, <1>2, <2>2, DecrementIsBounded DEF ForgetAlive, CountInv
  <2> QED BY <2>1, <2>2
<1>4. alive' \in [Writer -> State]
  BY <1>1, <1>2 DEF CountInv, CountType
<1> QED BY <1>3, <1>4 DEF ForgetAlive, CountInv, CountType

\* An expiry takes one from the count when it takes the writer from the alive.
LEMMA ExpireStep ==
  ASSUME CountInv, NEW w \in Writer, Expire(w)
  PROVE  CountInv'
<1>1. alive' \in [Writer -> State] /\ aliveCount' \in Nat /\ CountIsBounded'
  <2>1. CASE alive[w] = "alive"
    <3>1. "dead" \in State /\ alive' = [alive EXCEPT ![w] = "dead"] /\ Decrement
      BY <2>1 DEF Expire, State
    <3> QED BY <3>1, DecrementIsBounded DEF CountInv, CountType
  <2>2. CASE alive[w] # "alive"
    BY <2>2, CountUntouched DEF Expire, CountInv, CountType
  <2> QED BY <2>1, <2>2
<1>2. /\ main' \in [pc : {"recv", "leases", "forget", "unstamp", "expire"},
                    w : SomeWriter, late : SUBSET Writer]
      /\ main'.pc = "expire"
  BY DEF Expire, CountInv, CountType
<1> QED BY <1>1, <1>2 DEF Expire, CountInv, CountType

\* The other actions only move threads on.
LEMMA NoteStep ==
  ASSUME CountInv, NEW t \in Thread, NEW w \in Writer,
         HearWriter(t, w) \/ MatchWriter(t, w) \/ Stamp(t)
  PROVE  CountInv'
<1>1. UNCHANGED <<alive, aliveCount, main>>
  BY DEF HearWriter, MatchWriter, Stamp
<1>2. /\ note' \in [Thread -> [pc : {"idle", "stamp", "mark"}, w : SomeWriter, lag : Int]]
      /\ \A u \in Thread : note'[u].pc # "idle" => note'[u].w \in Writer
  BY DEF HearWriter, MatchWriter, BeginNote, Stamp, CountInv, CountType, SomeWriter
<1>3. matched' \subseteq Writer
  BY DEF HearWriter, MatchWriter, Stamp, CountInv, CountType
<1> QED BY <1>1, <1>2, <1>3, CountUntouched DEF CountInv, CountType

LEMMA LoopStep ==
  ASSUME CountInv, Wake \/ ForgetStamp \/ CollectLate \/ ReturnToRecv
                     \/ \E w \in Writer : Unmatch(w)
  PROVE  CountInv'
<1>1. UNCHANGED <<alive, aliveCount, note>>
  BY DEF Wake, ForgetStamp, CollectLate, ReturnToRecv, Unmatch
<1>2. /\ main' \in [pc : {"recv", "leases", "forget", "unstamp", "expire"},
                    w : SomeWriter, late : SUBSET Writer]
      /\ main'.pc = "forget" => main'.w \in Writer
  <2>1. CASE Wake \/ ForgetStamp \/ ReturnToRecv
    BY <2>1 DEF Wake, ForgetStamp, ReturnToRecv, CountInv, CountType
  <2>2. CASE CollectLate
    <3>1. {w \in matched : alive[w] = "alive" /\ age[w] > Lease} \in SUBSET Writer
      BY DEF CountInv, CountType
    <3> QED BY <2>2, <3>1 DEF CollectLate, CountInv, CountType
  <2>3. CASE \E w \in Writer : Unmatch(w)
    BY <2>3 DEF Unmatch, CountInv, CountType, SomeWriter
  <2> QED BY <2>1, <2>2, <2>3
<1>3. matched' \subseteq Writer
  BY DEF Wake, ForgetStamp, CollectLate, ReturnToRecv, Unmatch, CountInv, CountType
<1> QED BY <1>1, <1>2, <1>3, CountUntouched DEF CountInv, CountType

LEMMA EnvironmentStep ==
  ASSUME CountInv, Tick \/ \E w \in Writer : Crash(w)
  PROVE  CountInv'
<1>1. UNCHANGED <<alive, aliveCount, main, matched>>
  BY DEF Tick, Crash
<1>2. /\ note' \in [Thread -> [pc : {"idle", "stamp", "mark"}, w : SomeWriter, lag : Int]]
      /\ \A u \in Thread : note'[u].pc # "idle" => note'[u].w \in Writer
  <2>1. CASE Tick
    <3>1. \A u \in Thread : /\ note'[u] \in [pc : {"idle", "stamp", "mark"},
                                              w : SomeWriter, lag : Int]
                           /\ note'[u].pc = note[u].pc
                           /\ note'[u].w = note[u].w
      BY <2>1, LivelinessAssumption DEF Tick, Older, CountInv, CountType
    <3>2. note' = [u \in Thread |-> note'[u]]
      BY <2>1 DEF Tick
    <3> QED BY <3>1, <3>2 DEF CountInv, CountType
  <2>2. CASE \E w \in Writer : Crash(w)
    BY <2>2 DEF Crash, CountInv, CountType
  <2> QED BY <2>1, <2>2
<1> QED BY <1>1, <1>2, CountUntouched DEF CountInv, CountType

LEMMA NextCountInv == CountInv /\ [Next]_vars => CountInv'
<1> SUFFICES ASSUME CountInv, [Next]_vars PROVE CountInv'
  OBVIOUS
<1>1. ASSUME NEW t \in Thread, NEW w \in Writer, HearWriter(t, w) \/ MatchWriter(t, w)
      PROVE  CountInv'
  BY <1>1, NoteStep
<1>2. ASSUME NEW t \in Thread, Stamp(t) PROVE CountInv'
  <2>1. note[t].w \in Writer
    BY <1>2 DEF Stamp, CountInv, CountType
  <2> QED BY <1>2, <2>1, NoteStep
<1>3. ASSUME NEW t \in Thread, MarkAlive(t) PROVE CountInv'
  BY <1>3, MarkStep
<1>4. CASE \E w \in Writer : Unmatch(w)
  BY <1>4, LoopStep
<1>5. CASE Wake \/ ForgetStamp \/ CollectLate \/ ReturnToRecv
  BY <1>5, LoopStep
<1>6. CASE ForgetAlive
  BY <1>6, ForgetStep
<1>7. ASSUME NEW w \in Writer, Expire(w) PROVE CountInv'
  BY <1>7, ExpireStep
<1>8. CASE Tick \/ \E w \in Writer : Crash(w)
  BY <1>8, EnvironmentStep
<1>9. CASE UNCHANGED vars
  BY <1>9, CountUntouched DEF vars, CountInv, CountType
<1> QED
  BY <1>1, <1>2, <1>3, <1>4, <1>5, <1>6, <1>7, <1>8, <1>9 DEF Next, Housekeeping

(***************************************************************************)
(* The alive_writer_count that on_liveliness_changed reports is never more *)
(* than the writers in writer_is_alive that are alive, however the notes,  *)
(* the expiries and the sections of a removal interleave.                  *)
(***************************************************************************)
THEOREM CountIsSound == Spec => []CountIsBounded
<1>1. CountInv => CountIsBounded
  BY DEF CountInv
<1> QED BY <1>1, InitCountInv, NextCountInv, PTL DEF Spec
-----------------------------------------------------------------------------
(* Types                                                                   *)

\* Time makes a stamp older, up to one more than the lease.
LEMMA OlderIsAge ==
  ASSUME NEW a \in Age \cup {-1}
  PROVE  Older(a) \in Age \cup {-1} /\ (a \in Age => Older(a) \in Age)
BY LivelinessAssumption DEF Older, Age

LEMMA TickType ==
  ASSUME TypeOK, Tick
  PROVE  TypeOK'
<1>1. age' \in [Writer -> Age \cup {-1}]
  BY OlderIsAge DEF Tick, TypeOK
<1>2. note' \in [Thread -> [pc : {"idle", "stamp", "mark"}, w : Writer, lag : Age]]
  <2>1. \A t \in Thread : note'[t] \in [pc : {"idle", "stamp", "mark"}, w : Writer, lag : Age]
    <3> SUFFICES ASSUME NEW t \in Thread
                 PROVE  note'[t] \in [pc : {"idle", "stamp", "mark"}, w : Writer, lag : Age]
      OBVIOUS
    <3>1. /\ note[t] \in [pc : {"idle", "stamp", "mark"}, w : Writer, lag : Age]
          /\ Older(note[t].lag) \in Age
      BY OlderIsAge DEF TypeOK
    <3> QED BY <3>1 DEF Tick
  <2> QED BY <2>1 DEF Tick
<1> QED BY <1>1, <1>2 DEF Tick, TypeOK

LEMMA NextTypeOK == Writer # {} /\ TypeOK /\ [Next]_vars => TypeOK'
<1> SUFFICES ASSUME Writer # {}, TypeOK, [Next]_vars PROVE TypeOK'
  OBVIOUS
<1>1. 0 \in Age
  BY LivelinessAssumption DEF Age
<1>2. ASSUME NEW t \in Thread, NEW w \in Writer, HearWriter(t, w) \/ MatchWriter(t, w)
      PROVE  TypeOK'
  BY <1>1, <1>2 DEF HearWriter, MatchWriter, BeginNote, TypeOK
<1>3. ASSUME NEW t \in Thread, Stamp(t) \/ MarkAlive(t) PROVE TypeOK'
  <2>1. note[t].lag \in Age /\ note[t].w \in Writer
    BY DEF TypeOK
  <2>2. CASE Stamp(t)
    BY <2>1, <2>2 DEF Stamp, TypeOK
  <2>3. CASE MarkAlive(t)
    BY <2>1, <2>3 DEF MarkAlive, TypeOK
  <2> QED BY <1>3, <2>2, <2>3
<1>4. ASSUME NEW w \in Writer, Unmatch(w) \/ Crash(w) PROVE TypeOK'
  <2>1. CASE Unmatch(w)
    <3>1. removals + 1 \in 0..MaxRemovals /\ matched \ {w} \subseteq Writer
      BY <2>1, LivelinessAssumption DEF Unmatch, TypeOK
    <3>2. main' \in [pc : {"recv", "leases", "forget", "unstamp", "expire"},
                     w : Writer, late : SUBSET Writer]
      BY <2>1 DEF Unmatch, TypeOK
    <3> QED BY <2>1, <3>1, <3>2 DEF Unmatch, TypeOK
  <2>2. CASE Crash(w)
    BY <2>2 DEF Crash, TypeOK
  <2> QED BY <1>4, <2>1, <2>2
<1>5. CASE Wake \/ CollectLate \/ ReturnToRecv
  <2>1. CASE Wake \/ ReturnToRecv
    BY <2>1 DEF Wake, ReturnToRecv, TypeOK
  <2>2. CASE CollectLate
    <3>1. {w \in matched : alive[w] = "alive" /\ age[w] > Lease} \in SUBSET Writer
      BY DEF TypeOK
    <3>2. main' \in [pc : {"recv", "leases", "forget", "unstamp", "expire"},
                     w : Writer, late : SUBSET Writer]
      BY <2>2, <3>1 DEF CollectLate, TypeOK
    <3> QED BY <2>2, <3>2 DEF CollectLate, TypeOK
  <2> QED BY <1>5, <2>1, <2>2
<1>6. CASE ForgetAlive \/ ForgetStamp
  BY <1>6 DEF ForgetAlive, ForgetStamp, Decrement, TypeOK
<1>7. ASSUME NEW w \in Writer, Expire(w) PROVE TypeOK'
  BY <1>7 DEF Expire, Decrement, TypeOK
<1>8. CASE UNCHANGED vars
  BY <1>8 DEF vars, TypeOK
<1> QED BY <1>2, <1>3, <1>4, <1>5, <1>6, <1>7, <1>8, TickType DEF Next, Housekeeping

(***************************************************************************)
(* Whatever notes, removals, expiries and crashes interleave, the maps of  *)
(* a reader's writers and its threads keep their types.                    *)
(***************************************************************************)
THEOREM LivelinessTypeCorrect ==
  ASSUME Writer # {}
  PROVE  Spec => []TypeOK
<1>1. Init => TypeOK
  <2>1. (CHOOSE w \in Writer : TRUE) \in Writer /\ 0 \in Age /\ 0 \in 0..MaxRemovals
    BY LivelinessAssumption DEF Age
  <2> QED BY <2>1 DEF Init, TypeOK
<1>2. TypeOK /\ [Next]_vars => TypeOK'
  BY NextTypeOK
<1> QED BY <1>1, <1>2, PTL DEF Spec
=============================================================================
