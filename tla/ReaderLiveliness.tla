-------------------------- MODULE ReaderLiveliness --------------------------
(***************************************************************************)
(* How one DataReader of dds-core follows the liveliness of the writers it *)
(* is matched with: note_writer_liveliness on the receive and discovery    *)
(* threads, check_liveliness_timeouts and run_unmatch_removed on the main  *)
(* receive loop, which does its housekeeping only when a datagram has      *)
(* made its blocking recv return.                                          *)
(*                                                                         *)
(* A stamp in writer_liveliness_last is modelled by its age, counted in    *)
(* clock ticks up to one more than the lease.                              *)
(***************************************************************************)
EXTENDS Integers, FiniteSets

CONSTANTS
  Writer,      \* remote writers of the reader's topic
  Thread,      \* threads that note liveliness: user-port and discovery loops
  Lease,       \* liveliness.lease_duration, finite
  MaxRemovals  \* bound: lease expiries that remove a writer

ASSUME LivelinessAssumption ==
  /\ IsFiniteSet(Writer)
  /\ Lease \in Nat
  /\ MaxRemovals \in Nat

VARIABLES
  matched,     \* matched_writers
  age,         \* age of the stamp in writer_liveliness_last; -1: no stamp
  alive,       \* writer_is_alive; "none": no entry
  aliveCount,  \* alive_writer_count
  silent,      \* writers that crashed
  note,        \* note_writer_liveliness in progress on each thread
  main,        \* the main receive loop
  removals     \* removals so far

vars == <<matched, age, alive, aliveCount, silent, note, main, removals>>

Age == 0..Lease + 1

TypeOK ==
  /\ matched \subseteq Writer
  /\ age \in [Writer -> Age \cup {-1}]
  /\ alive \in [Writer -> {"none", "alive", "dead"}]
  /\ aliveCount \in Nat
  /\ silent \subseteq Writer
  /\ note \in [Thread -> [pc : {"idle", "stamp", "mark"}, w : Writer, lag : Age]]
  /\ main \in [pc : {"recv", "leases", "forget", "unstamp", "expire"},
               w : Writer, late : SUBSET Writer]
  /\ removals \in 0..MaxRemovals

Init ==
  /\ matched = {}
  /\ age = [w \in Writer |-> -1]
  /\ alive = [w \in Writer |-> "none"]
  /\ aliveCount = 0
  /\ silent = {}
  /\ note = [t \in Thread |-> [pc |-> "idle", w |-> CHOOSE w \in Writer : TRUE, lag |-> 0]]
  /\ main = [pc |-> "recv", w |-> CHOOSE w \in Writer : TRUE, late |-> {}]
  /\ removals = 0

-----------------------------------------------------------------------------
(* note_writer_liveliness: clock, then stamp, then alive map with count.   *)

BeginNote(t, w) ==
  /\ note[t].pc = "idle"
  /\ w \notin silent
  /\ note' = [note EXCEPT ![t] = [pc |-> "stamp", w |-> w, lag |-> 0]]

\* A Heartbeat of the writer's engine carries FLAG_LIVELINESS, and is noted
\* whether or not the reader is matched with the writer.
HearWriter(t, w) ==
  /\ BeginNote(t, w)
  /\ UNCHANGED <<matched, age, alive, aliveCount, silent, main, removals>>

\* run_matchmaking drops matched_writers, then notes the writer.
MatchWriter(t, w) ==
  /\ w \notin matched
  /\ BeginNote(t, w)
  /\ matched' = matched \cup {w}
  /\ UNCHANGED <<age, alive, aliveCount, silent, main, removals>>

Stamp(t) ==
  /\ note[t].pc = "stamp"
  /\ age' = [age EXCEPT ![note[t].w] = note[t].lag]
  /\ note' = [note EXCEPT ![t].pc = "mark"]
  /\ UNCHANGED <<matched, alive, aliveCount, silent, main, removals>>

\* Mutant: every note counts.
MarkAndCount(t) ==
  /\ note[t].pc = "mark"
  /\ alive' = [alive EXCEPT ![note[t].w] = "alive"]
  /\ aliveCount' = aliveCount + 1
  /\ note' = [note EXCEPT ![t].pc = "idle"]
  /\ UNCHANGED <<matched, age, silent, main, removals>>

MarkAlive(t) ==
  /\ note[t].pc = "mark"
  /\ alive' = [alive EXCEPT ![note[t].w] = "alive"]
  /\ aliveCount' = IF alive[note[t].w] = "alive" THEN aliveCount ELSE aliveCount + 1
  /\ note' = [note EXCEPT ![t].pc = "idle"]
  /\ UNCHANGED <<matched, age, silent, main, removals>>

-----------------------------------------------------------------------------
(* The housekeeping of the main loop.                                      *)

\* A datagram arrives, a second after the last housekeeping or later.
Wake ==
  /\ main.pc = "recv"
  /\ main' = [main EXCEPT !.pc = "leases"]
  /\ UNCHANGED <<matched, age, alive, aliveCount, silent, note, removals>>

\* Mutant: the count is not kept from going below zero.
DecrementFreely == aliveCount' = aliveCount - 1

Decrement == aliveCount' = IF aliveCount > 0 THEN aliveCount - 1 ELSE 0

\* run_unmatch_removed, in three sections.
Unmatch(w) ==
  /\ main.pc = "leases"
  /\ removals < MaxRemovals
  /\ w \in matched
  /\ matched' = matched \ {w}
  /\ main' = [main EXCEPT !.pc = "forget", !.w = w]
  /\ removals' = removals + 1
  /\ UNCHANGED <<age, alive, aliveCount, silent, note>>

ForgetAlive ==
  /\ main.pc = "forget"
  /\ IF alive[main.w] = "none" THEN UNCHANGED aliveCount ELSE Decrement
  /\ alive' = [alive EXCEPT ![main.w] = "none"]
  /\ main' = [main EXCEPT !.pc = "unstamp"]
  /\ UNCHANGED <<matched, age, silent, note, removals>>

ForgetStamp ==
  /\ main.pc = "unstamp"
  /\ age' = [age EXCEPT ![main.w] = -1]
  /\ main' = [main EXCEPT !.pc = "leases"]
  /\ UNCHANGED <<matched, alive, aliveCount, silent, note, removals>>

\* Mutant: the comparison with the lease turned round.
CollectEarly ==
  /\ main.pc = "leases"
  /\ main' = [main EXCEPT !.pc = "expire",
                          !.late = {w \in matched : alive[w] = "alive" /\ age[w] < Lease}]
  /\ UNCHANGED <<matched, age, alive, aliveCount, silent, note, removals>>

(***************************************************************************)
(* check_liveliness_timeouts reads the clock, copies matched_writers and   *)
(* collects the late ones. What other threads do between these sections    *)
(* adds only writers with a fresh stamp, so they are one step here.        *)
(***************************************************************************)
CollectLate ==
  /\ main.pc = "leases"
  /\ main' = [main EXCEPT !.pc = "expire",
                          !.late = {w \in matched : alive[w] = "alive" /\ age[w] > Lease}]
  /\ UNCHANGED <<matched, age, alive, aliveCount, silent, note, removals>>

\* One section for each late writer, which looks at the alive map only.
Expire(w) ==
  /\ main.pc = "expire"
  /\ w \in main.late
  /\ IF alive[w] = "alive"
     THEN alive' = [alive EXCEPT ![w] = "dead"] /\ Decrement
     ELSE UNCHANGED <<alive, aliveCount>>
  /\ main' = [main EXCEPT !.late = @ \ {w}]
  /\ UNCHANGED <<matched, age, silent, note, removals>>

ReturnToRecv ==
  /\ main.pc = "expire"
  /\ main.late = {}
  /\ main' = [main EXCEPT !.pc = "recv"]
  /\ UNCHANGED <<matched, age, alive, aliveCount, silent, note, removals>>

-----------------------------------------------------------------------------
(* The environment.                                                        *)

Older(a) == IF a = -1 \/ a > Lease THEN a ELSE a + 1

Tick ==
  /\ age' = [w \in Writer |-> Older(age[w])]
  /\ note' = [t \in Thread |-> IF note[t].pc = "stamp"
                               THEN [note[t] EXCEPT !.lag = Older(@)] ELSE note[t]]
  /\ UNCHANGED <<matched, alive, aliveCount, silent, main, removals>>

Crash(w) ==
  /\ silent' = silent \cup {w}
  /\ UNCHANGED <<matched, age, alive, aliveCount, note, main, removals>>

Housekeeping ==
  \/ ForgetAlive \/ ForgetStamp \/ CollectLate \/ ReturnToRecv
  \/ \E w \in Writer : Expire(w)

Next ==
  \/ \E t \in Thread, w \in Writer : HearWriter(t, w) \/ MatchWriter(t, w)
  \/ \E t \in Thread : Stamp(t) \/ MarkAlive(t)
  \/ \E w \in Writer : Unmatch(w) \/ Crash(w)
  \/ Wake
  \/ Housekeeping
  \/ Tick

Spec == Init /\ [][Next]_vars

\* Threads run and the clock ticks; nothing makes the main loop wake.
ThreadFairness ==
  /\ \A t \in Thread : WF_vars(Stamp(t) \/ MarkAlive(t))
  /\ WF_vars(Housekeeping)
  /\ WF_vars(Tick)

\* No other participant sends metatraffic to this one.
QuietSpec == Spec /\ ThreadFairness

\* Other participants keep sending.
BusySpec == QuietSpec /\ WF_vars(Wake)

-----------------------------------------------------------------------------
(* Properties                                                              *)

AliveWriters == {w \in Writer : alive[w] = "alive"}

(***************************************************************************)
(* The count reported to on_liveliness_changed never runs ahead of the map *)
(* of alive writers, whatever notes, expiries and removals interleave.     *)
(***************************************************************************)
CountIsBounded == aliveCount <= Cardinality(AliveWriters)

(***************************************************************************)
(* "Expire writers that missed their liveliness lease duration"            *)
(* (dds-core, lib.rs:564): a matched writer that crashed is declared dead  *)
(* in the end and stays so, unless it has no stamp. It has none when it    *)
(* was matched again between two sections of its removal, and is passed    *)
(* over from then on.                                                      *)
(***************************************************************************)
SilentExpires ==
  \A w \in Writer :
    w \in silent ~> [](alive[w] # "alive" \/ w \notin matched \/ age[w] = -1)
=============================================================================
