------------------------------ MODULE WireTime ------------------------------
(***************************************************************************)
(* `Duration` and `Timestamp` of dds-types (time.rs): their order, their   *)
(* arithmetic and their RTPS wire form, in which a second has              *)
(* FractionsPerSec = 2^32 parts and not NanosPerSec = 10^9.  Both units    *)
(* are parameters, so that TLC can count with small ones.                  *)
(***************************************************************************)
EXTENDS Integers

CONSTANTS NanosPerSec,      \* NANOS_PER_SEC
          FractionsPerSec,  \* 2^32
          MaxSeconds        \* i32::MAX

ASSUME WireTimeAssumption ==
  /\ NanosPerSec \in Nat \ {0}
  /\ FractionsPerSec \in Nat /\ FractionsPerSec % 2 = 0
  /\ FractionsPerSec >= 2 * NanosPerSec
  /\ MaxSeconds \in Nat \ {0}

\* u32::MAX, of the nanoseconds and of the fraction alike.
MaxU32 == FractionsPerSec - 1

Infinite == [seconds |-> MaxSeconds, nanoseconds |-> MaxU32]

\* What Duration::new accepts: every other value of the pair panics.
FiniteDuration == [seconds : (-MaxSeconds - 1) .. MaxSeconds,
                   nanoseconds : 0 .. NanosPerSec - 1]
Duration == FiniteDuration \cup {Infinite}

\* What Timestamp::new accepts, but for INVALID.
Instant == [seconds : 0..MaxU32, nanoseconds : 0..NanosPerSec - 1]

Seconds(s) == [seconds |-> s, nanoseconds |-> 0]

(***************************************************************************)
(* PartialOrd is derived, and the field nanoseconds is declared first.     *)
(***************************************************************************)
SecondsFirst(d, e) ==
  \/ d.seconds < e.seconds
  \/ d.seconds = e.seconds /\ d.nanoseconds < e.nanoseconds

Shorter(d, e) ==
  \/ d.nanoseconds < e.nanoseconds
  \/ d.nanoseconds = e.nanoseconds /\ d.seconds < e.seconds

-----------------------------------------------------------------------------
(***************************************************************************)
(* The wire form.  to_rtps_wire rounds down and from_rtps_wire to the      *)
(* nearest; the cast to u32 never cuts since n < NanosPerSec.              *)
(***************************************************************************)
ToWire(d) ==
  IF d = Infinite
  THEN [seconds |-> MaxSeconds, fraction |-> MaxU32]
  ELSE [seconds |-> d.seconds,
        fraction |-> (d.nanoseconds * FractionsPerSec) \div NanosPerSec]

Truncating(w) ==                                      \* mutant of FromWire
  IF w = ToWire(Infinite) THEN Infinite
  ELSE [seconds |-> w.seconds,
        nanoseconds |-> (w.fraction * NanosPerSec) \div FractionsPerSec]

FromWire(w) ==
  IF w = [seconds |-> MaxSeconds, fraction |-> MaxU32]
  THEN Infinite
  ELSE [seconds |-> w.seconds,
        nanoseconds |-> (w.fraction * NanosPerSec + FractionsPerSec \div 2)
                           \div FractionsPerSec]

-----------------------------------------------------------------------------
(***************************************************************************)
(* Timestamp + Duration and Timestamp - Timestamp.  The u32 seconds wrap;  *)
(* a negative Duration adds its nanoseconds only.                          *)
(***************************************************************************)
Invalid == [seconds |-> MaxU32, nanoseconds |-> MaxU32]

Plus(t, d) ==
  LET nanos == t.nanoseconds + d.nanoseconds
      whole == IF d.seconds < 0 THEN 0 ELSE d.seconds
  IN  IF t = Invalid \/ d = Infinite THEN Invalid
      ELSE [seconds |-> (t.seconds + whole + nanos \div NanosPerSec) % FractionsPerSec,
            nanoseconds |-> nanos % NanosPerSec]

\* div_euclid and rem_euclid borrow a second when the nanoseconds fall short;
\* seconds that no i32 holds become i32::MAX, whatever their sign.
Minus(t, u) ==
  LET borrow == IF t.nanoseconds < u.nanoseconds THEN 1 ELSE 0
      whole  == t.seconds - u.seconds - borrow
  IN  IF t = Invalid \/ u = Invalid THEN Infinite
      ELSE [seconds |-> IF whole \in (-MaxSeconds - 1) .. MaxSeconds
                        THEN whole ELSE MaxSeconds,
            nanoseconds |-> t.nanoseconds - u.nanoseconds + borrow * NanosPerSec]
=============================================================================
