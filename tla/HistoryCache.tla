---------------------------- MODULE HistoryCache ----------------------------
(***************************************************************************)
(* The writer history cache of dds-rtps (`HistoryCache`, lib.rs).          *)
(*                                                                         *)
(* The code keeps a Vec<CacheChange> sorted by sequence number with no two *)
(* changes of the same number, so the vector is determined by the set of   *)
(* the sequence numbers it holds; `changes.remove(0)` removes the least.   *)
(* Payloads are abstracted: a change is its sequence number.               *)
(***************************************************************************)
EXTENDS Integers, FiniteSets, Sequences

\* LENGTH_UNLIMITED is i32::MAX.
Unlimited == 2147483647

(***************************************************************************)
(* What the caches read of a DataWriterQos. create_datawriter refuses a    *)
(* KeepLast writer whose max_samples_per_instance is smaller than its      *)
(* depth (InconsistentPolicy); a depth of 0 is left out.                   *)
(***************************************************************************)
IsWriterQos(q) ==
  /\ q \in [kind : {"KeepLast", "KeepAll"}, depth : Nat \ {0}, maxSamples : Nat,
            durability : {"Volatile", "TransientLocal"}]
  /\ q.kind = "KeepLast" => q.maxSamples >= q.depth

-----------------------------------------------------------------------------

\* get_seq_num_min: the front of the sorted vector.
Oldest(c) == CHOOSE s \in c : \A t \in c : s <= t

\* changes.remove(0)
DropOldest(c) == c \ {Oldest(c)}

\* The limit test at the head of add_change.
AtLimit(q, c) == q.maxSamples # Unlimited /\ Cardinality(c) >= q.maxSamples

\* add_change returns false: a KeepAll cache at its limit.
Rejects(q, c) == AtLimit(q, c) /\ q.kind = "KeepAll"

\* A KeepLast cache at its limit loses its front BEFORE the insertion.
MakeRoom(q, c) == IF AtLimit(q, c) THEN DropOldest(c) ELSE c

\* Mutant: one sample more than the depth.
TrimPastDepth(q, c) ==
  IF q.kind = "KeepLast" /\ Cardinality(c) > q.depth + 1 THEN DropOldest(c) ELSE c

(***************************************************************************)
(* The `while len > depth` loop. A cache never exceeds its depth before an *)
(* insertion, so the loop body runs at most once.                          *)
(***************************************************************************)
TrimToDepth(q, c) ==
  IF q.kind = "KeepLast" /\ Cardinality(c) > q.depth THEN DropOldest(c) ELSE c

\* add_change when it returns true.
AddChange(q, c, sn) == TrimToDepth(q, MakeRoom(q, c) \cup {sn})

\* first_sn and last_sn of a Heartbeat: (1, 0) for an empty cache.
IsHeartbeatRange(c, first, last) ==
  \/ c = {} /\ first = 1 /\ last = 0
  \/ /\ {first, last} \subseteq c
     /\ \A s \in c : first <= s /\ s <= last

\* Mutant: one sample less than the depth.
PushDurableShort(q, d, sn) ==
  LET grown == Append(d, sn)
  IN  IF q.kind = "KeepLast" /\ Len(grown) >= q.depth THEN Tail(grown) ELSE grown

(***************************************************************************)
(* The durability cache of DataWriter (dds-core): a Vec in the order the   *)
(* samples were pushed, trimmed from the front for KeepLast.               *)
(***************************************************************************)
PushDurable(q, d, sn) ==
  LET grown == Append(d, sn)
  IN  IF q.kind = "KeepLast" /\ Len(grown) > q.depth THEN Tail(grown) ELSE grown

\* The samples a durability cache holds.
Samples(d) == {d[i] : i \in DOMAIN d}

(***************************************************************************)
(* The next_unsent_sn with which a newly matched reader starts: 1, or one  *)
(* past the greatest sample that send_durability_to_proxy sent it.         *)
(***************************************************************************)
IsJoinPoint(d, n) ==
  \/ Samples(d) = {} /\ n = 1
  \/ /\ n - 1 \in Samples(d)
     /\ \A s \in Samples(d) : s < n

-----------------------------------------------------------------------------
(* What a cache should hold.                                               *)

\* The n greatest numbers of a set, or the whole set when it has no more.
IsNewest(c, S, n) ==
  /\ c \subseteq S
  /\ \A s \in S \ c, t \in c : s < t
  /\ c = S \/ Cardinality(c) = n
=============================================================================
