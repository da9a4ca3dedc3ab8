---------------------------- MODULE MCDataReader ----------------------------
(***************************************************************************)
(* Readers for TLC: one that filters and is enabled late, one whose        *)
(* samples expire, one that keeps everything; and one at its limit.        *)
(***************************************************************************)
EXTENDS DataReader, TLC

KeepAll(maxSamples) ==
  [kind |-> "KeepAll", depth |-> 1, maxSamples |-> maxSamples,
   minSep |-> 0, lifespan |-> Infinite, autoenable |-> TRUE]

Filtering == [KeepAll(2) EXCEPT !.kind = "KeepLast", !.minSep = 2, !.autoenable = FALSE]
Expiring  == [KeepAll(2) EXCEPT !.kind = "KeepLast", !.depth = 2, !.lifespan = 1]

MCReaderQos == {Filtering, Expiring, KeepAll(Unlimited)}
MCFull      == {KeepAll(1)}

\* Receive threads run the same code, and so do application threads; sequence
\* numbers are only told apart.
MCSymmetry == Permutations(Receiver) \cup Permutations(Taker) \cup Permutations(Sn)
=============================================================================
