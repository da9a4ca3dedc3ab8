------------------------- MODULE MCReliableProtocol -------------------------
(* Writer QoS for TLC. *)
EXTENDS ReliableProtocol

KeepAll(maxSamples, durability) ==
  [kind |-> "KeepAll", depth |-> 1, maxSamples |-> maxSamples, durability |-> durability]

MCFull     == KeepAll(2, "Volatile")
MCVolatile == KeepAll(Unlimited, "Volatile")
MCDurable  == KeepAll(Unlimited, "TransientLocal")
=============================================================================
