---------------------------- MODULE MCDataWriter ----------------------------
(***************************************************************************)
(* Writers for TLC: a KeepLast history that late joiners read, one with a  *)
(* resource limit, and a KeepAll history that fills up.                    *)
(***************************************************************************)
EXTENDS DataWriter

Qos(kind, depth, maxSamples, durability) ==
  [kind |-> kind, depth |-> depth, maxSamples |-> maxSamples, durability |-> durability]

MCWriterQos ==
  {Qos("KeepLast", 2, Unlimited, "TransientLocal"), Qos("KeepLast", 1, 2, "Volatile"),
   Qos("KeepAll", 1, 3, "TransientLocal")}
=============================================================================
