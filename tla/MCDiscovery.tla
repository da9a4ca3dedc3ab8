---------------------------- MODULE MCDiscovery ----------------------------
(* Endpoints for TLC: a reader, and any others writers, of one remote. *)
EXTENDS Discovery

MCOwner == [e \in Endpoints |-> CHOOSE q \in Remotes : TRUE]
MCKind ==
  LET reader == CHOOSE e \in Endpoints : TRUE
  IN  [e \in Endpoints |-> IF e = reader THEN "subscriptions" ELSE "publications"]
MCGuidOrder == [e \in Endpoints |-> 1]
=============================================================================
