--------------------------- MODULE MCStatusLeader ---------------------------
(***************************************************************************)
(* Instances of StatusLeader for TLC.  Replicas are interchangeable: all   *)
(* render the same objects with the same settings.                         *)
(***************************************************************************)
EXTENDS StatusLeader, TLC

ReplicaSymmetry == Permutations(Replicas)
=============================================================================
