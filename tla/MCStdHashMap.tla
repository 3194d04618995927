---------------------------- MODULE MCStdHashMap ----------------------------
(***************************************************************************)
(* An instance of StdHashMap: four keys whose hashes collide, also around  *)
(* the end of the table.                                                   *)
(***************************************************************************)
EXTENDS StdHashMap, TLC

CONSTANTS k1, k2, k3, k4

MCKeys == {k1, k2, k3, k4}
MCHash == k1 :> 3 @@ k2 :> 5 @@ k3 :> 3 @@ k4 :> 0
MCValues == {5, 6}
=============================================================================
