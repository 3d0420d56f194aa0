---------------------------- MODULE MCCupseyLane ----------------------------
(* Small instances of CupseyLane.  Position objects are interchangeable: no  *)
(* definition tells them apart, and the fairness and the liveness property   *)
(* speak of tick calls, which are not permuted.                              *)
EXTENDS CupseyLane, TLC

InterchangeablePositions == Permutations(Position)
=============================================================================
