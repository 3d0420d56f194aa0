----------------------------- MODULE MCKolLane -----------------------------
(* KolLane for TLC: two of the three canary lanes, one of them for rotation. *)
EXTENDS KolLane

MCSublane == {"kol_hunter_smart_v3", "kol_hunter_rotation"}
MCPromoted == {"PROBE", "RUNNER_T1"}
=============================================================================
