---------------------------- MODULE MCEntryHalts ----------------------------
(* EntryHalts for TLC: the cfg files choose the lanes and the bounds. *)
EXTENDS EntryHalts
=============================================================================
