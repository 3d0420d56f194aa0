----------------------------- MODULE MCKolFeed -----------------------------
(* KolFeed for TLC: the mints do not interact, one is enough. *)
EXTENDS KolFeed

MCMint == {"m1"}
=============================================================================
