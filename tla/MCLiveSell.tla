----------------------------- MODULE MCLiveSell -----------------------------
(* LiveSell for TLC: one order for every try that the bounds allow. *)
EXTENDS LiveSell

MCOrder == 1 .. MaxSales * (RetryCount + 1)
=============================================================================
