----------------------------- MODULE MCMainLane -----------------------------
(* Small instances of MainLane. *)
EXTENDS MainLane, TLC

Interchangeable ==
    Permutations(Pair) \cup Permutations(Trade) \cup Permutations(Signal)
        \cup Permutations(ExitCall)

\* bound: suspended calls, of whichever kinds
TwoSuspended ==
    Cardinality({s \in Signal : signal[s].pc # "idle"})
        + Cardinality({e \in ExitCall : exit[e].pc # "idle"}) <= 2
=============================================================================
