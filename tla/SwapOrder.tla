------------------------------ MODULE SwapOrder ------------------------------
(***************************************************************************)
(* What the executor (executor/executor.ts) promises of a swap order: it   *)
(* is reported as swapped only after it was filled, and it is filled no    *)
(* more than MaxFills times.  A fill may come before or after the report,  *)
(* and an order reported as failed may have been filled: to its caller an  *)
(* order is neither exactly-once nor at-most-once.                         *)
(***************************************************************************)
EXTENDS Naturals

CONSTANTS
    Order,
    MaxFills      \* fills of one order that its retries can lead to

VARIABLES status, fills

vars == <<status, fills>>

OrderStatus == {"idle", "working", "swapped", "failed"}

Init ==
    /\ status = [o \in Order |-> "idle"]
    /\ fills = [o \in Order |-> 0]

Moves(o, from, to) ==
    /\ status[o] = from
    /\ status' = [status EXCEPT ![o] = to]
    /\ UNCHANGED fills

Place(o) == Moves(o, "idle", "working")

Fill(o) ==
    /\ status[o] # "idle"
    /\ fills[o] < MaxFills
    /\ fills' = [fills EXCEPT ![o] = @ + 1]
    /\ UNCHANGED status

ReportSwapped(o) == fills[o] > 0 /\ Moves(o, "working", "swapped")

ReportFailed(o) == Moves(o, "working", "failed")

Next == \E o \in Order :
    Place(o) \/ Fill(o) \/ ReportSwapped(o) \/ ReportFailed(o)

Spec == Init /\ [][Next]_vars
=============================================================================
