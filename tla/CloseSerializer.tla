--------------------------- MODULE CloseSerializer ---------------------------
(***************************************************************************)
(* What serializeClose promises the lanes (orchestration/swapSerializer.ts)*)
(* of its chain of promises: the closes are let in one at a time and in    *)
(* the order in which they asked, and a close that is over, by a result or *)
(* by a throw, lets in the next.  A restart forgets them all.              *)
(***************************************************************************)
EXTENDS Sequences

CONSTANT Call

VARIABLES
    waiting,    \* calls that asked and were not let in, in their order
    inside      \* the call whose task runs, if any

vars == <<waiting, inside>>

Init == waiting = <<>> /\ inside = {}

Asks(c) ==
    /\ c \notin inside /\ \A i \in DOMAIN waiting : waiting[i] # c
    /\ waiting' = Append(waiting, c)
    /\ UNCHANGED inside

Enters(c) ==
    /\ inside = {} /\ waiting # <<>> /\ Head(waiting) = c
    /\ inside' = {c}
    /\ waiting' = Tail(waiting)

\* a task that returns before its first await
Passes(c) ==
    /\ inside = {} /\ waiting # <<>> /\ Head(waiting) = c
    /\ waiting' = Tail(waiting)
    /\ UNCHANGED inside

Returns(c) ==
    /\ inside = {c}
    /\ inside' = {}
    /\ UNCHANGED waiting

Restart == waiting' = <<>> /\ inside' = {}

Next ==
    \/ \E c \in Call : Asks(c) \/ Enters(c) \/ Passes(c) \/ Returns(c)
    \/ Restart

Spec == Init /\ [][Next]_vars
=============================================================================
