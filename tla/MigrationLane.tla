---------------------------- MODULE MigrationLane ----------------------------
(***************************************************************************)
(* The migration lane in live trading (migrationLaneHandler.ts): an event  *)
(* of a new pool is stalked until the price has pulled back, then bought   *)
(* behind a survival check and the canary guard, watched and closed.       *)
(*                                                                         *)
(* Prices, ages and the gates choose among what a tick may do.  An event   *)
(* seen in the last day is no event; signal-only mode is left out.         *)
(***************************************************************************)
EXTENDS LaneWallet

CONSTANT MigrationMaxConcurrent    \* migrationMaxConcurrent

ASSUME MigrationAssumption == MigrationMaxConcurrent \in Nat

VARIABLE tracked    \* activePositions of the lane

\* enteringLock: taken by a READY tick, given back by nobody
Entering(p) == \E c \in Call : call[c].pos = p /\ call[c].pc \in ProbePc

Stalked == {p \in tracked : pos[p].state = "STALK"}
Drops(p) ==
    /\ pos' = [pos EXCEPT ![p].state = "REJECT"]
    /\ tracked' = tracked \ {p}

-----------------------------------------------------------------------------
(* onMigrationEvent and the stalking ticks *)

OnMigrationEvent(m) ==
    LET open == {p \in tracked : pos[p].state # "CLOSED"} IN
    /\ FreshPositions # {}         \* bound
    /\ \A p \in open : pos[p].mint # m
    /\ Cardinality(open) < MigrationMaxConcurrent
    /\ pos' = [pos EXCEPT ![Fresh] = PositionOf("STALK", m, Migration, FALSE)]
    /\ tracked' = tracked \cup {Fresh}
    /\ UNCHANGED <<call, closeMutex, wallet, row, canary>>

\* crash, age or no pullback, or the wallet stop at READY: the lock keeps out
\* only the last
MigrationRejects(p) ==
    /\ p \in Stalked
    /\ Drops(p)
    /\ UNCHANGED <<call, closeMutex, wallet, row, canary>>

X_MigrationReady_NotLocked(c, p) ==
    /\ At(c, "idle")
    /\ p \in Stalked
    /\ call' = [call EXCEPT ![c] = [IdleCall EXCEPT !.pc = "survival", !.pos = p,
                                                    !.mint = pos[p].mint]]
    /\ UNCHANGED <<tracked, pos, closeMutex, wallet, row, canary>>

MigrationReady(c, p) ==
    /\ At(c, "idle")
    /\ p \in Stalked /\ ~Entering(p)
    /\ call' = [call EXCEPT ![c] = [IdleCall EXCEPT !.pc = "survival", !.pos = p,
                                                    !.mint = pos[p].mint]]
    /\ UNCHANGED <<tracked, pos, closeMutex, wallet, row, canary>>

-----------------------------------------------------------------------------
(* enterMigrationProbe *)

Gives(c) == call' = [call EXCEPT ![c] = IdleCall]

\* the survival check says no, or no slot is free
ProbeRejected(c) ==
    /\ At(c, "survival")
    /\ Drops(call[c].pos)
    /\ Gives(c)
    /\ UNCHANGED <<closeMutex, wallet, row, canary>>

ProbeAcquires(c) ==
    /\ At(c, "survival") /\ SlotFree
    /\ canary' = Acquired(Migration)
    /\ Goto(c, "probeBuy")
    /\ UNCHANGED <<tracked, pos, closeMutex, wallet, row>>

\* whatever a tick did to the position meanwhile
ProbeBuys(c) ==
    LET p == call[c].pos IN
    /\ At(c, "probeBuy")
    /\ pos' = [pos EXCEPT ![p].state = "PROBE", ![p].slot = TRUE]
    /\ wallet' = [wallet EXCEPT ![call[c].mint] = @ \cup {p}]
    /\ Goto(c, "probePersist")
    /\ UNCHANGED <<tracked, closeMutex, row, canary>>

ProbeBuyThrows(c, landed) ==
    LET p == call[c].pos IN
    /\ At(c, "probeBuy")
    /\ Drops(p)
    /\ wallet' = IF landed THEN [wallet EXCEPT ![call[c].mint] = @ \cup {p}] ELSE wallet
    /\ canary' = Released(Migration)
    /\ Gives(c)
    /\ UNCHANGED <<closeMutex, row>>

\* the row is inserted, or its insert failed and the lane is halted
ProbeRecorded(c, recorded) ==
    /\ At(c, "probePersist")
    /\ row' = [row EXCEPT ![call[c].pos] = IF recorded THEN Migration ELSE @]
    /\ Gives(c)
    /\ UNCHANGED <<tracked, pos, closeMutex, wallet, canary>>

-----------------------------------------------------------------------------
(* closeMigrationPosition *)

MigrationClose(c) == call[c].pos # NoPosition /\ pos[call[c].pos].lane = Migration

MigrationTick(c, p) ==
    /\ p \in tracked /\ pos[p].state = "PROBE"
    /\ RequestClose(c, p)
    /\ UNCHANGED tracked

\* the trade ends: its row is closed if it has one, then its slot is given back
MigrationEnds(c) ==
    LET p == call[c].pos IN
    /\ pos' = [pos EXCEPT ![p].state = "CLOSED"]
    /\ IF row[p] = Migration
       THEN Goto(c, "persistClose") /\ UNCHANGED <<canary, closeMutex, tracked>>
       ELSE Unlocks(c) /\ canary' = Released(Migration) /\ tracked' = tracked \ {p}
    /\ UNCHANGED <<wallet, row>>

MigrationBalanceRead(c) ==
    LET held == wallet[call[c].mint] IN
    /\ At(c, "balance") /\ MigrationClose(c)
    /\ IF held = {} THEN MigrationEnds(c)
       ELSE /\ call' = [call EXCEPT ![c].seen = held, ![c].pc = "sell"]
            /\ UNCHANGED <<tracked, pos, closeMutex, wallet, row, canary>>

MigrationClosed(c) == At(c, "sold") /\ MigrationClose(c) /\ MigrationEnds(c)

MigrationPersisted(c, closed) ==
    LET p == call[c].pos IN
    /\ At(c, "persistClose") /\ MigrationClose(c)
    /\ row' = [row EXCEPT ![p] = IF closed THEN "CLOSED" ELSE @]
    /\ canary' = Released(Migration)
    /\ tracked' = tracked \ {p}
    /\ Unlocks(c)
    /\ UNCHANGED <<pos, wallet>>

MigrationStep(c) ==
    \/ \E p \in Position : MigrationReady(c, p) \/ MigrationTick(c, p)
    \/ ProbeRejected(c) \/ ProbeAcquires(c) \/ ProbeBuys(c)
    \/ \E landed \in BOOLEAN : ProbeBuyThrows(c, landed)
    \/ \E recorded \in BOOLEAN : ProbeRecorded(c, recorded)
    \/ MigrationBalanceRead(c) \/ MigrationClosed(c)
    \/ \E closed \in BOOLEAN : MigrationPersisted(c, closed)

=============================================================================
