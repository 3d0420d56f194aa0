----------------------------- MODULE PureWsLane -----------------------------
(***************************************************************************)
(* The pure WS lane in live trading (orchestration/pureWs): a signal that  *)
(* passes the checks buys at once, and the same call then opens an arm of  *)
(* the swing-v2 lane on the same mint, with a slot, a buy and a row of its *)
(* own.  A mark by pair keeps two signals of a pair apart until the call   *)
(* returns.                                                                *)
(*                                                                         *)
(* Halts, the wallet stop, cooldowns, quotes and probes are a rejection    *)
(* that may come whatever the signal; prices choose when to close.         *)
(***************************************************************************)
EXTENDS LaneWallet

CONSTANTS
    MaxConcurrent,        \* pureWsMaxConcurrent
    SwingMaxConcurrent    \* pureWsSwingV2MaxConcurrent; 0: no live arm of swing-v2

ASSUME PureWsAssumption == MaxConcurrent \in Nat /\ SwingMaxConcurrent \in Nat

VARIABLE inflight    \* inflightEntryByPair

PureWs == {Primary, SwingV2}
Holding(m) == \E p \in OpenIn(PureWs) : pos[p].mint = m

-----------------------------------------------------------------------------
(* handlePureWsSignal *)

X_HandlePureWsSignal_NotMarked(c, m) ==
    /\ At(c, "idle")
    /\ ~Holding(m)
    /\ Cardinality(OpenIn(PureWs)) < MaxConcurrent
    /\ inflight' = inflight \cup {m}
    /\ call' = [call EXCEPT ![c] = [IdleCall EXCEPT !.pc = "checks", !.mint = m]]
    /\ UNCHANGED <<pos, closeMutex, wallet, row, canary>>

\* up to the first await
HandlePureWsSignal(c, m) ==
    /\ At(c, "idle")
    /\ ~Holding(m) /\ m \notin inflight
    /\ Cardinality(OpenIn(PureWs)) < MaxConcurrent
    /\ inflight' = inflight \cup {m}
    /\ call' = [call EXCEPT ![c] = [IdleCall EXCEPT !.pc = "checks", !.mint = m]]
    /\ UNCHANGED <<pos, closeMutex, wallet, row, canary>>

\* the call returns; its finally clause clears the mark
Returns(c) ==
    /\ call' = [call EXCEPT ![c] = IdleCall]
    /\ inflight' = inflight \ {call[c].mint}

SignalRejected(c) ==
    /\ At(c, "checks")
    /\ Returns(c)
    /\ UNCHANGED <<pos, closeMutex, wallet, row, canary>>

AcquireSlot(c) ==
    /\ At(c, "checks") /\ SlotFree
    /\ canary' = Acquired(Primary)
    /\ Goto(c, "buy")
    /\ UNCHANGED <<inflight, pos, closeMutex, wallet, row>>

\* executeBuy returned: its tokens are in the wallet
Buys(c, l, next) ==
    /\ FreshPositions # {}         \* bound
    /\ pos' = [pos EXCEPT ![Fresh] = PositionOf("BOUGHT", call[c].mint, l, TRUE)]
    /\ wallet' = [wallet EXCEPT ![call[c].mint] = @ \cup {Fresh}]
    /\ call' = [call EXCEPT ![c].pc = next, ![c].pos = Fresh]
    /\ UNCHANGED <<inflight, closeMutex, row, canary>>

PrimaryBuys(c) == At(c, "buy") /\ Buys(c, Primary, "persist")

\* executeBuy threw; its transaction may have landed all the same
LandsUnknown(c, l, landed) ==
    /\ landed => FreshPositions # {}
    /\ pos' = IF landed
              THEN [pos EXCEPT ![Fresh] = PositionOf("GONE", call[c].mint, l, FALSE)]
              ELSE pos
    /\ wallet' = IF landed THEN [wallet EXCEPT ![call[c].mint] = @ \cup {Fresh}] ELSE wallet
    /\ UNCHANGED <<closeMutex, row>>

PrimaryBuyThrows(c, landed) ==
    /\ At(c, "buy")
    /\ LandsUnknown(c, Primary, landed)
    /\ canary' = Released(Primary)
    /\ Returns(c)

\* persistOpenTradeWithIntegrity returned, the row inserted or not
Recorded(p, recorded) == [row EXCEPT ![p] = IF recorded THEN pos[p].lane ELSE @]
Opened(p) == [pos EXCEPT ![p].state = "PROBE"]

\* the position opens, and openSwingV2Arm runs to its buy unless a guard stops it
PrimaryOpens(c, recorded, swing) ==
    LET p == call[c].pos
        arms == OpenIn({SwingV2}) IN
    /\ At(c, "persist")
    /\ pos' = Opened(p)
    /\ row' = Recorded(p, recorded)
    /\ swing => /\ SlotFree /\ Cardinality(arms) < SwingMaxConcurrent
                /\ \A q \in arms : pos[q].mint # call[c].mint
    /\ canary' = IF swing THEN Acquired(SwingV2) ELSE canary
    /\ call' = [call EXCEPT ![c].pc = IF swing THEN "swingBuy" ELSE "tail",
                            ![c].pos = NoPosition]
    /\ UNCHANGED <<inflight, closeMutex, wallet>>

SwingBuys(c) == At(c, "swingBuy") /\ Buys(c, SwingV2, "swingPersist")

X_SwingBuyThrows_SlotKept(c, landed) ==
    /\ At(c, "swingBuy")
    /\ LandsUnknown(c, SwingV2, landed)
    /\ Goto(c, "tail")
    /\ UNCHANGED <<inflight, canary>>

SwingBuyThrows(c, landed) ==
    /\ At(c, "swingBuy")
    /\ LandsUnknown(c, SwingV2, landed)
    /\ canary' = Released(SwingV2)
    /\ Goto(c, "tail")
    /\ UNCHANGED inflight

SwingOpens(c, recorded) ==
    /\ At(c, "swingPersist")
    /\ pos' = Opened(call[c].pos)
    /\ row' = Recorded(call[c].pos, recorded)
    /\ call' = [call EXCEPT ![c].pc = "tail", ![c].pos = NoPosition]
    /\ UNCHANGED <<inflight, closeMutex, wallet, canary>>

\* the price tracker has answered
EntryReturns(c) ==
    /\ At(c, "tail")
    /\ Returns(c)
    /\ UNCHANGED <<pos, closeMutex, wallet, row, canary>>

-----------------------------------------------------------------------------
(* updatePureWsPositions and closePureWsPosition *)

PureWsClose(c) == call[c].pos # NoPosition /\ pos[call[c].pos].lane \in PureWs

PureWsTick(c, p) ==
    /\ p \in OpenIn(PureWs)
    /\ RequestClose(c, p)
    /\ UNCHANGED inflight

\* a zero balance is an orphan: an alert, and the close goes on without a sale
PureWsBalanceRead(c) ==
    LET held == wallet[call[c].mint] IN
    /\ At(c, "balance") /\ PureWsClose(c)
    /\ call' = [call EXCEPT ![c].seen = held, ![c].pc = IF held = {} THEN "sold" ELSE "sell"]
    /\ UNCHANGED <<inflight, pos, closeMutex, wallet, row, canary>>

\* the balance after the sale is read and the ledger line written, or the alert sent
PureWsClosed(c) ==
    /\ At(c, "sold") /\ PureWsClose(c)
    /\ pos' = [pos EXCEPT ![call[c].pos].state = "CLOSED"]
    /\ Goto(c, "persistClose")
    /\ UNCHANGED <<inflight, closeMutex, wallet, row, canary>>

\* the row is inserted if the entry could not, as one of the primary arm whatever the
\* arm, and closed; either may fail
RowsAfter(p) == {"CLOSED", IF row[p] = "none" THEN Primary ELSE row[p], row[p]}

PureWsPersisted(c, after) ==
    LET p == call[c].pos IN
    /\ At(c, "persistClose") /\ PureWsClose(c)
    /\ after \in RowsAfter(p)
    /\ row' = [row EXCEPT ![p] = after]
    /\ canary' = Released(pos[p].lane)
    /\ Unlocks(c)
    /\ UNCHANGED <<inflight, pos, wallet>>

PureWsStep(c) ==
    \/ \E m \in Mint : HandlePureWsSignal(c, m)
    \/ SignalRejected(c) \/ AcquireSlot(c) \/ PrimaryBuys(c) \/ SwingBuys(c)
    \/ EntryReturns(c)
    \/ \E landed \in BOOLEAN : PrimaryBuyThrows(c, landed) \/ SwingBuyThrows(c, landed)
    \/ \E recorded, swing \in BOOLEAN : PrimaryOpens(c, recorded, swing)
    \/ \E recorded \in BOOLEAN : SwingOpens(c, recorded)
    \/ \E p \in Position : PureWsTick(c, p)
    \/ PureWsBalanceRead(c) \/ PureWsClosed(c)
    \/ \E after \in {"none", "CLOSED"} \cup PureWs : PureWsPersisted(c, after)

=============================================================================
