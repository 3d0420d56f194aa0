------------------------------ MODULE MainLane ------------------------------
(***************************************************************************)
(* The main lane in live trading: entries (orchestration/                  *)
(* signalProcessor.ts, behind state/executionLock.ts), exits               *)
(* (orchestration/tradeExecution.ts and tickPositionMonitor.ts), the two   *)
(* tables they share (candle/tradeStore.ts, state/positionStore.ts) and    *)
(* the recovery of a restart (state/recovery.ts).                          *)
(*                                                                         *)
(* A handler runs without interruption from one await to the next.         *)
(*   - A signal is one handleRealtimeSignal call; none waits for another.  *)
(*   - An exit call is one trade's turn in a checkTickLevelExit,           *)
(*     checkOpenPositions or pool-event call.  These work on the cache of  *)
(*     the tick monitor or on the rows they read first, so the trade may   *)
(*     be any that was open, and be closed already.                        *)
(*   - An entry attempt is one value of Trade: it names the position row,  *)
(*     the trade row and the tokens bought.                                *)
(*   - The update of every open position of a pair is one step, so is a    *)
(*     sell with its retries and the recovery of one position.  Trades are *)
(*     closed whole: partial exits are off by default.                     *)
(*   - Prices and clocks are abstracted to the branch they decide; the     *)
(*     lock's timer may expire at any time.                                *)
(***************************************************************************)
EXTENDS Integers, FiniteSets

CONSTANTS
    Pair,             \* token mints
    Trade,            \* entry attempts that reach the order
    Signal,           \* overlapping handleRealtimeSignal calls
    ExitCall,         \* overlapping exit calls
    NoTrade, NoPair,
    MaxConcurrent,    \* what resolveMaxConcurrent returns
    MaxTimeouts,      \* bound: expiries of the lock's timer in one life
    MaxRestarts       \* bound: process restarts

ASSUME MainAssumption ==
    /\ NoTrade \notin Trade /\ NoPair \notin Pair
    /\ IsFiniteSet(Signal) /\ IsFiniteSet(Trade)
    /\ MaxConcurrent \in Nat \ {0}
    /\ MaxTimeouts \in Nat /\ MaxRestarts \in Nat

VARIABLES
    locked,            \* ExecutionLock
    timeouts,          \* expiries of its timer in this life of the process
    halted,            \* the entry halt of lane 'main'
    signal,            \* where each signal call is
    exit,              \* where each exit call is
    exitInProgress,    \* of the tick monitor
    pairOf,            \* the mint of an entry attempt
    position,          \* position_states
    trade,             \* trades
    wallet,            \* whose tokens the wallet holds
    recovering,        \* position rows runRecovery has still to visit
    restarts

lock == <<locked, timeouts>>
tables == <<pairOf, position, trade>>
vars == <<lock, halted, signal, exit, exitInProgress, tables, wallet, recovering, restarts>>

-----------------------------------------------------------------------------
(* Values *)

PositionState ==
    {"SIGNAL_DETECTED", "ORDER_SUBMITTED", "ENTRY_CONFIRMED", "MONITORING",
     "EXIT_TRIGGERED", "EXIT_CONFIRMED", "ORDER_FAILED"}
TradeStatus == {"OPEN", "CLOSED", "FAILED"}

\* the calls that hold the lock are those from "create" on
SignalPc == {"idle", "gates", "acquire", "create", "submit", "buy", "confirm",
             "insert", "monitor", "failed", "release"}
SignalState == [pc : SignalPc, pair : Pair \cup {NoPair}, approved : BOOLEAN,
                id : Trade \cup {NoTrade}]

ExitPc == {"idle", "balance", "sell", "close", "confirm", "fail"}
ExitState == [pc : ExitPc, caller : {"tick", "poll"}, id : Trade \cup {NoTrade},
              seen : SUBSET Trade]

IdleSignal == [pc |-> "idle", pair |-> NoPair, approved |-> FALSE, id |-> NoTrade]
IdleExit == [pc |-> "idle", caller |-> "poll", id |-> NoTrade, seen |-> {}]

TypeOK ==
    /\ locked \in BOOLEAN /\ timeouts \in Nat /\ halted \in BOOLEAN
    /\ signal \in [Signal -> SignalState]
    /\ exit \in [ExitCall -> ExitState]
    /\ exitInProgress \subseteq Trade
    /\ pairOf \in [Trade -> Pair \cup {NoPair}]
    /\ position \in [Trade -> PositionState \cup {"none"}]
    /\ trade \in [Trade -> TradeStatus \cup {"none"}]
    /\ wallet \subseteq Trade
    /\ recovering \subseteq Trade
    /\ restarts \in Nat

Init ==
    /\ locked = FALSE /\ timeouts = 0 /\ halted = FALSE
    /\ signal = [s \in Signal |-> IdleSignal]
    /\ exit = [e \in ExitCall |-> IdleExit]
    /\ exitInProgress = {}
    /\ pairOf = [t \in Trade |-> NoPair]
    /\ position = [t \in Trade |-> "none"]
    /\ trade = [t \in Trade |-> "none"]
    /\ wallet = {}
    /\ recovering = {}
    /\ restarts = 0

-----------------------------------------------------------------------------
(* Queries *)

OfPair(p) == {t \in Trade : pairOf[t] = p}
OpenTrades == {t \in Trade : trade[t] = "OPEN"}
OpenPositions ==
    {t \in Trade : position[t] \notin {"none", "EXIT_CONFIRMED", "ORDER_FAILED"}}

\* getTokenBalance
Balance(p) == wallet \cap OfPair(p)

\* signals and exits start once the recovery is through
Up == recovering = {}

\* updatePositionsForPair
PositionsOfPair(p, state) ==
    [t \in Trade |-> IF t \in OpenPositions \cap OfPair(p) THEN state ELSE position[t]]

\* tradeStore.closeTrade: only an OPEN row changes
RowClosed(t) == IF trade[t] = "OPEN" THEN [trade EXCEPT ![t] = "CLOSED"] ELSE trade

-----------------------------------------------------------------------------
(* ExecutionLock *)

\* the timer of acquire, wherever the holder is
LockTimeout ==
    /\ locked /\ timeouts < MaxTimeouts
    /\ locked' = FALSE
    /\ timeouts' = timeouts + 1
    /\ UNCHANGED <<halted, signal, exit, exitInProgress, tables, wallet, recovering, restarts>>

-----------------------------------------------------------------------------
(* Entries: handleRealtimeSignal, processSignal, recordOpenedTrade *)

Goto(s, pc) == signal' = [signal EXCEPT ![s].pc = pc]

HandleRealtimeSignal(s, p) ==
    /\ Up /\ signal[s].pc = "idle"
    /\ ~halted
    /\ signal' = [signal EXCEPT ![s] = [IdleSignal EXCEPT !.pc = "gates", !.pair = p]]
    /\ UNCHANGED <<lock, halted, exit, exitInProgress, tables, wallet, recovering, restarts>>

\* what checkOrder will say of the portfolio, which is read here
Approved_OneMore(p) ==
    /\ OpenTrades \cap OfPair(p) = {}
    /\ Cardinality(OpenTrades) <= MaxConcurrent
Approved(p) ==
    /\ OpenTrades \cap OfPair(p) = {}
    /\ Cardinality(OpenTrades) < MaxConcurrent

GetPortfolioState(s) ==
    /\ signal[s].pc = "gates"
    /\ signal' = [signal EXCEPT ![s].pc = "acquire",
                                ![s].approved = Approved(signal[s].pair)]
    /\ UNCHANGED <<lock, halted, exit, exitInProgress, tables, wallet, recovering, restarts>>

\* a gate, a trading halt, or the lock that is held
SignalDropped(s) ==
    /\ signal[s].pc \in {"gates", "acquire"}
    /\ signal' = [signal EXCEPT ![s] = IdleSignal]
    /\ UNCHANGED <<lock, halted, exit, exitInProgress, tables, wallet, recovering, restarts>>

LockFree_Never == TRUE
LockFree == ~locked

\* a rejected order still awaits its audit row before the lock is released
AcquireLock(s) ==
    /\ signal[s].pc = "acquire"
    /\ LockFree
    /\ locked' = TRUE
    /\ Goto(s, IF signal[s].approved THEN "create" ELSE "release")
    /\ UNCHANGED <<timeouts, halted, exit, exitInProgress, tables, wallet, recovering, restarts>>

\* stale, a cooldown, the regime, the size, or the insert of the position row
OrderRejected(s) ==
    /\ signal[s].pc = "create"
    /\ signal' = [signal EXCEPT ![s].pc = "release", ![s].approved = FALSE]
    /\ UNCHANGED <<lock, halted, exit, exitInProgress, tables, wallet, recovering, restarts>>

CreatePosition(s, t) ==
    /\ signal[s].pc = "create" /\ position[t] = "none"
    /\ signal' = [signal EXCEPT ![s].pc = "submit", ![s].id = t]
    /\ pairOf' = [pairOf EXCEPT ![t] = signal[s].pair]
    /\ position' = [position EXCEPT ![t] = "SIGNAL_DETECTED"]
    /\ UNCHANGED <<lock, halted, exit, exitInProgress, trade, wallet, recovering, restarts>>

\* updateState, which looks neither at the state it replaces nor at who wrote it
Progress(s, from, state, to) ==
    /\ signal[s].pc = from
    /\ Goto(s, to)
    /\ position' = [position EXCEPT ![signal[s].id] = state]
    /\ UNCHANGED <<lock, halted, exit, exitInProgress, pairOf, trade, wallet, recovering, restarts>>

\* the open notification and the audit row of an entry may throw after its update
SubmitOrder(s) == Progress(s, "submit", "ORDER_SUBMITTED", "buy")
ConfirmEntry(s) == Progress(s, "confirm", "ENTRY_CONFIRMED", "insert")
StartMonitoring(s, to) == Progress(s, "monitor", "MONITORING", to)
FailPosition(s) == Progress(s, "failed", "ORDER_FAILED", "release")

ExecuteBuy(s) ==
    /\ signal[s].pc = "buy"
    /\ Goto(s, "confirm")
    /\ wallet' = wallet \cup {signal[s].id}
    /\ UNCHANGED <<lock, halted, exit, exitInProgress, tables, recovering, restarts>>

\* executeBuy throws; the transaction may have landed all the same
BuyThrows(s, landed) ==
    /\ signal[s].pc = "buy"
    /\ signal' = [signal EXCEPT ![s].pc = "failed", ![s].approved = FALSE]
    /\ wallet' = IF landed THEN wallet \cup {signal[s].id} ELSE wallet
    /\ UNCHANGED <<lock, halted, exit, exitInProgress, tables, recovering, restarts>>

\* assertEntryAlignmentSafe: the whole balance of the pair is sold, if it can be
PriceAnomaly(s, dumped) ==
    /\ signal[s].pc = "confirm"
    /\ signal' = [signal EXCEPT ![s].pc = "failed", ![s].approved = FALSE]
    /\ wallet' = IF dumped THEN wallet \ OfPair(signal[s].pair) ELSE wallet
    /\ UNCHANGED <<lock, halted, exit, exitInProgress, tables, recovering, restarts>>

InsertTrade(s) ==
    /\ signal[s].pc = "insert"
    /\ signal' = [signal EXCEPT ![s].pc = "monitor", ![s].approved = FALSE]
    /\ trade' = [trade EXCEPT ![signal[s].id] = "OPEN"]
    /\ UNCHANGED <<lock, halted, exit, exitInProgress, pairOf, position, wallet, recovering, restarts>>

InsertFails(s) ==
    /\ signal[s].pc = "insert"
    /\ signal' = [signal EXCEPT ![s].pc = "failed", ![s].approved = FALSE]
    /\ halted' = TRUE
    /\ UNCHANGED <<lock, exit, exitInProgress, tables, wallet, recovering, restarts>>

\* a position update throws
EntryStepThrows(s) ==
    /\ signal[s].pc \in {"submit", "confirm", "monitor", "failed"}
    /\ signal' = [signal EXCEPT ![s].approved = FALSE,
                                ![s].pc = IF @ = "failed" THEN "release" ELSE "failed"]
    /\ UNCHANGED <<lock, halted, exit, exitInProgress, tables, wallet, recovering, restarts>>

\* the finally of processSignal
ReleaseLock(s) ==
    /\ signal[s].pc = "release"
    /\ signal' = [signal EXCEPT ![s] = IdleSignal]
    /\ locked' = FALSE
    /\ UNCHANGED <<timeouts, halted, exit, exitInProgress, tables, wallet, recovering, restarts>>

EntryStep(s) ==
    \/ \E p \in Pair : HandleRealtimeSignal(s, p)
    \/ GetPortfolioState(s) \/ SignalDropped(s)
    \/ AcquireLock(s) \/ OrderRejected(s)
    \/ \E t \in Trade : CreatePosition(s, t)
    \/ SubmitOrder(s) \/ ConfirmEntry(s) \/ FailPosition(s)
    \/ \E to \in {"release", "failed"} : StartMonitoring(s, to)
    \/ ExecuteBuy(s)
    \/ \E landed \in BOOLEAN : BuyThrows(s, landed)
    \/ \E dumped \in BOOLEAN : PriceAnomaly(s, dumped)
    \/ InsertTrade(s) \/ InsertFails(s) \/ EntryStepThrows(s)
    \/ ReleaseLock(s)

-----------------------------------------------------------------------------
(* Exits: checkTickLevelExit, checkOpenPositions, closeTrade *)

WasOpened(t) == trade[t] # "none"

\* the start of closeTrade; the update of the positions may throw
Trigger(e, caller, t, next) ==
    /\ Up /\ exit[e].pc = "idle"
    /\ WasOpened(t)
    /\ exit' = [exit EXCEPT ![e] = [IdleExit EXCEPT !.pc = next, !.caller = caller, !.id = t]]
    /\ position' = IF next = "balance" THEN PositionsOfPair(pairOf[t], "EXIT_TRIGGERED")
                   ELSE position
    /\ UNCHANGED <<lock, halted, signal, pairOf, trade, wallet, recovering, restarts>>

TickStopLoss(e, t, next) ==
    /\ t \notin exitInProgress /\ ~locked
    /\ exitInProgress' = exitInProgress \cup {t}
    /\ Trigger(e, "tick", t, next)

\* checkOpenPositions or a pool event: neither looks at the marks or at the lock
PollExit(e, t, next) ==
    /\ Trigger(e, "poll", t, next)
    /\ UNCHANGED exitInProgress

\* the high-water mark of a trade is written, by a tick call that found no mark on it:
\* the finally of this call takes the mark away that another one has put there since
TickHighWaterMark(t) ==
    /\ Up /\ WasOpened(t)
    /\ exitInProgress' = exitInProgress \ {t}
    /\ UNCHANGED <<lock, halted, signal, exit, tables, wallet, recovering, restarts>>

ExitGoto(e, pc) == exit' = [exit EXCEPT ![e].pc = pc, ![e].seen = {}]

\* without a balance the trade is closed at its entry price
GetTokenBalance(e) ==
    LET seen == Balance(pairOf[exit[e].id]) IN
    /\ exit[e].pc = "balance"
    /\ exit' = [exit EXCEPT ![e].seen = seen,
                            ![e].pc = IF seen = {} THEN "close" ELSE "sell"]
    /\ UNCHANGED <<lock, halted, signal, exitInProgress, tables, wallet, recovering, restarts>>

\* the first attempt sells what was seen, a later one what is there
Leftover(e) ==
    {wallet \ OfPair(pairOf[exit[e].id])}
        \cup (IF exit[e].seen \subseteq wallet THEN {wallet \ exit[e].seen} ELSE {})

Sell(e) ==
    /\ exit[e].pc = "sell"
    /\ wallet' \in Leftover(e)
    /\ ExitGoto(e, "close")
    /\ UNCHANGED <<lock, halted, signal, exitInProgress, tables, recovering, restarts>>

AfterSellThrow_Closes == "close"
AfterSellThrow == "fail"

\* every attempt threw, or the balance could not be read after the sale
SellThrows(e) ==
    /\ exit[e].pc = "sell"
    /\ wallet' \in Leftover(e) \cup {wallet}
    /\ ExitGoto(e, AfterSellThrow)
    /\ UNCHANGED <<lock, halted, signal, exitInProgress, tables, recovering, restarts>>

CloseRow(e) ==
    /\ exit[e].pc = "close"
    /\ trade' = RowClosed(exit[e].id)
    /\ ExitGoto(e, "confirm")
    /\ UNCHANGED <<lock, halted, signal, exitInProgress, pairOf, position, wallet, recovering, restarts>>

ExitStepThrows(e) ==
    /\ exit[e].pc \in {"balance", "close", "confirm"}
    /\ ExitGoto(e, "fail")
    /\ UNCHANGED <<lock, halted, signal, exitInProgress, tables, wallet, recovering, restarts>>

\* back in the caller, whose finally takes the mark away
Resume(e) ==
    /\ exit' = [exit EXCEPT ![e] = IdleExit]
    /\ exitInProgress' = IF exit[e].caller = "tick" THEN exitInProgress \ {exit[e].id}
                         ELSE exitInProgress

\* every open position of the pair, also one of a later entry
ConfirmExit(e) ==
    /\ exit[e].pc = "confirm"
    /\ position' = PositionsOfPair(pairOf[exit[e].id], "EXIT_CONFIRMED")
    /\ Resume(e)
    /\ UNCHANGED <<lock, halted, signal, pairOf, trade, wallet, recovering, restarts>>

\* failTrade, which does not look at the status of the row
FailTrade(e) ==
    /\ exit[e].pc = "fail"
    /\ trade' = [trade EXCEPT ![exit[e].id] = "FAILED"]
    /\ Resume(e)
    /\ UNCHANGED <<lock, halted, signal, pairOf, position, wallet, recovering, restarts>>

FailTradeThrows_NoFinally(e) ==
    /\ exit[e].pc = "fail"
    /\ exit' = [exit EXCEPT ![e] = IdleExit]
    /\ UNCHANGED <<lock, halted, signal, exitInProgress, tables, wallet, recovering, restarts>>
FailTradeThrows(e) ==
    /\ exit[e].pc = "fail"
    /\ Resume(e)
    /\ UNCHANGED <<lock, halted, signal, tables, wallet, recovering, restarts>>

ExitStep(e) ==
    \/ \E t \in Trade, next \in {"balance", "fail"} :
          TickStopLoss(e, t, next) \/ PollExit(e, t, next)
    \/ GetTokenBalance(e) \/ Sell(e) \/ SellThrows(e) \/ CloseRow(e) \/ ExitStepThrows(e)
    \/ ConfirmExit(e) \/ FailTrade(e) \/ FailTradeThrows(e)

-----------------------------------------------------------------------------
(* Restart and recovery *)

\* a buy or a sell that was under way may land
Restart ==
    /\ restarts < MaxRestarts
    /\ restarts' = restarts + 1
    /\ \E bought \in SUBSET {signal[s].id : s \in {s \in Signal : signal[s].pc = "buy"}},
          sold \in SUBSET {e \in ExitCall : exit[e].pc = "sell"} :
          wallet' = (wallet \cup bought) \ UNION {exit[e].seen : e \in sold}
    /\ locked' = FALSE /\ timeouts' = 0 /\ halted' = FALSE
    /\ signal' = [s \in Signal |-> IdleSignal]
    /\ exit' = [e \in ExitCall |-> IdleExit]
    /\ exitInProgress' = {}
    /\ recovering' = OpenPositions
    /\ UNCHANGED tables

\* what recoverPosition makes of a position that was not being sold
Recovered_Unchecked(t) ==
    IF position[t] = "ORDER_SUBMITTED" THEN "ORDER_FAILED"
    ELSE IF Balance(pairOf[t]) # {} THEN "MONITORING" ELSE "EXIT_CONFIRMED"
Recovered_Idle(t) ==
    IF Balance(pairOf[t]) # {}
    THEN IF position[t] = "ORDER_SUBMITTED" THEN "ENTRY_CONFIRMED" ELSE "MONITORING"
    ELSE IF position[t] = "ORDER_SUBMITTED" THEN "IDLE" ELSE "EXIT_CONFIRMED"
Recovered(t) ==
    IF Balance(pairOf[t]) # {}
    THEN IF position[t] = "ORDER_SUBMITTED" THEN "ENTRY_CONFIRMED" ELSE "MONITORING"
    ELSE IF position[t] = "ORDER_SUBMITTED" THEN "ORDER_FAILED" ELSE "EXIT_CONFIRMED"

RecoverEntry(t) ==
    /\ t \in recovering /\ position[t] # "EXIT_TRIGGERED"
    /\ position' = [position EXCEPT ![t] = Recovered(t)]
    /\ recovering' = recovering \ {t}
    /\ UNCHANGED <<lock, halted, signal, exit, exitInProgress, pairOf, trade, wallet, restarts>>

\* the balance is sold, if there is one, and an open trade of the pair is finalized,
\* unless that throws
RecoverExit(t) ==
    LET open == OpenTrades \cap OfPair(pairOf[t]) IN
    /\ t \in recovering /\ position[t] = "EXIT_TRIGGERED"
    /\ wallet' = wallet \ OfPair(pairOf[t])
    /\ position' = [position EXCEPT ![t] = "EXIT_CONFIRMED"]
    /\ trade' \in {trade} \cup {RowClosed(u) : u \in open}
    /\ recovering' = recovering \ {t}
    /\ UNCHANGED <<lock, halted, signal, exit, exitInProgress, pairOf, restarts>>

\* whatever throws is counted and left; a sale that threw may have landed
RecoverFails(t, sold) ==
    /\ t \in recovering
    /\ sold => position[t] = "EXIT_TRIGGERED"
    /\ wallet' = IF sold THEN wallet \ OfPair(pairOf[t]) ELSE wallet
    /\ recovering' = recovering \ {t}
    /\ UNCHANGED <<lock, halted, signal, exit, exitInProgress, tables, restarts>>

RecoverPosition(t) ==
    \/ RecoverEntry(t) \/ RecoverExit(t)
    \/ \E sold \in BOOLEAN : RecoverFails(t, sold)

-----------------------------------------------------------------------------
(* Specification *)

Next ==
    \/ \E s \in Signal : EntryStep(s)
    \/ \E e \in ExitCall : ExitStep(e)
    \/ \E t \in Trade : TickHighWaterMark(t) \/ RecoverPosition(t)
    \/ LockTimeout
    \/ Restart

Spec == Init /\ [][Next]_vars

-----------------------------------------------------------------------------
(* Properties *)

Holders == {s \in Signal : signal[s].pc \notin {"idle", "gates", "acquire"}}
Admitted == {s \in Signal : signal[s].approved}

\* A trade row is closed only when its tokens are gone, whoever sold them: an exit, the
\* exit of another trade of the pair, an emergency dump or the recovery.
ClosedMeansSold == \A t \in Trade : trade[t] = "CLOSED" => t \notin wallet

\* The risk check reads the portfolio before the lock is taken, so signals that
\* overlap can exceed the limit, but by no more than one position for each of them.
PositionsBounded ==
    Cardinality(OpenTrades) + Cardinality(Admitted) < MaxConcurrent + Cardinality(Signal)

\* What docs/design-docs/buy-entry-flow.md says of concurrent positions: three at most
\* (MAX_CONCURRENT_ABSOLUTE), fewer for a small wallet.
ConcurrentCapKept == Cardinality(OpenTrades) <= MaxConcurrent

\* The lock admits one execution at a time, and one more for each time its timer took
\* it from a holder that was still running.
HoldersBounded ==
    Cardinality(Holders) <= timeouts + (IF locked THEN 1 ELSE 0)

\* A trade stays marked as being sold only while a tick call sells it; a mark left
\* behind would switch its tick stop loss off for good.
MarksAreFreed ==
    \A t \in exitInProgress :
        \E e \in ExitCall : exit[e].caller = "tick" /\ exit[e].pc # "idle" /\ exit[e].id = t

\* The recovery writes a position off only when none of its tokens is left.
RecoveryKeepsHeld ==
    [][\A t \in recovering \ recovering' :
        position'[t] \in {"EXIT_CONFIRMED", "ORDER_FAILED"} => t \notin wallet']_vars

\* A position the recovery puts back under monitoring has an open trade, the row the
\* exits look at.
RecoveryWatches ==
    [][\A t \in recovering \ recovering' :
        position'[t] = "MONITORING" => trade[t] = "OPEN"]_vars
=============================================================================
