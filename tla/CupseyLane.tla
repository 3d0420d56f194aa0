----------------------------- MODULE CupseyLane -----------------------------
(***************************************************************************)
(* The cupsey lane (orchestration/cupseyLaneHandler.ts).  A signal opens a *)
(* STALK position; a price pullback buys it (PROBE); a favourable          *)
(* excursion promotes it (WINNER); a stop closes it.                       *)
(*                                                                         *)
(* The process is a single thread: a handler runs without interruption     *)
(* from one await to the next, so an action below is one such stretch.     *)
(*   - A tick call is one updateCupseyPositions invocation while it is     *)
(*     suspended on behalf of one position.  index.ts starts one per swap  *)
(*     and does not wait for it, so several are suspended at once.         *)
(*   - A signal call suspended in the survival check is counted in         *)
(*     survivalChecks.                                                     *)
(*   - Prices and clocks are abstracted to the comparison they decide:     *)
(*     whichever branch a tick may take, it takes by an action's choice.   *)
(* A restart forgets everything but the trade store and the wallet.        *)
(***************************************************************************)
EXTENDS Integers, Sequences, FiniteSets

CONSTANTS
    Pair,            \* token mints the lane may be signalled on
    Position,        \* identities of position objects
    TickCall,        \* suspended updateCupseyPositions invocations
    NoPair, NoPosition,
    Live,            \* tradingMode = 'live'
    SecurityGate,    \* config.securityGateEnabled
    MaxConcurrent,   \* config.cupseyMaxConcurrent
    CanaryEnabled,   \* config.canaryGlobalConcurrencyEnabled
    GlobalCap,       \* config.canaryGlobalMaxConcurrent
    MaxPending,      \* bound: survival checks in flight on one pair
    MaxRestarts      \* bound: process restarts

ASSUME LaneAssumption ==
    /\ NoPair \notin Pair /\ NoPosition \notin Position /\ IsFiniteSet(Position)
    /\ Live \in BOOLEAN /\ SecurityGate \in BOOLEAN /\ CanaryEnabled \in BOOLEAN
    /\ MaxConcurrent \in Nat /\ GlobalCap \in Nat
    /\ MaxPending \in Nat \ {0} /\ MaxRestarts \in Nat

VARIABLES
    pos,                  \* the position objects
    activePositions,      \* map: position id -> object; an id is named by the
                          \* object that first got it
    tick,                 \* where each suspended tick call is
    closeMutex,           \* FIFO of tick calls inside serializeClose, head running
    survivalChecks,       \* signal calls suspended in checkPureWsSurvival, by pair
    canary,               \* slots held by the lane in the canary guard
    integrityHaltActive,
    walletStop,           \* isWalletStopActive()
    tradeStore,           \* trade rows, by position and by the handler that inserted them
    wallet,               \* tokens held on chain: whose buys they come from, by mint
    restarts

vars == <<pos, activePositions, tick, closeMutex, survivalChecks, canary,
          integrityHaltActive, walletStop, tradeStore, wallet, restarts>>

-----------------------------------------------------------------------------
(* Values *)

CupseyTradeState == {"STALK", "PROBE", "WINNER", "CLOSED"}
RowKind == {"entry", "close"}        \* inserted at entry, or by the close fallback

CupseyPosition ==
    [state : CupseyTradeState \cup {"free"}, pair : Pair \cup {NoPair},
     enteringLock : BOOLEAN, dbTradeId : RowKind \cup {"none"},
     key : Position \cup {NoPosition}]
Row == [status : {"absent", "OPEN", "CLOSED"}, pair : Pair \cup {NoPair}, mfe : BOOLEAN]
TickPc == {"idle", "buy", "insert", "queued", "balance", "sell",
           "closeInsert", "closeTrade"}
TickState ==
    [pc : TickPc, pos : Position \cup {NoPosition},
     prev : CupseyTradeState \cup {"free"}, seen : SUBSET Position,
     row : RowKind \cup {"none"}]

FreePosition == [state |-> "free", pair |-> NoPair, enteringLock |-> FALSE,
                 dbTradeId |-> "none", key |-> NoPosition]
NewStalk(p, k) == [state |-> "STALK", pair |-> p, enteringLock |-> FALSE,
                   dbTradeId |-> "none", key |-> k]
NoRow == [status |-> "absent", pair |-> NoPair, mfe |-> FALSE]
Idle == [pc |-> "idle", pos |-> NoPosition, prev |-> "free", seen |-> {},
         row |-> "none"]

TypeOK ==
    /\ pos \in [Position -> CupseyPosition]
    /\ activePositions \in [Position -> Position \cup {NoPosition}]
    /\ tick \in [TickCall -> TickState]
    /\ closeMutex \in Seq(TickCall)
    /\ survivalChecks \in [Pair -> Nat]
    /\ canary \in Nat
    /\ integrityHaltActive \in BOOLEAN
    /\ walletStop \in BOOLEAN
    /\ tradeStore \in [Position -> [RowKind -> Row]]
    /\ wallet \in [Pair -> SUBSET Position]
    /\ restarts \in Nat

Init ==
    /\ pos = [o \in Position |-> FreePosition]
    /\ activePositions = [o \in Position |-> NoPosition]
    /\ tick = [t \in TickCall |-> Idle]
    /\ closeMutex = <<>>
    /\ survivalChecks = [p \in Pair |-> 0]
    /\ canary = 0
    /\ integrityHaltActive = FALSE
    /\ walletStop = FALSE
    /\ tradeStore = [o \in Position |-> [k \in RowKind |-> NoRow]]
    /\ wallet = [p \in Pair |-> {}]
    /\ restarts = 0

-----------------------------------------------------------------------------
(* What handlers look up *)

Tracked(o) == pos[o].state # "free" /\ activePositions[pos[o].key] = o
TrackedPositions == {o \in Position : Tracked(o)}
OpenPositions == {o \in TrackedPositions : pos[o].state # "CLOSED"}

\* an object no map, row, token or suspended call refers to
Fresh(o) ==
    /\ pos[o].state = "free"
    /\ activePositions[o] = NoPosition
    /\ \A q \in Position : pos[q].key # o
    /\ \A k \in RowKind : tradeStore[o][k].status = "absent"
    /\ \A p \in Pair : o \notin wallet[p]

\* the map without the id of o
WithoutId(o) == [activePositions EXCEPT ![pos[o].key] = NoPosition]

OpenOf(p) == {o \in OpenPositions : pos[o].pair = p}

AlreadyHolding_BoughtOnly(p) == \E o \in OpenOf(p) : pos[o].state # "STALK"
AlreadyHolding(p) == OpenOf(p) # {}

MayAdmit(p) ==
    /\ ~integrityHaltActive
    /\ ~walletStop
    /\ ~AlreadyHolding(p)
    /\ Cardinality(OpenPositions) < MaxConcurrent

CanaryFree == ~CanaryEnabled \/ canary < GlobalCap

AcquiredSlots == IF CanaryEnabled THEN canary + 1 ELSE canary
ReleasedSlots_Leak == canary
ReleasedSlots_NoFloor == IF CanaryEnabled THEN canary - 1 ELSE canary
ReleasedSlots == IF CanaryEnabled /\ canary > 0 THEN canary - 1 ELSE canary

\* the pullback branch of a tick: the reentrancy guard
MayEnter_NoLock(o) == TRUE
MayEnter(o) == ~pos[o].enteringLock

-----------------------------------------------------------------------------
(* Signals *)

\* the rest of handleCupseyLaneSignal after its checks: a new STALK position
\* whose id is k, which another object of the same pair and second may have
CreateStalk(o, p, k) ==
    /\ Fresh(o)
    /\ CanaryFree
    /\ canary' = AcquiredSlots
    /\ pos' = [pos EXCEPT ![o] = NewStalk(p, k)]
    /\ activePositions' = [activePositions EXCEPT ![k] = o]

HandleSignal(p) ==
    /\ MayAdmit(p)
    /\ IF Live /\ SecurityGate
       THEN /\ survivalChecks[p] < MaxPending
            /\ survivalChecks' = [survivalChecks EXCEPT ![p] = @ + 1]
            /\ UNCHANGED <<pos, activePositions, canary>>
       ELSE /\ \E o \in Position : CreateStalk(o, p, o)
            /\ UNCHANGED survivalChecks
    /\ UNCHANGED <<tick, closeMutex, integrityHaltActive, walletStop,
                   tradeStore, wallet, restarts>>

SurvivalReturns(p) ==
    /\ survivalChecks[p] > 0
    /\ survivalChecks' = [survivalChecks EXCEPT ![p] = @ - 1]
    /\ UNCHANGED <<tick, closeMutex, integrityHaltActive, walletStop,
                   tradeStore, wallet, restarts>>

SurvivalRejects(p) ==
    /\ SurvivalReturns(p)
    /\ UNCHANGED <<pos, activePositions, canary>>

\* ids with the pair and the second of an earlier signal, which did not
\* outlive that second's stalk
SameSecondIds(p) ==
    {pos[q].key : q \in {r \in OpenPositions : pos[r].pair = p
                                               /\ pos[r].dbTradeId = "none"}}

SurvivalApproves(p) ==
    /\ SurvivalReturns(p)
    /\ \E o \in Position : \E k \in {o} \cup SameSecondIds(p) : CreateStalk(o, p, k)

-----------------------------------------------------------------------------
(* STALK ticks *)

\* a STALK that leaves the map keeps existing only for the call that buys it
Discard(o) ==
    /\ activePositions' = WithoutId(o)
    /\ canary' = ReleasedSlots
    /\ pos' = IF pos[o].enteringLock THEN pos ELSE [pos EXCEPT ![o] = FreePosition]

Discardable_AnyState(o) == Tracked(o) /\ pos[o].state # "CLOSED"
Discardable(o) == Tracked(o) /\ pos[o].state = "STALK"

\* no pullback within the window, or a crash instead of a pullback
StalkSkip(o) ==
    /\ Discardable(o)
    /\ Discard(o)
    /\ UNCHANGED <<tick, closeMutex, survivalChecks, integrityHaltActive,
                   walletStop, tradeStore, wallet, restarts>>

StalkWalletStop(o) ==
    /\ Tracked(o) /\ pos[o].state = "STALK"
    /\ MayEnter(o)
    /\ walletStop
    /\ Discard(o)
    /\ UNCHANGED <<tick, closeMutex, survivalChecks, integrityHaltActive,
                   walletStop, tradeStore, wallet, restarts>>

\* pullback: buy, or in paper mode enter at once
StalkEntry(t, o) ==
    /\ tick[t].pc = "idle"
    /\ Tracked(o) /\ pos[o].state = "STALK"
    /\ MayEnter(o)
    /\ ~walletStop
    /\ pos' = [pos EXCEPT ![o].enteringLock = TRUE,
                          ![o].state = IF Live THEN @ ELSE "PROBE"]
    /\ tick' = [tick EXCEPT ![t] = [Idle EXCEPT !.pos = o,
                                       !.pc = IF Live THEN "buy" ELSE "insert"]]
    /\ UNCHANGED <<activePositions, closeMutex, survivalChecks, canary,
                   integrityHaltActive, walletStop, tradeStore, wallet, restarts>>

BuySucceeds(t) ==
    LET o == tick[t].pos IN
    /\ tick[t].pc = "buy"
    /\ wallet' = [wallet EXCEPT ![pos[o].pair] = @ \cup {o}]
    /\ pos' = [pos EXCEPT ![o].state = "PROBE"]
    /\ tick' = [tick EXCEPT ![t].pc = "insert"]
    /\ UNCHANGED <<activePositions, closeMutex, survivalChecks, canary,
                   integrityHaltActive, walletStop, tradeStore, restarts>>

\* executeBuy throws; the swap may have landed before a later step of it failed
BuyFails(t, landed) ==
    LET o == tick[t].pos IN
    /\ tick[t].pc = "buy"
    /\ wallet' = IF landed THEN [wallet EXCEPT ![pos[o].pair] = @ \cup {o}] ELSE wallet
    /\ activePositions' = WithoutId(o)
    /\ canary' = ReleasedSlots
    /\ pos' = [pos EXCEPT ![o] = FreePosition]
    /\ tick' = [tick EXCEPT ![t] = Idle]
    /\ UNCHANGED <<closeMutex, survivalChecks, integrityHaltActive, walletStop,
                   tradeStore, restarts>>

InsertSucceeds(t) ==
    LET o == tick[t].pos IN
    /\ tick[t].pc = "insert"
    /\ tradeStore' = [tradeStore EXCEPT ![o]["entry"] =
                        [status |-> "OPEN", pair |-> pos[o].pair, mfe |-> FALSE]]
    /\ pos' = [pos EXCEPT ![o].dbTradeId = "entry"]
    /\ tick' = [tick EXCEPT ![t] = Idle]
    /\ UNCHANGED <<activePositions, closeMutex, survivalChecks, canary,
                   integrityHaltActive, walletStop, wallet, restarts>>

InsertFails(t) ==
    /\ tick[t].pc = "insert"
    /\ integrityHaltActive' = (integrityHaltActive \/ Live)
    /\ tick' = [tick EXCEPT ![t] = Idle]
    /\ UNCHANGED <<pos, activePositions, closeMutex, survivalChecks, canary,
                   walletStop, tradeStore, wallet, restarts>>

-----------------------------------------------------------------------------
(* PROBE and WINNER ticks *)

\* the row of o, if the object knows one, after a high-water-mark or trailing
\* stop write that may fail: recovery infers WINNER from either
MarkRow(o, written) ==
    tradeStore' = IF written /\ pos[o].dbTradeId # "none"
                  THEN [tradeStore EXCEPT ![o][pos[o].dbTradeId].mfe = TRUE]
                  ELSE tradeStore

Promotable(o) == Tracked(o) /\ pos[o].state = "PROBE"

Promote(o, written) ==
    /\ Promotable(o)
    /\ pos' = [pos EXCEPT ![o].state = "WINNER"]
    /\ MarkRow(o, written)
    /\ UNCHANGED <<activePositions, tick, closeMutex, survivalChecks, canary,
                   integrityHaltActive, walletStop, wallet, restarts>>

WinnerTick(o) ==
    /\ Tracked(o) /\ pos[o].state = "WINNER"
    /\ MarkRow(o, TRUE)
    /\ UNCHANGED <<pos, activePositions, tick, closeMutex, survivalChecks, canary,
                   integrityHaltActive, walletStop, wallet, restarts>>

\* a stop fires: the tick call joins the queue of serializeClose
StartClose(t, o) ==
    /\ tick[t].pc = "idle"
    /\ Tracked(o) /\ pos[o].state \in {"PROBE", "WINNER"}
    /\ tick' = [tick EXCEPT ![t] = [Idle EXCEPT !.pc = "queued", !.pos = o]]
    /\ closeMutex' = Append(closeMutex, t)
    /\ UNCHANGED <<pos, activePositions, survivalChecks, canary,
                   integrityHaltActive, walletStop, tradeStore, wallet, restarts>>

-----------------------------------------------------------------------------
(* closeCupseyPositionSerialized, by the head of closeMutex *)

LeaveMutex_Forgotten(t) == UNCHANGED closeMutex
LeaveMutex(t) == closeMutex' = Tail(closeMutex)

Leave(t) ==
    /\ LeaveMutex(t)
    /\ tick' = [tick EXCEPT ![t] = Idle]

\* where the close goes on once the position is CLOSED
PersistClose(t) ==
    LET row == pos[tick[t].pos].dbTradeId IN
    [tick EXCEPT ![t].pc = IF row = "none" THEN "closeInsert" ELSE "closeTrade",
                 ![t].row = row,
                 ![t].prev = "free",
                 ![t].seen = {}]

AlreadyClosed_Unchecked(o) == FALSE
AlreadyClosed(o) == pos[o].state = "CLOSED"

CloseBegins(t) ==
    LET o == tick[t].pos IN
    /\ tick[t].pc = "queued"
    /\ closeMutex # <<>> /\ Head(closeMutex) = t
    /\ IF AlreadyClosed(o)
       THEN Leave(t) /\ UNCHANGED pos
       ELSE IF Live
       THEN /\ tick' = [tick EXCEPT ![t].pc = "balance", ![t].prev = pos[o].state]
            /\ UNCHANGED <<pos, closeMutex>>
       ELSE /\ pos' = [pos EXCEPT ![o].state = "CLOSED"]
            /\ tick' = PersistClose(t)
            /\ UNCHANGED closeMutex
    /\ UNCHANGED <<activePositions, survivalChecks, canary, integrityHaltActive,
                   walletStop, tradeStore, wallet, restarts>>

\* getTokenBalance: the whole balance of the mint will be sold
BalanceRead(t) ==
    LET held == wallet[pos[tick[t].pos].pair] IN
    /\ tick[t].pc = "balance"
    /\ held # {}
    /\ tick' = [tick EXCEPT ![t].pc = "sell", ![t].seen = held]
    /\ UNCHANGED <<pos, activePositions, closeMutex, survivalChecks, canary,
                   integrityHaltActive, walletStop, tradeStore, wallet, restarts>>

SoldWallet(t) == [wallet EXCEPT ![pos[tick[t].pos].pair] = @ \ tick[t].seen]

SellSucceeds(t) ==
    /\ tick[t].pc = "sell"
    /\ wallet' = SoldWallet(t)
    /\ pos' = [pos EXCEPT ![tick[t].pos].state = "CLOSED"]
    /\ tick' = PersistClose(t)
    /\ UNCHANGED <<activePositions, closeMutex, survivalChecks, canary,
                   integrityHaltActive, walletStop, tradeStore, restarts>>

StateAfterFailedSell_Closed(t) == "CLOSED"
StateAfterFailedSell(t) == tick[t].prev

\* the catch block: a balance read threw or found nothing, every sell attempt
\* failed, or the sell landed and the balance read after it threw
SellFails(t, landed) ==
    /\ \/ tick[t].pc = "balance" /\ ~landed
       \/ tick[t].pc = "sell"
    /\ wallet' = IF landed THEN SoldWallet(t) ELSE wallet
    /\ pos' = [pos EXCEPT ![tick[t].pos].state = StateAfterFailedSell(t)]
    /\ Leave(t)
    /\ UNCHANGED <<activePositions, survivalChecks, canary, integrityHaltActive,
                   walletStop, tradeStore, restarts>>

CloseInsertSucceeds(t) ==
    LET o == tick[t].pos IN
    /\ tick[t].pc = "closeInsert"
    /\ tradeStore' = [tradeStore EXCEPT ![o]["close"] =
                        [status |-> "OPEN", pair |-> pos[o].pair, mfe |-> FALSE]]
    /\ tick' = [tick EXCEPT ![t].pc = "closeTrade", ![t].row = "close"]
    /\ UNCHANGED <<pos, activePositions, closeMutex, survivalChecks, canary,
                   integrityHaltActive, walletStop, wallet, restarts>>

\* the end of the close, whether or not its rows were written
CloseEnds(t) ==
    /\ activePositions' = WithoutId(tick[t].pos)
    /\ canary' = ReleasedSlots
    /\ Leave(t)
    /\ UNCHANGED <<pos, survivalChecks, integrityHaltActive, walletStop, wallet, restarts>>

CloseTradeSucceeds(t) ==
    /\ tick[t].pc = "closeTrade"
    /\ tradeStore' = [tradeStore EXCEPT ![tick[t].pos][tick[t].row].status = "CLOSED"]
    /\ CloseEnds(t)

ClosePersistFails(t) ==
    /\ tick[t].pc \in {"closeInsert", "closeTrade"}
    /\ UNCHANGED tradeStore
    /\ CloseEnds(t)

-----------------------------------------------------------------------------
(* Operator, wallet stop guard, restart *)

ResetIntegrityHalt ==
    /\ integrityHaltActive
    /\ integrityHaltActive' = FALSE
    /\ UNCHANGED <<pos, activePositions, tick, closeMutex, survivalChecks, canary,
                   walletStop, tradeStore, wallet, restarts>>

\* walletStopGuard's interval crosses its threshold, in either direction
WalletStopChanges ==
    /\ walletStop' = ~walletStop
    /\ UNCHANGED <<pos, activePositions, tick, closeMutex, survivalChecks, canary,
                   integrityHaltActive, tradeStore, wallet, restarts>>

OpenRows(p) ==
    {r \in Position \X RowKind : /\ tradeStore[r[1]][r[2]].status = "OPEN"
                                /\ tradeStore[r[1]][r[2]].pair = p}
OpenTrades == UNION {OpenRows(p) : p \in Pair}

\* recovery skips a trade whose row or whose pair is already tracked
RecoverySelects_RowOnly(sel) == sel = OpenTrades
RecoverySelects(sel) ==
    /\ sel \subseteq OpenTrades
    /\ \A p \in Pair : OpenRows(p) # {} => Cardinality(sel \cap OpenRows(p)) = 1

RecoveredPosition(o, k) ==
    [state |-> IF tradeStore[o][k].mfe THEN "WINNER" ELSE "PROBE",
     pair |-> tradeStore[o][k].pair, enteringLock |-> FALSE,
     dbTradeId |-> k, key |-> o]

\* a crash at any instant, then recoverCupseyOpenPositions before any signal.
\* The in-memory halts and the canary slots start again from nothing.
Restart ==
    /\ restarts < MaxRestarts
    /\ restarts' = restarts + 1
    /\ \E sel \in SUBSET OpenTrades :
          /\ RecoverySelects(sel)
          /\ pos' = [o \in Position |->
                       IF \E k \in RowKind : <<o, k>> \in sel
                       THEN RecoveredPosition(o, CHOOSE k \in RowKind : <<o, k>> \in sel)
                       ELSE FreePosition]
          /\ activePositions' = [o \in Position |->
                       IF \E k \in RowKind : <<o, k>> \in sel THEN o ELSE NoPosition]
    /\ tick' = [t \in TickCall |-> Idle]
    /\ closeMutex' = <<>>
    /\ survivalChecks' = [p \in Pair |-> 0]
    /\ canary' = 0
    /\ integrityHaltActive' = FALSE
    /\ walletStop' = FALSE
    /\ UNCHANGED <<tradeStore, wallet>>

-----------------------------------------------------------------------------
(* Specification *)

SignalStep == \E p \in Pair :
    HandleSignal(p) \/ SurvivalRejects(p) \/ SurvivalApproves(p)

VisitStep == \E o \in Position :
    \/ StalkSkip(o)
    \/ StalkWalletStop(o)
    \/ \E written \in BOOLEAN : Promote(o, written)
    \/ WinnerTick(o)
    \/ \E t \in TickCall : StalkEntry(t, o) \/ StartClose(t, o)

\* what the promise a tick call awaits resolves to
AwaitReturns(t) ==
    \/ BuySucceeds(t)
    \/ \E landed \in BOOLEAN : BuyFails(t, landed)
    \/ InsertSucceeds(t)
    \/ InsertFails(t)
    \/ CloseBegins(t)
    \/ BalanceRead(t)
    \/ SellSucceeds(t)
    \/ \E landed \in BOOLEAN : SellFails(t, landed)
    \/ CloseInsertSucceeds(t)
    \/ CloseTradeSucceeds(t)
    \/ ClosePersistFails(t)

Next ==
    \/ SignalStep
    \/ VisitStep
    \/ \E t \in TickCall : AwaitReturns(t)
    \/ ResetIntegrityHalt
    \/ WalletStopChanges
    \/ Restart

Spec == Init /\ [][Next]_vars

\* every promise a tick call awaits settles
FairSpec == Spec /\ \A t \in TickCall : WF_vars(AwaitReturns(t))

-----------------------------------------------------------------------------
(* Safety *)

\* One STALK is bought by one tick call only, although every swap starts a new
\* call while the buy of an earlier one is still in flight (enteringLock).
SingleEntryPerPosition ==
    \A t, u \in TickCall :
        /\ tick[t].pc \in {"buy", "insert"}
        /\ tick[u].pc \in {"buy", "insert"}
        /\ tick[t].pos = tick[u].pos
        => t = u

\* A live position is CLOSED, and its row closed, only once its tokens have left
\* the wallet: a sell that failed leaves it open for the next tick.
ClosedMeansSold ==
    Live => \A o \in Position :
        /\ pos[o].state = "CLOSED" => o \notin wallet[pos[o].pair]
        /\ \A k \in RowKind :
              tradeStore[o][k].status = "CLOSED" => o \notin wallet[tradeStore[o][k].pair]

\* What the guard of handleCupseyLaneSignal says: the lane is in one open position of
\* a pair, whose close sells the whole balance of the mint.  It is so, also after a
\* recovery that finds several OPEN rows, as long as no signal awaits a survival check.
OneOpenPositionPerPair ==
    \A o, q \in OpenPositions : pos[o].pair = pos[q].pair => o = q

\* Only signals that were in the survival check together can open several positions
\* of a pair, one each: none is let in beside a position already open, and a recovery
\* takes one row of the pair.
PairOverlapBounded ==
    \A p \in Pair : Cardinality(OpenOf(p)) + survivalChecks[p]
                        <= IF Live /\ SecurityGate THEN MaxPending ELSE 1

\* What canaryConcurrencyGuard.ts asks of its callers: every slot in use belongs to a
\* position of the map.  A slot without one would close the lane for good.
NoSlotLeak == canary <= Cardinality(TrackedPositions)

\* the objects that are neither dropped nor closed to the end
SlotHolders ==
    {o \in Position :
        \/ pos[o].state \in {"STALK", "PROBE", "WINNER"}
        \/ \E t \in TickCall : tick[t].pos = o /\ tick[t].pc \in {"closeInsert", "closeTrade"}}

\* A slot goes with the object it was taken for: the failed buy, the discarded STALK and
\* the close, whether or not its rows were written, give it back.
SlotsHeldByPositions == canary <= Cardinality(SlotHolders)

\* What canaryConcurrencyGuard.ts is for: the open positions of the wallet are within the cap.
OpenPositionsWithinGlobalCap == CanaryEnabled => Cardinality(OpenPositions) <= GlobalCap

\* Until a restart, the slots in use are exactly the positions in the map, whatever ticks and
\* queued closes overlap, so that the canary guard bounds the positions of the lane.
SlotPerPosition ==
    CanaryEnabled /\ restarts = 0 =>
        canary = Cardinality(TrackedPositions) /\ canary <= GlobalCap

\* A close that awaits its balance or its sale works on a position still open, although
\* several ticks queue a close of one position while the first is under way: the later
\* ones find it CLOSED when their turn comes, sell nothing and release nothing.
ClosesWorkOnOpen ==
    \A t \in TickCall :
        tick[t].pc \in {"balance", "sell"} => pos[tick[t].pos].state \in {"PROBE", "WINNER"}

\* A position that has been bought and not closed is in the map, so that ticks
\* go on applying its stops.
BoughtPositionIsMonitored ==
    \A o \in Position : pos[o].state \in {"PROBE", "WINNER"} => Tracked(o)

-----------------------------------------------------------------------------
(* Action properties *)

\* positions of the pair, and signals that may still become one
InTrade(p) == Cardinality(OpenOf(p)) + survivalChecks[p]

\* Nobody joins an open position of a pair, whatever overlaps: a signal is let in, into
\* the survival check or past it, only while none is open, and a recovery works one
\* position of a pair, however many OPEN rows of it a crash and failed writes have left.
NoneJoinsOpenPosition ==
    [][\A p \in Pair :
        InTrade(p)' > InTrade(p) =>
            OpenOf(p) = {} /\ (OpenOf(p)' = {} \/ InTrade(p)' = 1)]_vars

-----------------------------------------------------------------------------
(* Liveness *)

\* A close that waits in serializeClose gets its turn and returns, whichever way
\* the closes ahead of it end.
EveryCloseReturns ==
    \A t \in TickCall : tick[t].pc = "queued" ~> tick[t].pc = "idle"

-----------------------------------------------------------------------------
(* The promise of serializeClose *)

Inside == {t \in TickCall : tick[t].pc \in {"balance", "sell", "closeInsert", "closeTrade"}}
Serializer == INSTANCE CloseSerializer WITH
    Call <- TickCall,
    waiting <- IF Inside = {} THEN closeMutex ELSE Tail(closeMutex),
    inside <- Inside

\* The closes of the lane, however their sells fail or their position turns out to be closed
\* already, are let in one at a time and in the order in which the ticks asked for them.
ClosesInTurn == Serializer!Spec
=============================================================================
