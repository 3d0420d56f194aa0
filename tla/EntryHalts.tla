----------------------------- MODULE EntryHalts -----------------------------
(***************************************************************************)
(* What may stop a live lane from entering (state/entryHaltState.ts): the  *)
(* canary circuit breaker (risk/canaryAutoHalt.ts), the wallet drift       *)
(* comparator (risk/walletDeltaComparator.ts) and failed writes of a trade *)
(* row (orchestration/entryIntegrity.ts), with the timer that lifts halts  *)
(* and the restart that rebuilds the canary from the sell ledger.          *)
(*                                                                         *)
(* PnL is counted in a fixed unit.  The halt check of an entry and its buy *)
(* are separate steps, since awaits lie between them.  The sell, its       *)
(* ledger row and the report of a close are one step.  Every lane has the  *)
(* same limits.  A restart replays the sell ledger from the first row      *)
(* within the look-back: the ledger is represented by what each start      *)
(* would yield, ledger[i] being the lane states that replaying from its    *)
(* i-th row on gives.  Appending a row applies it to all of them and adds  *)
(* a start after it.  Of a lane's positions at most one has been sold in   *)
(* part.                                                                   *)
(***************************************************************************)
EXTENDS Integers, Sequences

CONSTANTS
    Lane,               \* live lanes
    MaxCanaryBudget,    \* config.canaryMaxBudgetSol
    MaxTrades,          \* config.canaryMaxTrades
    MaxLosers,          \* config.canaryMaxConsecutiveLosers
    AutoReset,          \* config.canaryAutoResetEnabled
    MinSamples,         \* cfg.minSamplesBeforeAlert of the comparator
    MaxOpen,            \* bound: positions and entries in flight of a lane
    MaxLoss, MaxWin,    \* bound: what one position loses or wins
    MaxClosed,          \* bound: closes of a lane
    MaxRestarts         \* bound: process restarts

LaneName == {"cupsey", "pure_ws_breakout", "pure_ws_swing_v2", "kol_hunter_rotation"}

ASSUME HaltAssumption ==
    /\ Lane \subseteq LaneName
    /\ {MaxCanaryBudget, MaxTrades, MaxLosers, MinSamples} \subseteq Nat \ {0}
    /\ {MaxOpen, MaxLoss, MaxWin, MaxClosed, MaxRestarts} \subseteq Nat
    /\ AutoReset \in BOOLEAN

VARIABLES
    halt,        \* laneState of entryHaltState
    canary,      \* laneStates of canaryAutoHalt
    comparator,  \* state of walletDeltaComparator
    entering,    \* entries that passed the halt check and have not bought
    open,        \* live positions
    taken,       \* partialTakeRealizedSol of the position sold in part
    ledger,      \* executed-sells.jsonl: what its replay yields, by first row
    history,     \* what the lane has closed over all lives of the process
    restarts

vars == <<halt, canary, comparator, entering, open, taken, ledger, history, restarts>>

-----------------------------------------------------------------------------
(* Values *)

HaltSource == {"canary", "integrity", "drift"}     \* of triggerReason
CircuitReason == {"budget", "trades", "streak"}    \* of lastHaltReason
DriftLevel == {"ok", "reconciled", "warn", "halt"}
Pnl == (-MaxLoss) .. MaxWin

LaneIntegrityState ==
    [haltActive : BOOLEAN, source : HaltSource \cup {"none"}, cooled : BOOLEAN]
LaneCanaryState ==
    [tradeCount : Nat, consecutiveLosers : Nat, pnl : Int,
     lastHaltReason : CircuitReason \cup {"none"}]

\* replayable: every row of the lane was written, and no restart passed one over
History == [closes : Nat, sales : Nat, pnl : Int, replayable : BOOLEAN]

NotHalted == [haltActive |-> FALSE, source |-> "none", cooled |-> FALSE]
NoHistory == [tradeCount |-> 0, consecutiveLosers |-> 0, pnl |-> 0,
              lastHaltReason |-> "none"]
NoRows == [l \in Lane |-> NoHistory]
FreshComparator == [breaches |-> 0, haltTriggered |-> FALSE]

TypeOK ==
    /\ halt \in [Lane -> LaneIntegrityState]
    /\ canary \in [Lane -> LaneCanaryState]
    /\ comparator \in [breaches : Nat, haltTriggered : BOOLEAN]
    /\ entering \in [Lane -> Nat]
    /\ open \in [Lane -> Nat]
    /\ taken \in [Lane -> Pnl]
    /\ ledger \in Seq([Lane -> LaneCanaryState]) /\ ledger # <<>>
    /\ history \in [Lane -> History]
    /\ restarts \in Nat

Init ==
    /\ halt = [l \in Lane |-> NotHalted]
    /\ canary = [l \in Lane |-> NoHistory]
    /\ comparator = FreshComparator
    /\ entering = [l \in Lane |-> 0]
    /\ open = [l \in Lane |-> 0]
    /\ taken = [l \in Lane |-> 0]
    /\ ledger = <<NoRows>>
    /\ history = [l \in Lane |-> [closes |-> 0, sales |-> 0, pnl |-> 0, replayable |-> TRUE]]
    /\ restarts = 0

-----------------------------------------------------------------------------
(* The lanes, as their handlers call the halt modules *)

\* handleCupseyLaneSignal looks at its own integrity flag only
ChecksEntryHalt(l) == l # "cupsey"

\* the lane whose halt a failed insert, or a failed row close, raises
HaltedByInsert(l) == {l} \ {"cupsey"}
HaltedByClose(l) == IF l = "pure_ws_swing_v2" THEN {"pure_ws_breakout"}
                    ELSE {l} \ {"cupsey"}

\* the lane a sell row counts for when it is replayed: cupsey's rows carry no
\* PnL and swing-v2's name the strategy of the primary lane
ResolvedLane(l) ==
    CASE l = "cupsey" -> {}
      [] l = "pure_ws_swing_v2" -> {"pure_ws_breakout"}
      [] OTHER -> {l}

-----------------------------------------------------------------------------
(* entryHaltState *)

Triggered(h, source) ==
    IF h.haltActive THEN h
    ELSE [haltActive |-> TRUE, source |-> source, cooled |-> FALSE]

TriggerAll(h, lanes, source) ==
    [l \in Lane |-> IF l \in lanes THEN Triggered(h[l], source) ELSE h[l]]

-----------------------------------------------------------------------------
(* canaryAutoHalt *)

AfterClose_StreakDecays(s, pnl) ==
    [tradeCount |-> s.tradeCount + 1,
     consecutiveLosers |-> s.consecutiveLosers + (IF pnl < 0 THEN 1 ELSE -1),
     pnl |-> s.pnl + pnl,
     lastHaltReason |-> s.lastHaltReason]
AfterClose(s, pnl) ==
    [tradeCount |-> s.tradeCount + 1,
     consecutiveLosers |-> IF pnl < 0 THEN s.consecutiveLosers + 1 ELSE 0,
     pnl |-> s.pnl + pnl,
     lastHaltReason |-> s.lastHaltReason]

BudgetExhausted(s) == s.pnl <= -MaxCanaryBudget
TradesExhausted(s) == s.tradeCount >= MaxTrades
Exhausted(s) == BudgetExhausted(s) \/ TradesExhausted(s)

Circuit_StreakLate(s) ==
    IF BudgetExhausted(s) THEN "budget"
    ELSE IF TradesExhausted(s) THEN "trades"
    ELSE IF s.consecutiveLosers > MaxLosers THEN "streak" ELSE "none"
Circuit(s) ==
    IF BudgetExhausted(s) THEN "budget"
    ELSE IF TradesExhausted(s) THEN "trades"
    ELSE IF s.consecutiveLosers >= MaxLosers THEN "streak" ELSE "none"

\* the reason is raised once until something resets lastHaltReason
Fires(s) == Circuit(s) \notin {"none", s.lastHaltReason}

Remembered(s) == IF Fires(s) THEN [s EXCEPT !.lastHaltReason = Circuit(s)] ELSE s

Circuited(h, s) == IF Fires(s) THEN Triggered(h, "canary") ELSE h

-----------------------------------------------------------------------------
(* The sell ledger *)

\* a row a replay that started before it comes to
ReplayedRow(replay, l, pnl) ==
    [k \in Lane |-> IF k \in ResolvedLane(l) THEN AfterClose(replay[k], pnl) ELSE replay[k]]

CountsAsClose_All(partial) == TRUE
CountsAsClose(partial) == ~partial

\* the row of a partial sale is skipped by every replay
WithRow(l, pnl, partial) ==
    IF CountsAsClose(partial)
    THEN Append([i \in DOMAIN ledger |-> ReplayedRow(ledger[i], l, pnl)], NoRows)
    ELSE ledger

\* a failed append is logged and swallowed
AppendEntryLedger(l, pnl, partial, written) ==
    ledger' = IF written THEN WithRow(l, pnl, partial) ELSE ledger

-----------------------------------------------------------------------------
(* Entries and closes *)

EnterChecked(l) ==
    /\ open[l] + entering[l] < MaxOpen
    /\ ChecksEntryHalt(l) => ~halt[l].haltActive
    /\ entering' = [entering EXCEPT ![l] = @ + 1]
    /\ UNCHANGED <<halt, canary, comparator, open, taken, ledger, history, restarts>>

EntryDropped(l) ==
    /\ entering[l] > 0
    /\ entering' = [entering EXCEPT ![l] = @ - 1]
    /\ UNCHANGED <<halt, canary, comparator, open, taken, ledger, history, restarts>>

\* the buy landed; the insert of its row may fail
Bought(l, recorded) ==
    /\ entering[l] > 0
    /\ entering' = [entering EXCEPT ![l] = @ - 1]
    /\ open' = [open EXCEPT ![l] = @ + 1]
    /\ halt' = IF recorded THEN halt ELSE TriggerAll(halt, HaltedByInsert(l), "integrity")
    /\ UNCHANGED <<canary, comparator, taken, ledger, history, restarts>>

\* the close of a position; the update of its row may fail
ReportClose(l, pnl, recorded) ==
    LET s == AfterClose(canary[l], pnl)
        h == IF recorded THEN halt ELSE TriggerAll(halt, HaltedByClose(l), "integrity")
    IN
    /\ open[l] > 0 /\ history[l].closes < MaxClosed
    /\ open' = [open EXCEPT ![l] = @ - 1]
    /\ canary' = [canary EXCEPT ![l] = Remembered(s)]
    /\ halt' = [h EXCEPT ![l] = Circuited(h[l], s)]
    /\ UNCHANGED <<comparator, entering, restarts>>

WithClose(l, pnl, sales, written) ==
    [history EXCEPT ![l] = [closes |-> @.closes + 1, sales |-> @.sales + sales,
                            pnl |-> @.pnl + pnl, replayable |-> @.replayable /\ written]]

\* a position never sold in part: there is another one if some part was sold
SellWhole(l, pnl, recorded, written) ==
    /\ taken[l] = 0 \/ open[l] > 1
    /\ ReportClose(l, pnl, recorded)
    /\ AppendEntryLedger(l, pnl, FALSE, written)
    /\ history' = WithClose(l, pnl, 1, written)
    /\ UNCHANGED taken

\* the rest of a position sold in part: the report has the PnL of the whole, the
\* row that of the rest
SellRest(l, pnl, recorded, written) ==
    /\ taken[l] # 0
    /\ ReportClose(l, pnl, recorded)
    /\ AppendEntryLedger(l, pnl - taken[l], FALSE, written)
    /\ history' = WithClose(l, pnl, 1, written)
    /\ taken' = [taken EXCEPT ![l] = 0]

\* the tokens are gone: the close has no sale, no row and no PnL of its own;
\* cupsey keeps such a position
CloseOrphan(l, recorded) ==
    /\ l # "cupsey"
    /\ ReportClose(l, taken[l], recorded)
    /\ history' = WithClose(l, taken[l], 0, TRUE)
    /\ taken' = [taken EXCEPT ![l] = 0]
    /\ UNCHANGED ledger

\* the rotation lane sells a part of a position, which stays open
Reduce(l, pnl, written) ==
    /\ l = "kol_hunter_rotation"
    /\ open[l] > 0
    /\ taken[l] + pnl \in Pnl
    /\ taken' = [taken EXCEPT ![l] = @ + pnl]
    /\ AppendEntryLedger(l, pnl, TRUE, written)
    /\ UNCHANGED <<halt, canary, comparator, entering, open, history, restarts>>

-----------------------------------------------------------------------------
(* The auto-reset timer *)

Cooldown(l) ==
    /\ halt[l].haltActive /\ ~halt[l].cooled
    /\ halt' = [halt EXCEPT ![l].cooled = TRUE]
    /\ UNCHANGED <<canary, comparator, entering, open, taken, ledger, history, restarts>>

Resettable_BudgetOnly(s) == ~BudgetExhausted(s)
Resettable_TradesOnly(s) == ~TradesExhausted(s)
Resettable_NoStreak(s) == ~Exhausted(s) /\ s.consecutiveLosers < MaxLosers
Resettable(s) == ~Exhausted(s)

AfterAutoReset_KeepsReason(s) == [s EXCEPT !.consecutiveLosers = 0]
AfterAutoReset(s) == [s EXCEPT !.consecutiveLosers = 0, !.lastHaltReason = "none"]

CheckAndAutoResetHalt(l) ==
    /\ AutoReset
    /\ halt[l].haltActive /\ halt[l].cooled
    /\ Resettable(canary[l])
    /\ canary' = [canary EXCEPT ![l] = AfterAutoReset(@)]
    /\ halt' = [halt EXCEPT ![l] = NotHalted]
    /\ UNCHANGED <<comparator, entering, open, taken, ledger, history, restarts>>

-----------------------------------------------------------------------------
(* walletDeltaComparator *)

\* one poll that found the given drift; "reconciled" is a drift that the
\* external transfers found explain
CheckDrift(level) ==
    LET breaches == IF level \in {"ok", "reconciled"} THEN 0
                    ELSE IF comparator.breaches < MinSamples
                    THEN comparator.breaches + 1 ELSE MinSamples
        halts == /\ breaches = MinSamples
                 /\ level = "halt"
                 /\ ~comparator.haltTriggered
    IN
    /\ comparator' = [breaches |-> breaches,
                      haltTriggered |-> halts \/ (comparator.haltTriggered /\ level # "ok")]
    /\ halt' = IF halts THEN TriggerAll(halt, Lane, "drift") ELSE halt
    /\ UNCHANGED <<canary, entering, open, taken, ledger, history, restarts>>

-----------------------------------------------------------------------------
(* Restart *)

\* hydrateCanaryStatesFromCloseRecords: rows before the look-back are passed over,
\* so are all of them when the file cannot be read or hydration is switched off
Hydrated(first, read) == IF read THEN ledger[first] ELSE NoRows

HaltAfterHydration_None(s) == NotHalted
HaltAfterHydration(s) == Circuited(NotHalted, s)

\* positions are recovered, without what was taken of them, and the canary replays
\* the ledger; halts start again from what the replayed state trips.  The look-back
\* only moves on.
Restart(first, read) ==
    LET replay == Hydrated(first, read) IN
    /\ restarts < MaxRestarts
    /\ restarts' = restarts + 1
    /\ canary' = [l \in Lane |-> Remembered(replay[l])]
    /\ halt' = [l \in Lane |-> HaltAfterHydration(replay[l])]
    /\ ledger' = IF read THEN SubSeq(ledger, first, Len(ledger)) ELSE ledger
    /\ history' = [l \in Lane |->
                      [history[l] EXCEPT !.replayable = @ /\ read /\ first = 1]]
    /\ comparator' = FreshComparator
    /\ entering' = [l \in Lane |-> 0]
    /\ taken' = [l \in Lane |-> 0]
    /\ UNCHANGED open

-----------------------------------------------------------------------------
(* Specification *)

LaneStep(l) ==
    \/ EnterChecked(l)
    \/ EntryDropped(l)
    \/ \E recorded \in BOOLEAN : Bought(l, recorded)
    \/ \E pnl \in Pnl, recorded, written \in BOOLEAN : SellWhole(l, pnl, recorded, written)
    \/ \E pnl \in Pnl, recorded, written \in BOOLEAN : SellRest(l, pnl, recorded, written)
    \/ \E recorded \in BOOLEAN : CloseOrphan(l, recorded)
    \/ \E pnl \in Pnl, written \in BOOLEAN : Reduce(l, pnl, written)

TimerStep(l) == Cooldown(l) \/ CheckAndAutoResetHalt(l)

Next ==
    \/ \E l \in Lane : LaneStep(l) \/ TimerStep(l)
    \/ \E level \in DriftLevel : CheckDrift(level)
    \/ \E first \in DOMAIN ledger : Restart(first, TRUE)
    \/ Restart(1, FALSE)

Spec == Init /\ [][Next]_vars

\* the reset timer runs every minute
FairSpec == Spec /\ \A l \in Lane : WF_vars(TimerStep(l))

-----------------------------------------------------------------------------
(* Properties *)

\* A lane that has spent its budget or its trades stays halted, through the
\* auto-reset timer, other halts that come first and a restart.
ExhaustedLaneHalted == \A l \in Lane : Exhausted(canary[l]) => halt[l].haltActive

\* What the closes of a lane lose past its budget, as long as the process lives, is
\* what was already open or being entered when the budget ran out.
LossBounded ==
    restarts = 0 => \A l \in Lane :
        history[l].pnl - MaxLoss * (open[l] + entering[l])
            > -MaxCanaryBudget - MaxLoss * MaxOpen

\* A losing streak can outgrow its limit only by the positions that were already
\* open or being entered when it reached the limit; a restart counts a sale that
\* ended a partly sold position by the PnL of the rest alone.
StreakBounded ==
    restarts = 0 => \A l \in Lane :
        canary[l].consecutiveLosers + open[l] + entering[l] < MaxLosers + MaxOpen

\* The trades counted against a lane are closes of its own, none counted twice, also
\* after restarts that replay the ledger; a partial sale is not a close.
ClosesCountedOnce == \A l \in Lane : canary[l].tradeCount <= history[l].closes

\* Nor is any close with a sale forgotten, as long as the rows of the lane were all
\* written and no restart has passed one over.
CountersSurviveRestart ==
    /\ ClosesCountedOnce
    /\ \A l \in Lane :
          history[l].replayable => canary[l].tradeCount >= history[l].sales

\* A close that takes the losing streak to its limit leaves the lane halted.
StreakHalts ==
    [][\A l \in Lane :
        /\ canary'[l].consecutiveLosers > canary[l].consecutiveLosers
        /\ canary'[l].consecutiveLosers >= MaxLosers
        => halt'[l].haltActive]_vars

\* A lane halted by the canary for its losing streak is let in again without the operator,
\* as the comment of checkAndAutoResetHalt asks, whatever else is raised meanwhile.  It
\* asks so of streaks only: of integrity and drift halts this says nothing.
HaltIsLifted ==
    \A l \in Lane :
        halt[l].haltActive /\ halt[l].source = "canary"
            ~> ~halt[l].haltActive \/ Exhausted(canary[l])
=============================================================================
