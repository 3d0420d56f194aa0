-------------------------- MODULE EntryHaltsProofs --------------------------
(***************************************************************************)
(* Proofs about EntryHalts, for any limits and bounds: its types, that an  *)
(* exhausted lane stays halted, that a streak at its limit halts the lane  *)
(* and grows only by what was exposed, what the counters of a lane whose   *)
(* rows name it are after any restarts, that what a lane can lose past its *)
(* budget is bounded, and that nothing puts off the end of a halt but a    *)
(* restart.                                                                *)
(***************************************************************************)
EXTENDS EntryHalts, TLAPS

-----------------------------------------------------------------------------
(* The operators *)

\* A close leaves a lane state of the same type.
LEMMA AfterCloseType ==
    ASSUME NEW s \in LaneCanaryState, NEW pnl \in Int
    PROVE  AfterClose(s, pnl) \in LaneCanaryState
  BY DEF AfterClose, LaneCanaryState

\* Evaluating the circuit changes nothing but the remembered reason.
LEMMA RememberedType ==
    ASSUME NEW s \in LaneCanaryState
    PROVE  /\ Remembered(s) \in LaneCanaryState
           /\ Remembered(s).pnl = s.pnl
           /\ Remembered(s).tradeCount = s.tradeCount
           /\ Remembered(s).consecutiveLosers = s.consecutiveLosers
  BY DEF Remembered, Circuit, LaneCanaryState, CircuitReason

\* Triggering halts an open lane and keeps a halted one halted.
LEMMA TriggeredHalts ==
    ASSUME NEW h \in LaneIntegrityState, NEW source \in HaltSource
    PROVE  /\ Triggered(h, source) \in LaneIntegrityState
           /\ Triggered(h, source).haltActive
  BY DEF Triggered, LaneIntegrityState

LEMMA TriggerAllHalts ==
    ASSUME NEW h \in [Lane -> LaneIntegrityState], NEW lanes, NEW source \in HaltSource
    PROVE  /\ TriggerAll(h, lanes, source) \in [Lane -> LaneIntegrityState]
           /\ \A l \in Lane : h[l].haltActive => TriggerAll(h, lanes, source)[l].haltActive
  BY TriggeredHalts DEF TriggerAll

\* The circuit keeps a halted lane halted, and halts one whose reason is new.
LEMMA CircuitedHalts ==
    ASSUME NEW h \in LaneIntegrityState, NEW s \in LaneCanaryState
    PROVE  /\ Circuited(h, s) \in LaneIntegrityState
           /\ h.haltActive \/ Fires(s) => Circuited(h, s).haltActive
  BY TriggeredHalts DEF Circuited, HaltSource

\* A lane that must be halted has a reason, which fires unless it is remembered.
LEMMA CircuitReasons ==
    ASSUME NEW s \in LaneCanaryState
    PROVE  /\ Exhausted(s) \/ s.consecutiveLosers >= MaxLosers => Circuit(s) # "none"
           /\ Circuit(s) # "none" => Fires(s) \/ s.lastHaltReason # "none"
           /\ Remembered(s).lastHaltReason # "none" => Fires(s) \/ s.lastHaltReason # "none"
  BY DEF Exhausted, Circuit, Fires, Remembered

Replays == [Lane -> LaneCanaryState]

LEMMA NoRowsType == NoRows \in Replays /\ \A l \in Lane : NoRows[l] = NoHistory
  BY DEF NoRows, NoHistory, Replays, LaneCanaryState

\* A row a replay comes to leaves its types and raises no reason.
LEMMA ReplayedRowType ==
    ASSUME NEW replay \in Replays, NEW l \in Lane, NEW pnl \in Int
    PROVE  /\ ReplayedRow(replay, l, pnl) \in Replays
           /\ \A k \in Lane : ReplayedRow(replay, l, pnl)[k].lastHaltReason
                                = replay[k].lastHaltReason
  <1>1. \A k \in Lane : /\ replay[k] \in LaneCanaryState
                        /\ AfterClose(replay[k], pnl) \in LaneCanaryState
                        /\ AfterClose(replay[k], pnl).lastHaltReason = replay[k].lastHaltReason
    BY AfterCloseType DEF Replays, AfterClose
  <1> QED BY <1>1 DEF ReplayedRow, Replays

LEMMA Appended ==
    ASSUME NEW S, NEW q \in Seq(S), NEW e \in S
    PROVE  /\ Append(q, e) \in Seq(S) /\ Len(Append(q, e)) = Len(q) + 1
           /\ \A i \in 1..Len(q) : Append(q, e)[i] = q[i]
           /\ Append(q, e)[Len(q) + 1] = e
  OBVIOUS

\* A row appended: every replay so far comes to it, and one more may start after it.
LEMMA WithRowStarts ==
    ASSUME ledger \in Seq(Replays), NEW l \in Lane, NEW pnl \in Int
    PROVE  /\ WithRow(l, pnl, TRUE) = ledger
           /\ WithRow(l, pnl, FALSE) \in Seq(Replays)
           /\ Len(WithRow(l, pnl, FALSE)) = Len(ledger) + 1
           /\ \A i \in 1..Len(ledger) :
                 WithRow(l, pnl, FALSE)[i] = ReplayedRow(ledger[i], l, pnl)
           /\ WithRow(l, pnl, FALSE)[Len(ledger) + 1] = NoRows
  <1> DEFINE n == Len(ledger)
             rows == [i \in DOMAIN ledger |-> ReplayedRow(ledger[i], l, pnl)]
  <1>1. n \in Nat /\ DOMAIN ledger = 1..n /\ \A i \in 1..n : ledger[i] \in Replays
    OBVIOUS
  <1>2. \A i \in 1..n : ReplayedRow(ledger[i], l, pnl) \in Replays
    BY <1>1, ReplayedRowType
  <1>3. rows \in Seq(Replays) /\ Len(rows) = n
        /\ \A i \in 1..n : rows[i] = ReplayedRow(ledger[i], l, pnl)
    BY <1>1, <1>2
  <1>4. WithRow(l, pnl, FALSE) = Append(rows, NoRows) /\ WithRow(l, pnl, TRUE) = ledger
    BY DEF WithRow, CountsAsClose
  <1> HIDE DEF rows
  <1>5. /\ Append(rows, NoRows) \in Seq(Replays) /\ Len(Append(rows, NoRows)) = n + 1
        /\ \A i \in 1..n : Append(rows, NoRows)[i] = rows[i]
        /\ Append(rows, NoRows)[n + 1] = NoRows
    BY <1>3, NoRowsType, Appended
  <1> QED BY <1>3, <1>4, <1>5

LEMMA AppendType ==
    ASSUME ledger \in Seq(Replays), ledger # <<>>, NEW l \in Lane, NEW pnl \in Int,
           NEW partial \in BOOLEAN, NEW written \in BOOLEAN,
           AppendEntryLedger(l, pnl, partial, written)
    PROVE  ledger' \in Seq(Replays) /\ ledger' # <<>>
  <1> DEFINE longer == WithRow(l, pnl, FALSE)
  <1>1. ledger' \in {ledger, longer}
    BY WithRowStarts DEF AppendEntryLedger
  <1>2. Len(ledger) \in Nat
    OBVIOUS
  <1>3. longer \in Seq(Replays) /\ Len(longer) = Len(ledger) + 1
    BY WithRowStarts
  <1> HIDE DEF longer
  <1>4. longer # <<>>
    BY <1>2, <1>3
  <1> QED BY <1>1, <1>3, <1>4

LEMMA AfterAutoResetType ==
    ASSUME NEW s \in LaneCanaryState
    PROVE  /\ AfterAutoReset(s) \in LaneCanaryState
           /\ AfterAutoReset(s).lastHaltReason = "none"
           /\ AfterAutoReset(s).pnl = s.pnl
           /\ AfterAutoReset(s).tradeCount = s.tradeCount
           /\ AfterAutoReset(s).consecutiveLosers = 0
  <1> DEFINE s1 == [s EXCEPT !.consecutiveLosers = 0]
  <1>1. s1 \in LaneCanaryState /\ s1.pnl = s.pnl /\ s1.tradeCount = s.tradeCount
        /\ s1.consecutiveLosers = 0
    BY DEF LaneCanaryState
  <1>2. AfterAutoReset(s) = [s1 EXCEPT !.lastHaltReason = "none"]
    BY DEF AfterAutoReset
  <1> QED BY <1>1, <1>2 DEF LaneCanaryState

LEMMA PnlType == Pnl \subseteq Int /\ 0 \in Pnl
  BY HaltAssumption DEF Pnl

\* The history after a close of the lane.
LEMMA WithCloseType ==
    ASSUME history \in [Lane -> History], NEW l \in Lane, NEW pnl \in Int, NEW sales \in Nat,
           NEW written \in BOOLEAN
    PROVE  /\ WithClose(l, pnl, sales, written) \in [Lane -> History]
           /\ WithClose(l, pnl, sales, written)[l].closes = history[l].closes + 1
           /\ WithClose(l, pnl, sales, written)[l].sales = history[l].sales + sales
           /\ WithClose(l, pnl, sales, written)[l].pnl = history[l].pnl + pnl
           /\ WithClose(l, pnl, sales, written)[l].replayable
                 <=> history[l].replayable /\ written
           /\ \A k \in Lane \ {l} : WithClose(l, pnl, sales, written)[k] = history[k]
  BY DEF WithClose, History

-----------------------------------------------------------------------------
(* Types *)

LEMMA InitType == Init => TypeOK
  <1> SUFFICES ASSUME Init PROVE TypeOK
    OBVIOUS
  <1>1. ledger \in Seq([Lane -> LaneCanaryState]) /\ ledger # <<>>
    BY NoRowsType DEF Init, Replays
  <1> QED BY <1>1, HaltAssumption DEF Init, TypeOK, NotHalted, NoHistory, FreshComparator,
          LaneIntegrityState, LaneCanaryState, HaltSource, CircuitReason, History, Pnl

LEMMA ReportCloseType ==
    ASSUME TypeOK, NEW l \in Lane, NEW pnl \in Int, NEW recorded \in BOOLEAN,
           ReportClose(l, pnl, recorded), taken' \in [Lane -> Pnl],
           ledger' \in Seq(Replays), ledger' # <<>>, history' \in [Lane -> History]
    PROVE  TypeOK'
  <1> DEFINE s == AfterClose(canary[l], pnl)
             h == IF recorded THEN halt ELSE TriggerAll(halt, HaltedByClose(l), "integrity")
  <1>1. s \in LaneCanaryState
    BY AfterCloseType DEF TypeOK
  <1>2. h \in [Lane -> LaneIntegrityState]
    BY TriggerAllHalts DEF TypeOK, HaltSource
  <1>3. Circuited(h[l], s) \in LaneIntegrityState
    BY <1>1, <1>2, CircuitedHalts
  <1>4. halt' \in [Lane -> LaneIntegrityState]
    <2>1. halt' = [h EXCEPT ![l] = Circuited(h[l], s)]
      BY DEF ReportClose
    <2> QED BY <2>1, <1>2, <1>3
  <1>5. canary' \in [Lane -> LaneCanaryState]
    <2>1. canary' = [canary EXCEPT ![l] = Remembered(s)]
      BY DEF ReportClose
    <2> QED BY <2>1, <1>1, RememberedType DEF TypeOK
  <1>6. open' \in [Lane -> Nat]
    BY DEF ReportClose, TypeOK
  <1>7. UNCHANGED <<comparator, entering, restarts>>
    BY DEF ReportClose
  <1> QED BY <1>4, <1>5, <1>6, <1>7 DEF TypeOK, Replays

\* The three closes: each reports a PnL and leaves history and ledger well typed.
LEMMA CloseType ==
    ASSUME TypeOK, NEW l \in Lane, NEW recorded \in BOOLEAN
    PROVE  /\ \A pnl \in Pnl, written \in BOOLEAN :
                 SellWhole(l, pnl, recorded, written) => TypeOK'
           /\ \A pnl \in Pnl, written \in BOOLEAN :
                 SellRest(l, pnl, recorded, written) => TypeOK'
           /\ CloseOrphan(l, recorded) => TypeOK'
  <1>1. /\ taken[l] \in Pnl /\ taken[l] \in Int /\ taken \in [Lane -> Pnl]
        /\ ledger \in Seq(Replays) /\ ledger # <<>> /\ history \in [Lane -> History]
    BY PnlType DEF TypeOK, Replays
  <1>2. ASSUME NEW pnl \in Pnl, NEW written \in BOOLEAN, SellWhole(l, pnl, recorded, written)
        PROVE  TypeOK'
    <2>1. pnl \in Int /\ taken' \in [Lane -> Pnl]
      BY <1>1, <1>2, PnlType DEF SellWhole
    <2>2. ledger' \in Seq(Replays) /\ ledger' # <<>>
      BY <1>1, <1>2, <2>1, AppendType DEF SellWhole
    <2>3. history' \in [Lane -> History]
      BY <1>1, <1>2, <2>1, WithCloseType DEF SellWhole
    <2> QED BY <1>2, <2>1, <2>2, <2>3, ReportCloseType DEF SellWhole
  <1>3. ASSUME NEW pnl \in Pnl, NEW written \in BOOLEAN, SellRest(l, pnl, recorded, written)
        PROVE  TypeOK'
    <2>1. pnl \in Int /\ pnl - taken[l] \in Int
      BY <1>1, PnlType
    <2>2. taken' \in [Lane -> Pnl]
      BY <1>1, <1>3, PnlType DEF SellRest
    <2>3. ledger' \in Seq(Replays) /\ ledger' # <<>>
      BY <1>1, <1>3, <2>1, AppendType DEF SellRest
    <2>4. history' \in [Lane -> History]
      BY <1>1, <1>3, <2>1, WithCloseType DEF SellRest
    <2> QED BY <1>3, <2>1, <2>2, <2>3, <2>4, ReportCloseType DEF SellRest
  <1>4. ASSUME CloseOrphan(l, recorded) PROVE TypeOK'
    <2>1. taken' \in [Lane -> Pnl]
      BY <1>1, <1>4, PnlType DEF CloseOrphan
    <2>2. history' \in [Lane -> History]
      BY <1>1, <1>4, WithCloseType DEF CloseOrphan
    <2>3. ledger' \in Seq(Replays) /\ ledger' # <<>>
      BY <1>1, <1>4 DEF CloseOrphan
    <2> QED BY <1>1, <1>4, <2>1, <2>2, <2>3, ReportCloseType DEF CloseOrphan
  <1> QED BY <1>2, <1>3, <1>4

LEMMA CheckDriftType ==
    ASSUME TypeOK, NEW level \in DriftLevel, CheckDrift(level)
    PROVE  TypeOK'
  <1>1. comparator' \in [breaches : Nat, haltTriggered : BOOLEAN]
    BY HaltAssumption DEF CheckDrift, TypeOK
  <1>2. halt' \in [Lane -> LaneIntegrityState]
    BY TriggerAllHalts DEF CheckDrift, TypeOK, HaltSource
  <1>3. UNCHANGED <<canary, entering, open, taken, ledger, history, restarts>>
    BY DEF CheckDrift
  <1> QED BY <1>1, <1>2, <1>3 DEF TypeOK

\* What a restart replays is one of the replays of the ledger, or nothing, and what
\* it leaves of the ledger are the replays of its later rows.
LEMMA RestartReplays ==
    ASSUME ledger \in Seq(Replays), ledger # <<>>, NEW first \in DOMAIN ledger,
           NEW read \in BOOLEAN, Restart(first, read)
    PROVE  /\ Hydrated(first, read) \in {ledger[first], NoRows}
           /\ Hydrated(first, read) \in Replays
           /\ ledger' \in Seq(Replays) /\ ledger' # <<>>
           /\ \A i \in DOMAIN ledger' : \E j \in DOMAIN ledger : ledger'[i] = ledger[j]
  <1>1. /\ Len(ledger) \in Nat /\ DOMAIN ledger = 1..Len(ledger)
        /\ first \in 1..Len(ledger) /\ ledger[first] \in Replays
    OBVIOUS
  <1>2. Hydrated(first, read) \in {ledger[first], NoRows}
    BY DEF Hydrated
  <1>3. CASE ~read
    BY <1>1, <1>2, <1>3, NoRowsType DEF Restart
  <1>4. CASE read
    <2> DEFINE m == Len(ledger) - first + 1
               tail == SubSeq(ledger, first, Len(ledger))
    <2>1. ledger' = tail
      BY <1>4 DEF Restart
    <2>2. m \in Nat /\ m > 0 /\ \A i \in 1..m : i + first - 1 \in 1..Len(ledger)
      BY <1>1
    <2>3. tail \in Seq(Replays) /\ Len(tail) = m
          /\ \A i \in 1..m : tail[i] = ledger[i + first - 1]
      BY <1>1, <2>2
    <2> HIDE DEF tail
    <2>4. DOMAIN tail = 1..m /\ tail # <<>>
      BY <2>2, <2>3
    <2> QED BY <1>1, <1>2, <2>1, <2>2, <2>3, <2>4, NoRowsType
  <1> QED BY <1>3, <1>4

Restarts == \E first \in DOMAIN ledger, read \in BOOLEAN : Restart(first, read)

\* The two ways Next restarts are of these.
LEMMA RestartsNext ==
    ASSUME TypeOK
    PROVE  (\E first \in DOMAIN ledger : Restart(first, TRUE)) \/ Restart(1, FALSE) => Restarts
  <1>1. 1 \in DOMAIN ledger
    BY DEF TypeOK
  <1> QED BY <1>1 DEF Restarts

LEMMA RestartType ==
    ASSUME TypeOK, NEW first \in DOMAIN ledger, NEW read \in BOOLEAN, Restart(first, read)
    PROVE  TypeOK'
  <1> DEFINE replay == Hydrated(first, read)
  <1>0. ledger \in Seq(Replays) /\ ledger # <<>> /\ history \in [Lane -> History]
    BY DEF TypeOK, Replays
  <1>1. /\ \A l \in Lane : replay[l] \in LaneCanaryState
        /\ ledger' \in Seq(Replays) /\ ledger' # <<>>
    BY <1>0, RestartReplays DEF Replays
  <1>2. NotHalted \in LaneIntegrityState
    BY DEF NotHalted, LaneIntegrityState
  <1>3. /\ canary' = [l \in Lane |-> Remembered(replay[l])]
        /\ halt' = [l \in Lane |-> HaltAfterHydration(replay[l])]
    BY DEF Restart
  <1>4. canary' \in [Lane -> LaneCanaryState] /\ halt' \in [Lane -> LaneIntegrityState]
    BY <1>1, <1>2, <1>3, CircuitedHalts, RememberedType DEF HaltAfterHydration
  <1>5. comparator' \in [breaches : Nat, haltTriggered : BOOLEAN]
    BY DEF Restart, FreshComparator
  <1>6. entering' \in [Lane -> Nat] /\ restarts' \in Nat /\ taken' \in [Lane -> Pnl]
        /\ open' \in [Lane -> Nat]
    BY PnlType DEF Restart, TypeOK
  <1>7. history' \in [Lane -> History]
    BY <1>0 DEF Restart, History
  <1> QED BY <1>1, <1>4, <1>5, <1>6, <1>7 DEF TypeOK, Replays

\* the ways a position of a lane is closed
Closes(l, recorded) ==
    \/ \E pnl \in Pnl, written \in BOOLEAN :
          SellWhole(l, pnl, recorded, written) \/ SellRest(l, pnl, recorded, written)
    \/ CloseOrphan(l, recorded)

\* A partial sale adds no row that a replay would count.
LEMMA PartialKeepsLedger ==
    ASSUME NEW l \in Lane, NEW pnl \in Pnl, NEW written \in BOOLEAN, Reduce(l, pnl, written)
    PROVE  ledger' = ledger
  BY DEF Reduce, AppendEntryLedger, WithRow, CountsAsClose

LEMMA NextType == TypeOK /\ [Next]_vars => TypeOK'
  <1> SUFFICES ASSUME TypeOK, [Next]_vars PROVE TypeOK'
    OBVIOUS
  <1>1. ASSUME NEW l \in Lane, EnterChecked(l) PROVE TypeOK'
    BY <1>1 DEF EnterChecked, TypeOK
  <1>2. ASSUME NEW l \in Lane, EntryDropped(l) PROVE TypeOK'
    BY <1>2 DEF EntryDropped, TypeOK
  <1>3. ASSUME NEW l \in Lane, NEW recorded \in BOOLEAN, Bought(l, recorded) PROVE TypeOK'
    <2>1. halt' \in [Lane -> LaneIntegrityState]
      BY <1>3, TriggerAllHalts DEF Bought, TypeOK, HaltSource
    <2> QED BY <1>3, <2>1 DEF Bought, TypeOK
  <1>4. ASSUME NEW l \in Lane, NEW recorded \in BOOLEAN, Closes(l, recorded) PROVE TypeOK'
    BY <1>4, CloseType DEF Closes
  <1>5. ASSUME NEW l \in Lane, NEW pnl \in Pnl, NEW written \in BOOLEAN, Reduce(l, pnl, written)
        PROVE  TypeOK'
    <2>1. ledger' = ledger
      BY <1>5, PartialKeepsLedger
    <2> QED BY <1>5, <2>1 DEF Reduce, TypeOK
  <1>6. ASSUME NEW l \in Lane, Cooldown(l) PROVE TypeOK'
    BY <1>6 DEF Cooldown, TypeOK, LaneIntegrityState
  <1>7. ASSUME NEW l \in Lane, CheckAndAutoResetHalt(l) PROVE TypeOK'
    <2>1. NotHalted \in LaneIntegrityState
      BY DEF NotHalted, LaneIntegrityState
    <2>2. halt' \in [Lane -> LaneIntegrityState]
      BY <1>7, <2>1 DEF CheckAndAutoResetHalt, TypeOK
    <2>3. canary' \in [Lane -> LaneCanaryState]
      BY <1>7, AfterAutoResetType DEF CheckAndAutoResetHalt, TypeOK
    <2> QED BY <1>7, <2>2, <2>3 DEF CheckAndAutoResetHalt, TypeOK
  <1>8. ASSUME NEW level \in DriftLevel, CheckDrift(level) PROVE TypeOK'
    BY <1>8, CheckDriftType
  <1>9. ASSUME Restarts PROVE TypeOK'
    BY <1>9, RestartType DEF Restarts
  <1>10. CASE UNCHANGED vars
    BY <1>10 DEF vars, TypeOK
  <1> QED BY <1>1, <1>2, <1>3, <1>4, <1>5, <1>6, <1>7, <1>8, <1>9, <1>10, RestartsNext
          DEF Next, LaneStep, TimerStep, Closes

\* The halt state, the counters, the ledger and the entries keep their types: no
\* count of positions or of entries in flight goes below zero.
THEOREM TypeCorrect == Spec => []TypeOK
  BY InitType, NextType, PTL DEF Spec

-----------------------------------------------------------------------------
(* An exhausted lane stays halted *)

\* a remembered reason belongs to a halt, and the replayed ledger remembers none
RaisedMeansHalted ==
    \A l \in Lane : canary[l].lastHaltReason # "none" => halt[l].haltActive
LedgerRaisesNothing ==
    \A i \in DOMAIN ledger : \A l \in Lane : ledger[i][l].lastHaltReason = "none"
HaltInv == TypeOK /\ RaisedMeansHalted /\ LedgerRaisesNothing /\ ExhaustedLaneHalted

LEMMA InitHalt == Init => HaltInv
  <1> SUFFICES ASSUME Init PROVE RaisedMeansHalted /\ LedgerRaisesNothing /\ ExhaustedLaneHalted
    BY InitType DEF HaltInv
  <1>1. LedgerRaisesNothing
    <2>1. \A i \in DOMAIN ledger : ledger[i] = NoRows
      <3>1. ledger = <<NoRows>>
        BY DEF Init
      <3> HIDE DEF NoRows
      <3>2. DOMAIN <<NoRows>> = {1} /\ <<NoRows>>[1] = NoRows
        OBVIOUS
      <3> QED BY <3>1, <3>2
    <2>2. \A l \in Lane : NoRows[l].lastHaltReason = "none"
      BY DEF NoRows, NoHistory
    <2> QED BY <2>1, <2>2 DEF LedgerRaisesNothing
  <1> QED BY <1>1, HaltAssumption DEF Init, RaisedMeansHalted,
          ExhaustedLaneHalted, Exhausted, BudgetExhausted, TradesExhausted, NoHistory

\* A step that leaves the counters and halts no less keeps the invariant.
LEMMA HaltStutter ==
    ASSUME HaltInv, TypeOK', UNCHANGED <<canary, ledger>>,
           \A l \in Lane : halt[l].haltActive => halt'[l].haltActive
    PROVE  HaltInv'
  BY DEF HaltInv, RaisedMeansHalted, LedgerRaisesNothing, ExhaustedLaneHalted,
     Exhausted, BudgetExhausted, TradesExhausted

\* A lane state that has just been through the circuit.
LEMMA CircuitKeeps ==
    ASSUME NEW h \in LaneIntegrityState, NEW s \in LaneCanaryState,
           s.lastHaltReason # "none" => h.haltActive
    PROVE  /\ Remembered(s).lastHaltReason # "none" => Circuited(h, s).haltActive
           /\ Exhausted(Remembered(s)) => Circuited(h, s).haltActive
           /\ s.consecutiveLosers >= MaxLosers => Circuited(h, s).haltActive
  <1>1. Exhausted(Remembered(s)) => Exhausted(s)
    BY RememberedType DEF Exhausted, BudgetExhausted, TradesExhausted
  <1> QED BY <1>1, CircuitReasons, CircuitedHalts

LEMMA CloseHalt ==
    ASSUME HaltInv, TypeOK', LedgerRaisesNothing', NEW l \in Lane, NEW pnl \in Int,
           NEW recorded \in BOOLEAN, ReportClose(l, pnl, recorded)
    PROVE  /\ HaltInv'
           /\ canary'[l].consecutiveLosers >= MaxLosers => halt'[l].haltActive
           /\ \A k \in Lane \ {l} : canary'[k] = canary[k]
  <1> DEFINE s == AfterClose(canary[l], pnl)
             h == IF recorded THEN halt ELSE TriggerAll(halt, HaltedByClose(l), "integrity")
  <1>2. s \in LaneCanaryState /\ s.lastHaltReason = canary[l].lastHaltReason
    BY AfterCloseType DEF HaltInv, TypeOK, AfterClose
  <1>3. /\ h \in [Lane -> LaneIntegrityState]
        /\ \A k \in Lane : halt[k].haltActive => h[k].haltActive
    BY TriggerAllHalts DEF HaltInv, TypeOK, HaltSource
  <1>4. s.lastHaltReason # "none" => h[l].haltActive
    BY <1>2, <1>3 DEF HaltInv, RaisedMeansHalted
  <1>5. /\ halt' = [h EXCEPT ![l] = Circuited(h[l], s)]
        /\ canary' = [canary EXCEPT ![l] = Remembered(s)]
    BY DEF ReportClose
  <1>6. canary'[l] = Remembered(s) /\ halt'[l] = Circuited(h[l], s)
    BY <1>3, <1>5 DEF HaltInv, TypeOK
  <1>7. \A k \in Lane \ {l} : canary'[k] = canary[k] /\ halt'[k] = h[k]
    BY <1>3, <1>5 DEF HaltInv, TypeOK
  <1>8. h[l] \in LaneIntegrityState
    BY <1>3
  <1>9. RaisedMeansHalted'
    BY <1>2, <1>3, <1>4, <1>6, <1>7, <1>8, CircuitKeeps DEF HaltInv, RaisedMeansHalted
  <1>10. ExhaustedLaneHalted'
    <2> SUFFICES ASSUME NEW k \in Lane, Exhausted(canary'[k]) PROVE halt'[k].haltActive
      BY DEF ExhaustedLaneHalted, Exhausted, BudgetExhausted, TradesExhausted
    <2>1. CASE k = l
      BY <2>1, <1>2, <1>4, <1>6, <1>8, CircuitKeeps
    <2>2. CASE k # l
      BY <2>2, <1>3, <1>7 DEF HaltInv, ExhaustedLaneHalted
    <2> QED BY <2>1, <2>2
  <1>12. canary'[l].consecutiveLosers >= MaxLosers => halt'[l].haltActive
    BY <1>2, <1>4, <1>6, <1>8, RememberedType, CircuitKeeps
  <1> QED BY <1>7, <1>9, <1>10, <1>12 DEF HaltInv

LEMMA AppendRaisesNothing ==
    ASSUME HaltInv, NEW l \in Lane, NEW pnl \in Int, NEW written \in BOOLEAN,
           AppendEntryLedger(l, pnl, FALSE, written)
    PROVE  LedgerRaisesNothing'
  <1>1. ledger \in Seq(Replays) /\ DOMAIN ledger = 1..Len(ledger) /\ Len(ledger) \in Nat
        /\ \A i \in DOMAIN ledger : ledger[i] \in Replays
    BY DEF HaltInv, TypeOK, Replays
  <1>2. CASE ~written
    BY <1>2 DEF AppendEntryLedger, HaltInv, LedgerRaisesNothing
  <1>3. CASE written
    <2> DEFINE rows == WithRow(l, pnl, FALSE)
    <2>1. ledger' = rows
      BY <1>3 DEF AppendEntryLedger
    <2>2. /\ rows \in Seq(Replays) /\ Len(rows) = Len(ledger) + 1
          /\ \A i \in 1..Len(ledger) : rows[i] = ReplayedRow(ledger[i], l, pnl)
          /\ rows[Len(ledger) + 1] = NoRows
      BY <1>1, WithRowStarts
    <2> HIDE DEF rows
    <2> SUFFICES ASSUME NEW i \in DOMAIN rows, NEW k \in Lane
                 PROVE  rows[i][k].lastHaltReason = "none"
      BY <2>1 DEF LedgerRaisesNothing
    <2>3. CASE i \in 1..Len(ledger)
      <3>1. ledger[i] \in Replays /\ ledger[i][k].lastHaltReason = "none"
        BY <1>1, <2>3 DEF HaltInv, LedgerRaisesNothing
      <3>2. rows[i] = ReplayedRow(ledger[i], l, pnl)
        BY <2>2, <2>3
      <3> QED BY <3>1, <3>2, ReplayedRowType
    <2>4. CASE i = Len(ledger) + 1
      BY <2>2, <2>4, NoRowsType DEF NoHistory
    <2> QED BY <1>1, <2>2, <2>3, <2>4
  <1> QED BY <1>2, <1>3

\* Every close is a report that leaves no reason in the ledger.
LEMMA CloseReports ==
    ASSUME HaltInv, NEW l \in Lane, NEW recorded \in BOOLEAN, Closes(l, recorded)
    PROVE  /\ \E pnl \in Int : ReportClose(l, pnl, recorded)
           /\ LedgerRaisesNothing'
  <1>1. Pnl \subseteq Int /\ taken[l] \in Int
    BY PnlType DEF HaltInv, TypeOK
  <1>2. ASSUME NEW pnl \in Pnl, NEW written \in BOOLEAN,
               SellWhole(l, pnl, recorded, written) \/ SellRest(l, pnl, recorded, written)
        PROVE  ReportClose(l, pnl, recorded) /\ LedgerRaisesNothing'
    <2>1. /\ ReportClose(l, pnl, recorded)
          /\ \/ AppendEntryLedger(l, pnl, FALSE, written)
             \/ AppendEntryLedger(l, pnl - taken[l], FALSE, written)
      BY <1>2 DEF SellWhole, SellRest
    <2>2. pnl \in Int /\ pnl - taken[l] \in Int
      BY <1>1
    <2> QED BY <2>1, <2>2, AppendRaisesNothing
  <1>3. CASE CloseOrphan(l, recorded)
    BY <1>1, <1>3 DEF CloseOrphan, HaltInv, LedgerRaisesNothing
  <1> QED BY <1>1, <1>2, <1>3 DEF Closes

LEMMA RestartHalt ==
    ASSUME HaltInv, TypeOK', Restarts
    PROVE  /\ HaltInv'
           /\ \A l \in Lane : canary'[l].consecutiveLosers >= MaxLosers => halt'[l].haltActive
  <1>0. PICK first \in DOMAIN ledger, read \in BOOLEAN : Restart(first, read)
    BY DEF Restarts
  <1> DEFINE replay == Hydrated(first, read)
  <1>1. NotHalted \in LaneIntegrityState /\ ledger \in Seq(Replays) /\ ledger # <<>>
    BY DEF NotHalted, LaneIntegrityState, HaltInv, TypeOK, Replays
  <1>2. /\ replay \in {ledger[first], NoRows} /\ replay \in Replays
        /\ \A i \in DOMAIN ledger' : \E j \in DOMAIN ledger : ledger'[i] = ledger[j]
    BY <1>0, <1>1, RestartReplays
  <1>3. \A l \in Lane : replay[l] \in LaneCanaryState /\ replay[l].lastHaltReason = "none"
    BY <1>2, NoRowsType DEF Replays, NoHistory, HaltInv, LedgerRaisesNothing
  <1>4. \A l \in Lane : /\ canary'[l] = Remembered(replay[l])
                        /\ halt'[l] = Circuited(NotHalted, replay[l])
    BY <1>0 DEF Restart, HaltAfterHydration
  <1> HIDE DEF replay
  <1>5. \A l \in Lane :
           /\ canary'[l].lastHaltReason # "none" => halt'[l].haltActive
           /\ Exhausted(canary'[l]) => halt'[l].haltActive
           /\ canary'[l].consecutiveLosers >= MaxLosers => halt'[l].haltActive
    BY <1>1, <1>3, <1>4, CircuitKeeps, RememberedType
  <1>6. RaisedMeansHalted' /\ ExhaustedLaneHalted'
    BY <1>5 DEF RaisedMeansHalted, ExhaustedLaneHalted, Exhausted, BudgetExhausted,
       TradesExhausted
  <1>7. LedgerRaisesNothing'
    BY <1>2 DEF HaltInv, LedgerRaisesNothing
  <1> QED BY <1>5, <1>6, <1>7 DEF HaltInv

LEMMA AutoResetHalt ==
    ASSUME HaltInv, TypeOK', NEW l \in Lane, CheckAndAutoResetHalt(l)
    PROVE  HaltInv'
  <1>1. /\ canary'[l] = AfterAutoReset(canary[l])
        /\ \A k \in Lane \ {l} : canary'[k] = canary[k] /\ halt'[k] = halt[k]
        /\ ~Exhausted(canary[l])
        /\ ledger' = ledger
    BY DEF CheckAndAutoResetHalt, Resettable, HaltInv, TypeOK
  <1>2. /\ canary'[l].lastHaltReason = "none"
        /\ ~Exhausted(canary'[l])
    BY <1>1, AfterAutoResetType
       DEF HaltInv, TypeOK, Exhausted, BudgetExhausted, TradesExhausted
  <1>3. RaisedMeansHalted'
    BY <1>1, <1>2 DEF HaltInv, RaisedMeansHalted
  <1>4. ExhaustedLaneHalted'
    <2> SUFFICES ASSUME NEW k \in Lane, Exhausted(canary'[k]) PROVE halt'[k].haltActive
      BY DEF ExhaustedLaneHalted, Exhausted, BudgetExhausted, TradesExhausted
    <2> QED BY <1>1, <1>2 DEF HaltInv, ExhaustedLaneHalted
  <1> QED BY <1>1, <1>3, <1>4 DEF HaltInv, LedgerRaisesNothing

LEMMA NextHalt == HaltInv /\ [Next]_vars => HaltInv'
  <1> SUFFICES ASSUME HaltInv, [Next]_vars PROVE HaltInv'
    OBVIOUS
  <1>0. TypeOK'
    BY NextType DEF HaltInv
  <1>1. ASSUME NEW l \in Lane, EnterChecked(l) \/ EntryDropped(l) PROVE HaltInv'
    BY <1>0, <1>1, HaltStutter DEF EnterChecked, EntryDropped
  <1>2. ASSUME NEW l \in Lane, NEW recorded \in BOOLEAN, Bought(l, recorded) PROVE HaltInv'
    <2>1. \A k \in Lane : halt[k].haltActive => halt'[k].haltActive
      BY <1>2, TriggerAllHalts DEF Bought, HaltInv, TypeOK, HaltSource
    <2> QED BY <1>0, <1>2, <2>1, HaltStutter DEF Bought
  <1>3. ASSUME NEW l \in Lane, NEW recorded \in BOOLEAN, Closes(l, recorded)
        PROVE  HaltInv'
    BY <1>0, <1>3, CloseReports, CloseHalt
  <1>4. ASSUME NEW l \in Lane, NEW pnl \in Pnl, NEW written \in BOOLEAN, Reduce(l, pnl, written)
        PROVE  HaltInv'
    <2>1. ledger' = ledger
      BY <1>4, PartialKeepsLedger
    <2> QED BY <1>0, <1>4, <2>1, HaltStutter DEF Reduce
  <1>5. ASSUME NEW l \in Lane, Cooldown(l) PROVE HaltInv'
    <2>1. \A k \in Lane : halt'[k].haltActive = halt[k].haltActive
      BY <1>5 DEF Cooldown, HaltInv, TypeOK, LaneIntegrityState
    <2> QED BY <1>0, <1>5, <2>1, HaltStutter DEF Cooldown
  <1>6. ASSUME NEW l \in Lane, CheckAndAutoResetHalt(l) PROVE HaltInv'
    BY <1>0, <1>6, AutoResetHalt
  <1>7. ASSUME NEW level \in DriftLevel, CheckDrift(level) PROVE HaltInv'
    <2>1. \A k \in Lane : halt[k].haltActive => halt'[k].haltActive
      BY <1>7, TriggerAllHalts DEF CheckDrift, HaltInv, TypeOK, HaltSource
    <2> QED BY <1>0, <1>7, <2>1, HaltStutter DEF CheckDrift
  <1>8. ASSUME Restarts PROVE HaltInv'
    BY <1>0, <1>8, RestartHalt
  <1>9. CASE UNCHANGED vars
    BY <1>0, <1>9, HaltStutter DEF vars
  <1> QED BY <1>1, <1>2, <1>3, <1>4, <1>5, <1>6, <1>7, <1>8, <1>9, RestartsNext
          DEF Next, LaneStep, TimerStep, Closes, HaltInv

LEMMA HaltInvariance ==
    Spec => []HaltInv
  <1>1. HaltInv /\ [Next]_vars => HaltInv'
    BY NextHalt
  <1> QED BY <1>1, InitHalt, PTL DEF Spec

\* A lane that has spent its budget or its trades is halted: neither the auto-reset timer nor a restart lets it in again.
THEOREM ExhaustedHalted ==
    Spec => []ExhaustedLaneHalted
  <1>1. HaltInv => ExhaustedLaneHalted
    BY DEF HaltInv
  <1> QED BY <1>1, HaltInvariance, PTL

-----------------------------------------------------------------------------
(* A streak at its limit halts the lane *)

StreakHaltsStep ==
    \A l \in Lane :
        /\ canary'[l].consecutiveLosers > canary[l].consecutiveLosers
        /\ canary'[l].consecutiveLosers >= MaxLosers
        => halt'[l].haltActive

\* Only a close and a restart lengthen a streak, and both end in the circuit.
LEMMA NextStreak == HaltInv /\ [Next]_vars => StreakHaltsStep
  <1> SUFFICES ASSUME HaltInv, [Next]_vars,
                      NEW k \in Lane,
                      canary'[k].consecutiveLosers > canary[k].consecutiveLosers,
                      canary'[k].consecutiveLosers >= MaxLosers
               PROVE  halt'[k].haltActive
    BY DEF StreakHaltsStep
  <1>0. TypeOK' /\ canary[k] \in LaneCanaryState
    BY NextType DEF HaltInv, TypeOK
  <1>1. canary'[k] # canary[k]
    BY <1>0 DEF LaneCanaryState
  <1>2. ASSUME NEW l \in Lane, NEW recorded \in BOOLEAN, Closes(l, recorded)
        PROVE  halt'[k].haltActive
    <2>1. LedgerRaisesNothing' /\ \E pnl \in Int : ReportClose(l, pnl, recorded)
      BY <1>2, CloseReports
    <2>2. k = l
      BY <1>0, <1>1, <2>1, CloseHalt
    <2> QED BY <1>0, <2>1, <2>2, CloseHalt
  <1>3. ASSUME NEW l \in Lane, CheckAndAutoResetHalt(l) PROVE FALSE
    <2>1. k = l /\ canary'[k] = AfterAutoReset(canary[k])
      BY <1>1, <1>3 DEF CheckAndAutoResetHalt, HaltInv, TypeOK
    <2>2. canary'[k].consecutiveLosers = 0
      BY <1>0, <2>1, AfterAutoResetType
    <2> QED BY <1>0, <2>2 DEF LaneCanaryState
  <1>4. ASSUME Restarts PROVE halt'[k].haltActive
    BY <1>0, <1>4, RestartHalt
  <1> QED BY <1>1, <1>2, <1>3, <1>4, RestartsNext
          DEF Closes, HaltInv, Next, LaneStep, TimerStep, EnterChecked, EntryDropped, Bought, Reduce,
              Cooldown, CheckDrift, vars

\* A close that takes a losing streak to its
\* limit leaves the lane halted, also after auto-resets and restarts: no remembered
\* reason is left behind that would keep the circuit silent.
THEOREM StreakHalted ==
    Spec => StreakHalts
  <1>1. HaltInv /\ [Next]_vars => [StreakHaltsStep]_vars
    BY NextStreak
  <1>2. [][StreakHaltsStep]_vars <=> StreakHalts
    BY DEF StreakHaltsStep, StreakHalts
  <1> QED BY <1>1, <1>2, HaltInvariance, PTL DEF Spec

-----------------------------------------------------------------------------
(* A streak outgrows its limit only by the positions exposed *)

\* the lanes look at their halt before they enter
Heeded == "cupsey" \notin Lane

\* a lane that may enter has a streak below its limit
StreakInv ==
    /\ HaltInv
    /\ \A l \in Lane : /\ open[l] + entering[l] <= MaxOpen
                       /\ canary[l].consecutiveLosers >= MaxLosers => halt[l].haltActive
                       /\ canary[l].consecutiveLosers + open[l] + entering[l]
                            < MaxLosers + MaxOpen

LEMMA InitStreak == Init => StreakInv
  <1> SUFFICES ASSUME Init PROVE StreakInv
    OBVIOUS
  <1>1. \A l \in Lane : /\ canary[l].consecutiveLosers = 0
                        /\ open[l] = 0 /\ entering[l] = 0
    BY DEF Init, NoHistory
  <1> QED BY <1>1, InitHalt, HaltAssumption DEF StreakInv

\* A step that leaves the counters, exposes no more and halts no less keeps it.
LEMMA StreakStutter ==
    ASSUME StreakInv, HaltInv', UNCHANGED canary,
           \A l \in Lane : /\ halt[l].haltActive => halt'[l].haltActive
                           /\ open'[l] + entering'[l] <= open[l] + entering[l]
    PROVE  StreakInv'
  <1>1. \A l \in Lane : /\ open[l] \in Nat /\ entering[l] \in Nat
                        /\ open'[l] \in Nat /\ entering'[l] \in Nat
                        /\ canary[l].consecutiveLosers \in Nat
    BY DEF StreakInv, HaltInv, TypeOK, LaneCanaryState
  <1> QED BY <1>1, HaltAssumption DEF StreakInv

LEMMA EnterStreak ==
    ASSUME Heeded, StreakInv, HaltInv', NEW l \in Lane, EnterChecked(l)
    PROVE  StreakInv'
  <1>1. /\ open[l] + entering[l] < MaxOpen /\ ~halt[l].haltActive
        /\ UNCHANGED <<halt, canary, open>> /\ entering' = [entering EXCEPT ![l] = @ + 1]
    BY DEF EnterChecked, ChecksEntryHalt, Heeded
  <1>2. /\ open[l] \in Nat /\ entering[l] \in Nat /\ canary[l].consecutiveLosers \in Nat
        /\ entering'[l] = entering[l] + 1
        /\ \A k \in Lane \ {l} : entering'[k] = entering[k]
    BY <1>1 DEF StreakInv, HaltInv, TypeOK, LaneCanaryState
  <1>3. canary[l].consecutiveLosers < MaxLosers
    BY <1>1, <1>2, HaltAssumption DEF StreakInv
  <1>4. /\ open[l] + entering'[l] <= MaxOpen
        /\ canary[l].consecutiveLosers + open[l] + entering'[l] < MaxLosers + MaxOpen
    BY <1>1, <1>2, <1>3, HaltAssumption
  <1>5. \A k \in Lane : /\ open'[k] + entering'[k] <= MaxOpen
                        /\ canary'[k].consecutiveLosers + open'[k] + entering'[k]
                             < MaxLosers + MaxOpen
                        /\ canary'[k].consecutiveLosers >= MaxLosers => halt'[k].haltActive
    BY <1>1, <1>2, <1>4 DEF StreakInv
  <1> QED BY <1>5 DEF StreakInv

\* A close raises a streak by one, for a position that is gone.
LEMMA CloseStreak ==
    ASSUME StreakInv, HaltInv', NEW l \in Lane, NEW pnl \in Int, NEW recorded \in BOOLEAN,
           LedgerRaisesNothing', ReportClose(l, pnl, recorded)
    PROVE  StreakInv'
  <1>1. HaltInv /\ TypeOK /\ TypeOK'
    BY DEF StreakInv, HaltInv
  <1>2. /\ canary'[l].consecutiveLosers >= MaxLosers => halt'[l].haltActive
        /\ \A k \in Lane \ {l} : canary'[k] = canary[k]
    BY <1>1, CloseHalt
  <1>3. /\ open[l] \in Nat /\ open[l] > 0 /\ entering[l] \in Nat
        /\ open' = [open EXCEPT ![l] = @ - 1] /\ entering' = entering
        /\ canary' = [canary EXCEPT ![l] = Remembered(AfterClose(canary[l], pnl))]
    BY <1>1 DEF ReportClose, TypeOK
  <1>4. canary[l] \in LaneCanaryState /\ AfterClose(canary[l], pnl) \in LaneCanaryState
    BY <1>1, AfterCloseType DEF TypeOK
  <1>5. canary'[l].consecutiveLosers \in {0, canary[l].consecutiveLosers + 1}
    <2>1. canary'[l] = Remembered(AfterClose(canary[l], pnl))
      BY <1>1, <1>3 DEF TypeOK
    <2>2. AfterClose(canary[l], pnl).consecutiveLosers
             \in {0, canary[l].consecutiveLosers + 1}
      BY DEF AfterClose
    <2> QED BY <2>1, <2>2, <1>4, RememberedType
  <1>6. canary[l].consecutiveLosers \in Nat
    BY <1>4 DEF LaneCanaryState
  <1>7. open'[l] = open[l] - 1
    BY <1>1, <1>3 DEF TypeOK
  <1>8. /\ open[l] + entering[l] <= MaxOpen
        /\ canary[l].consecutiveLosers + open[l] + entering[l] < MaxLosers + MaxOpen
    BY DEF StreakInv
  <1>9. /\ open'[l] + entering'[l] <= MaxOpen
        /\ canary'[l].consecutiveLosers + open'[l] + entering'[l] < MaxLosers + MaxOpen
    BY <1>3, <1>5, <1>6, <1>7, <1>8, HaltAssumption
  <1>10. ASSUME NEW k \in Lane, k # l
         PROVE  /\ open'[k] = open[k] /\ canary'[k] = canary[k]
                /\ halt[k].haltActive => halt'[k].haltActive
    <2>1. open'[k] = open[k] /\ canary'[k] = canary[k]
      BY <1>1, <1>2, <1>3, <1>10 DEF TypeOK
    <2> DEFINE h == IF recorded THEN halt
                    ELSE TriggerAll(halt, HaltedByClose(l), "integrity")
    <2>2. /\ h \in [Lane -> LaneIntegrityState]
          /\ \A j \in Lane : halt[j].haltActive => h[j].haltActive
      BY <1>1, TriggerAllHalts DEF TypeOK, HaltSource
    <2>3. halt'[k] = h[k]
      BY <1>10, <2>2 DEF ReportClose
    <2> QED BY <2>1, <2>2, <2>3
  <1>11. \A k \in Lane : /\ open'[k] + entering'[k] <= MaxOpen
                         /\ canary'[k].consecutiveLosers + open'[k] + entering'[k]
                              < MaxLosers + MaxOpen
                         /\ canary'[k].consecutiveLosers >= MaxLosers => halt'[k].haltActive
    BY <1>2, <1>3, <1>9, <1>10 DEF StreakInv
  <1> QED BY <1>11 DEF StreakInv

\* The timer clears the streak of the lane it lets in.
LEMMA AutoResetStreak ==
    ASSUME StreakInv, HaltInv', NEW l \in Lane, CheckAndAutoResetHalt(l)
    PROVE  StreakInv'
  <1>1. TypeOK /\ canary[l] \in LaneCanaryState
    BY DEF StreakInv, HaltInv, TypeOK
  <1>2. /\ UNCHANGED <<open, entering>>
        /\ canary' = [canary EXCEPT ![l] = AfterAutoReset(@)]
        /\ halt' = [halt EXCEPT ![l] = NotHalted]
    BY DEF CheckAndAutoResetHalt
  <1>3. canary'[l].consecutiveLosers = 0
    BY <1>1, <1>2, AfterAutoResetType DEF TypeOK
  <1>4. \A k \in Lane \ {l} : canary'[k] = canary[k] /\ halt'[k] = halt[k]
    BY <1>1, <1>2 DEF TypeOK
  <1>5. \A k \in Lane : open[k] \in Nat /\ entering[k] \in Nat
    BY <1>1 DEF TypeOK
  <1>6. \A k \in Lane : /\ open[k] + entering[k] <= MaxOpen
                        /\ canary'[k].consecutiveLosers + open[k] + entering[k]
                             < MaxLosers + MaxOpen
                        /\ canary'[k].consecutiveLosers >= MaxLosers => halt'[k].haltActive
    BY <1>3, <1>4, <1>5, HaltAssumption DEF StreakInv
  <1> QED BY <1>2, <1>6 DEF StreakInv

\* Restarts are counted.
LEMMA NextRestarts ==
    ASSUME [Next]_vars
    PROVE  restarts' \in {restarts, restarts + 1}
  BY DEF Next, LaneStep, TimerStep, EnterChecked, EntryDropped, Bought, SellWhole, SellRest,
         CloseOrphan, ReportClose, Reduce, Cooldown, CheckAndAutoResetHalt, CheckDrift,
         Restart, vars

LEMMA NextStreakBound ==
    ASSUME Heeded, StreakInv, [Next]_vars, restarts' = 0
    PROVE  StreakInv'
  <1>0. HaltInv /\ TypeOK /\ HaltInv' /\ LedgerRaisesNothing'
    BY NextHalt DEF StreakInv, HaltInv
  <1>1. \A l \in Lane : open[l] \in Nat /\ entering[l] \in Nat
    BY <1>0 DEF TypeOK
  <1>2. ASSUME NEW l \in Lane, EnterChecked(l) PROVE StreakInv'
    BY <1>0, <1>2, EnterStreak
  <1>3. ASSUME NEW l \in Lane, EntryDropped(l) PROVE StreakInv'
    <2>1. \A k \in Lane : open'[k] + entering'[k] <= open[k] + entering[k]
      BY <1>0, <1>1, <1>3 DEF EntryDropped, TypeOK
    <2> QED BY <1>0, <1>3, <2>1, StreakStutter DEF EntryDropped
  <1>4. ASSUME NEW l \in Lane, NEW recorded \in BOOLEAN, Bought(l, recorded) PROVE StreakInv'
    <2>1. \A k \in Lane : open'[k] + entering'[k] <= open[k] + entering[k]
      BY <1>0, <1>1, <1>4 DEF Bought, TypeOK
    <2>2. \A k \in Lane : halt[k].haltActive => halt'[k].haltActive
      BY <1>0, <1>4, TriggerAllHalts DEF Bought, TypeOK, HaltSource
    <2>3. canary' = canary
      BY <1>4 DEF Bought
    <2> QED BY <1>0, <2>1, <2>2, <2>3, StreakStutter
  <1>5. ASSUME NEW l \in Lane, NEW recorded \in BOOLEAN, Closes(l, recorded)
        PROVE  StreakInv'
    <2>1. \E pnl \in Int : ReportClose(l, pnl, recorded)
      BY <1>0, <1>5, CloseReports
    <2> QED BY <1>0, <2>1, CloseStreak
  <1>6. ASSUME NEW l \in Lane, CheckAndAutoResetHalt(l) PROVE StreakInv'
    BY <1>0, <1>6, AutoResetStreak
  <1>7. ASSUME NEW level \in DriftLevel, CheckDrift(level) PROVE StreakInv'
    <2>1. \A k \in Lane : halt[k].haltActive => halt'[k].haltActive
      BY <1>0, <1>7, TriggerAllHalts DEF CheckDrift, TypeOK, HaltSource
    <2>2. UNCHANGED <<canary, open, entering>>
      BY <1>7 DEF CheckDrift
    <2> QED BY <1>0, <1>1, <2>1, <2>2, StreakStutter
  <1>8. ASSUME NEW l \in Lane, Cooldown(l) PROVE StreakInv'
    <2>1. \A k \in Lane : halt[k].haltActive => halt'[k].haltActive
      BY <1>0, <1>8 DEF Cooldown, TypeOK, LaneIntegrityState
    <2>2. UNCHANGED <<canary, open, entering>>
      BY <1>8 DEF Cooldown
    <2> QED BY <1>0, <1>1, <2>1, <2>2, StreakStutter
  <1>9. ~Restarts
    BY <1>0 DEF Restarts, Restart, TypeOK
  <1>11. ~((\E first \in DOMAIN ledger : Restart(first, TRUE)) \/ Restart(1, FALSE))
    BY <1>0, <1>9, RestartsNext
  <1>10. ASSUME UNCHANGED <<halt, canary, open, entering>> PROVE StreakInv'
    BY <1>0, <1>1, <1>10, StreakStutter
  <1>12. ASSUME NEW l \in Lane, NEW pnl \in Pnl, NEW written \in BOOLEAN, Reduce(l, pnl, written)
         PROVE  StreakInv'
    BY <1>10, <1>12 DEF Reduce
  <1> QED BY <1>2, <1>3, <1>4, <1>5, <1>6, <1>7, <1>8, <1>10, <1>11, <1>12
          DEF Next, LaneStep, TimerStep, Closes, vars

\* As long as the process lives, a losing streak of a lane that looks at its halt
\* exceeds its limit by fewer than the positions that may be exposed at once.
THEOREM StreakIsBounded ==
    ASSUME Heeded
    PROVE  Spec => []StreakBounded
  <1> DEFINE Inv == restarts \in Nat /\ (restarts = 0 => StreakInv)
  <1>1. Init => Inv
    BY InitStreak DEF Init
  <1>2. Inv /\ [Next]_vars => Inv'
    <2> SUFFICES ASSUME Inv, [Next]_vars PROVE Inv'
      OBVIOUS
    <2>1. restarts' \in {restarts, restarts + 1}
      BY NextRestarts
    <2>2. ASSUME restarts' = 0 PROVE restarts = 0
      BY <2>1, <2>2
    <2> QED BY <2>1, <2>2, NextStreakBound
  <1>3. Inv => StreakBounded
    BY DEF StreakInv, StreakBounded
  <1> QED BY <1>1, <1>2, <1>3, PTL DEF Spec

-----------------------------------------------------------------------------
(* The counters after restarts *)

\* lanes whose rows name them
SelfNamed == Lane \subseteq {"pure_ws_breakout", "kol_hunter_rotation"}

\* No replay counts more than the closes, and that of the whole ledger counts, of a lane of
\* which nothing was lost, all that had a sale.
CountInv ==
    /\ TypeOK
    /\ ClosesCountedOnce
    /\ \A i \in DOMAIN ledger : \A l \in Lane : ledger[i][l].tradeCount <= history[l].closes
    /\ \A l \in Lane : history[l].replayable => /\ history[l].sales <= canary[l].tradeCount
                                               /\ history[l].sales <= ledger[1][l].tradeCount

\* What a replay counts when it comes to a row of a lane that names itself.
LEMMA RowCounts ==
    ASSUME SelfNamed, NEW replay \in Replays, NEW l \in Lane, NEW pnl \in Int
    PROVE  /\ ReplayedRow(replay, l, pnl)[l].tradeCount = replay[l].tradeCount + 1
           /\ \A k \in Lane \ {l} : ReplayedRow(replay, l, pnl)[k] = replay[k]
  <1>1. ResolvedLane(l) = {l}
    BY DEF SelfNamed, ResolvedLane
  <1> QED BY <1>1 DEF ReplayedRow, AfterClose

\* What a report adds to the counters.
LEMMA ReportCounts ==
    ASSUME TypeOK, NEW l \in Lane, NEW pnl \in Int, NEW recorded \in BOOLEAN,
           ReportClose(l, pnl, recorded)
    PROVE  /\ canary'[l].tradeCount = canary[l].tradeCount + 1
           /\ canary'[l].pnl = canary[l].pnl + pnl
           /\ \A k \in Lane \ {l} : canary'[k] = canary[k] /\ open'[k] = open[k]
           /\ open'[l] = open[l] - 1 /\ open[l] > 0 /\ entering' = entering
  <1> DEFINE s == AfterClose(canary[l], pnl)
  <1>1. s \in LaneCanaryState
    BY AfterCloseType DEF TypeOK
  <1>2. s.tradeCount = canary[l].tradeCount + 1 /\ s.pnl = canary[l].pnl + pnl
    BY DEF AfterClose
  <1>3. canary' = [canary EXCEPT ![l] = Remembered(s)]
    BY DEF ReportClose
  <1>4. canary'[l] = Remembered(s) /\ \A k \in Lane \ {l} : canary'[k] = canary[k]
    BY <1>3 DEF TypeOK
  <1> QED BY <1>1, <1>2, <1>4, RememberedType DEF ReportClose, TypeOK

\* A sale: one more close, one more row for all replays unless its write failed.
LEMMA SaleCount ==
    ASSUME SelfNamed, CountInv, TypeOK', NEW l \in Lane, NEW pnl \in Int, NEW row \in Int,
           NEW recorded \in BOOLEAN, NEW written \in BOOLEAN,
           ReportClose(l, pnl, recorded), AppendEntryLedger(l, row, FALSE, written),
           history' = WithClose(l, pnl, 1, written)
    PROVE  CountInv'
  <1>0. /\ TypeOK /\ history \in [Lane -> History]
        /\ ledger \in Seq(Replays) /\ ledger # <<>>
        /\ Len(ledger) \in Nat /\ Len(ledger) > 0 /\ DOMAIN ledger = 1..Len(ledger)
        /\ \A i \in 1..Len(ledger) : ledger[i] \in Replays
    BY DEF CountInv, TypeOK, Replays
  <1>1. /\ \A k \in Lane \ {l} : history'[k] = history[k]
        /\ history'[l].sales = history[l].sales + 1
        /\ history'[l].closes = history[l].closes + 1
        /\ history'[l].replayable <=> history[l].replayable /\ written
    BY <1>0, WithCloseType
  <1>2. /\ \A k \in Lane \ {l} : canary'[k] = canary[k]
        /\ canary'[l].tradeCount = canary[l].tradeCount + 1
    BY <1>0, ReportCounts
  <1>3. \A k \in Lane : /\ history[k].sales \in Nat /\ history[k].closes \in Nat
                        /\ history'[k].closes >= history[k].closes
                        /\ canary[k].tradeCount \in Nat
    <2>1. \A k \in Lane : history[k] \in History /\ canary[k] \in LaneCanaryState
      BY <1>0 DEF TypeOK
    <2> QED BY <1>1, <2>1 DEF History, LaneCanaryState
  <1>4. \A i \in 1..Len(ledger), k \in Lane :
           /\ ledger[i][k].tradeCount \in Nat
           /\ ReplayedRow(ledger[i], l, row)[k].tradeCount
                = ledger[i][k].tradeCount + (IF k = l THEN 1 ELSE 0)
    <2> SUFFICES ASSUME NEW i \in 1..Len(ledger), NEW k \in Lane
                 PROVE  /\ ledger[i][k].tradeCount \in Nat
                        /\ ReplayedRow(ledger[i], l, row)[k].tradeCount
                             = ledger[i][k].tradeCount + (IF k = l THEN 1 ELSE 0)
      OBVIOUS
    <2>1. ledger[i] \in Replays /\ ledger[i][k].tradeCount \in Nat
      BY <1>0 DEF Replays, LaneCanaryState
    <2> QED BY <2>1, RowCounts
  <1>5. ClosesCountedOnce'
    BY <1>1, <1>2, <1>3 DEF CountInv, ClosesCountedOnce
  <1>6. CASE ~written
    <2>1. ledger' = ledger /\ ~history'[l].replayable
      BY <1>1, <1>6 DEF AppendEntryLedger
    <2>2. ASSUME NEW i \in DOMAIN ledger, NEW k \in Lane
          PROVE  ledger[i][k].tradeCount <= history'[k].closes
      <3>1. ledger[i][k].tradeCount <= history[k].closes /\ ledger[i][k].tradeCount \in Nat
        BY <1>0, <1>4 DEF CountInv
      <3>2. history'[k].closes \in {history[k].closes, history[k].closes + 1}
        BY <1>1
      <3> QED BY <1>3, <3>1, <3>2
    <2>3. \A k \in Lane : history'[k].replayable => /\ history'[k].sales <= canary'[k].tradeCount
                                                   /\ history'[k].sales <= ledger[1][k].tradeCount
      BY <1>1, <1>2, <2>1 DEF CountInv
    <2> QED BY <1>5, <2>1, <2>2, <2>3 DEF CountInv
  <1>7. CASE written
    <2> DEFINE rows == WithRow(l, row, FALSE)
    <2>1. ledger' = rows
      BY <1>7 DEF AppendEntryLedger
    <2>2. /\ rows \in Seq(Replays) /\ Len(rows) = Len(ledger) + 1
          /\ \A i \in 1..Len(ledger) : rows[i] = ReplayedRow(ledger[i], l, row)
          /\ rows[Len(ledger) + 1] = NoRows
      BY <1>0, WithRowStarts
    <2> HIDE DEF rows
    <2>3. ASSUME NEW i \in DOMAIN rows, NEW k \in Lane
          PROVE  rows[i][k].tradeCount <= history'[k].closes
      <3>1. CASE i \in 1..Len(ledger)
        <4>1. ledger[i][k].tradeCount <= history[k].closes
          BY <1>0, <3>1 DEF CountInv
        <4> QED BY <1>1, <1>3, <1>4, <2>2, <3>1, <4>1
      <3>2. CASE i = Len(ledger) + 1
        BY <1>1, <1>3, <2>2, <3>2, NoRowsType DEF NoHistory
      <3> QED BY <1>0, <2>2, <3>1, <3>2
    <2>4. ASSUME NEW k \in Lane, history'[k].replayable
          PROVE  history'[k].sales <= canary'[k].tradeCount
                 /\ history'[k].sales <= rows[1][k].tradeCount
      <3>1. 1 \in 1..Len(ledger) /\ rows[1] = ReplayedRow(ledger[1], l, row)
        BY <1>0, <2>2
      <3>2. /\ history[k].sales <= canary[k].tradeCount
            /\ history[k].sales <= ledger[1][k].tradeCount
        BY <1>1, <2>4 DEF CountInv
      <3>3. /\ ledger[1][k].tradeCount \in Nat /\ history[k].sales \in Nat
            /\ canary[k].tradeCount \in Nat
            /\ rows[1][k].tradeCount = ledger[1][k].tradeCount + (IF k = l THEN 1 ELSE 0)
        BY <1>3, <1>4, <3>1
      <3>4. CASE k = l
        BY <1>1, <1>2, <3>2, <3>3, <3>4
      <3>5. CASE k # l
        BY <1>1, <1>2, <3>2, <3>3, <3>5
      <3> QED BY <3>4, <3>5
    <2> QED BY <1>5, <2>1, <2>3, <2>4 DEF CountInv
  <1> QED BY <1>6, <1>7

\* A restart: its replay is one of the ledger's or none, and whoever lost rows in it is marked.
LEMMA RestartCount ==
    ASSUME CountInv, TypeOK', Restarts
    PROVE  CountInv'
  <1>0. PICK first \in DOMAIN ledger, read \in BOOLEAN : Restart(first, read)
    BY DEF Restarts
  <1> DEFINE replay == Hydrated(first, read)
  <1>1. ledger \in Seq(Replays) /\ ledger # <<>> /\ history \in [Lane -> History]
    BY DEF CountInv, TypeOK, Replays
  <1>2. /\ replay \in {ledger[first], NoRows} /\ replay \in Replays
        /\ \A i \in DOMAIN ledger' : \E j \in DOMAIN ledger : ledger'[i] = ledger[j]
    BY <1>0, <1>1, RestartReplays
  <1>3. \A l \in Lane : /\ history'[l].closes = history[l].closes
                        /\ history'[l].sales = history[l].sales
                        /\ history'[l].replayable <=> history[l].replayable /\ read /\ first = 1
                        /\ history[l].closes \in Nat
    BY <1>0, <1>1 DEF Restart, History
  <1>4. \A l \in Lane : canary'[l].tradeCount = replay[l].tradeCount
    BY <1>0, <1>2, RememberedType DEF Restart, Replays
  <1>5. first = 1 /\ read => replay = ledger[1] /\ ledger' = ledger
    BY <1>0, <1>1 DEF Restart, Hydrated
  <1> HIDE DEF replay
  <1>6. ClosesCountedOnce'
    <2>1. \A l \in Lane : replay[l].tradeCount <= history[l].closes
      BY <1>2, <1>3, NoRowsType DEF NoHistory, CountInv
    <2> QED BY <1>3, <1>4, <2>1 DEF ClosesCountedOnce
  <1>7. \A i \in DOMAIN ledger' : \A l \in Lane : ledger'[i][l].tradeCount <= history'[l].closes
    BY <1>2, <1>3 DEF CountInv
  <1>8. \A l \in Lane : history'[l].replayable => /\ history'[l].sales <= canary'[l].tradeCount
                                                 /\ history'[l].sales <= ledger'[1][l].tradeCount
    BY <1>3, <1>4, <1>5 DEF CountInv
  <1> QED BY <1>6, <1>7, <1>8 DEF CountInv

LEMMA NextCount == SelfNamed /\ CountInv /\ [Next]_vars => CountInv'
  <1> SUFFICES ASSUME SelfNamed, CountInv, [Next]_vars PROVE CountInv'
    OBVIOUS
  <1>0. /\ TypeOK /\ TypeOK' /\ history \in [Lane -> History]
        /\ canary \in [Lane -> LaneCanaryState]
        /\ \A l \in Lane : taken[l] \in Int
        /\ \A l \in Lane : history[l].sales \in Nat /\ history[l].closes \in Nat
        /\ \A l \in Lane : canary[l].tradeCount \in Nat
    BY NextType, PnlType DEF CountInv, TypeOK, History, LaneCanaryState
  <1>1. ASSUME UNCHANGED <<ledger, history>>,
               \A l \in Lane : canary'[l].tradeCount = canary[l].tradeCount
        PROVE  CountInv'
    BY <1>0, <1>1 DEF CountInv, ClosesCountedOnce
  <1>2. ASSUME NEW l \in Lane, NEW recorded \in BOOLEAN, NEW pnl \in Pnl, NEW written \in BOOLEAN,
               SellWhole(l, pnl, recorded, written) \/ SellRest(l, pnl, recorded, written)
        PROVE  CountInv'
    <2>1. pnl \in Int /\ pnl - taken[l] \in Int
      BY <1>0, PnlType
    <2>2. /\ ReportClose(l, pnl, recorded) /\ history' = WithClose(l, pnl, 1, written)
          /\ \/ AppendEntryLedger(l, pnl, FALSE, written)
             \/ AppendEntryLedger(l, pnl - taken[l], FALSE, written)
      BY <1>2 DEF SellWhole, SellRest
    <2> QED BY <1>0, <2>1, <2>2, SaleCount
  <1>3. ASSUME NEW l \in Lane, NEW recorded \in BOOLEAN, CloseOrphan(l, recorded)
        PROVE  CountInv'
    <2>1. ReportClose(l, taken[l], recorded) /\ history' = WithClose(l, taken[l], 0, TRUE)
          /\ ledger' = ledger
      BY <1>3 DEF CloseOrphan
    <2>2. /\ \A k \in Lane \ {l} : canary'[k] = canary[k]
          /\ canary'[l].tradeCount = canary[l].tradeCount + 1
      BY <1>0, <2>1, ReportCounts
    <2>3. /\ \A k \in Lane \ {l} : history'[k] = history[k]
          /\ history'[l].sales = history[l].sales
          /\ history'[l].closes = history[l].closes + 1
          /\ history'[l].replayable <=> history[l].replayable
      <3>1. history' = [history EXCEPT ![l] =
                          [closes |-> @.closes + 1, sales |-> @.sales + 0,
                           pnl |-> @.pnl + taken[l], replayable |-> @.replayable /\ TRUE]]
        BY <2>1 DEF WithClose
      <3>2. history \in [Lane -> History] /\ history[l].sales \in Nat
        BY <1>0
      <3> QED BY <3>1, <3>2 DEF History
    <2>4. \A k \in Lane : /\ history'[k].sales = history[k].sales
                          /\ history'[k].closes >= history[k].closes
                          /\ history'[k].replayable <=> history[k].replayable
                          /\ canary'[k].tradeCount >= canary[k].tradeCount
      BY <1>0, <2>2, <2>3
    <2>5. ClosesCountedOnce'
      BY <1>0, <2>2, <2>3 DEF CountInv, ClosesCountedOnce
    <2>6. \A i \in DOMAIN ledger : \A k \in Lane : ledger[i][k].tradeCount \in Nat
      <3>1. \A i \in DOMAIN ledger : ledger[i] \in [Lane -> LaneCanaryState]
        BY <1>0 DEF TypeOK
      <3> QED BY <3>1 DEF LaneCanaryState
    <2>7. \A i \in DOMAIN ledger : \A k \in Lane : ledger[i][k].tradeCount <= history'[k].closes
      <3> SUFFICES ASSUME NEW i \in DOMAIN ledger, NEW k \in Lane
                   PROVE  ledger[i][k].tradeCount <= history'[k].closes
        OBVIOUS
      <3>1. ledger[i][k].tradeCount <= history[k].closes /\ ledger[i][k].tradeCount \in Nat
        BY <2>6 DEF CountInv
      <3>2. history'[k].closes \in {history[k].closes, history[k].closes + 1}
        BY <2>3
      <3> QED BY <1>0, <3>1, <3>2
    <2>8. \A k \in Lane : history'[k].replayable => /\ history'[k].sales <= canary'[k].tradeCount
                                                   /\ history'[k].sales <= ledger[1][k].tradeCount
      <3> SUFFICES ASSUME NEW k \in Lane, history'[k].replayable
                   PROVE  /\ history'[k].sales <= canary'[k].tradeCount
                          /\ history'[k].sales <= ledger[1][k].tradeCount
        OBVIOUS
      <3>1. /\ history[k].sales <= canary[k].tradeCount
            /\ history[k].sales <= ledger[1][k].tradeCount
        BY <2>4 DEF CountInv
      <3>2. canary'[k].tradeCount \in {canary[k].tradeCount, canary[k].tradeCount + 1}
        BY <2>2
      <3> QED BY <1>0, <2>4, <3>1, <3>2
    <2> QED BY <1>0, <2>1, <2>5, <2>7, <2>8 DEF CountInv
  <1>4. ASSUME NEW l \in Lane, NEW pnl \in Pnl, NEW written \in BOOLEAN, Reduce(l, pnl, written)
        PROVE  CountInv'
    <2>1. ledger' = ledger
      BY <1>4, PartialKeepsLedger
    <2> QED BY <1>1, <1>4, <2>1 DEF Reduce
  <1>5. ASSUME NEW l \in Lane, CheckAndAutoResetHalt(l) PROVE CountInv'
    <2>1. \A k \in Lane : canary'[k].tradeCount = canary[k].tradeCount
      BY <1>0, <1>5, AfterAutoResetType DEF CheckAndAutoResetHalt
    <2> QED BY <1>1, <1>5, <2>1 DEF CheckAndAutoResetHalt
  <1>6. ASSUME Restarts PROVE CountInv'
    BY <1>0, <1>6, RestartCount
  <1>7. ASSUME UNCHANGED <<canary, ledger, history>> PROVE CountInv'
    BY <1>1, <1>7
  <1> QED BY <1>0, <1>2, <1>3, <1>4, <1>5, <1>6, <1>7, RestartsNext
          DEF Next, LaneStep, TimerStep, EnterChecked, EntryDropped, Bought, Cooldown,
              CheckDrift, vars

\* For the lanes whose sell rows name them, whichever rows were lost, skipped or not read: after
\* any restarts the trade window counts each close of the lane at most once and no partial sale,
\* and if no row was lost it counts every close that had a sale.
THEOREM CountersRestored ==
    ASSUME SelfNamed
    PROVE  Spec => []CountersSurviveRestart
  <1>1. Init => CountInv
    <2> SUFFICES ASSUME Init PROVE CountInv
      OBVIOUS
    <2>1. TypeOK
      BY InitType
    <2>2. /\ \A l \in Lane : canary[l] = NoHistory /\ history[l].closes = 0 /\ history[l].sales = 0
          /\ \A i \in DOMAIN ledger : ledger[i] = NoRows
          /\ ledger[1] = NoRows
      BY DEF Init
    <2> QED BY <2>1, <2>2, NoRowsType DEF CountInv, ClosesCountedOnce, NoHistory
  <1>2. CountInv /\ [Next]_vars => CountInv'
    BY NextCount
  <1>3. CountInv => CountersSurviveRestart
    <2> SUFFICES ASSUME CountInv, NEW l \in Lane, history[l].replayable
                 PROVE  canary[l].tradeCount >= history[l].sales
      BY DEF CountersSurviveRestart, CountInv
    <2>1. history[l] \in History /\ canary[l] \in LaneCanaryState
      BY DEF CountInv, TypeOK
    <2> QED BY <2>1 DEF CountInv, History, LaneCanaryState
  <1> QED BY <1>1, <1>2, <1>3, PTL DEF Spec

-----------------------------------------------------------------------------
(* What a lane can lose is bounded *)

\* before the first restart the canary knows all that the lanes won and lost
PnlKept == \A l \in Lane : canary[l].pnl = history[l].pnl

\* The bound of one lane, on its pnl and its exposed positions.
Within(pnl, exposed) == pnl - MaxLoss * exposed > -MaxCanaryBudget - MaxLoss * MaxOpen

LossWithin == \A l \in Lane : Within(history[l].pnl, open[l] + entering[l])

LossInv == HaltInv /\ PnlKept /\ LossWithin

\* Multiplication by a natural number is monotone and distributes over a successor.
LEMMA Product ==
    ASSUME NEW m \in Nat, NEW a \in Nat, NEW b \in Nat
    PROVE  /\ m * a \in Nat
           /\ a <= b => m * a <= m * b
           /\ a + 1 = b => m * b = m * a + m
  <1>1. m * a \in Nat
    OBVIOUS
  <1>2. ASSUME a <= b PROVE m * a <= m * b
    <2>1. PICK d \in Nat : b = a + d
      BY <1>2
    <2>2. m * b = m * a + m * d /\ m * d \in Nat
      BY <2>1
    <2> QED BY <1>1, <2>2
  <1>3. ASSUME a + 1 = b PROVE m * b = m * a + m
    BY <1>3
  <1> QED BY <1>1, <1>2, <1>3

LEMMA WithinFewer ==
    ASSUME NEW pnl \in Int, NEW a \in Nat, NEW b \in Nat, a <= b, Within(pnl, b)
    PROVE  Within(pnl, a)
  BY HaltAssumption, Product DEF Within

LEMMA WithinClose ==
    ASSUME NEW pnl \in Int, NEW a \in Nat, NEW loss \in Pnl, Within(pnl, a + 1)
    PROVE  Within(pnl + loss, a)
  <1>1. MaxLoss * (a + 1) = MaxLoss * a + MaxLoss /\ MaxLoss * a \in Nat
    BY HaltAssumption, Product
  <1>2. loss \in Int /\ loss >= -MaxLoss
    BY HaltAssumption DEF Pnl
  <1>3. MaxLoss \in Nat /\ MaxLoss * MaxOpen \in Nat /\ MaxCanaryBudget \in Nat
    BY HaltAssumption
  <1> QED BY <1>1, <1>2, <1>3 DEF Within

LEMMA WithinBudget ==
    ASSUME NEW pnl \in Int, NEW a \in Nat, a <= MaxOpen, pnl > -MaxCanaryBudget
    PROVE  Within(pnl, a)
  <1>1. MaxLoss * a <= MaxLoss * MaxOpen /\ MaxLoss * a \in Nat /\ MaxLoss * MaxOpen \in Nat
    BY HaltAssumption, Product
  <1> QED BY <1>1, HaltAssumption DEF Within

LEMMA InitLoss == Init => LossInv
  <1> SUFFICES ASSUME Init PROVE PnlKept /\ LossWithin
    BY InitHalt DEF LossInv
  <1>1. PnlKept
    BY DEF Init, PnlKept, NoHistory
  <1>2. Within(0, 0)
    BY WithinBudget, HaltAssumption
  <1>3. LossWithin
    <2> SUFFICES ASSUME NEW l \in Lane PROVE Within(history[l].pnl, open[l] + entering[l])
      BY DEF LossWithin
    <2>1. history[l].pnl = 0 /\ open[l] + entering[l] = 0
      BY DEF Init
    <2> QED BY <1>2, <2>1
  <1> QED BY <1>1, <1>3

\* A step that closes nothing keeps the PnL, and the bound when no lane is more
\* exposed.
LEMMA LossStutter ==
    ASSUME LossInv, HaltInv', PnlKept', UNCHANGED history,
           \A l \in Lane : open'[l] + entering'[l] <= open[l] + entering[l]
    PROVE  LossInv'
  <1>1. LossWithin'
    <2> SUFFICES ASSUME NEW l \in Lane PROVE Within(history[l].pnl, open'[l] + entering'[l])
      BY DEF LossWithin
    <2>1. Within(history[l].pnl, open[l] + entering[l])
      BY DEF LossInv, LossWithin
    <2>2. /\ history[l].pnl \in Int
          /\ open[l] + entering[l] \in Nat /\ open'[l] + entering'[l] \in Nat
      BY DEF LossInv, HaltInv, TypeOK, History
    <2> QED BY <2>1, <2>2, WithinFewer
  <1> QED BY <1>1 DEF LossInv

LEMMA EnterLoss ==
    ASSUME Heeded, LossInv, HaltInv', NEW l \in Lane, EnterChecked(l)
    PROVE  LossInv'
  <1>1. PnlKept'
    BY DEF LossInv, PnlKept, EnterChecked
  <1>2. ~Exhausted(canary[l])
    BY DEF EnterChecked, ChecksEntryHalt, Heeded, LossInv, HaltInv, ExhaustedLaneHalted
  <1>3. LossWithin'
    <2> SUFFICES ASSUME NEW k \in Lane PROVE Within(history'[k].pnl, open'[k] + entering'[k])
      BY DEF LossWithin
    <2>1. history' = history /\ open' = open
      BY DEF EnterChecked
    <2>2. CASE k # l
      BY <2>1, <2>2 DEF EnterChecked, LossInv, HaltInv, TypeOK, LossWithin
    <2>3. CASE k = l
      <3>1. /\ open'[k] + entering'[k] \in Nat
            /\ open'[k] + entering'[k] <= MaxOpen
        BY <2>1, <2>3, HaltAssumption DEF EnterChecked, LossInv, HaltInv, TypeOK
      <3>2. history[k].pnl \in Int /\ canary[k].pnl = history[k].pnl
        BY DEF LossInv, PnlKept, HaltInv, TypeOK, History
      <3>3. history[k].pnl > -MaxCanaryBudget
        BY <1>2, <2>3, <3>2, HaltAssumption DEF Exhausted, BudgetExhausted
      <3> QED BY <2>1, <3>1, <3>2, <3>3, WithinBudget
    <2> QED BY <2>2, <2>3
  <1> QED BY <1>1, <1>3 DEF LossInv

\* A close, whatever its row says.
LEMMA CloseLoss ==
    ASSUME LossInv, HaltInv', NEW l \in Lane, NEW pnl \in Pnl, NEW sales \in Nat,
           NEW recorded \in BOOLEAN, NEW written \in BOOLEAN, ReportClose(l, pnl, recorded),
           history' = WithClose(l, pnl, sales, written)
    PROVE  LossInv'
  <1>0. TypeOK /\ history \in [Lane -> History] /\ pnl \in Int
        /\ open \in [Lane -> Nat] /\ entering \in [Lane -> Nat]
    BY PnlType DEF LossInv, HaltInv, TypeOK
  <1>1. /\ canary'[l].pnl = canary[l].pnl + pnl
        /\ open'[l] = open[l] - 1 /\ open[l] > 0 /\ entering' = entering
    BY <1>0, ReportCounts
  <1>2. /\ history'[l].pnl = history[l].pnl + pnl
        /\ \A k \in Lane \ {l} : history'[k] = history[k]
    <2>1. history \in [Lane -> History] /\ pnl \in Int /\ sales \in Nat /\ written \in BOOLEAN
      BY <1>0
    <2>2. /\ WithClose(l, pnl, sales, written)[l].pnl = history[l].pnl + pnl
          /\ \A k \in Lane \ {l} : WithClose(l, pnl, sales, written)[k] = history[k]
      BY ONLY <2>1, WithCloseType, l \in Lane
    <2> QED BY ONLY <2>2, history' = WithClose(l, pnl, sales, written)
  <1>5. \A k \in Lane \ {l} : canary'[k] = canary[k] /\ open'[k] = open[k]
    BY <1>0, ReportCounts
  <1>3. PnlKept'
    BY <1>1, <1>2, <1>5 DEF LossInv, PnlKept
  <1>4. LossWithin'
    <2> SUFFICES ASSUME NEW k \in Lane PROVE Within(history'[k].pnl, open'[k] + entering'[k])
      BY DEF LossWithin
    <2>1. Within(history[k].pnl, open[k] + entering[k])
      BY DEF LossInv, LossWithin
    <2>2. CASE k # l
      BY <1>1, <1>2, <1>5, <2>1, <2>2
    <2>3. CASE k = l
      <3>1. open'[k] + entering'[k] \in Nat
            /\ open[k] + entering[k] = (open'[k] + entering'[k]) + 1
            /\ history[k].pnl \in Int
        BY <1>0, <1>1, <2>3 DEF History
      <3>2. Within(history[k].pnl + pnl, open'[k] + entering'[k])
        BY <2>1, <3>1, WithinClose
      <3> QED BY <1>2, <2>3, <3>2
    <2> QED BY <2>2, <2>3
  <1> QED BY <1>3, <1>4 DEF LossInv

LEMMA NextLoss ==
    ASSUME Heeded, LossInv, [Next]_vars, restarts' = 0
    PROVE  LossInv'
  <1>0. /\ HaltInv' /\ TypeOK
        /\ canary \in [Lane -> LaneCanaryState]
        /\ open \in [Lane -> Nat] /\ entering \in [Lane -> Nat]
        /\ taken \in [Lane -> Pnl]
    BY NextHalt DEF LossInv, HaltInv, TypeOK
  <1>1. ASSUME NEW l \in Lane, EnterChecked(l) PROVE LossInv'
    BY <1>0, <1>1, EnterLoss
  <1>2. ASSUME UNCHANGED history,
               \A l \in Lane : canary'[l].pnl = canary[l].pnl,
               \A l \in Lane : open'[l] + entering'[l] <= open[l] + entering[l]
        PROVE  LossInv'
    <2>1. PnlKept'
      BY <1>2 DEF LossInv, PnlKept
    <2> QED BY <1>0, <1>2, <2>1, LossStutter
  <1>3. ASSUME NEW l \in Lane, EntryDropped(l) PROVE LossInv'
    <2>1. \A k \in Lane : open'[k] + entering'[k] <= open[k] + entering[k]
      BY <1>0, <1>3 DEF EntryDropped
    <2> QED BY <1>2, <1>3, <2>1 DEF EntryDropped
  <1>4. ASSUME NEW l \in Lane, NEW recorded \in BOOLEAN, Bought(l, recorded) PROVE LossInv'
    <2>1. \A k \in Lane : open'[k] + entering'[k] <= open[k] + entering[k]
      BY <1>0, <1>4 DEF Bought
    <2> QED BY <1>2, <1>4, <2>1 DEF Bought
  <1>5. ASSUME NEW l \in Lane, NEW recorded \in BOOLEAN, Closes(l, recorded) PROVE LossInv'
    <2>1. \E pnl \in Pnl, sales \in Nat, written \in BOOLEAN :
             ReportClose(l, pnl, recorded) /\ history' = WithClose(l, pnl, sales, written)
      BY <1>0, <1>5 DEF Closes, SellWhole, SellRest, CloseOrphan
    <2> QED BY <1>0, <2>1, CloseLoss
  <1>6. ASSUME NEW l \in Lane, CheckAndAutoResetHalt(l) PROVE LossInv'
    <2>1. \A k \in Lane : canary'[k].pnl = canary[k].pnl
      BY <1>0, <1>6, AfterAutoResetType DEF CheckAndAutoResetHalt
    <2>2. \A k \in Lane : open'[k] + entering'[k] <= open[k] + entering[k]
      BY <1>0, <1>6 DEF CheckAndAutoResetHalt
    <2> QED BY <1>2, <1>6, <2>1, <2>2 DEF CheckAndAutoResetHalt
  <1>7. ~Restarts
    BY <1>0 DEF Restarts, Restart, TypeOK
  <1>8. ASSUME UNCHANGED <<canary, open, entering, history>> PROVE LossInv'
    <2>1. \A k \in Lane : open'[k] + entering'[k] <= open[k] + entering[k]
      BY <1>0, <1>8
    <2> QED BY <1>2, <1>8, <2>1
  <1> QED BY <1>0, <1>1, <1>3, <1>4, <1>5, <1>6, <1>7, <1>8, RestartsNext
          DEF Next, LaneStep, TimerStep, Closes, Reduce, Cooldown, CheckDrift, vars

\* As long as the process lives, what a lane that looks at its halt loses past its budget is at
\* most what the positions lose that were open or being entered when the budget ran out.
THEOREM LossIsBounded ==
    ASSUME Heeded
    PROVE  Spec => []LossBounded
  <1> DEFINE Inv == restarts \in Nat /\ (restarts = 0 => LossInv)
  <1>1. Init => Inv
    BY InitLoss DEF Init
  <1>2. Inv /\ [Next]_vars => Inv'
    <2> SUFFICES ASSUME Inv, [Next]_vars PROVE Inv'
      OBVIOUS
    <2>1. restarts' \in {restarts, restarts + 1}
      BY NextRestarts
    <2>2. ASSUME restarts' = 0 PROVE restarts = 0
      BY <2>1, <2>2
    <2> QED BY <2>1, <2>2, NextLoss
  <1>3. Inv => LossBounded
    BY DEF LossInv, LossWithin, Within, LossBounded
  <1> QED BY <1>1, <1>2, <1>3, PTL DEF Spec

-----------------------------------------------------------------------------
(* The timer lifts a halt *)

Stopped(l) == halt[l].haltActive /\ ~Exhausted(canary[l])

(* The ticks of the timer until it lets the lane in; each restart may ask for them anew. *)
LiftWait(l) ==
    IF Stopped(l)
    THEN (IF halt[l].cooled THEN 1 ELSE 2) + 2 * (MaxRestarts - restarts)
    ELSE 0

\* No halt that comes while a lane is halted, by whatever source, and no close makes the lane
\* wait longer for the timer; the timer brings the end of the halt nearer.
HaltsWindDown ==
    [][\A l \in Lane : Stopped(l) =>
          /\ LiftWait(l)' <= LiftWait(l)
          /\ TimerStep(l) => LiftWait(l)' < LiftWait(l)]_vars

\* Only the timer and a restart touch the halt of a halted lane.
LEMMA HaltStays ==
    ASSUME TypeOK, NEW k \in Lane, halt[k].haltActive, [Next]_vars, ~Restarts, ~TimerStep(k)
    PROVE  halt'[k] = halt[k] /\ restarts' = restarts
  <1>0. halt \in [Lane -> LaneIntegrityState]
    BY DEF TypeOK
  <1>1. \A lanes, source : TriggerAll(halt, lanes, source)[k] = halt[k]
    BY DEF TriggerAll, Triggered
  <1>2. ASSUME NEW l \in Lane, NEW pnl, NEW recorded \in BOOLEAN, ReportClose(l, pnl, recorded)
        PROVE  halt'[k] = halt[k] /\ restarts' = restarts
    <2> DEFINE h == IF recorded THEN halt ELSE TriggerAll(halt, HaltedByClose(l), "integrity")
    <2>1. h[k] = halt[k] /\ DOMAIN h = Lane
      BY <1>0, <1>1 DEF TriggerAll
    <2>2. /\ halt' = [h EXCEPT ![l] = Circuited(h[l], AfterClose(canary[l], pnl))]
          /\ restarts' = restarts
      BY <1>2 DEF ReportClose
    <2> HIDE DEF h
    <2>3. CASE k # l
      BY <2>1, <2>2, <2>3
    <2>4. CASE k = l
      BY <2>1, <2>2, <2>4 DEF Circuited, Triggered
    <2> QED BY <2>3, <2>4
  <1>3. ASSUME NEW l \in Lane, NEW recorded \in BOOLEAN, Closes(l, recorded)
        PROVE  halt'[k] = halt[k] /\ restarts' = restarts
    BY <1>2, <1>3 DEF Closes, SellWhole, SellRest, CloseOrphan
  <1>4. ASSUME NEW l \in Lane, NEW recorded \in BOOLEAN, Bought(l, recorded)
        PROVE  halt'[k] = halt[k] /\ restarts' = restarts
    BY <1>1, <1>4 DEF Bought
  <1>5. ASSUME NEW level \in DriftLevel, CheckDrift(level)
        PROVE  halt'[k] = halt[k] /\ restarts' = restarts
    BY <1>1, <1>5 DEF CheckDrift
  <1>6. ASSUME NEW l \in Lane, l # k, TimerStep(l)
        PROVE  halt'[k] = halt[k] /\ restarts' = restarts
    BY <1>0, <1>6 DEF TimerStep, Cooldown, CheckAndAutoResetHalt
  <1>7. ASSUME NEW l \in Lane,
               \/ EnterChecked(l) \/ EntryDropped(l)
               \/ \E pnl \in Pnl, written \in BOOLEAN : Reduce(l, pnl, written)
        PROVE  halt'[k] = halt[k] /\ restarts' = restarts
    BY <1>7 DEF EnterChecked, EntryDropped, Reduce
  <1>8. CASE UNCHANGED vars
    BY <1>8 DEF vars
  <1> QED BY <1>3, <1>4, <1>5, <1>6, <1>7, <1>8, RestartsNext DEF Next, LaneStep, Closes

(* the restarts that are left *)
LifeInv == TypeOK /\ restarts <= MaxRestarts

LEMMA LifeInvariance == Spec => []LifeInv
  <1>1. Init => LifeInv
    BY InitType, HaltAssumption DEF Init, LifeInv
  <1>2. LifeInv /\ [Next]_vars => LifeInv'
    <2> SUFFICES ASSUME LifeInv, [Next]_vars PROVE LifeInv'
      OBVIOUS
    <2>1. TypeOK' /\ restarts \in Nat /\ MaxRestarts \in Nat
      BY NextType, HaltAssumption DEF LifeInv, TypeOK
    <2>2. restarts' = restarts \/ (restarts < MaxRestarts /\ restarts' = restarts + 1)
      BY DEF Next, LaneStep, TimerStep, EnterChecked, EntryDropped, Bought, SellWhole, SellRest,
             CloseOrphan, ReportClose, Reduce, Cooldown, CheckAndAutoResetHalt, CheckDrift,
             Restart, vars
    <2> QED BY <2>1, <2>2 DEF LifeInv
  <1> QED BY <1>1, <1>2, PTL DEF Spec

\* Every step leaves a halted lane at most as far from its end.
LEMMA StepWinds ==
    ASSUME LifeInv, NEW k \in Lane, Stopped(k), [Next]_vars
    PROVE  /\ LiftWait(k)' <= LiftWait(k)
           /\ TimerStep(k) => LiftWait(k)' < LiftWait(k)
  <1> DEFINE left == MaxRestarts - restarts
             ticks == IF halt[k].cooled THEN 1 ELSE 2
             wait == LiftWait(k)
  <1>0. /\ halt \in [Lane -> LaneIntegrityState] /\ restarts \in Nat /\ MaxRestarts \in Nat
        /\ left \in Nat /\ ticks \in 1..2 /\ wait = ticks + 2 * left
        /\ wait \in Nat /\ wait > 0
    <2>1. halt \in [Lane -> LaneIntegrityState] /\ restarts \in Nat /\ restarts <= MaxRestarts
      BY DEF LifeInv, TypeOK
    <2> QED BY <2>1, HaltAssumption DEF Stopped, LiftWait
  <1>1. LiftWait(k)' \in {0, (IF halt'[k].cooled THEN 1 ELSE 2) + 2 * (MaxRestarts - restarts')}
    BY DEF LiftWait
  <1> HIDE DEF wait
  <1>2. ASSUME Restarts PROVE LiftWait(k)' <= wait /\ LiftWait(k)' < wait
    <2>1. restarts' = restarts + 1 /\ restarts < MaxRestarts
      BY <1>2 DEF Restarts, Restart
    <2>2. MaxRestarts - restarts' = left - 1
      BY <1>0, <2>1
    <2>3. LiftWait(k)' \in {0, 1 + 2 * (left - 1), 2 + 2 * (left - 1)}
      BY <1>1, <2>2
    <2> QED BY <1>0, <2>3
  <1>3. ASSUME Cooldown(k) PROVE LiftWait(k)' <= wait /\ LiftWait(k)' < wait
    <2>1. ~halt[k].cooled /\ halt'[k].cooled /\ restarts' = restarts
      BY <1>0, <1>3 DEF Cooldown, LaneIntegrityState
    <2>2. LiftWait(k)' \in {0, 1 + 2 * left} /\ ticks = 2
      BY <1>1, <2>1
    <2> QED BY <1>0, <2>2
  <1>4. ASSUME CheckAndAutoResetHalt(k) PROVE LiftWait(k)' <= wait /\ LiftWait(k)' < wait
    <2>1. ~halt'[k].haltActive
      BY <1>0, <1>4 DEF CheckAndAutoResetHalt, NotHalted
    <2>2. LiftWait(k)' = 0
      BY <2>1 DEF LiftWait, Stopped
    <2> QED BY <1>0, <2>2
  <1>5. ASSUME ~Restarts, ~TimerStep(k) PROVE LiftWait(k)' <= wait
    <2>1. halt'[k] = halt[k] /\ restarts' = restarts
      BY <1>5, HaltStays DEF LifeInv, Stopped
    <2>2. LiftWait(k)' \in {0, ticks + 2 * left}
      BY <1>1, <2>1
    <2> QED BY <1>0, <2>2
  <1> QED BY <1>2, <1>3, <1>4, <1>5 DEF TimerStep, wait

\* For any lanes, limits and settings: what stops a lane that has neither spent its budget nor
\* its trades ends after two ticks of the timer, but for a restart, whatever else trips
\* meanwhile (canaryAutoHalt.ts checkAndAutoResetHalt, entryHaltState.ts); with the timer
\* running, HaltIsLifted.
THEOREM HaltsEnd == Spec => HaltsWindDown
  <1>1. LifeInv /\ [Next]_vars
          => [\A l \in Lane : Stopped(l) =>
                /\ LiftWait(l)' <= LiftWait(l)
                /\ TimerStep(l) => LiftWait(l)' < LiftWait(l)]_vars
    BY StepWinds
  <1> QED BY <1>1, LifeInvariance, PTL DEF Spec, HaltsWindDown
=============================================================================
