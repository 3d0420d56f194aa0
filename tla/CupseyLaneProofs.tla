-------------------------- MODULE CupseyLaneProofs --------------------------
(* Type correctness and the main safety invariants of CupseyLane, for every  *)
(* number of pairs, positions, overlapping tick calls and restarts; and what *)
(* its closes get from the mutex: their turn, in the order they asked for it.*)
EXTENDS CupseyLane, SequenceTheorems, TLAPS

Entered == {"PROBE", "WINNER", "CLOSED"}
Entering == {"buy", "insert"}
\* inside the task that serializeClose runs
Critical == {"balance", "sell", "closeInsert", "closeTrade"}

(* What holds of the object a suspended tick call works on. *)
TickInv(t) ==
    LET o == tick[t].pos IN
    /\ tick[t].pc # "idle" => o \in Position
    /\ tick[t].pc = "buy" => pos[o].state = "STALK"
    /\ tick[t].pc \in Entering => pos[o].enteringLock
    /\ tick[t].pc \notin {"idle", "buy"} => pos[o].state \in Entered
    /\ tick[t].pc \in {"balance", "sell"} => tick[t].prev \in {"PROBE", "WINNER"}
    /\ tick[t].pc \in {"closeInsert", "closeTrade"} => pos[o].state = "CLOSED"
    /\ tick[t].pc = "sell" /\ o \in wallet[pos[o].pair] => o \in tick[t].seen
    /\ tick[t].pc = "closeTrade" =>
         /\ tick[t].row \in RowKind
         /\ tradeStore[o][tick[t].row].pair = pos[o].pair
    /\ tick[t].pc \in Critical => closeMutex # <<>> /\ Head(closeMutex) = t

(* What holds of an object, its rows and its tokens. *)
PositionInv(o) ==
    /\ pos[o].state # "free" => pos[o].pair \in Pair
    /\ pos[o].state = "STALK" =>
         /\ \A k \in RowKind : tradeStore[o][k].status = "absent"
         /\ \A p \in Pair : o \notin wallet[p]
    /\ \A k \in RowKind :
         /\ pos[o].dbTradeId = k => tradeStore[o][k].pair = pos[o].pair
         /\ tradeStore[o][k].status # "absent" => tradeStore[o][k].pair \in Pair

IInv ==
    /\ TypeOK
    /\ SingleEntryPerPosition
    /\ ClosedMeansSold
    /\ \A t \in TickCall : TickInv(t)
    /\ \A o \in Position : PositionInv(o)

-----------------------------------------------------------------------------
(* Type correctness *)

\* The values the actions write are of the types TypeOK gives them.
LEMMA ValueTypes ==
    /\ FreePosition \in CupseyPosition
    /\ NoRow \in Row
    /\ Idle \in TickState
    /\ \A p \in Pair, k \in Position \cup {NoPosition} : NewStalk(p, k) \in CupseyPosition
BY DEF FreePosition, NoRow, Idle, NewStalk, CupseyPosition, Row, TickState,
       CupseyTradeState, RowKind, TickPc

\* The slot counter stays a natural number: releasing never goes below zero.
LEMMA SlotTypes ==
    ASSUME TypeOK PROVE AcquiredSlots \in Nat /\ ReleasedSlots \in Nat
BY DEF TypeOK, AcquiredSlots, ReleasedSlots

\* Removing an id keeps the map a map.
LEMMA WithoutIdType ==
    ASSUME TypeOK, NEW o
    PROVE  WithoutId(o) \in [Position -> Position \cup {NoPosition}]
BY DEF TypeOK, WithoutId

\* Init establishes the types.
LEMMA TypeInit == Init => TypeOK
<1> SUFFICES ASSUME Init PROVE TypeOK
    OBVIOUS
<1>1. \A o \in Position : [k \in RowKind |-> NoRow] \in [RowKind -> Row]
    BY ValueTypes
<1>2. tradeStore \in [Position -> [RowKind -> Row]]
    BY <1>1 DEF Init
<1>3. closeMutex \in Seq(TickCall)
    BY DEF Init
<1> QED BY <1>2, <1>3, ValueTypes DEF Init, TypeOK

\* A signal, before and after its survival check, keeps the types.
LEMMA SignalType == TypeOK /\ SignalStep => TypeOK'
<1> SUFFICES ASSUME TypeOK, NEW p \in Pair,
                    HandleSignal(p) \/ SurvivalRejects(p) \/ SurvivalApproves(p)
             PROVE  TypeOK'
    BY DEF SignalStep
<1>1. ASSUME NEW o \in Position, NEW k \in Position \cup {NoPosition}, CreateStalk(o, p, k)
      PROVE  /\ pos' \in [Position -> CupseyPosition]
             /\ activePositions' \in [Position -> Position \cup {NoPosition}]
             /\ canary' \in Nat
    BY <1>1, ValueTypes, SlotTypes DEF CreateStalk, TypeOK
<1>2. CASE HandleSignal(p)
    BY <1>1, <1>2 DEF HandleSignal, TypeOK
<1>3. CASE SurvivalRejects(p)
    BY <1>3 DEF SurvivalRejects, SurvivalReturns, TypeOK
<1>4. CASE SurvivalApproves(p)
    <2>1. PICK o \in Position : \E k \in {o} \cup SameSecondIds(p) : CreateStalk(o, p, k)
        BY <1>4 DEF SurvivalApproves
    <2>2. \A k \in SameSecondIds(p) : k \in Position \cup {NoPosition}
        BY DEF SameSecondIds, OpenPositions, TrackedPositions, TypeOK, CupseyPosition
    <2> QED BY <1>1, <1>4, <2>1, <2>2 DEF SurvivalApproves, SurvivalReturns, TypeOK
<1> QED BY <1>2, <1>3, <1>4

\* Moving a position to another state keeps its type.
LEMMA StateUpdateType ==
    ASSUME TypeOK, NEW o, NEW st \in CupseyTradeState \cup {"free"}
    PROVE  [pos EXCEPT ![o].state = st] \in [Position -> CupseyPosition]
<1>1. CASE o \notin Position
    BY <1>1 DEF TypeOK
<1>2. CASE o \in Position
    <2>1. pos[o] \in CupseyPosition
        BY <1>2 DEF TypeOK
    <2>2. [pos[o] EXCEPT !.state = st] \in CupseyPosition
        BY <2>1 DEF CupseyPosition
    <2> QED BY <1>2, <2>2 DEF TypeOK
<1> QED BY <1>1, <1>2

\* Writing a row keeps the type of the trade store.
LEMMA RowUpdateType ==
    ASSUME TypeOK, NEW o, NEW k \in RowKind, NEW r \in Row
    PROVE  [tradeStore EXCEPT ![o][k] = r] \in [Position -> [RowKind -> Row]]
BY DEF TypeOK

\* A suspended tick call may move to any record of its type.
LEMMA TickUpdateType ==
    ASSUME TypeOK, NEW t, NEW v \in TickState
    PROVE  [tick EXCEPT ![t] = v] \in [TickCall -> TickState]
BY DEF TypeOK

\* A tick that visits a position keeps the types.
LEMMA VisitType == TypeOK /\ VisitStep => TypeOK'
<1> SUFFICES ASSUME TypeOK, NEW o \in Position,
                    \/ StalkSkip(o)
                    \/ StalkWalletStop(o)
                    \/ \E written \in BOOLEAN : Promote(o, written)
                    \/ WinnerTick(o)
                    \/ \E t \in TickCall : StalkEntry(t, o) \/ StartClose(t, o)
             PROVE  TypeOK'
    BY DEF VisitStep
<1>1. ASSUME Discard(o)
      PROVE  /\ pos' \in [Position -> CupseyPosition]
             /\ activePositions' \in [Position -> Position \cup {NoPosition}]
             /\ canary' \in Nat
    BY <1>1, ValueTypes, SlotTypes, WithoutIdType DEF Discard, TypeOK
<1>2. ASSUME NEW written \in BOOLEAN, MarkRow(o, written)
      PROVE  tradeStore' \in [Position -> [RowKind -> Row]]
    <2>1. CASE ~(written /\ pos[o].dbTradeId # "none")
        BY <1>2, <2>1 DEF MarkRow, TypeOK
    <2>2. CASE written /\ pos[o].dbTradeId # "none"
        <3> DEFINE k == pos[o].dbTradeId
        <3>1. k \in RowKind /\ tradeStore[o][k] \in Row
            BY <2>2 DEF TypeOK, CupseyPosition
        <3>2. [tradeStore[o][k] EXCEPT !.mfe = TRUE] \in Row
            BY <3>1 DEF Row
        <3>3. tradeStore' = [tradeStore EXCEPT ![o][k] = [tradeStore[o][k] EXCEPT !.mfe = TRUE]]
            BY <1>2, <2>2, <3>1 DEF MarkRow, TypeOK
        <3> QED BY <3>1, <3>2, <3>3, RowUpdateType
    <2> QED BY <2>1, <2>2
<1>3. CASE StalkSkip(o)
    BY <1>1, <1>3 DEF StalkSkip, TypeOK
<1>4. CASE StalkWalletStop(o)
    BY <1>1, <1>4 DEF StalkWalletStop, TypeOK
<1>5. ASSUME NEW written \in BOOLEAN, Promote(o, written) PROVE TypeOK'
    <2>1. pos' \in [Position -> CupseyPosition]
        BY <1>5, StateUpdateType DEF Promote, CupseyTradeState
    <2> QED BY <1>2, <1>5, <2>1 DEF Promote, TypeOK
<1>6. CASE WinnerTick(o)
    BY <1>2, <1>6 DEF WinnerTick, TypeOK
<1>7. ASSUME NEW t \in TickCall, StalkEntry(t, o) PROVE TypeOK'
    <2>1. pos' \in [Position -> CupseyPosition]
        <3>1. [pos[o] EXCEPT !.enteringLock = TRUE, !.state = IF Live THEN @ ELSE "PROBE"]
                 \in CupseyPosition
            <4>1. pos[o] \in CupseyPosition
                BY DEF TypeOK
            <4> QED BY <4>1 DEF CupseyPosition, CupseyTradeState
        <3> QED BY <1>7, <3>1 DEF StalkEntry, TypeOK
    <2>2. tick' \in [TickCall -> TickState]
        BY <1>7, ValueTypes DEF StalkEntry, TypeOK, TickState, TickPc
    <2> QED BY <1>7, <2>1, <2>2 DEF StalkEntry, TypeOK
<1>8. ASSUME NEW t \in TickCall, StartClose(t, o) PROVE TypeOK'
    <2>1. tick' \in [TickCall -> TickState]
        BY <1>8, ValueTypes DEF StartClose, TypeOK, TickState, TickPc
    <2> QED BY <1>8, <2>1 DEF StartClose, TypeOK
<1> QED BY <1>3, <1>4, <1>5, <1>6, <1>7, <1>8

\* Leaving the queue drops its head.
LEMMA LeaveType ==
    ASSUME TypeOK, NEW t \in TickCall, Leave(t), closeMutex # <<>>
    PROVE  tick' \in [TickCall -> TickState] /\ closeMutex' \in Seq(TickCall)
BY ValueTypes DEF Leave, LeaveMutex, TypeOK

\* A suspended call works on an object, and one inside serializeClose is in its
\* queue, which is therefore not empty.
TickShape(t) ==
    /\ tick[t].pc # "idle" => tick[t].pos \in Position /\ pos[tick[t].pos].pair \in Pair
    /\ tick[t].pc \in Critical => closeMutex # <<>> /\ Head(closeMutex) = t

\* A tick call resumed by the promise it awaited keeps the types.
LEMMA AwaitType ==
    ASSUME TypeOK, NEW t \in TickCall, TickShape(t), AwaitReturns(t)
    PROVE  TypeOK'
<1> DEFINE o == tick[t].pos
<1>1. tick[t] \in TickState /\ o \in Position /\ pos[o] \in CupseyPosition
      /\ pos[o].pair \in Pair
    <2>1. tick[t].pc # "idle"
        BY DEF AwaitReturns, BuySucceeds, BuyFails, InsertSucceeds, InsertFails,
               CloseBegins, BalanceRead, SellSucceeds, SellFails,
               CloseInsertSucceeds, CloseTradeSucceeds, ClosePersistFails
    <2> QED BY <2>1 DEF TickShape, TypeOK
<1>2. SoldWallet(t) \in [Pair -> SUBSET Position]
    BY DEF SoldWallet, TypeOK
<1>3. [wallet EXCEPT ![pos[o].pair] = @ \cup {o}] \in [Pair -> SUBSET Position]
    BY <1>1 DEF TypeOK
<1>4. PersistClose(t) \in [TickCall -> TickState]
    BY <1>1 DEF PersistClose, TypeOK, TickState, TickPc, CupseyPosition
<1>5. \A st \in {"PROBE", "CLOSED"} :
        [pos EXCEPT ![o].state = st] \in [Position -> CupseyPosition]
    BY StateUpdateType DEF CupseyTradeState
<1>6. [status |-> "OPEN", pair |-> pos[o].pair, mfe |-> FALSE] \in Row
    BY <1>1 DEF Row, CupseyPosition
<1>7. CASE BuySucceeds(t)
    <2>1. tick' \in [TickCall -> TickState]
        BY <1>1, <1>7 DEF BuySucceeds, TypeOK, TickState, TickPc
    <2> QED BY <1>3, <1>5, <1>7, <2>1 DEF BuySucceeds, TypeOK
<1>8. ASSUME NEW landed \in BOOLEAN, BuyFails(t, landed) PROVE TypeOK'
    <2>1. wallet' \in [Pair -> SUBSET Position]
        BY <1>3, <1>8 DEF BuyFails, TypeOK
    <2> QED BY <1>8, <2>1, ValueTypes, SlotTypes, WithoutIdType DEF BuyFails, TypeOK
<1>9. CASE InsertSucceeds(t)
    <2>1. pos' \in [Position -> CupseyPosition]
        <3>1. [pos[o] EXCEPT !.dbTradeId = "entry"] \in CupseyPosition
            BY <1>1 DEF CupseyPosition, RowKind
        <3> QED BY <1>9, <3>1 DEF InsertSucceeds, TypeOK
    <2>2. tradeStore' \in [Position -> [RowKind -> Row]]
        BY <1>6, <1>9, RowUpdateType DEF InsertSucceeds, RowKind
    <2> QED BY <1>9, <2>1, <2>2, ValueTypes DEF InsertSucceeds, TypeOK
<1>10. CASE InsertFails(t)
    BY <1>10, ValueTypes, LaneAssumption DEF InsertFails, TypeOK, LaneAssumption
<1>11. CASE CloseBegins(t)
    <2>1. CASE AlreadyClosed(o)
        BY <1>11, <2>1, LeaveType DEF CloseBegins, TypeOK
    <2>2. CASE ~AlreadyClosed(o) /\ Live
        <3>1. [tick[t] EXCEPT !.pc = "balance", !.prev = pos[o].state] \in TickState
            BY <1>1 DEF TickState, TickPc, CupseyPosition
        <3> QED BY <1>11, <2>2, <3>1 DEF CloseBegins, TypeOK
    <2>3. CASE ~AlreadyClosed(o) /\ ~Live
        BY <1>4, <1>5, <1>11, <2>3 DEF CloseBegins, TypeOK
    <2> QED BY <2>1, <2>2, <2>3
<1>12. CASE BalanceRead(t)
    <2>1. wallet[pos[o].pair] \in SUBSET Position
        BY <1>1 DEF TypeOK
    <2>2. [tick[t] EXCEPT !.pc = "sell", !.seen = wallet[pos[o].pair]] \in TickState
        BY <1>1, <2>1 DEF TickState, TickPc
    <2> QED BY <1>12, <2>2 DEF BalanceRead, TypeOK
<1>13. CASE SellSucceeds(t)
    BY <1>2, <1>4, <1>5, <1>13 DEF SellSucceeds, TypeOK
<1>14. ASSUME NEW landed \in BOOLEAN, SellFails(t, landed) PROVE TypeOK'
    <2>1. wallet' \in [Pair -> SUBSET Position]
        BY <1>2, <1>14 DEF SellFails, TypeOK
    <2>2. pos' \in [Position -> CupseyPosition]
        <3>1. tick[t].prev \in CupseyTradeState \cup {"free"}
            BY <1>1 DEF TickState
        <3> QED BY <1>14, <3>1, StateUpdateType DEF SellFails, StateAfterFailedSell
    <2>3. tick' \in [TickCall -> TickState] /\ closeMutex' \in Seq(TickCall)
        BY <1>14, LeaveType DEF SellFails, TickShape, Critical
    <2> QED BY <1>14, <2>1, <2>2, <2>3 DEF SellFails, TypeOK
<1>15. CASE CloseInsertSucceeds(t)
    <2>1. tick' \in [TickCall -> TickState]
        BY <1>1, <1>15 DEF CloseInsertSucceeds, TypeOK, TickState, TickPc, RowKind
    <2>2. tradeStore' \in [Position -> [RowKind -> Row]]
        BY <1>6, <1>15, RowUpdateType DEF CloseInsertSucceeds, RowKind
    <2> QED BY <1>15, <2>1, <2>2 DEF CloseInsertSucceeds, TypeOK
<1>16. ASSUME CloseEnds(t), tick[t].pc \in Critical,
              tradeStore' \in [Position -> [RowKind -> Row]]
       PROVE  TypeOK'
    <2>1. tick' \in [TickCall -> TickState] /\ closeMutex' \in Seq(TickCall)
        BY <1>16, LeaveType DEF CloseEnds, TickShape
    <2> QED BY <1>16, <2>1, SlotTypes, WithoutIdType DEF CloseEnds, TypeOK
<1>17. CASE CloseTradeSucceeds(t)
    <2>1. tradeStore' \in [Position -> [RowKind -> Row]]
        <3> DEFINE k == tick[t].row
        <3>1. CASE k \notin RowKind
            BY <1>1, <1>17, <3>1 DEF CloseTradeSucceeds, TypeOK
        <3>2. CASE k \in RowKind
            <4>1. [tradeStore[o][k] EXCEPT !.status = "CLOSED"] \in Row
                <5>1. tradeStore[o][k] \in Row
                    BY <1>1, <3>2 DEF TypeOK
                <5> QED BY <5>1 DEF Row
            <4>2. tradeStore' = [tradeStore EXCEPT ![o][k] =
                                   [tradeStore[o][k] EXCEPT !.status = "CLOSED"]]
                BY <1>1, <1>17, <3>2 DEF CloseTradeSucceeds, TypeOK
            <4> QED BY <3>2, <4>1, <4>2, RowUpdateType
        <3> QED BY <3>1, <3>2
    <2> QED BY <1>16, <1>17, <2>1 DEF CloseTradeSucceeds, Critical
<1>18. CASE ClosePersistFails(t)
    BY <1>16, <1>18 DEF ClosePersistFails, Critical, TypeOK
<1> QED BY <1>7, <1>8, <1>9, <1>10, <1>11, <1>12, <1>13, <1>14, <1>15, <1>17, <1>18
        DEF AwaitReturns

\* Recovery builds position objects of the right type from any selection of rows.
LEMMA RestartType == TypeOK /\ Restart => TypeOK'
<1> SUFFICES ASSUME TypeOK, Restart PROVE TypeOK'
    OBVIOUS
<1>1. \A o \in Position, k \in RowKind :
        <<o, k>> \in OpenTrades => RecoveredPosition(o, k) \in CupseyPosition
    <2> SUFFICES ASSUME NEW o \in Position, NEW k \in RowKind
                 PROVE  RecoveredPosition(o, k) \in CupseyPosition
        OBVIOUS
    <2>1. tradeStore[o][k] \in Row
        BY DEF TypeOK
    <2> QED BY <2>1 DEF RecoveredPosition, CupseyPosition, CupseyTradeState, Row
<1>2. PICK sel \in SUBSET OpenTrades :
        /\ pos' = [o \in Position |->
                     IF \E k \in RowKind : <<o, k>> \in sel
                     THEN RecoveredPosition(o, CHOOSE k \in RowKind : <<o, k>> \in sel)
                     ELSE FreePosition]
        /\ activePositions' = [o \in Position |->
                     IF \E k \in RowKind : <<o, k>> \in sel THEN o ELSE NoPosition]
    BY DEF Restart
<1>3. pos' \in [Position -> CupseyPosition]
    <2> SUFFICES ASSUME NEW o \in Position, NEW k \in RowKind, <<o, k>> \in sel
                 PROVE  RecoveredPosition(o, CHOOSE j \in RowKind : <<o, j>> \in sel)
                          \in CupseyPosition
        BY <1>2, ValueTypes
    <2> DEFINE j == CHOOSE i \in RowKind : <<o, i>> \in sel
    <2>1. j \in RowKind /\ <<o, j>> \in sel
        OBVIOUS
    <2>2. <<o, j>> \in OpenTrades
        BY <2>1
    <2>3. RecoveredPosition(o, j) \in CupseyPosition
        <3> HIDE DEF j
        <3> QED BY <1>1, <2>1, <2>2
    <2> QED BY <2>3
<1>4. activePositions' \in [Position -> Position \cup {NoPosition}]
    BY <1>2
<1>5. closeMutex' \in Seq(TickCall)
    BY DEF Restart
<1>6. /\ tick' \in [TickCall -> TickState]
      /\ survivalChecks' \in [Pair -> Nat]
      /\ canary' \in Nat /\ restarts' \in Nat
      /\ integrityHaltActive' \in BOOLEAN /\ walletStop' \in BOOLEAN
    <2>1. /\ tick' = [t \in TickCall |-> Idle]
          /\ survivalChecks' = [p \in Pair |-> 0]
          /\ canary' = 0 /\ restarts' = restarts + 1
          /\ integrityHaltActive' = FALSE /\ walletStop' = FALSE
        BY DEF Restart
    <2>2. restarts \in Nat
        BY DEF TypeOK
    <2>3. tick' \in [TickCall -> TickState]
        BY <2>1, ValueTypes
    <2>4. survivalChecks' \in [Pair -> Nat]
        BY <2>1
    <2>5. canary' \in Nat /\ restarts' \in Nat
        BY <2>1, <2>2
    <2> QED BY <2>1, <2>3, <2>4, <2>5
<1>7. tradeStore' = tradeStore /\ wallet' = wallet
    BY DEF Restart
<1> QED BY <1>3, <1>4, <1>5, <1>6, <1>7 DEF TypeOK

\* Every step keeps the types, if every suspended call is where TickShape says.
LEMMA TypeStep ==
    ASSUME TypeOK, \A t \in TickCall : TickShape(t), [Next]_vars PROVE TypeOK'
<1>1. CASE SignalStep
    BY <1>1, SignalType
<1>2. CASE VisitStep
    BY <1>2, VisitType
<1>3. ASSUME NEW t \in TickCall, AwaitReturns(t) PROVE TypeOK'
    BY <1>3, AwaitType
<1>4. CASE ResetIntegrityHalt
    BY <1>4 DEF ResetIntegrityHalt, TypeOK
<1>5. CASE WalletStopChanges
    BY <1>5 DEF WalletStopChanges, TypeOK
<1>6. CASE Restart
    BY <1>6, RestartType
<1>7. CASE UNCHANGED vars
    BY <1>7 DEF vars, TypeOK
<1> QED BY <1>1, <1>2, <1>3, <1>4, <1>5, <1>6, <1>7 DEF Next

-----------------------------------------------------------------------------
(* The inductive invariant *)

\* The part of IInv beside the types.
Rest ==
    /\ SingleEntryPerPosition
    /\ ClosedMeansSold
    /\ \A t \in TickCall : TickInv(t)
    /\ \A o \in Position : PositionInv(o)

\* The invariant holds in a process that has just started with an empty store.
LEMMA InvInit == Init => IInv
<1> SUFFICES ASSUME Init PROVE IInv
    OBVIOUS
<1>1. TypeOK
    BY TypeInit
<1>2. /\ \A o \in Position : pos[o] = FreePosition /\ \A k \in RowKind : tradeStore[o][k] = NoRow
      /\ \A t \in TickCall : tick[t] = Idle
    BY DEF Init
<1> QED BY <1>1, <1>2 DEF IInv, SingleEntryPerPosition, ClosedMeansSold, TickInv, PositionInv,
           FreePosition, NoRow, Idle, Entering, Critical, RowKind

\* A suspended call's object is neither free nor, once bought, a STALK.
LEMMA ShapeFromInv ==
    ASSUME IInv, NEW t \in TickCall
    PROVE  /\ TickShape(t)
           /\ tick[t].pc # "idle" => pos[tick[t].pos].state # "free"
BY DEF IInv, TypeOK, TickInv, PositionInv, TickShape, TickState, Entered

\* A new STALK uses an object no suspended call, row or token refers to.
LEMMA SignalRest == IInv /\ SignalStep => Rest'
<1> SUFFICES ASSUME IInv, NEW p \in Pair,
                    HandleSignal(p) \/ SurvivalRejects(p) \/ SurvivalApproves(p)
             PROVE  Rest'
    BY DEF SignalStep
<1>1. UNCHANGED <<tick, closeMutex, tradeStore, wallet>>
    BY DEF HandleSignal, SurvivalRejects, SurvivalApproves, SurvivalReturns
<1>2. CASE UNCHANGED pos
    BY <1>1, <1>2 DEF Rest, IInv, SingleEntryPerPosition, ClosedMeansSold, TickInv, PositionInv
<1>3. ASSUME NEW o \in Position, NEW k, CreateStalk(o, p, k) PROVE Rest'
    <2>1. /\ pos' = [pos EXCEPT ![o] = NewStalk(p, k)] /\ Fresh(o)
          /\ pos'[o] = NewStalk(p, k)
        BY <1>3 DEF CreateStalk, IInv, TypeOK
    <2>2. \A t \in TickCall : tick[t].pc # "idle" => pos'[tick[t].pos] = pos[tick[t].pos]
        BY <2>1, ShapeFromInv DEF Fresh, IInv, TypeOK
    <2>3. SingleEntryPerPosition'
        BY <1>1 DEF SingleEntryPerPosition, IInv
    <2>4. ClosedMeansSold'
        BY <1>1, <2>1 DEF ClosedMeansSold, IInv, TypeOK, NewStalk
    <2>5. ASSUME NEW t \in TickCall PROVE TickInv(t)'
        BY <1>1, <2>2 DEF TickInv, IInv, Entering, Critical
    <2>6. ASSUME NEW q \in Position PROVE PositionInv(q)'
        BY <1>1, <2>1 DEF PositionInv, IInv, TypeOK, NewStalk, Fresh, RowKind
    <2> QED BY <2>3, <2>4, <2>5, <2>6 DEF Rest
<1> QED BY <1>2, <1>3 DEF HandleSignal, SurvivalRejects, SurvivalApproves

\* A dropped STALK takes no suspended call's object away, unless the call that
\* buys it still holds it.
LEMMA DiscardRest ==
    ASSUME IInv, NEW o \in Position, pos[o].state = "STALK", Discard(o),
           UNCHANGED <<tick, closeMutex, tradeStore, wallet>>
    PROVE  Rest'
<1>1. CASE pos[o].enteringLock
    BY <1>1 DEF Discard, Rest, IInv, SingleEntryPerPosition, ClosedMeansSold, TickInv, PositionInv
<1>2. CASE ~pos[o].enteringLock
    <2>1. pos' = [pos EXCEPT ![o] = FreePosition] /\ pos'[o] = FreePosition
        BY <1>2 DEF Discard, IInv, TypeOK
    <2>2. ASSUME NEW t \in TickCall, tick[t].pc # "idle" PROVE tick[t].pos # o
        BY <1>2, <2>2 DEF IInv, TypeOK, TickInv, TickState, TickPc, Entering, Entered
    <2>3. ASSUME NEW t \in TickCall PROVE TickInv(t)'
        BY <2>1, <2>2 DEF TickInv, IInv, TypeOK, Entering, Critical
    <2>4. ASSUME NEW q \in Position PROVE PositionInv(q)'
        BY <2>1 DEF PositionInv, IInv, TypeOK, FreePosition, RowKind
    <2>5. ClosedMeansSold'
        BY <2>1 DEF ClosedMeansSold, IInv, TypeOK, FreePosition
    <2>6. SingleEntryPerPosition'
        BY DEF SingleEntryPerPosition, IInv
    <2> QED BY <2>3, <2>4, <2>5, <2>6 DEF Rest
<1> QED BY <1>1, <1>2

\* Marking a row changes neither its status nor its pair.
LEMMA MarkRowKeeps ==
    ASSUME TypeOK, NEW o \in Position, NEW written \in BOOLEAN, MarkRow(o, written)
    PROVE  \A q \in Position, k \in RowKind :
             /\ tradeStore'[q][k].status = tradeStore[q][k].status
             /\ tradeStore'[q][k].pair = tradeStore[q][k].pair
<1>1. CASE ~(written /\ pos[o].dbTradeId # "none")
    BY <1>1 DEF MarkRow
<1>2. CASE written /\ pos[o].dbTradeId # "none"
    <2> DEFINE j == pos[o].dbTradeId
    <2>1. tradeStore' = [tradeStore EXCEPT ![o][j].mfe = TRUE]
        BY <1>2 DEF MarkRow
    <2>2. ASSUME NEW q \in Position, NEW k \in RowKind
          PROVE  tradeStore[q][k] \in Row
        BY DEF TypeOK
    <2> QED BY <2>1, <2>2 DEF TypeOK, Row
<1> QED BY <1>1, <1>2

\* A visit that skips, enters, promotes or starts a close keeps the invariant.
LEMMA VisitRest == IInv /\ VisitStep => Rest'
<1> SUFFICES ASSUME IInv, NEW o \in Position,
                    \/ StalkSkip(o)
                    \/ StalkWalletStop(o)
                    \/ \E written \in BOOLEAN : Promote(o, written)
                    \/ WinnerTick(o)
                    \/ \E t \in TickCall : StalkEntry(t, o) \/ StartClose(t, o)
             PROVE  Rest'
    BY DEF VisitStep
<1>1. CASE StalkSkip(o)
    BY <1>1, DiscardRest DEF StalkSkip, Discardable
<1>2. CASE StalkWalletStop(o)
    BY <1>2, DiscardRest DEF StalkWalletStop
<1>3. ASSUME NEW written \in BOOLEAN, Promote(o, written) PROVE Rest'
    <2>1. /\ pos[o].state = "PROBE" /\ pos' = [pos EXCEPT ![o].state = "WINNER"]
          /\ UNCHANGED <<tick, closeMutex, wallet>>
        BY <1>3 DEF Promote, Promotable
    <2>2. \A q \in Position, k \in RowKind :
             /\ tradeStore'[q][k].status = tradeStore[q][k].status
             /\ tradeStore'[q][k].pair = tradeStore[q][k].pair
        BY <1>3, MarkRowKeeps DEF Promote, IInv
    <2>3. \A q \in Position :
             /\ pos'[q].state = IF q = o THEN "WINNER" ELSE pos[q].state
             /\ pos'[q].pair = pos[q].pair
             /\ pos'[q].enteringLock = pos[q].enteringLock
             /\ pos'[q].dbTradeId = pos[q].dbTradeId
        BY <2>1 DEF IInv, TypeOK, CupseyPosition
    <2>4. ASSUME NEW t \in TickCall PROVE TickInv(t)'
        BY <2>1, <2>2, <2>3 DEF TickInv, IInv, Entering, Critical, Entered
    <2>5. ASSUME NEW q \in Position PROVE PositionInv(q)'
        BY <2>1, <2>2, <2>3 DEF PositionInv, IInv
    <2>6. ClosedMeansSold'
        BY <2>1, <2>2, <2>3 DEF ClosedMeansSold, IInv
    <2>7. SingleEntryPerPosition'
        BY <2>1 DEF SingleEntryPerPosition, IInv
    <2> QED BY <2>4, <2>5, <2>6, <2>7 DEF Rest
<1>4. CASE WinnerTick(o)
    <2>1. UNCHANGED <<pos, tick, closeMutex, wallet>>
        BY <1>4 DEF WinnerTick
    <2>2. \A q \in Position, k \in RowKind :
             /\ tradeStore'[q][k].status = tradeStore[q][k].status
             /\ tradeStore'[q][k].pair = tradeStore[q][k].pair
        BY <1>4, MarkRowKeeps DEF WinnerTick, IInv
    <2>3. ASSUME NEW t \in TickCall PROVE TickInv(t)'
        BY <2>1, <2>2 DEF TickInv, IInv, Critical
    <2>4. ASSUME NEW q \in Position PROVE PositionInv(q)'
        BY <2>1, <2>2 DEF PositionInv, IInv
    <2>5. ClosedMeansSold' /\ SingleEntryPerPosition'
        BY <2>1, <2>2 DEF ClosedMeansSold, SingleEntryPerPosition, IInv
    <2> QED BY <2>3, <2>4, <2>5 DEF Rest
<1>5. ASSUME NEW t \in TickCall, StalkEntry(t, o) PROVE Rest'
    <2>1. /\ pos[o].state = "STALK" /\ ~pos[o].enteringLock /\ tick[t].pc = "idle"
          /\ UNCHANGED <<closeMutex, tradeStore, wallet>>
        BY <1>5 DEF StalkEntry, MayEnter
    <2>2. \A q \in Position :
             /\ pos'[q].state = IF q = o /\ ~Live THEN "PROBE" ELSE pos[q].state
             /\ pos'[q].pair = pos[q].pair
             /\ pos'[q].enteringLock = (q = o \/ pos[q].enteringLock)
             /\ pos'[q].dbTradeId = pos[q].dbTradeId
        BY <1>5 DEF StalkEntry, IInv, TypeOK, CupseyPosition
    <2>3. /\ tick'[t].pos = o /\ tick'[t].pc = IF Live THEN "buy" ELSE "insert"
          /\ \A u \in TickCall : u # t => tick'[u] = tick[u]
        BY <1>5 DEF StalkEntry, IInv, TypeOK, Idle
    <2>4. ASSUME NEW u \in TickCall, u # t, tick[u].pc # "idle" PROVE tick[u].pos # o
        BY <2>1, <2>4 DEF IInv, TypeOK, TickInv, TickState, TickPc, Entering, Entered
    <2>5. ASSUME NEW u \in TickCall PROVE TickInv(u)'
        <3>1. CASE u = t
            <4>1. pos'[o].enteringLock
                BY <2>2
            <4> QED BY <2>1, <2>2, <2>3, <3>1, <4>1 DEF TickInv, Entering, Critical, Entered
        <3>2. CASE u # t /\ tick[u].pc # "idle"
            <4>1. tick[u].pos \in Position /\ tick[u].pos # o
                BY <2>4, <3>2, ShapeFromInv DEF TickShape
            <4>2. pos'[tick[u].pos] = pos[tick[u].pos]
                BY <1>5, <4>1 DEF StalkEntry, IInv, TypeOK
            <4> QED BY <2>1, <2>3, <3>2, <4>2 DEF TickInv, IInv, Critical
        <3>3. CASE u # t /\ tick[u].pc = "idle"
            BY <2>3, <3>3 DEF TickInv, Entering, Critical
        <3> QED BY <3>1, <3>2, <3>3
    <2>6. ASSUME NEW q \in Position PROVE PositionInv(q)'
        BY <2>1, <2>2 DEF PositionInv, IInv
    <2>7. ClosedMeansSold'
        BY <2>1, <2>2 DEF ClosedMeansSold, IInv
    <2>8. SingleEntryPerPosition'
        BY <2>3, <2>4 DEF SingleEntryPerPosition, IInv
    <2> QED BY <2>5, <2>6, <2>7, <2>8 DEF Rest
<1>6. ASSUME NEW t \in TickCall, StartClose(t, o) PROVE Rest'
    <2>1. /\ pos[o].state \in {"PROBE", "WINNER"} /\ tick[t].pc = "idle"
          /\ closeMutex' = Append(closeMutex, t)
          /\ UNCHANGED <<pos, tradeStore, wallet>>
        BY <1>6 DEF StartClose
    <2>2. /\ tick'[t].pos = o /\ tick'[t].pc = "queued"
          /\ \A u \in TickCall : u # t => tick'[u] = tick[u]
        BY <1>6 DEF StartClose, IInv, TypeOK, Idle
    <2>3. closeMutex # <<>> => closeMutex' # <<>> /\ Head(closeMutex') = Head(closeMutex)
        BY <2>1 DEF IInv, TypeOK
    <2>4. ASSUME NEW u \in TickCall PROVE TickInv(u)'
        BY <2>1, <2>2, <2>3 DEF TickInv, IInv, Entering, Critical, Entered
    <2>5. ASSUME NEW q \in Position PROVE PositionInv(q)'
        BY <2>1 DEF PositionInv, IInv
    <2>6. ClosedMeansSold' /\ SingleEntryPerPosition'
        BY <2>1, <2>2 DEF ClosedMeansSold, SingleEntryPerPosition, IInv
    <2> QED BY <2>4, <2>5, <2>6 DEF Rest
<1> QED BY <1>1, <1>2, <1>3, <1>4, <1>5, <1>6

\* The calls other than the one whose promise settles: only the head of the queue
\* is inside serializeClose, and only one call is entering an object.
LEMMA OthersThanT ==
    ASSUME IInv, NEW t \in TickCall, NEW u \in TickCall, u # t
    PROVE  /\ tick[t].pc = "buy" /\ tick[u].pc # "idle" => tick[u].pos # tick[t].pos
           /\ tick[t].pc \in Critical \/ (closeMutex # <<>> /\ Head(closeMutex) = t)
                => tick[u].pc \notin Critical
<1>1. ASSUME tick[t].pc = "buy", tick[u].pc # "idle" PROVE tick[u].pos # tick[t].pos
    BY <1>1 DEF IInv, SingleEntryPerPosition, TickInv, Entered
<1>2. ASSUME tick[t].pc \in Critical \/ (closeMutex # <<>> /\ Head(closeMutex) = t)
      PROVE  tick[u].pc \notin Critical
    BY <1>2 DEF IInv, TickInv
<1> QED BY <1>1, <1>2

\* A buy that settles, either way, disturbs no other call and no other position.
LEMMA BuyRest ==
    ASSUME IInv, NEW t \in TickCall,
           BuySucceeds(t) \/ \E landed \in BOOLEAN : BuyFails(t, landed)
    PROVE  Rest'
<1> DEFINE o == tick[t].pos
<1>1. /\ tick[t].pc = "buy" /\ o \in Position /\ pos[o].state = "STALK" /\ pos[o].enteringLock
      /\ pos[o].pair \in Pair
    BY DEF BuySucceeds, BuyFails, IInv, TickInv, PositionInv, Entering
<1>2. /\ UNCHANGED <<closeMutex, tradeStore>>
      /\ \A u \in TickCall : u # t => tick'[u] = tick[u]
      /\ \A q \in Position : q # o => pos'[q] = pos[q]
    BY DEF BuySucceeds, BuyFails, IInv, TypeOK
<1>3. \A q \in Position, p \in Pair : q # o => (q \in wallet'[p] <=> q \in wallet[p])
    <2>1. wallet \in [Pair -> SUBSET Position]
        BY DEF IInv, TypeOK
    <2>2. wallet' \in {wallet, [wallet EXCEPT ![pos[o].pair] = @ \cup {o}]}
        BY DEF BuySucceeds, BuyFails
    <2> QED BY <1>1, <2>1, <2>2
<1>4. /\ \/ /\ pos'[o].state = "PROBE" /\ pos'[o].enteringLock
            /\ tick'[t].pc = "insert"
         \/ pos'[o].state = "free" /\ tick'[t].pc = "idle"
      /\ pos'[o].pair \in {pos[o].pair, NoPair}
      /\ pos'[o].state = "PROBE" => pos'[o].pair = pos[o].pair /\ tick'[t].pos = o
      /\ pos'[o].dbTradeId \in {pos[o].dbTradeId, "none"}
      /\ pos'[o].state = "free" => pos'[o].dbTradeId = "none"
    <2>0. pos[o] \in CupseyPosition /\ tick[t] \in TickState
        BY <1>1 DEF IInv, TypeOK
    <2>1. CASE BuySucceeds(t)
        <3>1. /\ pos'[o] = [pos[o] EXCEPT !.state = "PROBE"]
              /\ tick'[t] = [tick[t] EXCEPT !.pc = "insert"]
            BY <1>1, <2>1 DEF BuySucceeds, IInv, TypeOK
        <3> QED BY <1>1, <2>0, <3>1 DEF CupseyPosition, TickState
    <2>2. CASE \E landed \in BOOLEAN : BuyFails(t, landed)
        <3>1. pos'[o] = FreePosition /\ tick'[t] = Idle
            BY <1>1, <2>2 DEF BuyFails, IInv, TypeOK
        <3> QED BY <3>1 DEF FreePosition, Idle
    <2> QED BY <2>1, <2>2
<1>5. ASSUME NEW u \in TickCall PROVE TickInv(u)'
    <2>1. CASE u = t
        BY <1>1, <1>4, <2>1 DEF TickInv, Entering, Critical, Entered
    <2>2. CASE u # t /\ tick[u].pc # "idle"
        <3> DEFINE q == tick[u].pos
        <3>1. q \in Position /\ q # o /\ pos[q].pair \in Pair
            BY <1>1, <2>2, OthersThanT, ShapeFromInv DEF TickShape
        <3>2. pos'[q] = pos[q] /\ tick'[u] = tick[u]
            BY <1>2, <2>2, <3>1
        <3>3. q \in wallet'[pos[q].pair] <=> q \in wallet[pos[q].pair]
            BY <1>3, <3>1
        <3> QED BY <1>2, <3>2, <3>3 DEF TickInv, IInv
    <2>3. CASE u # t /\ tick[u].pc = "idle"
        BY <1>2, <2>3 DEF TickInv, Entering, Critical
    <2> QED BY <2>1, <2>2, <2>3
<1>6. ASSUME NEW q \in Position PROVE PositionInv(q)'
    <2>1. CASE q = o
        BY <1>1, <1>2, <1>4, <2>1 DEF PositionInv, IInv, RowKind
    <2>2. CASE q # o
        BY <1>2, <1>3, <2>2 DEF PositionInv, IInv
    <2> QED BY <2>1, <2>2
<1>7. ClosedMeansSold'
    <2> SUFFICES ASSUME Live, NEW q \in Position
                 PROVE  /\ pos'[q].state = "CLOSED" => q \notin wallet'[pos'[q].pair]
                        /\ \A k \in RowKind : tradeStore'[q][k].status = "CLOSED"
                              => q \notin wallet'[tradeStore'[q][k].pair]
        BY DEF ClosedMeansSold
    <2>1. CASE q = o
        BY <1>1, <1>2, <1>4, <2>1 DEF PositionInv, IInv
    <2>2. CASE q # o
        <3>1. /\ pos[q].state = "CLOSED" => pos[q].pair \in Pair
              /\ \A k \in RowKind : tradeStore[q][k].status = "CLOSED" => tradeStore[q][k].pair \in Pair
            BY DEF IInv, PositionInv
        <3> QED BY <1>2, <1>3, <2>2, <3>1 DEF ClosedMeansSold, IInv
    <2> QED BY <2>1, <2>2
<1>8. SingleEntryPerPosition'
    BY <1>1, <1>2, <1>4 DEF SingleEntryPerPosition, IInv
<1> QED BY <1>5, <1>6, <1>7, <1>8 DEF Rest

\* Recording the entry, or failing to, disturbs no other call and no token.
LEMMA InsertRest ==
    ASSUME IInv, NEW t \in TickCall, InsertSucceeds(t) \/ InsertFails(t)
    PROVE  Rest'
<1> DEFINE o == tick[t].pos
<1>1. /\ tick[t].pc = "insert" /\ o \in Position
      /\ pos[o].state \in Entered /\ pos[o].pair \in Pair /\ pos[o] \in CupseyPosition
    BY DEF InsertSucceeds, InsertFails, IInv, TickInv, PositionInv, Entered, TypeOK
<1>2. /\ UNCHANGED <<closeMutex, wallet>>
      /\ tick'[t] = Idle
      /\ \A u \in TickCall : u # t => tick'[u] = tick[u]
    BY DEF InsertSucceeds, InsertFails, IInv, TypeOK
<1>3. SingleEntryPerPosition'
    BY <1>2 DEF SingleEntryPerPosition, IInv, Idle
<1>4. CASE InsertFails(t)
    <2>1. UNCHANGED <<pos, tradeStore>>
        BY <1>4 DEF InsertFails
    <2>2. ASSUME NEW u \in TickCall PROVE TickInv(u)'
        BY <1>2, <2>1 DEF TickInv, IInv, Entering, Critical, Idle
    <2>3. ClosedMeansSold' /\ \A q \in Position : PositionInv(q)'
        BY <1>2, <2>1 DEF ClosedMeansSold, PositionInv, IInv
    <2> QED BY <1>3, <2>2, <2>3 DEF Rest
<1>5. CASE InsertSucceeds(t)
    <2>1. \A q \in Position :
             /\ pos'[q].state = pos[q].state
             /\ pos'[q].pair = pos[q].pair
             /\ pos'[q].enteringLock = pos[q].enteringLock
             /\ pos'[q].dbTradeId = IF q = o THEN "entry" ELSE pos[q].dbTradeId
        BY <1>1, <1>5 DEF InsertSucceeds, IInv, TypeOK, CupseyPosition
    <2>2. \A q \in Position, k \in RowKind :
             IF q = o /\ k = "entry"
             THEN tradeStore'[q][k].status = "OPEN" /\ tradeStore'[q][k].pair = pos[o].pair
             ELSE tradeStore'[q][k] = tradeStore[q][k]
        BY <1>1, <1>5 DEF InsertSucceeds, IInv, TypeOK, RowKind
    <2>3. ASSUME NEW u \in TickCall PROVE TickInv(u)'
        <3>1. CASE u = t
            BY <1>2, <3>1 DEF TickInv, Entering, Critical, Idle
        <3>2. CASE u # t /\ tick[u].pc # "idle"
            <4> DEFINE q == tick[u].pos
            <4>1. q \in Position /\ tick'[u] = tick[u] /\ TickInv(u)
                BY <1>2, <3>2 DEF IInv, TickInv
            <4>2. ASSUME tick[u].pc = "closeTrade"
                  PROVE  tradeStore'[q][tick[u].row].pair = pos[q].pair
                BY <2>2, <4>1, <4>2 DEF TickInv
            <4> QED BY <1>2, <2>1, <4>1, <4>2 DEF TickInv
        <3>3. CASE u # t /\ tick[u].pc = "idle"
            BY <1>2, <3>3 DEF TickInv, Entering, Critical
        <3> QED BY <3>1, <3>2, <3>3
    <2>4. ASSUME NEW q \in Position PROVE PositionInv(q)'
        <3>1. PositionInv(q)
            BY DEF IInv
        <3>2. CASE q # o
            BY <1>2, <2>1, <2>2, <3>1, <3>2 DEF PositionInv
        <3>3. CASE q = o
            BY <1>1, <1>2, <2>1, <2>2, <3>1, <3>3 DEF PositionInv, Entered, RowKind
        <3> QED BY <3>2, <3>3
    <2>5. ClosedMeansSold'
        BY <1>2, <2>1, <2>2 DEF ClosedMeansSold, IInv
    <2> QED BY <1>3, <2>3, <2>4, <2>5 DEF Rest
<1> QED BY <1>4, <1>5

\* Only the state of position o changes, to st.
OnlyStateMoves(o, st) ==
    \A q \in Position :
        /\ pos'[q].state = IF q = o THEN st ELSE pos[q].state
        /\ pos'[q].pair = pos[q].pair
        /\ pos'[q].enteringLock = pos[q].enteringLock
        /\ pos'[q].dbTradeId = pos[q].dbTradeId

\* What a step inside serializeClose keeps, whichever it is: the running call is
\* alone there, it moves only the state of its own position, and the wallet
\* only loses tokens.
LEMMA CloseFrame ==
    ASSUME IInv, NEW t \in TickCall, NEW st \in Entered,
           tick[t].pc \in Critical \/ (closeMutex # <<>> /\ Head(closeMutex) = t),
           tick[t].pos \in Position, pos[tick[t].pos].state \in Entered,
           OnlyStateMoves(tick[t].pos, st),
           \A u \in TickCall : u # t => tick'[u] = tick[u],
           tick'[t].pc \notin Entering,
           TickInv(t)',
           \A q \in Position, k \in RowKind : q # tick[t].pos => tradeStore'[q][k] = tradeStore[q][k],
           \A k \in RowKind :
             LET o == tick[t].pos IN
             /\ tradeStore'[o][k].status # "absent" => tradeStore'[o][k].pair \in Pair
             /\ pos[o].dbTradeId = k => tradeStore'[o][k].pair = pos[o].pair
             /\ Live /\ tradeStore'[o][k].status = "CLOSED" =>
                  tick[t].pos \notin wallet'[tradeStore'[o][k].pair],
           \A q \in Position, p \in Pair : q \in wallet'[p] => q \in wallet[p],
           Live /\ st = "CLOSED" => tick[t].pos \notin wallet'[pos[tick[t].pos].pair]
    PROVE  Rest'
<1> DEFINE o == tick[t].pos
<1>1. ASSUME NEW u \in TickCall PROVE TickInv(u)'
    <2>1. CASE u = t
        BY <2>1
    <2>2. CASE u # t
        <3>1. tick[u].pc \notin Critical /\ tick'[u] = tick[u] /\ TickInv(u)
            BY <2>2, OthersThanT DEF IInv
        <3> QED BY <3>1 DEF OnlyStateMoves, TickInv, Entered, Entering, Critical
    <2> QED BY <2>1, <2>2
<1>2. ASSUME NEW q \in Position PROVE PositionInv(q)'
    <2>1. PositionInv(q)
        BY DEF IInv
    <2>2. CASE q = o
        BY <2>1, <2>2 DEF OnlyStateMoves, PositionInv, Entered
    <2>3. CASE q # o
        BY <2>1, <2>3 DEF OnlyStateMoves, PositionInv
    <2> QED BY <2>2, <2>3
<1>3. ClosedMeansSold'
    <2> SUFFICES ASSUME Live, NEW q \in Position
                 PROVE  /\ pos'[q].state = "CLOSED" => q \notin wallet'[pos'[q].pair]
                        /\ \A k \in RowKind : tradeStore'[q][k].status = "CLOSED"
                              => q \notin wallet'[tradeStore'[q][k].pair]
        BY DEF ClosedMeansSold
    <2>1. CASE q = o
        BY <2>1 DEF OnlyStateMoves
    <2>2. CASE q # o
        <3>1. /\ pos[q].state = "CLOSED" => pos[q].pair \in Pair
              /\ \A k \in RowKind : tradeStore[q][k].status = "CLOSED" => tradeStore[q][k].pair \in Pair
            BY DEF IInv, PositionInv
        <3> QED BY <2>2, <3>1 DEF OnlyStateMoves, ClosedMeansSold, IInv
    <2> QED BY <2>1, <2>2
<1>4. SingleEntryPerPosition'
    BY DEF SingleEntryPerPosition, IInv, Entering
<1> QED BY <1>1, <1>2, <1>3, <1>4 DEF Rest

\* Every step inside serializeClose keeps the invariant.
LEMMA CloseRest ==
    ASSUME IInv, NEW t \in TickCall,
           \/ CloseBegins(t)
           \/ BalanceRead(t)
           \/ SellSucceeds(t)
           \/ \E landed \in BOOLEAN : SellFails(t, landed)
           \/ CloseInsertSucceeds(t)
           \/ CloseTradeSucceeds(t)
           \/ ClosePersistFails(t)
    PROVE  Rest'
<1> DEFINE o == tick[t].pos
<1>1. /\ tick[t].pc \in Critical \/ (closeMutex # <<>> /\ Head(closeMutex) = t)
      /\ o \in Position /\ pos[o].state \in Entered /\ pos[o].pair \in Pair
      /\ tick[t] \in TickState /\ pos[o] \in CupseyPosition
      /\ TickInv(t) /\ PositionInv(o)
    <2>1. tick[t].pc \in Critical \/ (tick[t].pc = "queued" /\ closeMutex # <<>> /\ Head(closeMutex) = t)
        BY DEF CloseBegins, BalanceRead, SellSucceeds, SellFails, CloseInsertSucceeds,
               CloseTradeSucceeds, ClosePersistFails, Critical
    <2>2. TickInv(t) /\ o \in Position /\ pos[o].state \in Entered
        BY <2>1 DEF IInv, TickInv, Critical
    <2>3. tick[t] \in TickState /\ pos[o] \in CupseyPosition /\ PositionInv(o)
        BY <2>2 DEF IInv, TypeOK
    <2>4. pos[o].pair \in Pair
        BY <2>2, <2>3 DEF PositionInv, Entered
    <2>5. tick[t].pc \in Critical \/ (closeMutex # <<>> /\ Head(closeMutex) = t)
        BY <2>1
    <2> QED BY <2>2, <2>3, <2>4, <2>5
<1>2. \A u \in TickCall : u # t => tick'[u] = tick[u]
    BY DEF IInv, TypeOK, CloseBegins, BalanceRead, SellSucceeds, SellFails, CloseInsertSucceeds,
           CloseTradeSucceeds, ClosePersistFails, CloseEnds, Leave, PersistClose
<1>3. ASSUME Leave(t) PROVE tick'[t] = Idle /\ tick'[t].pc \notin Entering /\ TickInv(t)'
    <2>1. tick'[t] = Idle
        BY <1>3 DEF Leave, IInv, TypeOK
    <2> QED BY <2>1 DEF Idle, TickInv, Entering, Critical
<1>4. \A k \in RowKind :
         /\ tradeStore[o][k].status # "absent" => tradeStore[o][k].pair \in Pair
         /\ pos[o].dbTradeId = k => tradeStore[o][k].pair = pos[o].pair
         /\ Live /\ tradeStore[o][k].status = "CLOSED" => o \notin wallet[tradeStore[o][k].pair]
    BY <1>1 DEF PositionInv, ClosedMeansSold, IInv
<1>5. ASSUME NEW st \in Entered, pos' = [pos EXCEPT ![o].state = st]
      PROVE  OnlyStateMoves(o, st)
    BY <1>5 DEF OnlyStateMoves, IInv, TypeOK, CupseyPosition
<1>6. ASSUME UNCHANGED pos PROVE OnlyStateMoves(o, pos[o].state)
    BY <1>6 DEF OnlyStateMoves
\* once CLOSED, the close goes on with the row the object knows
<1>7. ASSUME tick' = PersistClose(t), OnlyStateMoves(o, "CLOSED"),
             UNCHANGED <<closeMutex, tradeStore>>
      PROVE  tick'[t].pc \notin Entering /\ TickInv(t)'
    <2> DEFINE row == pos[o].dbTradeId
    <2>1. /\ tick'[t].pos = o /\ tick'[t].row = row
          /\ tick'[t].pc = IF row = "none" THEN "closeInsert" ELSE "closeTrade"
        BY <1>1, <1>7 DEF PersistClose, IInv, TypeOK, TickState
    <2>2. row # "none" => row \in RowKind /\ tradeStore[o][row].pair = pos[o].pair
        BY <1>1, <1>4 DEF CupseyPosition
    <2>3. closeMutex # <<>> /\ Head(closeMutex) = t
        BY <1>1 DEF TickInv
    <2>4. pos'[o].state = "CLOSED" /\ pos'[o].pair = pos[o].pair
        BY <1>1, <1>7 DEF OnlyStateMoves
    <2> QED BY <1>1, <1>7, <2>1, <2>2, <2>3, <2>4 DEF TickInv, Entering, Critical, Entered
\* the whole balance that was read leaves the wallet
<1>8. ASSUME wallet' = SoldWallet(t)
      PROVE  /\ \A q \in Position, p \in Pair : q \in wallet'[p] => q \in wallet[p]
             /\ tick[t].pc = "sell" => o \notin wallet'[pos[o].pair]
    BY <1>1, <1>8 DEF SoldWallet, IInv, TypeOK, TickInv
<1>9. CASE CloseBegins(t)
    <2>1. UNCHANGED <<tradeStore, wallet>>
        BY <1>9 DEF CloseBegins
    <2>2. CASE AlreadyClosed(o)
        <3>1. Leave(t) /\ UNCHANGED pos /\ pos[o].state = "CLOSED"
            BY <1>9, <2>2 DEF CloseBegins, AlreadyClosed
        <3>2. Live => o \notin wallet[pos[o].pair]
            BY <1>1, <3>1 DEF IInv, ClosedMeansSold
        <3> QED BY <1>1, <1>2, <1>3, <1>4, <1>6, <2>1, <3>1, <3>2, CloseFrame
    <2>3. CASE ~AlreadyClosed(o) /\ Live
        <3>1. /\ UNCHANGED <<pos, closeMutex>> /\ pos[o].state \in {"PROBE", "WINNER"}
              /\ tick' = [tick EXCEPT ![t].pc = "balance", ![t].prev = pos[o].state]
              /\ closeMutex # <<>> /\ Head(closeMutex) = t
            BY <1>1, <1>9, <2>3 DEF CloseBegins, AlreadyClosed, Entered
        <3>2. tick'[t].pc = "balance" /\ tick'[t].prev = pos[o].state /\ tick'[t].pos = o
            BY <1>1, <3>1 DEF IInv, TypeOK, TickState
        <3>3. tick'[t].pc \notin Entering /\ TickInv(t)'
            BY <1>1, <2>1, <3>1, <3>2 DEF TickInv, Entering, Critical
        <3> QED BY <1>1, <1>2, <1>4, <1>6, <2>1, <3>1, <3>3, CloseFrame
    <2>4. CASE ~AlreadyClosed(o) /\ ~Live
        <3>1. /\ pos' = [pos EXCEPT ![o].state = "CLOSED"]
              /\ tick' = PersistClose(t) /\ UNCHANGED closeMutex
            BY <1>9, <2>4 DEF CloseBegins
        <3>2. "CLOSED" \in Entered /\ OnlyStateMoves(o, "CLOSED")
            BY <1>5, <3>1 DEF Entered
        <3>3. closeMutex # <<>> /\ Head(closeMutex) = t
            BY <1>9 DEF CloseBegins
        <3>4. tick'[t].pc \notin Entering /\ TickInv(t)'
            BY <1>7, <2>1, <3>1, <3>2
        <3> QED BY <1>1, <1>2, <1>4, <2>1, <2>4, <3>2, <3>4, CloseFrame
    <2> QED BY <2>2, <2>3, <2>4
<1>10. CASE BalanceRead(t)
    <2>1. /\ UNCHANGED <<pos, closeMutex, tradeStore, wallet>> /\ tick[t].pc = "balance"
          /\ tick'[t].pc = "sell" /\ tick'[t].pos = o /\ tick'[t].prev = tick[t].prev
          /\ tick'[t].seen = wallet[pos[o].pair]
        BY <1>1, <1>10 DEF BalanceRead, IInv, TypeOK, TickState
    <2>2. tick'[t].pc \notin Entering /\ TickInv(t)'
        BY <1>1, <2>1 DEF TickInv, Entering, Critical
    <2>3. Live /\ pos[o].state = "CLOSED" => o \notin wallet[pos[o].pair]
        BY <1>1 DEF IInv, ClosedMeansSold
    <2> QED BY <1>1, <1>2, <1>4, <1>6, <2>1, <2>2, <2>3, CloseFrame
<1>11. CASE SellSucceeds(t)
    <2>1. /\ pos' = [pos EXCEPT ![o].state = "CLOSED"] /\ wallet' = SoldWallet(t)
          /\ tick' = PersistClose(t) /\ tick[t].pc = "sell"
          /\ UNCHANGED <<closeMutex, tradeStore>>
        BY <1>11 DEF SellSucceeds
    <2>2. "CLOSED" \in Entered /\ OnlyStateMoves(o, "CLOSED")
        BY <1>5, <2>1 DEF Entered
    <2>3. tick'[t].pc \notin Entering /\ TickInv(t)'
        BY <1>7, <2>1, <2>2
    <2> QED BY <1>1, <1>2, <1>4, <1>8, <2>1, <2>2, <2>3, CloseFrame
<1>12. ASSUME NEW landed \in BOOLEAN, SellFails(t, landed) PROVE Rest'
    <2>1. /\ pos' = [pos EXCEPT ![o].state = tick[t].prev] /\ Leave(t)
          /\ tick[t].pc \in {"balance", "sell"}
          /\ wallet' \in {wallet, SoldWallet(t)} /\ UNCHANGED tradeStore
        BY <1>12 DEF SellFails, StateAfterFailedSell
    <2>2. tick[t].prev \in {"PROBE", "WINNER"}
        BY <1>1, <2>1 DEF TickInv
    <2>3. tick[t].prev \in Entered /\ tick[t].prev # "CLOSED" /\ OnlyStateMoves(o, tick[t].prev)
        BY <1>5, <2>1, <2>2 DEF Entered
    <2>4. \A q \in Position, p \in Pair : q \in wallet'[p] => q \in wallet[p]
        BY <1>8, <2>1
    <2>5. \A k \in RowKind :
             /\ tradeStore'[o][k].status # "absent" => tradeStore'[o][k].pair \in Pair
             /\ pos[o].dbTradeId = k => tradeStore'[o][k].pair = pos[o].pair
             /\ Live /\ tradeStore'[o][k].status = "CLOSED" =>
                  o \notin wallet'[tradeStore'[o][k].pair]
        BY <1>1, <1>4, <2>1, <2>4
    <2> QED BY <1>1, <1>2, <1>3, <2>1, <2>3, <2>4, <2>5, CloseFrame
<1>13. CASE CloseInsertSucceeds(t)
    <2>1. /\ UNCHANGED <<pos, closeMutex, wallet>> /\ tick[t].pc = "closeInsert"
          /\ tick'[t].pc = "closeTrade" /\ tick'[t].row = "close" /\ tick'[t].pos = o
        BY <1>1, <1>13 DEF CloseInsertSucceeds, IInv, TypeOK, TickState
    <2>2. \A q \in Position, k \in RowKind :
             IF q = o /\ k = "close"
             THEN tradeStore'[q][k].status = "OPEN" /\ tradeStore'[q][k].pair = pos[o].pair
             ELSE tradeStore'[q][k] = tradeStore[q][k]
        BY <1>1, <1>13 DEF CloseInsertSucceeds, IInv, TypeOK, RowKind
    <2>3. tick'[t].pc \notin Entering /\ TickInv(t)'
        BY <1>1, <2>1, <2>2 DEF TickInv, Entering, Critical, RowKind
    <2>4. Live /\ pos[o].state = "CLOSED" => o \notin wallet[pos[o].pair]
        BY <1>1 DEF IInv, ClosedMeansSold
    <2> QED BY <1>1, <1>2, <1>4, <1>6, <2>1, <2>2, <2>3, <2>4, CloseFrame
\* the close of the row: its position has been sold
<1>14. ASSUME CloseEnds(t), tick[t].pc \in Critical, pos[o].state = "CLOSED",
              \A q \in Position, k \in RowKind :
                 tradeStore'[q][k].pair = tradeStore[q][k].pair,
              \A q \in Position, k \in RowKind : q # o => tradeStore'[q][k] = tradeStore[q][k],
              \A k \in RowKind :
                 /\ tradeStore'[o][k].status # "absent" => tradeStore[o][k].pair \in Pair
                 /\ Live /\ tradeStore'[o][k].status = "CLOSED" =>
                      o \notin wallet[tradeStore[o][k].pair]
       PROVE  Rest'
    <2>1. UNCHANGED <<pos, wallet>> /\ Leave(t)
        BY <1>14 DEF CloseEnds
    <2>2. Live => o \notin wallet[pos[o].pair]
        BY <1>1, <1>14 DEF IInv, ClosedMeansSold
    <2> QED BY <1>1, <1>2, <1>3, <1>4, <1>6, <1>14, <2>1, <2>2, CloseFrame
<1>15. CASE CloseTradeSucceeds(t)
    <2> DEFINE j == tick[t].row
    <2>1. /\ CloseEnds(t) /\ tick[t].pc = "closeTrade" /\ pos[o].state = "CLOSED"
          /\ j \in RowKind /\ tradeStore[o][j].pair = pos[o].pair
          /\ tradeStore' = [tradeStore EXCEPT ![o][j].status = "CLOSED"]
        BY <1>1, <1>15 DEF CloseTradeSucceeds, TickInv
    <2>2. ASSUME NEW q \in Position, NEW k \in RowKind PROVE tradeStore[q][k] \in Row
        BY DEF IInv, TypeOK
    <2>3. \A q \in Position, k \in RowKind :
             /\ tradeStore'[q][k].pair = tradeStore[q][k].pair
             /\ q # o \/ k # j => tradeStore'[q][k] = tradeStore[q][k]
        BY <1>1, <2>1, <2>2 DEF IInv, TypeOK, Row
    <2>4. Live => o \notin wallet[tradeStore[o][j].pair]
        BY <1>1, <2>1 DEF IInv, ClosedMeansSold
    <2> QED BY <1>1, <1>4, <1>14, <2>1, <2>3, <2>4 DEF Critical
<1>16. CASE ClosePersistFails(t)
    <2>1. /\ CloseEnds(t) /\ tick[t].pc \in {"closeInsert", "closeTrade"}
          /\ pos[o].state = "CLOSED" /\ UNCHANGED tradeStore
        BY <1>1, <1>16 DEF ClosePersistFails, TickInv
    <2> QED BY <1>4, <1>14, <2>1 DEF Critical
<1> QED BY <1>9, <1>10, <1>11, <1>12, <1>13, <1>15, <1>16

\* After a restart no call is suspended, and what recovery rebuilds is open.
LEMMA RestartRest == IInv /\ Restart => Rest'
<1> SUFFICES ASSUME IInv, Restart PROVE Rest'
    OBVIOUS
<1>1. /\ \A t \in TickCall : tick'[t] = Idle
      /\ UNCHANGED <<tradeStore, wallet>>
    BY DEF Restart
<1>2. PICK sel \in SUBSET OpenTrades :
        pos' = [o \in Position |->
                  IF \E k \in RowKind : <<o, k>> \in sel
                  THEN RecoveredPosition(o, CHOOSE k \in RowKind : <<o, k>> \in sel)
                  ELSE FreePosition]
    BY DEF Restart
<1>3. ASSUME NEW o \in Position
      PROVE  \/ pos'[o] = FreePosition
             \/ \E k \in RowKind : /\ tradeStore[o][k].status = "OPEN"
                                   /\ tradeStore[o][k].pair \in Pair
                                   /\ pos'[o] = RecoveredPosition(o, k)
    <2>1. CASE ~\E k \in RowKind : <<o, k>> \in sel
        BY <1>2, <2>1
    <2>2. CASE \E k \in RowKind : <<o, k>> \in sel
        <3> DEFINE j == CHOOSE i \in RowKind : <<o, i>> \in sel
        <3>1. j \in RowKind /\ <<o, j>> \in sel
            BY <2>2
        <3>2. pos'[o] = RecoveredPosition(o, j)
            BY <1>2, <2>2
        <3> HIDE DEF j
        <3>3. tradeStore[o][j].status = "OPEN" /\ tradeStore[o][j].pair \in Pair
            BY <3>1 DEF OpenTrades, OpenRows
        <3> QED BY <3>1, <3>2, <3>3
    <2> QED BY <2>1, <2>2
<1>4. ASSUME NEW t \in TickCall PROVE TickInv(t)'
    BY <1>1 DEF TickInv, Idle, Entering, Critical
<1>5. ASSUME NEW o \in Position PROVE PositionInv(o)' /\ pos'[o].state \notin {"STALK", "CLOSED"}
    <2>1. PositionInv(o)
        BY DEF IInv
    <2>2. CASE pos'[o] = FreePosition
        BY <1>1, <2>1, <2>2 DEF PositionInv, FreePosition, RowKind
    <2>3. ASSUME NEW k \in RowKind, tradeStore[o][k].pair \in Pair, pos'[o] = RecoveredPosition(o, k)
          PROVE  PositionInv(o)' /\ pos'[o].state \notin {"STALK", "CLOSED"}
        BY <1>1, <2>1, <2>3 DEF PositionInv, RecoveredPosition
    <2> QED BY <1>3, <2>2, <2>3
<1>6. ClosedMeansSold'
    BY <1>1, <1>5 DEF ClosedMeansSold, IInv
<1>7. SingleEntryPerPosition'
    BY <1>1 DEF SingleEntryPerPosition, Idle
<1> QED BY <1>4, <1>5, <1>6, <1>7 DEF Rest

\* Every step keeps the invariant.
LEMMA InvStep == IInv /\ [Next]_vars => IInv'
<1> SUFFICES ASSUME IInv, [Next]_vars PROVE IInv'
    OBVIOUS
<1>1. TypeOK'
    <2>1. TypeOK /\ \A t \in TickCall : TickShape(t)
        BY ShapeFromInv DEF IInv
    <2> QED BY <2>1, TypeStep
<1>2. ASSUME UNCHANGED <<pos, tick, closeMutex, tradeStore, wallet>> PROVE Rest'
    BY <1>2 DEF Rest, IInv, SingleEntryPerPosition, ClosedMeansSold, TickInv, PositionInv
<1>3. Rest'
    <2>1. CASE SignalStep
        BY <2>1, SignalRest
    <2>2. CASE VisitStep
        BY <2>2, VisitRest
    <2>3. ASSUME NEW t \in TickCall, AwaitReturns(t) PROVE Rest'
        BY <2>3, BuyRest, InsertRest, CloseRest DEF AwaitReturns
    <2>4. CASE ResetIntegrityHalt
        BY <1>2, <2>4 DEF ResetIntegrityHalt
    <2>5. CASE WalletStopChanges
        BY <1>2, <2>5 DEF WalletStopChanges
    <2>6. CASE Restart
        BY <2>6, RestartRest
    <2>7. CASE UNCHANGED vars
        BY <1>2, <2>7 DEF vars
    <2> QED BY <2>1, <2>2, <2>3, <2>4, <2>5, <2>6, <2>7 DEF Next
<1> QED BY <1>1, <1>3 DEF IInv, Rest

-----------------------------------------------------------------------------
(* Theorems *)

\* The inductive invariant holds in every reachable state.
THEOREM Invariance == Spec => []IInv
BY InvInit, InvStep, PTL DEF Spec

\* Every reachable state of the lane has the types TypeOK gives it, for any
\* number of pairs, positions, overlapping calls and restarts.
THEOREM TypeCorrect == Spec => []TypeOK
<1>1. IInv => TypeOK
    BY DEF IInv
<1> QED BY <1>1, Invariance, PTL

\* No STALK is ever bought by two tick calls: the lock that the first sets before
\* it awaits the buy outlives whatever the others do to the map meanwhile.
THEOREM SingleEntry == Spec => []SingleEntryPerPosition
<1>1. IInv => SingleEntryPerPosition
    BY DEF IInv
<1> QED BY <1>1, Invariance, PTL

\* No live position, and no trade row, is ever CLOSED while its tokens are in the
\* wallet, whatever fails, overlaps or is lost at a restart.
THEOREM SoldBeforeClosed == Spec => []ClosedMeansSold
<1>1. IInv => ClosedMeansSold
    BY DEF IInv
<1> QED BY <1>1, Invariance, PTL

-----------------------------------------------------------------------------
(* The mutex: its states *)

ClosePc == {"queued"} \cup Critical
Closes == {t \in TickCall : tick[t].pc \in ClosePc}
Holds(t) == closeMutex # <<>> /\ Head(closeMutex) = t
InMutex(t) == \E i \in 1..Len(closeMutex) : closeMutex[i] = t

(* The mutex has the calls that are in a close, each once. *)
MutexInv ==
    /\ \A i, j \in 1..Len(closeMutex) : closeMutex[i] = closeMutex[j] => i = j
    /\ \A t \in TickCall : InMutex(t) <=> t \in Closes

(* The awaits a close has before it, at most. *)
StepsLeft(t) ==
    CASE tick[t].pc = "queued" -> 5
      [] tick[t].pc = "balance" -> 4
      [] tick[t].pc = "sell" -> 3
      [] tick[t].pc = "closeInsert" -> 2
      [] tick[t].pc = "closeTrade" -> 1
      [] OTHER -> 0

(* The awaits until a close is over: its own and those of the closes before it. *)
Place(t) == CHOOSE i \in 1..Len(closeMutex) : closeMutex[i] = t
CloseWait(t) ==
    IF tick[t].pc \in ClosePc THEN 5 * (Place(t) - 1) + StepsLeft(Head(closeMutex)) ELSE 0

\* Whenever a close waits, the call at the head of the mutex is in a close too, so that
\* something it awaits settles and lets the others in.
NoCloseStranded ==
    \A t \in TickCall :
        tick[t].pc \in ClosePc => /\ closeMutex # <<>> /\ Head(closeMutex) \in TickCall
                                  /\ tick[Head(closeMutex)].pc \in ClosePc

\* No step puts off a close that was asked for, and each that the call at the head of the
\* mutex takes, a throw or a position found closed included, brings it nearer its end.
ClosesWindDown ==
    [][\A t \in TickCall : tick[t].pc \in ClosePc =>
          /\ CloseWait(t)' <= CloseWait(t)
          /\ tick'[Head(closeMutex)].pc # tick[Head(closeMutex)].pc
               => CloseWait(t)' < CloseWait(t)]_vars

-----------------------------------------------------------------------------
(* The mutex: its steps *)

Winds ==
    \A t \in Closes \cap Closes' : tick'[t].pc = tick[t].pc \/ StepsLeft(t)' < StepsLeft(t)

StaysIn == UNCHANGED <<closeMutex, Closes, Inside>>

AsksFor(t) ==
    /\ t \notin Closes
    /\ closeMutex' = Append(closeMutex, t)
    /\ Closes' = Closes \cup {t} /\ Inside' = Inside

LetIn(t) ==
    /\ Holds(t) /\ t \in Closes /\ t \notin Inside
    /\ closeMutex' = closeMutex /\ Closes' = Closes
    /\ Inside' = Inside \cup {t}

GoesOut(t) ==
    /\ Holds(t) /\ t \in Closes
    /\ closeMutex' = Tail(closeMutex)
    /\ Closes' = Closes \ {t} /\ Inside' = Inside \ {t}

Forgets == closeMutex' = <<>> /\ Closes' = {} /\ Inside' = {}

MutexMove ==
    \/ StaysIn
    \/ \E t \in TickCall : AsksFor(t) \/ LetIn(t) \/ GoesOut(t)
    \/ Forgets

\* A call inside holds the mutex, alone.
LEMMA InsideHolds ==
    ASSUME IInv
    PROVE  \A t \in Inside : Holds(t) /\ Inside = {t} /\ t \in Closes
<1> SUFFICES ASSUME NEW t \in Inside PROVE Holds(t) /\ Inside = {t} /\ t \in Closes
    OBVIOUS
<1>1. \A u \in Inside : Holds(u)
    BY DEF IInv, TickInv, Inside, Critical, Holds
<1>2. \A u \in Inside : u = t
    BY <1>1 DEF Holds
<1> QED BY <1>1, <1>2 DEF Inside, Closes, ClosePc, Critical

\* A step that moves one call puts it where its pc says.
LEMMA OneMoves ==
    ASSUME NEW t \in TickCall, \A u \in TickCall : u # t => tick'[u] = tick[u]
    PROVE  /\ Closes' = IF tick'[t].pc \in ClosePc THEN Closes \cup {t} ELSE Closes \ {t}
           /\ Inside' = IF tick'[t].pc \in Critical THEN Inside \cup {t} ELSE Inside \ {t}
BY DEF Closes, Inside, Critical

\* A step that moves no call in or out of a close.
LEMMA NoneMoves ==
    ASSUME \A u \in TickCall : tick'[u].pc = tick[u].pc, closeMutex' = closeMutex
    PROVE  MutexMove /\ Winds
<1>1. Closes' = Closes /\ Inside' = Inside
    BY DEF Closes, Inside
<1> QED BY <1>1 DEF MutexMove, StaysIn, Winds, Closes

\* The call at the head returns.
LEMMA LeaveMoves ==
    ASSUME IInv, NEW t \in TickCall, Leave(t), tick[t].pc \in ClosePc, Holds(t)
    PROVE  MutexMove /\ Winds
<1>1. /\ closeMutex' = Tail(closeMutex) /\ tick'[t].pc = "idle"
      /\ \A u \in TickCall : u # t => tick'[u] = tick[u]
    BY DEF Leave, LeaveMutex, IInv, TypeOK, Idle
<1>2. Closes' = Closes \ {t} /\ Inside' = Inside \ {t} /\ t \in Closes
    BY <1>1, OneMoves DEF Closes, ClosePc, Critical
<1> QED BY <1>1, <1>2 DEF MutexMove, GoesOut, Winds, Closes

\* A call inside goes on to its next await.
LEMMA InsideMoves ==
    ASSUME NEW t \in TickCall, \A u \in TickCall : u # t => tick'[u] = tick[u],
           tick[t].pc \in Critical, tick'[t].pc \in Critical, closeMutex' = closeMutex,
           StepsLeft(t)' < StepsLeft(t)
    PROVE  MutexMove /\ Winds
<1>1. t \in Closes /\ t \in Inside
    BY DEF Closes, Inside, ClosePc, Critical
<1>2. Closes' = Closes /\ Inside' = Inside
    BY <1>1, OneMoves DEF ClosePc
<1> QED BY <1>2 DEF MutexMove, StaysIn, Winds, Closes

\* A call outside that stays outside.
LEMMA OutsideMoves ==
    ASSUME NEW t \in TickCall, \A u \in TickCall : u # t => tick'[u] = tick[u],
           tick[t].pc \notin ClosePc, tick'[t].pc \notin ClosePc, closeMutex' = closeMutex
    PROVE  MutexMove /\ Winds
<1>1. t \notin Closes /\ t \notin Inside
    BY DEF Closes, Inside, ClosePc, Critical
<1>2. Closes' = Closes \ {t} /\ Inside' = Inside \ {t}
    <2>1. tick'[t].pc \notin Critical
        BY DEF ClosePc
    <2> QED BY <2>1, OneMoves
<1> QED BY <1>1, <1>2 DEF MutexMove, StaysIn, Winds, Closes

\* What a call awaited settles.
LEMMA AwaitMoves ==
    ASSUME IInv, NEW t \in TickCall, AwaitReturns(t)
    PROVE  MutexMove /\ Winds
<1> USE DEF ClosePc, Critical
<1>1. TypeOK /\ tick \in [TickCall -> TickState]
    BY DEF IInv, TypeOK
<1>2. tick[t].pc \in Critical => Holds(t)
    BY DEF IInv, TickInv, Holds
<1>3. ASSUME NEW landed \in BOOLEAN, BuySucceeds(t) \/ BuyFails(t, landed) \/ InsertSucceeds(t) \/ InsertFails(t)
      PROVE  MutexMove /\ Winds
    <2>1. /\ tick[t].pc \in {"buy", "insert"} /\ tick'[t].pc \in {"idle", "insert"}
          /\ \A u \in TickCall : u # t => tick'[u] = tick[u]
          /\ closeMutex' = closeMutex
        BY <1>1, <1>3 DEF BuySucceeds, BuyFails, InsertSucceeds, InsertFails, Idle, TickState
    <2> QED BY <2>1, OutsideMoves
<1>p. ASSUME tick' = PersistClose(t)
      PROVE  /\ tick'[t].pc \in {"closeInsert", "closeTrade"}
             /\ \A u \in TickCall : u # t => tick'[u] = tick[u]
    BY <1>1, <1>p DEF PersistClose, TickState
<1>4. CASE CloseBegins(t)
    <2>1. tick[t].pc = "queued" /\ Holds(t)
        BY <1>4 DEF CloseBegins, Holds
    <2>2. CASE Leave(t)
        BY <2>1, <2>2, LeaveMoves
    <2>3. CASE ~Leave(t)
        <3>1. /\ tick'[t].pc \in {"balance", "closeInsert", "closeTrade"}
              /\ \A u \in TickCall : u # t => tick'[u] = tick[u]
              /\ closeMutex' = closeMutex
            BY <1>1, <1>4, <1>p, <2>3 DEF CloseBegins, TickState
        <3>2. t \in Closes /\ t \notin Inside
            BY <2>1 DEF Closes, Inside
        <3>3. Closes' = Closes /\ Inside' = Inside \cup {t}
            BY <3>1, <3>2, OneMoves
        <3>4. StepsLeft(t)' < StepsLeft(t)
            BY <2>1, <3>1 DEF StepsLeft
        <3> QED BY <2>1, <3>1, <3>2, <3>3, <3>4 DEF MutexMove, LetIn, Winds, Closes
    <2> QED BY <2>2, <2>3
<1>5. CASE BalanceRead(t)
    <2>1. /\ tick[t].pc = "balance" /\ tick'[t].pc = "sell" /\ closeMutex' = closeMutex
          /\ \A u \in TickCall : u # t => tick'[u] = tick[u]
        BY <1>1, <1>5 DEF BalanceRead, TickState
    <2>2. StepsLeft(t)' < StepsLeft(t)
        BY <2>1 DEF StepsLeft
    <2> QED BY <2>1, <2>2, InsideMoves
<1>6. CASE SellSucceeds(t)
    <2>1. /\ tick[t].pc = "sell" /\ closeMutex' = closeMutex
          /\ tick'[t].pc \in {"closeInsert", "closeTrade"}
          /\ \A u \in TickCall : u # t => tick'[u] = tick[u]
        BY <1>6, <1>p DEF SellSucceeds
    <2>2. StepsLeft(t)' < StepsLeft(t)
        BY <2>1 DEF StepsLeft
    <2> QED BY <2>1, <2>2, InsideMoves
<1>7. ASSUME NEW landed \in BOOLEAN, SellFails(t, landed) PROVE MutexMove /\ Winds
    BY <1>2, <1>7, LeaveMoves DEF SellFails
<1>8. CASE CloseInsertSucceeds(t)
    <2>1. /\ tick[t].pc = "closeInsert" /\ tick'[t].pc = "closeTrade" /\ closeMutex' = closeMutex
          /\ \A u \in TickCall : u # t => tick'[u] = tick[u]
        BY <1>1, <1>8 DEF CloseInsertSucceeds, TickState
    <2>2. StepsLeft(t)' < StepsLeft(t)
        BY <2>1 DEF StepsLeft
    <2> QED BY <2>1, <2>2, InsideMoves
<1>9. CASE CloseTradeSucceeds(t) \/ ClosePersistFails(t)
    BY <1>2, <1>9, LeaveMoves DEF CloseTradeSucceeds, ClosePersistFails, CloseEnds
<1> QED BY <1>3, <1>4, <1>5, <1>6, <1>7, <1>8, <1>9 DEF AwaitReturns

\* Every step moves the mutex in one of the five ways, and no close takes a step back.
LEMMA StepMoves ==
    ASSUME IInv, [Next]_vars
    PROVE  MutexMove /\ Winds
<1>1. tick \in [TickCall -> TickState]
    BY DEF IInv, TypeOK
<1>2. CASE UNCHANGED <<tick, closeMutex>>
    BY <1>2, NoneMoves
<1>3. CASE SignalStep
    BY <1>2, <1>3 DEF SignalStep, HandleSignal, SurvivalRejects, SurvivalApproves, SurvivalReturns
<1>4. ASSUME NEW o \in Position, NEW written \in BOOLEAN,
             StalkSkip(o) \/ StalkWalletStop(o) \/ Promote(o, written) \/ WinnerTick(o)
      PROVE  MutexMove /\ Winds
    BY <1>2, <1>4 DEF StalkSkip, StalkWalletStop, Promote, WinnerTick
<1>5. ASSUME NEW o \in Position, NEW t \in TickCall, StalkEntry(t, o) PROVE MutexMove /\ Winds
    <2>1. /\ tick[t].pc = "idle" /\ tick'[t].pc \in {"buy", "insert"} /\ closeMutex' = closeMutex
          /\ \A u \in TickCall : u # t => tick'[u] = tick[u]
        BY <1>1, <1>5 DEF StalkEntry, Idle
    <2> QED BY <2>1, OutsideMoves DEF ClosePc, Critical
<1>6. ASSUME NEW o \in Position, NEW t \in TickCall, StartClose(t, o) PROVE MutexMove /\ Winds
    <2>1. /\ tick[t].pc = "idle" /\ tick'[t].pc = "queued" /\ closeMutex' = Append(closeMutex, t)
          /\ \A u \in TickCall : u # t => tick'[u] = tick[u]
        BY <1>1, <1>6 DEF StartClose, Idle
    <2>2. t \notin Closes /\ t \notin Inside
        BY <2>1 DEF Closes, Inside, ClosePc, Critical
    <2>3. Closes' = Closes \cup {t} /\ Inside' = Inside \ {t}
        <3>1. tick'[t].pc \in ClosePc /\ tick'[t].pc \notin Critical
            BY <2>1 DEF ClosePc, Critical
        <3> QED BY <2>1, <3>1, OneMoves
    <2> QED BY <2>1, <2>2, <2>3 DEF MutexMove, AsksFor, Winds, Closes
<1>7. CASE Restart
    <2>1. closeMutex' = <<>> /\ \A t \in TickCall : tick'[t].pc = "idle"
        BY <1>7 DEF Restart, Idle
    <2>2. Closes' = {} /\ Inside' = {}
        BY <2>1 DEF Closes, Inside, ClosePc, Critical
    <2> QED BY <2>1, <2>2 DEF MutexMove, Forgets, Winds
<1>8. CASE ResetIntegrityHalt \/ WalletStopChanges \/ UNCHANGED vars
    BY <1>2, <1>8 DEF ResetIntegrityHalt, WalletStopChanges, vars
<1> QED BY <1>3, <1>4, <1>5, <1>6, <1>7, <1>8, AwaitMoves DEF Next, VisitStep

-----------------------------------------------------------------------------
(* The mutex: its invariant *)

\* A call that asks is the last of the mutex.
LEMMA AskKeeps ==
    ASSUME MutexInv, closeMutex \in Seq(TickCall), NEW t \in TickCall, AsksFor(t)
    PROVE  /\ MutexInv'
           /\ \A i \in 1..Len(closeMutex) :
                 i \in 1..Len(closeMutex') /\ closeMutex'[i] = closeMutex[i]
<1> DEFINE n == Len(closeMutex)
<1>1. /\ Len(closeMutex') = n + 1 /\ n \in Nat
      /\ \A i \in 1..n : closeMutex'[i] = closeMutex[i]
      /\ closeMutex'[n + 1] = t
    BY AppendProperties DEF AsksFor
<1>2. \A i \in 1..n : closeMutex[i] # t
    BY DEF MutexInv, InMutex, AsksFor
<1>3. \A i : i \in 1..(n + 1) <=> i \in 1..n \/ i = n + 1
    BY <1>1
<1>4. \A i, j \in 1..Len(closeMutex') : closeMutex'[i] = closeMutex'[j] => i = j
    <2> SUFFICES ASSUME NEW i \in 1..(n + 1), NEW j \in 1..(n + 1), closeMutex'[i] = closeMutex'[j]
                 PROVE  i = j
        BY <1>1
    <2>1. CASE i \in 1..n /\ j \in 1..n
        BY <1>1, <2>1 DEF MutexInv
    <2> QED BY <1>1, <1>2, <1>3, <2>1
<1>5. \A u \in TickCall : InMutex(u)' <=> InMutex(u) \/ u = t
    BY <1>1, <1>3 DEF InMutex
<1>6. \A u \in TickCall : InMutex(u)' <=> u \in Closes'
    BY <1>5 DEF MutexInv, AsksFor
<1> QED BY <1>1, <1>3, <1>4, <1>6 DEF MutexInv

\* When the call at the head returns, each of the others is one place nearer.
LEMMA GoKeeps ==
    ASSUME MutexInv, closeMutex \in Seq(TickCall), NEW t \in TickCall, GoesOut(t)
    PROVE  /\ MutexInv'
           /\ \A i \in 1..Len(closeMutex) :
                 closeMutex[i] # t => /\ i - 1 \in 1..Len(closeMutex')
                                      /\ closeMutex'[i - 1] = closeMutex[i]
<1> DEFINE n == Len(closeMutex)
<1>1. n \in Nat /\ n # 0 /\ 1 \in 1..n /\ closeMutex[1] = t
    BY DEF GoesOut, Holds
<1>2. /\ Len(closeMutex') = n - 1
      /\ \A i \in 1..(n - 1) : closeMutex'[i] = closeMutex[i + 1]
    <2>1. /\ Len(Tail(closeMutex)) = n - 1
          /\ \A i \in 1..Len(Tail(closeMutex)) : Tail(closeMutex)[i] = closeMutex[i + 1]
        BY <1>1, HeadTailProperties
    <2> QED BY <2>1 DEF GoesOut
<1>3. \A i \in 1..(n - 1) : i + 1 \in 1..n /\ i + 1 # 1
    BY <1>1
<1>4. \A i \in 1..n : closeMutex[i] # t => i - 1 \in 1..(n - 1) /\ (i - 1) + 1 = i
    BY <1>1
<1>5. \A i, j \in 1..Len(closeMutex') : closeMutex'[i] = closeMutex'[j] => i = j
    <2> SUFFICES ASSUME NEW i \in 1..(n - 1), NEW j \in 1..(n - 1), closeMutex'[i] = closeMutex'[j]
                 PROVE  i = j
        BY <1>2
    <2>1. i + 1 = j + 1
        BY <1>2, <1>3 DEF MutexInv
    <2> QED BY <2>1
<1>6. ASSUME NEW u \in TickCall PROVE InMutex(u)' <=> InMutex(u) /\ u # t
    <2>1. InMutex(u)' <=> \E i \in 1..(n - 1) : closeMutex[i + 1] = u
        BY <1>2 DEF InMutex
    <2>2. ASSUME NEW i \in 1..(n - 1), closeMutex[i + 1] = u PROVE InMutex(u) /\ u # t
        BY <1>1, <1>3, <2>2 DEF InMutex, MutexInv
    <2>3. ASSUME NEW i \in 1..n, closeMutex[i] = u, u # t
          PROVE  \E k \in 1..(n - 1) : closeMutex[k + 1] = u
        BY <1>4, <2>3
    <2> QED BY <2>1, <2>2, <2>3 DEF InMutex
<1>7. \A u \in TickCall : InMutex(u)' <=> u \in Closes'
    BY <1>6 DEF MutexInv, GoesOut
<1>8. \A i \in 1..n : closeMutex[i] # t => closeMutex'[i - 1] = closeMutex[i]
    BY <1>2, <1>4
<1> QED BY <1>2, <1>4, <1>5, <1>7, <1>8 DEF MutexInv

\* Whatever a step does to the mutex, it keeps the invariant.
LEMMA MoveKeeps ==
    ASSUME IInv, MutexInv, MutexMove PROVE MutexInv'
<1>0. closeMutex \in Seq(TickCall)
    BY DEF IInv, TypeOK
<1>1. CASE closeMutex' = closeMutex /\ Closes' = Closes
    BY <1>1 DEF MutexInv, InMutex
<1>2. CASE Forgets
    <2>1. Len(closeMutex') = 0 /\ 1..Len(closeMutex') = {}
        BY <1>2 DEF Forgets
    <2> QED BY <1>2, <2>1 DEF Forgets, MutexInv, InMutex
<1> QED BY <1>0, <1>1, <1>2, AskKeeps, GoKeeps DEF MutexMove, StaysIn, LetIn

\* The mutex is what MutexInv says in every reachable state.
LEMMA MutexInvariance == Spec => [](IInv /\ MutexInv)
<1>1. Init => MutexInv
    <2> SUFFICES ASSUME Init PROVE MutexInv
        OBVIOUS
    <2>1. Len(closeMutex) = 0 /\ 1..Len(closeMutex) = {} /\ Closes = {}
        BY DEF Init, Closes, Idle, ClosePc, Critical
    <2> QED BY <2>1 DEF MutexInv, InMutex
<1>2. IInv /\ MutexInv /\ [Next]_vars => MutexInv'
    BY StepMoves, MoveKeeps
<1> QED BY <1>1, <1>2, Invariance, PTL DEF Spec

\* While some tick call is in a close, the call at the head of the mutex is one that
\* awaits something: no interleaving of closes, failed sells and restarts leaves
\* serializeClose with waiting closes that nobody will let in.
THEOREM ClosesNotStranded == Spec => []NoCloseStranded
<1>1. ASSUME IInv, MutexInv PROVE NoCloseStranded
    <2> SUFFICES ASSUME NEW t \in TickCall, t \in Closes
                 PROVE  /\ closeMutex # <<>> /\ Head(closeMutex) \in TickCall
                        /\ Head(closeMutex) \in Closes
        BY DEF NoCloseStranded, Closes
    <2>1. closeMutex \in Seq(TickCall)
        BY <1>1 DEF IInv, TypeOK
    <2>2. PICK i \in 1..Len(closeMutex) : closeMutex[i] = t
        BY <1>1 DEF MutexInv, InMutex
    <2>3. closeMutex # <<>> /\ 1 \in 1..Len(closeMutex) /\ Head(closeMutex) = closeMutex[1]
        BY <2>1, <2>2
    <2>4. Head(closeMutex) \in TickCall
        BY <2>1, <2>3
    <2> QED BY <1>1, <2>3, <2>4 DEF MutexInv, InMutex
<1> QED BY <1>1, MutexInvariance, PTL

-----------------------------------------------------------------------------
(* The mutex: every close nears its end *)

\* A call's place is the one it has.
LEMMA PlaceIs ==
    ASSUME MutexInv, NEW i \in 1..Len(closeMutex) PROVE Place(closeMutex[i]) = i
BY DEF MutexInv, Place

\* The wait of a close by its place.
LEMMA WaitIs ==
    ASSUME MutexInv, NEW t \in Closes, NEW i \in 1..Len(closeMutex), closeMutex[i] = t
    PROVE  CloseWait(t) = 5 * (i - 1) + StepsLeft(Head(closeMutex))
BY PlaceIs DEF CloseWait, Closes

\* A call in a close has one to five awaits before it.
LEMMA StepsOf ==
    ASSUME NEW t \in Closes PROVE StepsLeft(t) \in 1..5
BY DEF Closes, ClosePc, Critical, StepsLeft

\* A step never lengthens the wait of a close and shortens it when the head goes on.
LEMMA MoveWinds ==
    ASSUME IInv, MutexInv, MutexMove, Winds, NEW t \in TickCall, tick[t].pc \in ClosePc
    PROVE  /\ CloseWait(t)' <= CloseWait(t)
           /\ tick'[Head(closeMutex)].pc # tick[Head(closeMutex)].pc
                => CloseWait(t)' < CloseWait(t)
<1>1. closeMutex \in Seq(TickCall) /\ MutexInv' /\ t \in Closes
    BY MoveKeeps DEF IInv, TypeOK, Closes
<1>2. PICK i \in 1..Len(closeMutex) : closeMutex[i] = t
    BY <1>1 DEF MutexInv, InMutex
<1>3. PICK h \in TickCall : /\ h = Head(closeMutex) /\ h = closeMutex[1]
                            /\ 1 \in 1..Len(closeMutex) /\ closeMutex # <<>>
    BY <1>1, <1>2
<1>4. h \in Closes
    BY <1>3 DEF MutexInv, InMutex
<1>5. i \in Nat \ {0} /\ StepsLeft(h) \in 1..5 /\ CloseWait(t) = 5 * (i - 1) + StepsLeft(h)
    BY <1>1, <1>2, <1>3, <1>4, WaitIs, StepsOf
<1>6. ASSUME t \notin Closes', t \in TickCall PROVE CloseWait(t)' = 0
    BY <1>6 DEF Closes, CloseWait
<1>7. ASSUME NEW j \in 1..Len(closeMutex'), closeMutex'[j] = t, t \in Closes',
             closeMutex' # <<>>, NEW g, Head(closeMutex') = g
      PROVE  CloseWait(t)' = 5 * (j - 1) + StepsLeft(g)'
    <2>1. Place(t)' = j
        BY <1>1, <1>7 DEF MutexInv, Place
    <2> QED BY <1>7, <2>1 DEF CloseWait, Closes
<1>8. ASSUME h \in Closes'
      PROVE  /\ StepsLeft(h)' \in 1..5 /\ StepsLeft(h)' <= StepsLeft(h)
             /\ tick'[h].pc # tick[h].pc => StepsLeft(h)' < StepsLeft(h)
    <2>1. StepsLeft(h)' \in 1..5
        BY <1>8 DEF Closes, ClosePc, Critical, StepsLeft
    <2>2. tick'[h].pc = tick[h].pc => StepsLeft(h)' = StepsLeft(h)
        BY DEF StepsLeft
    <2>3. tick'[h].pc = tick[h].pc \/ StepsLeft(h)' < StepsLeft(h)
        BY <1>4, <1>8 DEF Winds
    <2> QED BY <1>5, <2>1, <2>2, <2>3
<1>9. ASSUME closeMutex' # <<>>, Head(closeMutex') = h, i \in 1..Len(closeMutex'),
             closeMutex'[i] = t, t \in Closes', h \in Closes'
      PROVE  /\ CloseWait(t)' <= CloseWait(t)
             /\ tick'[h].pc # tick[h].pc => CloseWait(t)' < CloseWait(t)
    <2>1. CloseWait(t)' = 5 * (i - 1) + StepsLeft(h)'
        BY <1>7, <1>9
    <2> QED BY <1>5, <1>8, <1>9, <2>1
<1>10. CASE closeMutex' = closeMutex /\ Closes' = Closes
    BY <1>1, <1>2, <1>3, <1>4, <1>9, <1>10
<1>11. ASSUME NEW u \in TickCall, AsksFor(u)
       PROVE  /\ CloseWait(t)' <= CloseWait(t)
              /\ tick'[h].pc # tick[h].pc => CloseWait(t)' < CloseWait(t)
    <2>1. i \in 1..Len(closeMutex') /\ closeMutex'[i] = t
        BY <1>1, <1>2, <1>11, AskKeeps
    <2>2. closeMutex' # <<>> /\ Head(closeMutex') = h
        BY <1>1, <1>3, <1>11, HeadTailAppend DEF AsksFor
    <2>3. t \in Closes' /\ h \in Closes'
        BY <1>1, <1>4, <1>11 DEF AsksFor
    <2> QED BY <1>9, <2>1, <2>2, <2>3
<1>12. ASSUME NEW u \in TickCall, GoesOut(u)
       PROVE  CloseWait(t)' <= CloseWait(t) /\ CloseWait(t)' < CloseWait(t)
    <2>1. u = h
        BY <1>3, <1>12 DEF GoesOut, Holds
    <2>2. CASE t = h
        <3>1. t \notin Closes'
            BY <1>12, <2>1, <2>2 DEF GoesOut
        <3> QED BY <1>5, <1>6, <3>1
    <2>3. CASE t # h
        <3>1. i - 1 \in 1..Len(closeMutex') /\ closeMutex'[i - 1] = t /\ t \in Closes'
            BY <1>1, <1>2, <1>12, <2>1, <2>3, GoKeeps DEF GoesOut
        <3>2. closeMutex' \in Seq(TickCall) /\ closeMutex' # <<>>
            <4>1. Tail(closeMutex) \in Seq(TickCall)
                BY <1>1, <1>3, HeadTailProperties
            <4>2. closeMutex' \in Seq(TickCall)
                BY <1>12, <4>1 DEF GoesOut
            <4> QED BY <3>1, <4>2
        <3>3. PICK g \in TickCall : /\ g = Head(closeMutex') /\ g = closeMutex'[1]
                                    /\ 1 \in 1..Len(closeMutex')
            BY <3>1, <3>2
        <3>4. g \in Closes'
            BY <1>1, <3>3 DEF MutexInv, InMutex
        <3>5. StepsLeft(g)' \in 1..5
            BY <3>4 DEF Closes, ClosePc, Critical, StepsLeft
        <3>6. CloseWait(t)' = 5 * ((i - 1) - 1) + StepsLeft(g)'
            BY <1>7, <3>1, <3>2, <3>3
        <3> QED BY <1>5, <3>1, <3>5, <3>6
    <2> QED BY <2>2, <2>3
<1>13. CASE Forgets
    <2>1. CloseWait(t)' = 0
        BY <1>6, <1>13 DEF Forgets
    <2> QED BY <1>5, <2>1
<1>14. /\ CloseWait(t)' <= CloseWait(t)
       /\ tick'[h].pc # tick[h].pc => CloseWait(t)' < CloseWait(t)
    BY <1>3, <1>10, <1>11, <1>12, <1>13 DEF MutexMove, StaysIn, LetIn
<1> QED BY <1>3, <1>14

\* From the step that asks for it to its return, a close of the lane only gets nearer its
\* end: with NoCloseStranded, and as every await settles, this is why EveryCloseReturns
\* holds for any number of overlapping calls.
THEOREM ClosesNearEnd == Spec => ClosesWindDown
<1>1. IInv /\ MutexInv /\ [Next]_vars
        => [\A t \in TickCall : tick[t].pc \in ClosePc =>
              /\ CloseWait(t)' <= CloseWait(t)
              /\ tick'[Head(closeMutex)].pc # tick[Head(closeMutex)].pc
                   => CloseWait(t)' < CloseWait(t)]_vars
    BY StepMoves, MoveWinds
<1> QED BY <1>1, MutexInvariance, PTL DEF Spec, ClosesWindDown

-----------------------------------------------------------------------------
(* The mutex implements CloseSerializer *)

\* Each way of a step with the mutex is one of the serializer.
LEMMA MoveRefines ==
    ASSUME IInv, MutexInv, MutexMove
    PROVE  [Serializer!Next]_(Serializer!vars)
<1>1. closeMutex \in Seq(TickCall)
    BY DEF IInv, TypeOK
<1>2. CASE StaysIn
    BY <1>2 DEF StaysIn, Serializer!vars
<1>3. ASSUME NEW t \in TickCall, AsksFor(t) PROVE Serializer!Asks(t)
    <2>1. t \notin Inside /\ Inside' = Inside /\ closeMutex' = Append(closeMutex, t)
        BY <1>3 DEF AsksFor, Inside, Closes, ClosePc, Critical
    <2>2. \A i \in 1..Len(closeMutex) : closeMutex[i] # t
        BY <1>3 DEF AsksFor, MutexInv, InMutex
    <2>3. CASE Inside = {}
        BY <1>1, <2>1, <2>2, <2>3 DEF Serializer!Asks
    <2>4. CASE Inside # {}
        <3>1. closeMutex # <<>>
            BY <2>4, InsideHolds DEF Holds
        <3>2. /\ Tail(Append(closeMutex, t)) = Append(Tail(closeMutex), t)
              /\ Len(Tail(closeMutex)) = Len(closeMutex) - 1
              /\ \A i \in 1..Len(Tail(closeMutex)) : Tail(closeMutex)[i] = closeMutex[i + 1]
              /\ Tail(closeMutex) \in Seq(TickCall) /\ Len(closeMutex) \in Nat
            BY <1>1, <3>1, HeadTailProperties, HeadTailAppend
        <3>3. \A i \in DOMAIN Tail(closeMutex) : Tail(closeMutex)[i] # t
            <4> SUFFICES ASSUME NEW i \in 1..Len(Tail(closeMutex)) PROVE Tail(closeMutex)[i] # t
                BY <3>2
            <4>1. i + 1 \in 1..Len(closeMutex)
                BY <3>2
            <4> QED BY <2>2, <3>2, <4>1
        <3> QED BY <2>1, <2>4, <3>2, <3>3 DEF Serializer!Asks
    <2> QED BY <2>3, <2>4
<1>4. ASSUME NEW t \in TickCall, LetIn(t) PROVE Serializer!Enters(t)
    <2>1. Inside = {} /\ Inside' = {t}
        BY <1>4, InsideHolds DEF LetIn, Holds
    <2> QED BY <1>4, <2>1 DEF LetIn, Holds, Serializer!Enters
<1>5. ASSUME NEW t \in TickCall, GoesOut(t) PROVE Serializer!Passes(t) \/ Serializer!Returns(t)
    <2>1. closeMutex' = Tail(closeMutex) /\ closeMutex # <<>> /\ Head(closeMutex) = t
        BY <1>5 DEF GoesOut, Holds
    <2>2. CASE t \in Inside
        <3>1. Inside = {t} /\ Inside' = {}
            BY <1>5, <2>2, InsideHolds DEF GoesOut
        <3> QED BY <2>1, <3>1 DEF Serializer!Returns
    <2>3. CASE t \notin Inside
        <3>1. Inside = {} /\ Inside' = {}
            BY <1>5, <2>3, InsideHolds DEF GoesOut, Holds
        <3> QED BY <2>1, <3>1 DEF Serializer!Passes
    <2> QED BY <2>2, <2>3
<1>6. CASE Forgets
    BY <1>6 DEF Forgets, Serializer!Next, Serializer!Restart
<1> QED BY <1>2, <1>3, <1>4, <1>5, <1>6 DEF MutexMove, Serializer!Next

\* For any number of pairs, positions and overlapping calls, over failing sells, positions
\* found closed and restarts: the promise chain lets the closes of the lane in one at a
\* time, in the order in which they were asked for (swapSerializer.ts serializeClose).
THEOREM ClosesTakeTurns == Spec => ClosesInTurn
<1>1. Init => Serializer!Init
    BY DEF Init, Inside, Idle, Serializer!Init
<1>2. IInv /\ MutexInv /\ [Next]_vars => [Serializer!Next]_(Serializer!vars)
    BY StepMoves, MoveRefines
<1> QED BY <1>1, <1>2, MutexInvariance, PTL DEF Spec, ClosesInTurn, Serializer!Spec
=============================================================================
