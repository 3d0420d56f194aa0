--------------------------- MODULE MainLaneProofs ---------------------------
(***************************************************************************)
(* Proofs about MainLane, for any numbers of pairs, trades, calls,         *)
(* restarts and lock expiries: its types, that the marks of the tick       *)
(* monitor are freed, that a closed row's tokens are gone, how many calls  *)
(* can hold the lock, and by how much the position limit can be exceeded.  *)
(***************************************************************************)
EXTENDS MainLane, FiniteSetTheorems, TLAPS

-----------------------------------------------------------------------------
(* Types *)

\* a call past the creation of its position, or any exit call, has its entry attempt
EntryPc == {"submit", "buy", "confirm", "insert", "monitor", "failed"}
Named ==
    /\ \A s \in Signal : signal[s].pc \in EntryPc => signal[s].id \in Trade
    /\ \A e \in ExitCall : exit[e].pc # "idle" => exit[e].id \in Trade
TypeInv == TypeOK /\ Named

\* the flags are kept apart from the rest, which needs arithmetic
Flags == locked \in BOOLEAN /\ halted \in BOOLEAN
Calls == signal \in [Signal -> SignalState] /\ exit \in [ExitCall -> ExitState] /\ Named
Rows ==
    /\ timeouts \in Nat /\ restarts \in Nat
    /\ exitInProgress \subseteq Trade /\ wallet \subseteq Trade /\ recovering \subseteq Trade
    /\ pairOf \in [Trade -> Pair \cup {NoPair}]
    /\ position \in [Trade -> PositionState \cup {"none"}]
    /\ trade \in [Trade -> TradeStatus \cup {"none"}]

USE DEF SignalState, ExitState, SignalPc, ExitPc, EntryPc, PositionState, TradeStatus, lock, tables

LEMMA TypeParts == TypeInv <=> Flags /\ Calls /\ Rows
  BY DEF TypeInv, TypeOK, Flags, Calls, Rows

LEMMA IdleCalls ==
    /\ IdleSignal \in SignalState /\ IdleSignal.pc = "idle" /\ ~IdleSignal.approved
    /\ IdleExit \in ExitState /\ IdleExit.pc = "idle"
  BY DEF IdleSignal, IdleExit

LEMMA InitType == Init => TypeInv
  <1> SUFFICES ASSUME Init PROVE TypeInv
    OBVIOUS
  <1>1. Flags
    BY DEF Init, Flags
  <1>2. Calls
    BY IdleCalls DEF Init, Calls, Named
  <1>3. Rows
    BY DEF Init, Rows
  <1> QED BY <1>1, <1>2, <1>3, TypeParts

LEMMA PositionsOfPairType ==
    ASSUME Rows, NEW p, NEW state \in PositionState
    PROVE  PositionsOfPair(p, state) \in [Trade -> PositionState \cup {"none"}]
  BY DEF PositionsOfPair, Rows

LEMMA RowClosedType ==
    ASSUME Rows, NEW t \in Trade
    PROVE  RowClosed(t) \in [Trade -> TradeStatus \cup {"none"}]
  BY DEF RowClosed, Rows

\* a call that starts, moves or ends
LEMMA SignalSet ==
    ASSUME Calls, NEW s \in Signal, NEW r \in SignalState, r.pc \in EntryPc => r.id \in Trade,
           signal' = [signal EXCEPT ![s] = r], exit' = exit
    PROVE  Calls'
  BY DEF Calls, Named

LEMMA ExitSet ==
    ASSUME Calls, NEW e \in ExitCall, NEW r \in ExitState, r.pc # "idle" => r.id \in Trade,
           exit' = [exit EXCEPT ![e] = r], signal' = signal
    PROVE  Calls'
  BY DEF Calls, Named

LEMMA EntryCalls ==
    ASSUME Calls, NEW s \in Signal, EntryStep(s)
    PROVE  Calls'
  <1> USE DEF Calls, Named, Goto
  <1>1. ASSUME NEW p \in Pair, HandleRealtimeSignal(s, p) PROVE Calls'
    BY <1>1 DEF HandleRealtimeSignal, IdleSignal
  <1>2. CASE GetPortfolioState(s)
    <2>1. Approved(signal[s].pair) \in BOOLEAN
      BY DEF Approved
    <2> DEFINE r == [signal[s] EXCEPT !.pc = "acquire",
                                      !.approved = Approved(signal[s].pair)]
    <2>2. r \in SignalState /\ r.pc \notin EntryPc
      BY <2>1
    <2>3. signal' = [signal EXCEPT ![s] = r] /\ exit' = exit
      BY <1>2 DEF GetPortfolioState
    <2> HIDE DEF r
    <2> QED BY <2>2, <2>3, SignalSet
  <1>3. CASE SignalDropped(s) \/ ReleaseLock(s)
    BY <1>3, IdleCalls, SignalSet DEF SignalDropped, ReleaseLock
  <1>4. CASE AcquireLock(s) \/ OrderRejected(s)
    BY <1>4 DEF AcquireLock, OrderRejected
  <1>5. ASSUME NEW t \in Trade, CreatePosition(s, t) PROVE Calls'
    <2> DEFINE r == [signal[s] EXCEPT !.pc = "submit", !.id = t]
    <2>1. r \in SignalState /\ r.id \in Trade
      BY <1>5
    <2>2. signal' = [signal EXCEPT ![s] = r] /\ exit' = exit
      BY <1>5 DEF CreatePosition
    <2> HIDE DEF r
    <2> QED BY <2>1, <2>2, SignalSet
  <1>6. CASE SubmitOrder(s) \/ ConfirmEntry(s) \/ FailPosition(s)
    BY <1>6 DEF SubmitOrder, ConfirmEntry, FailPosition, Progress
  <1>7. ASSUME NEW to \in {"release", "failed"}, StartMonitoring(s, to) PROVE Calls'
    BY <1>7 DEF StartMonitoring, Progress
  <1>8. CASE ExecuteBuy(s) \/ InsertTrade(s) \/ InsertFails(s) \/ EntryStepThrows(s)
    BY <1>8 DEF ExecuteBuy, InsertTrade, InsertFails, EntryStepThrows
  <1>9. ASSUME NEW thrown \in BOOLEAN, BuyThrows(s, thrown) \/ PriceAnomaly(s, thrown)
        PROVE  Calls'
    BY <1>9 DEF BuyThrows, PriceAnomaly
  <1> QED BY <1>1, <1>2, <1>3, <1>4, <1>5, <1>6, <1>7, <1>8, <1>9 DEF EntryStep

LEMMA EntryRows ==
    ASSUME Calls, Rows, NEW s \in Signal, EntryStep(s)
    PROVE  Rows'
  <1> USE DEF Calls, Named, Rows
  <1>1. CASE UNCHANGED <<timeouts, restarts, exitInProgress, wallet, recovering, tables>>
    BY <1>1
  <1>2. ASSUME NEW t \in Trade, CreatePosition(s, t) PROVE Rows'
    BY <1>2 DEF CreatePosition
  <1>3. CASE SubmitOrder(s) \/ ConfirmEntry(s) \/ FailPosition(s)
    BY <1>3 DEF SubmitOrder, ConfirmEntry, FailPosition, Progress
  <1>4. ASSUME NEW to \in {"release", "failed"}, StartMonitoring(s, to) PROVE Rows'
    BY <1>4 DEF StartMonitoring, Progress
  <1>5. CASE ExecuteBuy(s)
    BY <1>5 DEF ExecuteBuy
  <1>6. ASSUME NEW thrown \in BOOLEAN, BuyThrows(s, thrown) \/ PriceAnomaly(s, thrown)
        PROVE  Rows'
    BY <1>6 DEF BuyThrows, PriceAnomaly
  <1>7. CASE InsertTrade(s)
    BY <1>7 DEF InsertTrade
  <1> QED BY <1>1, <1>2, <1>3, <1>4, <1>5, <1>6, <1>7
          DEF EntryStep, HandleRealtimeSignal, GetPortfolioState, SignalDropped, AcquireLock,
              OrderRejected, InsertFails, EntryStepThrows, ReleaseLock

LEMMA ExitCalls ==
    ASSUME Calls, NEW e \in ExitCall, ExitStep(e)
    PROVE  Calls'
  <1> USE DEF Calls, Named, ExitGoto
  <1>1. ASSUME NEW t \in Trade, NEW next \in {"balance", "fail"},
               TickStopLoss(e, t, next) \/ PollExit(e, t, next)
        PROVE  Calls'
    <2>1. PICK r \in ExitState : r.id \in Trade /\ exit' = [exit EXCEPT ![e] = r]
      BY <1>1 DEF TickStopLoss, PollExit, Trigger, IdleExit
    <2>2. signal' = signal
      BY <1>1 DEF TickStopLoss, PollExit, Trigger
    <2> QED BY <2>1, <2>2, ExitSet
  <1>2. CASE GetTokenBalance(e)
    <2>1. Balance(pairOf[exit[e].id]) \subseteq Trade
      BY DEF Balance, OfPair
    <2> DEFINE seen == Balance(pairOf[exit[e].id])
               r == [exit[e] EXCEPT !.seen = seen,
                                    !.pc = IF seen = {} THEN "close" ELSE "sell"]
    <2>2. r \in ExitState /\ r.id \in Trade
      BY <1>2, <2>1 DEF GetTokenBalance
    <2>3. exit' = [exit EXCEPT ![e] = r] /\ signal' = signal
      BY <1>2 DEF GetTokenBalance
    <2> HIDE DEF r
    <2> QED BY <2>2, <2>3, ExitSet
  <1>3. CASE Sell(e) \/ SellThrows(e) \/ CloseRow(e) \/ ExitStepThrows(e)
    BY <1>3 DEF Sell, SellThrows, AfterSellThrow, CloseRow, ExitStepThrows
  <1>4. CASE ConfirmExit(e) \/ FailTrade(e) \/ FailTradeThrows(e)
    BY <1>4, IdleCalls DEF ConfirmExit, FailTrade, FailTradeThrows, Resume
  <1> QED BY <1>1, <1>2, <1>3, <1>4 DEF ExitStep

LEMMA ExitRows ==
    ASSUME Calls, Rows, NEW e \in ExitCall, ExitStep(e)
    PROVE  Rows'
  <1> USE DEF Calls, Named, Rows
  <1>1. ASSUME NEW t \in Trade, NEW next \in {"balance", "fail"},
               TickStopLoss(e, t, next) \/ PollExit(e, t, next)
        PROVE  Rows'
    <2>1. position' \in [Trade -> PositionState \cup {"none"}]
      BY <1>1, PositionsOfPairType DEF TickStopLoss, PollExit, Trigger
    <2> QED BY <1>1, <2>1 DEF TickStopLoss, PollExit, Trigger
  <1>2. CASE Sell(e) \/ SellThrows(e)
    <2>1. wallet' \subseteq wallet
      BY <1>2 DEF Sell, SellThrows, Leftover
    <2> QED BY <1>2, <2>1 DEF Sell, SellThrows
  <1>3. CASE CloseRow(e)
    BY <1>3, RowClosedType DEF CloseRow
  <1>4. CASE ConfirmExit(e)
    BY <1>4, PositionsOfPairType DEF ConfirmExit, Resume
  <1>5. CASE FailTrade(e) \/ FailTradeThrows(e)
    BY <1>5 DEF FailTrade, FailTradeThrows, Resume
  <1>6. CASE GetTokenBalance(e) \/ ExitStepThrows(e)
    BY <1>6 DEF GetTokenBalance, ExitStepThrows
  <1> QED BY <1>1, <1>2, <1>3, <1>4, <1>5, <1>6 DEF ExitStep

LEMMA RecoverRows ==
    ASSUME Rows, NEW t \in Trade, RecoverPosition(t)
    PROVE  Rows'
  <1> USE DEF Rows
  <1>1. CASE RecoverEntry(t)
    BY <1>1 DEF RecoverEntry, Recovered
  <1>2. CASE RecoverExit(t)
    <2>1. trade' \in [Trade -> TradeStatus \cup {"none"}]
      BY <1>2, RowClosedType DEF RecoverExit, OpenTrades
    <2> QED BY <1>2, <2>1 DEF RecoverExit
  <1>3. ASSUME NEW sold \in BOOLEAN, RecoverFails(t, sold) PROVE Rows'
    BY <1>3 DEF RecoverFails
  <1> QED BY <1>1, <1>2, <1>3 DEF RecoverPosition

LEMMA RestartRows ==
    ASSUME Calls, Rows, Restart
    PROVE  Rows'
  <1> USE DEF Calls, Named, Rows
  <1>1. wallet' \subseteq Trade
    BY DEF Restart
  <1>2. recovering' \subseteq Trade
    BY DEF Restart, OpenPositions
  <1> QED BY <1>1, <1>2 DEF Restart

LEMMA NextFlags == Flags /\ [Next]_vars => Flags'
  <1> SUFFICES ASSUME Flags, [Next]_vars PROVE Flags'
    OBVIOUS
  <1> USE DEF Flags
  <1>1. ASSUME NEW s \in Signal, EntryStep(s) PROVE Flags'
    BY <1>1
       DEF EntryStep, HandleRealtimeSignal, GetPortfolioState, SignalDropped, AcquireLock,
           OrderRejected, CreatePosition, SubmitOrder, ConfirmEntry, FailPosition,
           StartMonitoring, Progress, ExecuteBuy, BuyThrows, PriceAnomaly, InsertTrade,
           InsertFails, EntryStepThrows, ReleaseLock
  <1>2. ASSUME NEW e \in ExitCall, ExitStep(e) PROVE Flags'
    BY <1>2
       DEF ExitStep, TickStopLoss, PollExit, Trigger, GetTokenBalance, Sell, SellThrows,
           CloseRow, ExitStepThrows, ConfirmExit, FailTrade, FailTradeThrows
  <1>3. ASSUME NEW t \in Trade, TickHighWaterMark(t) \/ RecoverPosition(t) PROVE Flags'
    BY <1>3 DEF TickHighWaterMark, RecoverPosition, RecoverEntry, RecoverExit, RecoverFails
  <1>4. CASE LockTimeout \/ Restart \/ UNCHANGED vars
    BY <1>4 DEF LockTimeout, Restart, vars
  <1> QED BY <1>1, <1>2, <1>3, <1>4 DEF Next

LEMMA NextCalls == Calls /\ [Next]_vars => Calls'
  <1> SUFFICES ASSUME Calls, [Next]_vars PROVE Calls'
    OBVIOUS
  <1>1. CASE UNCHANGED <<signal, exit>>
    BY <1>1 DEF Calls, Named
  <1>2. CASE Restart
    BY <1>2, IdleCalls DEF Restart, Calls, Named
  <1> QED BY <1>1, <1>2, EntryCalls, ExitCalls
          DEF Next, vars, TickHighWaterMark, RecoverPosition, RecoverEntry, RecoverExit,
              RecoverFails, LockTimeout

LEMMA NextRows == Calls /\ Rows /\ [Next]_vars => Rows'
  <1> SUFFICES ASSUME Calls, Rows, [Next]_vars PROVE Rows'
    OBVIOUS
  <1>1. ASSUME NEW t \in Trade, TickHighWaterMark(t) PROVE Rows'
    BY <1>1 DEF TickHighWaterMark, Rows
  <1>2. CASE LockTimeout
    BY <1>2 DEF LockTimeout, Rows
  <1>3. CASE UNCHANGED vars
    BY <1>3 DEF vars, Rows
  <1> QED BY <1>1, <1>2, <1>3, EntryRows, ExitRows, RecoverRows, RestartRows DEF Next

LEMMA NextType == TypeInv /\ [Next]_vars => TypeInv'
  <1> SUFFICES ASSUME TypeInv, [Next]_vars PROVE TypeInv'
    OBVIOUS
  <1>1. (Flags /\ Calls /\ Rows)'
    BY TypeParts, NextFlags, NextCalls, NextRows
  <1> QED BY <1>1 DEF TypeInv, TypeOK, Flags, Calls, Rows

\* The tables, the wallet, the calls and the marks keep their types; no call acts for
\* an entry attempt it does not have.
THEOREM TypeCorrect == Spec => []TypeOK
  <1>1. TypeInv => TypeOK
    BY DEF TypeInv
  <1> QED BY InitType, NextType, <1>1, PTL DEF Spec

-----------------------------------------------------------------------------
(* The lock *)

\* Counting a set that shrinks, gains at most one element, or loses one.
LEMMA Counting ==
    ASSUME NEW T, IsFiniteSet(T), NEW S
    PROVE  /\ Cardinality(T) \in Nat
           /\ S \subseteq T => Cardinality(S) \in Nat /\ Cardinality(S) <= Cardinality(T)
           /\ \A x : S \subseteq T \cup {x} =>
                 Cardinality(S) \in Nat /\ Cardinality(S) <= Cardinality(T) + 1
           /\ \A x \in T : S \subseteq T \ {x} =>
                 Cardinality(S) \in Nat /\ Cardinality(S) <= Cardinality(T) - 1
  <1>1. Cardinality(T) \in Nat
    BY FS_CardinalityType
  <1>2. ASSUME NEW U, IsFiniteSet(U), S \subseteq U
        PROVE  Cardinality(S) \in Nat /\ Cardinality(S) <= Cardinality(U)
    BY <1>2, FS_Subset, FS_CardinalityType
  <1>3. ASSUME NEW x, S \subseteq T \cup {x}
        PROVE  Cardinality(S) \in Nat /\ Cardinality(S) <= Cardinality(T) + 1
    <2>1. IsFiniteSet(T \cup {x})
      BY FS_AddElement
    <2>2. Cardinality(T \cup {x}) \in Nat /\ Cardinality(T \cup {x}) <= Cardinality(T) + 1
      BY <1>1, <2>1, FS_AddElement, FS_CardinalityType
    <2> QED BY <1>1, <1>2, <1>3, <2>1, <2>2
  <1>4. ASSUME NEW x \in T, S \subseteq T \ {x}
        PROVE  Cardinality(S) \in Nat /\ Cardinality(S) <= Cardinality(T) - 1
    <2>1. IsFiniteSet(T \ {x}) /\ Cardinality(T \ {x}) = Cardinality(T) - 1
      BY FS_RemoveElement
    <2> QED BY <1>2, <1>4, <2>1
  <1> QED BY <1>1, <1>2, <1>3, <1>4

LockTaken == IF locked THEN 1 ELSE 0
HoldersInv == TypeInv /\ HoldersBounded

LEMMA HoldersFinite == IsFiniteSet(Holders)
  BY FS_Subset, MainAssumption DEF Holders

\* Only the acquisition brings a holder in; the release takes one out.
LEMMA EntryHolders ==
    ASSUME Calls, NEW s \in Signal, EntryStep(s)
    PROVE  /\ timeouts' = timeouts
           /\ \/ Holders' \subseteq Holders /\ locked' = locked
              \/ Holders' \subseteq Holders \cup {s} /\ ~locked /\ locked'
              \/ s \in Holders /\ Holders' \subseteq Holders \ {s} /\ ~locked'
  <1> USE DEF Calls, Holders, Goto
  <1>1. CASE AcquireLock(s)
    BY <1>1 DEF AcquireLock, LockFree
  <1>2. CASE ReleaseLock(s)
    BY <1>2, IdleCalls DEF ReleaseLock
  <1>3. CASE SignalDropped(s)
    BY <1>3, IdleCalls DEF SignalDropped
  <1>4. ASSUME NEW p \in Pair, HandleRealtimeSignal(s, p)
        PROVE  Holders' \subseteq Holders /\ UNCHANGED <<locked, timeouts>>
    <2>1. [IdleSignal EXCEPT !.pc = "gates", !.pair = p].pc = "gates"
      BY DEF IdleSignal
    <2> QED BY <1>4, <2>1 DEF HandleRealtimeSignal
  <1>5. CASE GetPortfolioState(s)
    BY <1>5 DEF GetPortfolioState
  <1>6. CASE \/ OrderRejected(s) \/ \E t \in Trade : CreatePosition(s, t)
             \/ SubmitOrder(s) \/ ConfirmEntry(s) \/ FailPosition(s)
             \/ \E to \in {"release", "failed"} : StartMonitoring(s, to)
    BY <1>6 DEF OrderRejected, CreatePosition, SubmitOrder, ConfirmEntry, FailPosition,
                StartMonitoring, Progress
  <1>7. CASE \/ ExecuteBuy(s) \/ \E landed \in BOOLEAN : BuyThrows(s, landed)
             \/ \E dumped \in BOOLEAN : PriceAnomaly(s, dumped)
             \/ InsertTrade(s) \/ InsertFails(s) \/ EntryStepThrows(s)
    BY <1>7 DEF ExecuteBuy, BuyThrows, PriceAnomaly, InsertTrade, InsertFails, EntryStepThrows
  <1> QED BY <1>1, <1>2, <1>3, <1>4, <1>5, <1>6, <1>7 DEF EntryStep

LEMMA HoldersNext == HoldersInv /\ [Next]_vars => HoldersInv'
  <1> SUFFICES ASSUME HoldersInv, [Next]_vars PROVE HoldersInv'
    OBVIOUS
  <1>1. TypeInv'
    BY NextType DEF HoldersInv
  <1>2. Calls /\ Rows /\ timeouts \in Nat
    BY TypeParts DEF HoldersInv, Rows
  <1>3. /\ Cardinality(Holders) \in Nat
        /\ Cardinality(Holders) <= timeouts + LockTaken
    BY HoldersFinite, FS_CardinalityType DEF HoldersInv, HoldersBounded, LockTaken
  <1>4. (locked => LockTaken = 1) /\ (~locked => LockTaken = 0)
    BY DEF LockTaken
  <1>5. (locked' => LockTaken' = 1) /\ (~locked' => LockTaken' = 0)
    BY DEF LockTaken
  <1>6. Cardinality(Holders') <= timeouts' + LockTaken'
    <2>1. CASE Holders' \subseteq Holders /\ locked' = locked /\ timeouts' = timeouts
      <3>1. LockTaken' = LockTaken
        BY <2>1 DEF LockTaken
      <3> QED BY <1>2, <1>3, <1>4, <2>1, <3>1, HoldersFinite, Counting
    <2>2. ASSUME NEW s \in Signal, EntryStep(s)
          PROVE  Cardinality(Holders') <= timeouts' + LockTaken'
      <3>1. CASE Holders' \subseteq Holders \cup {s} /\ ~locked /\ locked'
        <4>1. LockTaken = 0 /\ LockTaken' = 1 /\ timeouts' = timeouts
          BY <1>2, <1>4, <1>5, <2>2, <3>1, EntryHolders
        <4>2. Cardinality(Holders') \in Nat /\ Cardinality(Holders') <= Cardinality(Holders) + 1
          BY <3>1, HoldersFinite, Counting
        <4> QED BY <1>2, <1>3, <4>1, <4>2
      <3>2. CASE s \in Holders /\ Holders' \subseteq Holders \ {s} /\ ~locked'
        <4>1. LockTaken \in {0, 1} /\ LockTaken' = 0
          BY <1>5, <3>2 DEF LockTaken
        <4> QED BY <1>2, <1>3, <2>2, <3>2, <4>1, HoldersFinite, EntryHolders, Counting
      <3> QED BY <1>2, <2>1, <2>2, <3>1, <3>2, EntryHolders
    <2>3. CASE LockTimeout
      <3>1. Holders' \subseteq Holders /\ timeouts' = timeouts + 1 /\ LockTaken = 1
            /\ LockTaken' = 0
        BY <1>4, <1>5, <2>3 DEF LockTimeout, Holders
      <3> QED BY <1>2, <1>3, <3>1, HoldersFinite, Counting
    <2>4. CASE Restart
      <3>1. Holders' = {} /\ timeouts' = 0 /\ LockTaken' = 0
        BY <1>5, <2>4, IdleCalls DEF Restart, Holders
      <3> QED BY <3>1, FS_EmptySet
    <2>5. CASE \/ \E e \in ExitCall : ExitStep(e)
               \/ \E t \in Trade : TickHighWaterMark(t) \/ RecoverPosition(t)
               \/ UNCHANGED vars
      <3>1. UNCHANGED <<signal, locked, timeouts>>
        BY <2>5 DEF ExitStep, TickStopLoss, PollExit, Trigger, GetTokenBalance, Sell,
           SellThrows, CloseRow, ExitStepThrows, ConfirmExit, FailTrade, FailTradeThrows,
           TickHighWaterMark, RecoverPosition, RecoverEntry, RecoverExit, RecoverFails, vars
      <3> QED BY <2>1, <3>1 DEF Holders
    <2> QED BY <2>2, <2>3, <2>4, <2>5 DEF Next
  <1> QED BY <1>1, <1>6 DEF HoldersInv, HoldersBounded, LockTaken

\* At most one execution holds the lock, and one more for each expiry of its timer.
THEOREM LockHeldByFew == Spec => []HoldersBounded
  <1>1. Init => HoldersInv
    <2> SUFFICES ASSUME Init PROVE HoldersInv
      OBVIOUS
    <2>1. Holders = {} /\ timeouts = 0 /\ LockTaken = 0
      BY IdleCalls DEF Init, Holders, LockTaken
    <2> QED BY <2>1, InitType, FS_EmptySet DEF HoldersInv, HoldersBounded, LockTaken
  <1>2. HoldersInv => HoldersBounded
    BY DEF HoldersInv
  <1> QED BY <1>1, <1>2, HoldersNext, PTL DEF Spec

-----------------------------------------------------------------------------
(* The marks of the tick monitor *)

\* the tick call that will take the mark of t away
Sells(e, t) == exit[e].caller = "tick" /\ exit[e].pc # "idle" /\ exit[e].id = t
MarksInv == TypeInv /\ MarksAreFreed

LEMMA ExitMarks ==
    ASSUME Calls, MarksAreFreed, NEW e \in ExitCall, ExitStep(e)
    PROVE  MarksAreFreed'
  <1> SUFFICES ASSUME NEW t \in exitInProgress' PROVE \E f \in ExitCall : Sells(f, t)'
    BY DEF MarksAreFreed, Sells
  <1> USE DEF Calls
  <1>1. \A u \in exitInProgress : \E f \in ExitCall : Sells(f, u)
    BY DEF MarksAreFreed, Sells
  <1>2. ASSUME NEW f \in ExitCall, f # e PROVE Sells(f, t)' <=> Sells(f, t)
    <2>1. exit'[f] = exit[f]
      BY <1>2 DEF ExitStep, TickStopLoss, PollExit, Trigger, GetTokenBalance, Sell, SellThrows,
         CloseRow, ExitStepThrows, ConfirmExit, FailTrade, FailTradeThrows, ExitGoto, Resume
    <2> QED BY <2>1 DEF Sells
  <1>3. ASSUME NEW u \in Trade, NEW next \in {"balance", "fail"},
               TickStopLoss(e, u, next) \/ PollExit(e, u, next)
        PROVE  \E f \in ExitCall : Sells(f, t)'
    <2>1. ~Sells(e, t)
      BY <1>3 DEF TickStopLoss, PollExit, Trigger, Sells
    <2>2. CASE t \in exitInProgress
      BY <1>1, <1>2, <2>1, <2>2
    <2>3. CASE t \notin exitInProgress
      <3>1. TickStopLoss(e, u, next) /\ t = u
        BY <1>3, <2>3 DEF TickStopLoss, PollExit
      <3>2. Sells(e, t)'
        BY <3>1 DEF TickStopLoss, Trigger, Sells, IdleExit
      <3> QED BY <3>2
    <2> QED BY <2>2, <2>3
  <1>4. CASE GetTokenBalance(e) \/ Sell(e) \/ SellThrows(e) \/ CloseRow(e) \/ ExitStepThrows(e)
    <2>1. t \in exitInProgress
      BY <1>4 DEF GetTokenBalance, Sell, SellThrows, CloseRow, ExitStepThrows
    <2>2. exit'[e].caller = exit[e].caller /\ exit'[e].id = exit[e].id /\ exit'[e].pc # "idle"
      BY <1>4 DEF GetTokenBalance, Sell, SellThrows, AfterSellThrow, CloseRow, ExitStepThrows,
                  ExitGoto
    <2>3. Sells(e, t) => Sells(e, t)'
      BY <2>2 DEF Sells
    <2> QED BY <1>1, <1>2, <2>1, <2>3
  <1>5. CASE ConfirmExit(e) \/ FailTrade(e) \/ FailTradeThrows(e)
    <2>1. t \in exitInProgress /\ (exit[e].caller = "tick" => t # exit[e].id)
      BY <1>5 DEF ConfirmExit, FailTrade, FailTradeThrows, Resume
    <2>2. ~Sells(e, t)
      BY <2>1 DEF Sells
    <2> QED BY <1>1, <1>2, <2>1, <2>2
  <1> QED BY <1>3, <1>4, <1>5 DEF ExitStep

LEMMA MarksNext == MarksInv /\ [Next]_vars => MarksInv'
  <1> SUFFICES ASSUME MarksInv, [Next]_vars PROVE MarksInv'
    OBVIOUS
  <1>1. TypeInv' /\ Calls
    BY NextType, TypeParts DEF MarksInv
  <1>2. CASE exitInProgress' \subseteq exitInProgress /\ exit' = exit
    BY <1>1, <1>2 DEF MarksInv, MarksAreFreed
  <1>3. ASSUME NEW e \in ExitCall, ExitStep(e) PROVE MarksAreFreed'
    BY <1>1, <1>3, ExitMarks DEF MarksInv
  <1>4. CASE Restart
    BY <1>1, <1>4 DEF Restart, MarksInv, MarksAreFreed
  <1>5. CASE \/ \E s \in Signal : EntryStep(s)
             \/ \E t \in Trade : TickHighWaterMark(t) \/ RecoverPosition(t)
             \/ LockTimeout \/ UNCHANGED vars
    <2>1. exitInProgress' \subseteq exitInProgress /\ exit' = exit
      BY <1>5 DEF EntryStep, HandleRealtimeSignal, GetPortfolioState, SignalDropped,
         AcquireLock, OrderRejected, CreatePosition, SubmitOrder, ConfirmEntry, FailPosition,
         StartMonitoring, Progress, ExecuteBuy, BuyThrows, PriceAnomaly, InsertTrade,
         InsertFails, EntryStepThrows, ReleaseLock, TickHighWaterMark, RecoverPosition,
         RecoverEntry, RecoverExit, RecoverFails, LockTimeout, vars
    <2> QED BY <1>2, <2>1
  <1> QED BY <1>1, <1>3, <1>4, <1>5 DEF Next, MarksInv

\* No mark outlives the tick call that set it: the tick stop loss of a trade cannot be
\* switched off for good.
THEOREM MarksFreed == Spec => []MarksAreFreed
  <1>1. Init => MarksInv
    BY InitType DEF Init, MarksInv, MarksAreFreed
  <1>2. MarksInv => MarksAreFreed
    BY DEF MarksInv
  <1> QED BY <1>1, <1>2, MarksNext, PTL DEF Spec

-----------------------------------------------------------------------------
(* A closed row's tokens are gone *)

\* an entry between its position row and its trade row
PendingPc == {"submit", "buy", "confirm", "insert"}
Pending(s) == signal[s].pc \in PendingPc

Untouched == \A t \in Trade : position[t] = "none" => trade[t] = "none" /\ t \notin wallet
PendingFresh ==
    \A s \in Signal : Pending(s) =>
        trade[signal[s].id] = "none" /\ position[signal[s].id] # "none"
PendingDistinct ==
    \A r, s \in Signal : Pending(r) /\ Pending(s) /\ signal[r].id = signal[s].id => r = s
ExitsOfRows == \A e \in ExitCall : exit[e].pc # "idle" => trade[exit[e].id] # "none"
SellsSeen ==
    \A e \in ExitCall : exit[e].pc = "sell" =>
        exit[e].id \in exit[e].seen \/ exit[e].id \notin wallet
ClosesSold == \A e \in ExitCall : exit[e].pc = "close" => exit[e].id \notin wallet

Sold ==
    /\ Untouched /\ PendingFresh /\ PendingDistinct
    /\ ExitsOfRows /\ SellsSeen /\ ClosesSold
    /\ ClosedMeansSold
SoldInv == TypeInv /\ Sold

\* no position row disappears, and an entry in flight stays what it was or ends
PositionsKept == \A t \in Trade : position'[t] = "none" => position[t] = "none"
PendingKept ==
    \A s \in Signal : Pending(s)' => Pending(s) /\ signal'[s].id = signal[s].id

USE DEF PendingPc, Pending

\* Steps that touch neither the trade rows nor the exits, and bring in at most the
\* tokens of an entry in flight.
LEMMA OtherSold ==
    ASSUME SoldInv, exit' = exit, trade' = trade, PositionsKept, PendingKept,
           \A t \in wallet' : t \in wallet \/ \E s \in Signal : Pending(s) /\ signal[s].id = t
    PROVE  Sold'
  <1> USE DEF SoldInv, Sold
  <1>1. Calls
    BY TypeParts
  <1>2. ASSUME NEW t \in Trade, trade[t] # "none", t \notin wallet PROVE t \notin wallet'
    BY <1>2 DEF PendingFresh
  <1>3. Untouched'
    BY DEF Untouched, PositionsKept, PendingFresh
  <1>4. PendingFresh' /\ PendingDistinct'
    BY <1>1 DEF PendingFresh, PendingDistinct, PendingKept, PositionsKept, Calls, Named
  <1>5. ExitsOfRows' /\ SellsSeen' /\ ClosesSold'
    BY <1>1, <1>2 DEF ExitsOfRows, SellsSeen, ClosesSold, Calls, Named
  <1>6. ClosedMeansSold'
    BY <1>2 DEF ClosedMeansSold
  <1> QED BY <1>3, <1>4, <1>5, <1>6

LEMMA EntrySold ==
    ASSUME SoldInv, NEW s \in Signal, EntryStep(s)
    PROVE  Sold'
  <1>1. Calls /\ Rows /\ Sold
    BY TypeParts DEF SoldInv
  <1> USE DEF Calls, Named, Rows, Goto
  <1>2. CASE SignalDropped(s) \/ ReleaseLock(s)
    <2>1. PendingKept
      BY <1>1, <1>2, IdleCalls DEF SignalDropped, ReleaseLock, PendingKept
    <2> QED BY <1>2, <2>1, OtherSold DEF SignalDropped, ReleaseLock, PositionsKept
  <1>3. ASSUME NEW p \in Pair, HandleRealtimeSignal(s, p) PROVE Sold'
    <2>1. [IdleSignal EXCEPT !.pc = "gates", !.pair = p].pc = "gates"
      BY DEF IdleSignal
    <2>2. PendingKept
      BY <1>1, <1>3, <2>1 DEF HandleRealtimeSignal, PendingKept
    <2> QED BY <1>3, <2>2, OtherSold DEF HandleRealtimeSignal, PositionsKept
  <1>4. CASE GetPortfolioState(s) \/ AcquireLock(s) \/ OrderRejected(s)
    <2>1. \A r \in Signal : signal'[r].pc \in PendingPc => r # s /\ signal'[r] = signal[r]
      BY <1>1, <1>4 DEF GetPortfolioState, AcquireLock, OrderRejected
    <2>2. PendingKept
      BY <2>1 DEF PendingKept
    <2> QED BY <1>4, <2>2, OtherSold
            DEF GetPortfolioState, AcquireLock, OrderRejected, PositionsKept
  <1>5. CASE InsertFails(s) \/ EntryStepThrows(s)
    <2>1. PendingKept
      BY <1>1, <1>5 DEF InsertFails, EntryStepThrows, PendingKept
    <2> QED BY <1>5, <2>1, OtherSold DEF InsertFails, EntryStepThrows, PositionsKept
  <1>6. CASE \/ SubmitOrder(s) \/ ConfirmEntry(s) \/ FailPosition(s)
             \/ \E to \in {"release", "failed"} : StartMonitoring(s, to)
    <2> USE <1>6 DEF SubmitOrder, ConfirmEntry, FailPosition, StartMonitoring, Progress
    <2>1. PendingKept
      BY <1>1 DEF PendingKept
    <2>2. PositionsKept /\ UNCHANGED <<exit, trade, wallet>>
      BY <1>1 DEF PositionsKept
    <2> HIDE <1>6
    <2> QED BY <2>1, <2>2, OtherSold
  <1>7. CASE \/ ExecuteBuy(s) \/ \E landed \in BOOLEAN : BuyThrows(s, landed)
             \/ \E dumped \in BOOLEAN : PriceAnomaly(s, dumped)
    <2>1. PendingKept
      BY <1>1, <1>7 DEF ExecuteBuy, BuyThrows, PriceAnomaly, PendingKept
    <2>2. \A t \in wallet' : t \in wallet \/ (Pending(s) /\ signal[s].id = t)
      <3>1. CASE ExecuteBuy(s)
        BY <3>1 DEF ExecuteBuy
      <3>2. ASSUME NEW thrown \in BOOLEAN, BuyThrows(s, thrown) \/ PriceAnomaly(s, thrown)
            PROVE  \/ wallet' \subseteq wallet
                   \/ Pending(s) /\ wallet' = wallet \cup {signal[s].id}
        BY <3>2 DEF BuyThrows, PriceAnomaly
      <3> QED BY <1>7, <3>1, <3>2
    <2>3. PositionsKept /\ UNCHANGED <<exit, trade>>
      BY <1>7 DEF ExecuteBuy, BuyThrows, PriceAnomaly, PositionsKept
    <2> QED BY <2>1, <2>2, <2>3, OtherSold
  <1>8. ASSUME NEW t \in Trade, CreatePosition(s, t) PROVE Sold'
    <2>1. /\ signal'[s].pc = "submit" /\ signal'[s].id = t
          /\ \A r \in Signal \ {s} : signal'[r] = signal[r]
      BY <1>1, <1>8 DEF CreatePosition
    <2>2. /\ \A u \in Trade \ {t} : position'[u] = position[u]
          /\ position'[t] = "SIGNAL_DETECTED" /\ position[t] = "none"
          /\ UNCHANGED <<trade, wallet, exit>>
      BY <1>1, <1>8 DEF CreatePosition
    <2>3. trade[t] = "none" /\ t \notin wallet
      BY <1>1, <2>2 DEF Sold, Untouched
    <2>4. ASSUME NEW r \in Signal, Pending(r) PROVE signal[r].id # t
      BY <1>1, <2>2, <2>4 DEF Sold, PendingFresh
    <2>5. Untouched'
      BY <1>1, <2>2 DEF Sold, Untouched
    <2>6. PendingFresh'
      BY <1>1, <2>1, <2>2, <2>3, <2>4 DEF Sold, PendingFresh
    <2>7. PendingDistinct'
      BY <1>1, <2>1, <2>4 DEF Sold, PendingDistinct
    <2>8. (ExitsOfRows /\ SellsSeen /\ ClosesSold /\ ClosedMeansSold)'
      BY <1>1, <2>2 DEF Sold, ExitsOfRows, SellsSeen, ClosesSold, ClosedMeansSold
    <2> QED BY <2>5, <2>6, <2>7, <2>8 DEF Sold
  <1>9. CASE InsertTrade(s)
    <2> DEFINE t == signal[s].id
    <2>1. /\ Pending(s) /\ ~Pending(s)' /\ t \in Trade
          /\ \A r \in Signal \ {s} : signal'[r] = signal[r]
      BY <1>1, <1>9 DEF InsertTrade
    <2>2. /\ \A u \in Trade \ {t} : trade'[u] = trade[u]
          /\ trade'[t] = "OPEN" /\ UNCHANGED <<position, wallet, exit>>
      BY <1>1, <1>9, <2>1 DEF InsertTrade
    <2>3. position[t] # "none"
      BY <1>1, <2>1 DEF Sold, PendingFresh
    <2>4. ASSUME NEW r \in Signal \ {s}, Pending(r) PROVE signal[r].id # t
      BY <1>1, <2>1, <2>4 DEF Sold, PendingDistinct
    <2> HIDE DEF t
    <2>5. Untouched'
      BY <1>1, <2>2, <2>3 DEF Sold, Untouched
    <2>6. PendingFresh' /\ PendingDistinct'
      BY <1>1, <2>1, <2>2, <2>4 DEF Sold, PendingFresh, PendingDistinct
    <2>7. (ExitsOfRows /\ SellsSeen /\ ClosesSold /\ ClosedMeansSold)'
      BY <1>1, <2>2 DEF Sold, ExitsOfRows, SellsSeen, ClosesSold, ClosedMeansSold
    <2> QED BY <2>5, <2>6, <2>7 DEF Sold
  <1> QED BY <1>2, <1>3, <1>4, <1>5, <1>6, <1>7, <1>8, <1>9 DEF EntryStep

\* Steps of an exit call, which becomes r: they bring in no tokens, and make no trade
\* row appear or disappear.
LEMMA OneExitSold ==
    ASSUME SoldInv, NEW e \in ExitCall, NEW r, exit' = [exit EXCEPT ![e] = r],
           r.pc # "idle" => r.id \in Trade /\ trade[r.id] # "none",
           r.pc = "sell" => r.id \in r.seen \/ r.id \notin wallet',
           r.pc = "close" => r.id \notin wallet',
           signal' = signal, wallet' \subseteq wallet, PositionsKept,
           \A t \in Trade : /\ trade'[t] = "none" <=> trade[t] = "none"
                            /\ trade'[t] = "CLOSED" => trade[t] = "CLOSED" \/ t \notin wallet'
    PROVE  Sold'
  <1> USE DEF SoldInv, Sold
  <1>1. Calls
    BY TypeParts
  <1>2. Untouched' /\ PendingFresh' /\ PendingDistinct'
    BY <1>1 DEF Untouched, PendingFresh, PendingDistinct, PositionsKept, Calls, Named
  <1>3. ASSUME NEW f \in ExitCall
        PROVE  exit'[f] = IF f = e THEN r ELSE exit[f]
    BY <1>1 DEF Calls
  <1>4. ExitsOfRows' /\ SellsSeen' /\ ClosesSold'
    BY <1>1, <1>3 DEF ExitsOfRows, SellsSeen, ClosesSold, Calls, Named
  <1>5. ClosedMeansSold'
    BY DEF ClosedMeansSold
  <1> QED BY <1>2, <1>4, <1>5

LEMMA PositionsOfPairKept ==
    ASSUME Rows, NEW p, NEW state \in PositionState,
           position' = PositionsOfPair(p, state)
    PROVE  PositionsKept
  BY DEF Rows, PositionsOfPair, PositionsKept

LEMMA RowClosedRows ==
    ASSUME Rows, NEW t \in Trade, NEW u \in Trade
    PROVE  /\ RowClosed(t)[u] = "none" <=> trade[u] = "none"
           /\ RowClosed(t)[u] = "CLOSED" => trade[u] = "CLOSED" \/ u = t
  BY DEF Rows, RowClosed

LEMMA ExitSold ==
    ASSUME SoldInv, NEW e \in ExitCall, ExitStep(e)
    PROVE  Sold'
  <1>1. Calls /\ Rows /\ Sold
    BY TypeParts DEF SoldInv
  <1> USE DEF Calls, Named, Rows
  <1> DEFINE x == exit[e]
             Row == x.id \in Trade /\ trade[x.id] # "none"
  <1>2. x.pc # "idle" => Row
    BY <1>1 DEF Sold, ExitsOfRows
  <1>3. ASSUME NEW t \in Trade, NEW next \in {"balance", "fail"},
               TickStopLoss(e, t, next) \/ PollExit(e, t, next)
        PROVE  Sold'
    <2>1. PICK caller : exit' = [exit EXCEPT ![e] =
                            [IdleExit EXCEPT !.pc = next, !.caller = caller, !.id = t]]
      BY <1>3 DEF TickStopLoss, PollExit, Trigger
    <2> DEFINE r == [IdleExit EXCEPT !.pc = next, !.caller = caller, !.id = t]
    <2>4. r.id = t /\ r.pc \in {"balance", "fail"}
      BY DEF IdleExit
    <2>2. PositionsKept
      BY <1>1, <1>3, PositionsOfPairKept DEF TickStopLoss, PollExit, Trigger, PositionsKept
    <2>3. trade[t] # "none" /\ UNCHANGED <<signal, wallet, trade>>
      BY <1>3 DEF TickStopLoss, PollExit, Trigger, WasOpened
    <2> HIDE DEF r
    <2> QED BY <2>1, <2>2, <2>3, <2>4, OneExitSold DEF r
  <1>4. CASE GetTokenBalance(e)
    <2> DEFINE seen == Balance(pairOf[x.id])
               r == [x EXCEPT !.seen = seen, !.pc = IF seen = {} THEN "close" ELSE "sell"]
    <2>1. Row /\ exit' = [exit EXCEPT ![e] = r] /\ UNCHANGED <<signal, wallet, trade, position>>
      BY <1>2, <1>4 DEF GetTokenBalance
    <2>2. x.id \in wallet => x.id \in seen
      BY <1>1, <2>1 DEF Balance, OfPair
    <2>3. r.id = x.id /\ r.seen = seen /\ r.pc = IF seen = {} THEN "close" ELSE "sell"
      BY <1>1
    <2> HIDE DEF r, seen
    <2>4. (r.pc = "sell" => r.id \in r.seen \/ r.id \notin wallet)
          /\ (r.pc = "close" => r.id \notin wallet) /\ r.id \in Trade /\ trade[r.id] # "none"
      BY <2>1, <2>2, <2>3
    <2> QED BY <2>1, <2>4, OneExitSold DEF PositionsKept
  <1>5. CASE Sell(e) \/ SellThrows(e)
    <2>1. /\ Row /\ x.pc = "sell" /\ wallet' \subseteq wallet
          /\ UNCHANGED <<signal, trade, position>>
      BY <1>2, <1>5 DEF Sell, SellThrows, Leftover
    <2>2. PICK r : /\ exit' = [exit EXCEPT ![e] = r] /\ r.id = x.id /\ r.pc \in {"close", "fail"}
                   /\ r.pc = "close" => Sell(e)
      BY <1>1, <1>5 DEF Sell, SellThrows, AfterSellThrow, ExitGoto
    <2>3. Sell(e) => x.id \notin wallet'
      BY <1>1, <2>1 DEF Sell, Leftover, OfPair, Sold, SellsSeen
    <2> QED BY <2>1, <2>2, <2>3, OneExitSold DEF PositionsKept
  <1>6. CASE CloseRow(e)
    <2>1. /\ Row /\ x.pc = "close" /\ trade' = RowClosed(x.id)
          /\ UNCHANGED <<signal, wallet, position>>
      BY <1>2, <1>6 DEF CloseRow
    <2> DEFINE r == [x EXCEPT !.pc = "confirm", !.seen = {}]
    <2>2. exit' = [exit EXCEPT ![e] = r] /\ r.id = x.id /\ r.pc = "confirm"
      BY <1>1, <1>6 DEF CloseRow, ExitGoto
    <2>3. x.id \notin wallet
      BY <1>1, <2>1 DEF Sold, ClosesSold
    <2> HIDE DEF x, r
    <2>4. \A t \in Trade : /\ trade'[t] = "none" <=> trade[t] = "none"
                           /\ trade'[t] = "CLOSED" => trade[t] = "CLOSED" \/ t \notin wallet
      BY <1>1, <2>1, <2>3, RowClosedRows
    <2> QED BY <2>1, <2>2, <2>4, OneExitSold DEF PositionsKept
  <1>7. CASE ExitStepThrows(e)
    <2>1. Row /\ UNCHANGED <<signal, wallet, position, trade>>
      BY <1>2, <1>7 DEF ExitStepThrows
    <2> DEFINE r == [x EXCEPT !.pc = "fail", !.seen = {}]
    <2>2. exit' = [exit EXCEPT ![e] = r] /\ r.id = x.id /\ r.pc = "fail"
      BY <1>1, <1>7 DEF ExitStepThrows, ExitGoto
    <2> HIDE DEF r
    <2> QED BY <2>1, <2>2, OneExitSold DEF PositionsKept
  <1>8. CASE ConfirmExit(e) \/ FailTrade(e) \/ FailTradeThrows(e)
    <2>1. Row /\ exit' = [exit EXCEPT ![e] = IdleExit] /\ UNCHANGED <<signal, wallet>>
      BY <1>2, <1>8 DEF ConfirmExit, FailTrade, FailTradeThrows, Resume
    <2>2. PositionsKept
      BY <1>1, <1>8, PositionsOfPairKept DEF ConfirmExit, FailTrade, FailTradeThrows, PositionsKept
    <2>3. trade' = trade \/ trade' = [trade EXCEPT ![x.id] = "FAILED"]
      BY <1>8 DEF ConfirmExit, FailTrade, FailTradeThrows
    <2>4. \A t \in Trade : /\ trade'[t] = "none" <=> trade[t] = "none"
                           /\ trade'[t] = "CLOSED" => trade[t] = "CLOSED"
      BY <1>1, <2>1, <2>3
    <2> QED BY <2>1, <2>2, <2>4, IdleCalls, OneExitSold
  <1> QED BY <1>3, <1>4, <1>5, <1>6, <1>7, <1>8 DEF ExitStep

LEMMA RecoverExitSold ==
    ASSUME SoldInv, NEW t \in Trade, RecoverExit(t)
    PROVE  Sold'
  <1> USE DEF SoldInv, Sold
  <1>1. Calls /\ Rows
    BY TypeParts
  <1>2. /\ UNCHANGED <<signal, exit>> /\ wallet' \subseteq wallet
        /\ \A u \in Trade : position'[u] = "none" => position[u] = "none"
    BY <1>1 DEF RecoverExit, Rows
  <1>3. \A u \in Trade : /\ trade'[u] = "none" <=> trade[u] = "none"
                         /\ trade'[u] = "CLOSED" => trade[u] = "CLOSED" \/ u \notin wallet'
    <2>1. CASE trade' = trade
      BY <2>1
    <2>2. ASSUME NEW v \in OpenTrades \cap OfPair(pairOf[t]), trade' = RowClosed(v)
          PROVE  v \in Trade /\ v \notin wallet'
      BY <2>2 DEF RecoverExit, OpenTrades
    <2>3. \/ trade' = trade
          \/ \E v \in OpenTrades \cap OfPair(pairOf[t]) : trade' = RowClosed(v)
      BY DEF RecoverExit
    <2> QED BY <1>1, <2>1, <2>2, <2>3, RowClosedRows
  <1>4. Untouched' /\ PendingFresh' /\ PendingDistinct'
    BY <1>1, <1>2, <1>3 DEF Untouched, PendingFresh, PendingDistinct, Calls, Named
  <1>5. ExitsOfRows' /\ SellsSeen' /\ ClosesSold'
    BY <1>1, <1>2, <1>3 DEF ExitsOfRows, SellsSeen, ClosesSold, Calls, Named
  <1>6. ClosedMeansSold'
    BY <1>2, <1>3 DEF ClosedMeansSold
  <1> QED BY <1>4, <1>5, <1>6

LEMMA RestartSold ==
    ASSUME SoldInv, Restart
    PROVE  Sold'
  <1> USE DEF SoldInv, Sold
  <1>1. Calls
    BY TypeParts
  <1>2. /\ UNCHANGED <<trade, position>>
        /\ \A s \in Signal : ~Pending(s)'
        /\ \A e \in ExitCall : exit'[e].pc = "idle"
    BY IdleCalls DEF Restart
  <1>3. ASSUME NEW t \in wallet'
        PROVE  t \in wallet \/ (\E s \in Signal : Pending(s) /\ signal[s].id = t)
    BY DEF Restart
  <1>4. Untouched' /\ ClosedMeansSold'
    BY <1>1, <1>2, <1>3 DEF Untouched, ClosedMeansSold, PendingFresh, Calls, Named
  <1>5. (PendingFresh /\ PendingDistinct /\ ExitsOfRows /\ SellsSeen /\ ClosesSold)'
    BY <1>2 DEF PendingFresh, PendingDistinct, ExitsOfRows, SellsSeen, ClosesSold
  <1> QED BY <1>4, <1>5

LEMMA SoldNext == SoldInv /\ [Next]_vars => SoldInv'
  <1> SUFFICES ASSUME SoldInv, [Next]_vars PROVE SoldInv'
    OBVIOUS
  <1>1. TypeInv' /\ Rows
    BY NextType, TypeParts DEF SoldInv
  <1>2. ASSUME NEW t \in Trade,
               TickHighWaterMark(t) \/ RecoverEntry(t) \/ \E sold \in BOOLEAN : RecoverFails(t, sold)
        PROVE  Sold'
    <2>1. PositionsKept
      BY <1>1, <1>2 DEF TickHighWaterMark, RecoverEntry, RecoverFails, Recovered, PositionsKept, Rows
    <2>2. PendingKept /\ UNCHANGED <<exit, trade>> /\ wallet' \subseteq wallet
      BY <1>2 DEF TickHighWaterMark, RecoverEntry, RecoverFails, PendingKept
    <2> QED BY <2>1, <2>2, OtherSold
  <1>3. ASSUME LockTimeout \/ UNCHANGED vars PROVE Sold'
    <2>1. UNCHANGED <<signal, exit, trade, position, wallet>>
      BY <1>3 DEF LockTimeout, vars
    <2>2. PositionsKept /\ PendingKept
      BY <2>1 DEF PositionsKept, PendingKept
    <2> QED BY <2>1, <2>2, OtherSold
  <1>4. Sold'
    <2>1. ASSUME NEW s \in Signal, EntryStep(s) PROVE Sold'
      BY <2>1, EntrySold
    <2>2. ASSUME NEW e \in ExitCall, ExitStep(e) PROVE Sold'
      BY <2>2, ExitSold
    <2>3. ASSUME NEW t \in Trade, RecoverExit(t) PROVE Sold'
      BY <2>3, RecoverExitSold
    <2>4. CASE Restart
      BY <2>4, RestartSold
    <2>5. ASSUME NEW t \in Trade, TickHighWaterMark(t) \/ RecoverPosition(t) PROVE Sold'
      BY <1>2, <2>3, <2>5 DEF RecoverPosition
    <2> QED BY <1>3, <2>1, <2>2, <2>4, <2>5 DEF Next
  <1> QED BY <1>1, <1>4 DEF SoldInv

\* Whoever closes a trade row, its tokens have left the wallet, and they stay gone.
THEOREM ClosedIsSold == Spec => []ClosedMeansSold
  <1>1. Init => SoldInv
    <2> SUFFICES ASSUME Init PROVE SoldInv
      OBVIOUS
    <2>1. Untouched /\ ClosedMeansSold
      BY DEF Init, Untouched, ClosedMeansSold
    <2>2. PendingFresh /\ PendingDistinct /\ ExitsOfRows /\ SellsSeen /\ ClosesSold
      BY IdleCalls DEF Init, PendingFresh, PendingDistinct, ExitsOfRows, SellsSeen, ClosesSold
    <2> QED BY <2>1, <2>2, InitType DEF SoldInv, Sold
  <1>2. SoldInv => ClosedMeansSold
    BY DEF SoldInv, Sold
  <1> QED BY <1>1, <1>2, SoldNext, PTL DEF Spec

-----------------------------------------------------------------------------
(* The recovery writes off nothing that is held *)

\* signals and exits wait until every open position has been visited
RecoveryFirst ==
    recovering # {} =>
        /\ \A s \in Signal : signal[s].pc = "idle"
        /\ \A e \in ExitCall : exit[e].pc = "idle"
RecoveryInv == TypeInv /\ recovering \subseteq OpenPositions /\ RecoveryFirst

LEMMA CallsWait ==
    ASSUME RecoveryInv
    PROVE  /\ \A s \in Signal : EntryStep(s) => recovering = {} /\ recovering' = {}
           /\ \A e \in ExitCall : ExitStep(e) => recovering = {} /\ recovering' = {}
  <1>1. ASSUME NEW s \in Signal, EntryStep(s) PROVE recovering = {} /\ recovering' = {}
    <2>1. recovering' = recovering /\ (Up \/ signal[s].pc # "idle")
      BY <1>1 DEF EntryStep, HandleRealtimeSignal, GetPortfolioState, SignalDropped,
         AcquireLock, OrderRejected, CreatePosition, SubmitOrder, ConfirmEntry, FailPosition,
         StartMonitoring, Progress, ExecuteBuy, BuyThrows, PriceAnomaly, InsertTrade,
         InsertFails, EntryStepThrows, ReleaseLock
    <2> QED BY <2>1 DEF RecoveryInv, RecoveryFirst, Up
  <1>2. ASSUME NEW e \in ExitCall, ExitStep(e) PROVE recovering = {} /\ recovering' = {}
    <2>1. recovering' = recovering /\ (Up \/ exit[e].pc # "idle")
      BY <1>2 DEF ExitStep, TickStopLoss, PollExit, Trigger, GetTokenBalance, Sell, SellThrows,
         CloseRow, ExitStepThrows, ConfirmExit, FailTrade, FailTradeThrows
    <2> QED BY <2>1 DEF RecoveryInv, RecoveryFirst, Up
  <1> QED BY <1>1, <1>2

LEMMA RecoveryNext == RecoveryInv /\ [Next]_vars => RecoveryInv'
  <1> SUFFICES ASSUME RecoveryInv, [Next]_vars PROVE RecoveryInv'
    OBVIOUS
  <1>1. TypeInv' /\ Calls /\ Rows
    BY NextType, TypeParts DEF RecoveryInv
  <1>2. ASSUME recovering' = {} PROVE RecoveryInv'
    BY <1>1, <1>2 DEF RecoveryInv, RecoveryFirst
  <1>3. ASSUME recovering' \subseteq recovering, UNCHANGED <<signal, exit>>,
               \A t \in recovering' : position'[t] = position[t]
        PROVE  RecoveryInv'
    BY <1>1, <1>3 DEF RecoveryInv, RecoveryFirst, OpenPositions
  <1>4. ASSUME NEW t \in Trade, RecoverPosition(t) PROVE RecoveryInv'
    <2>1. /\ recovering' = recovering \ {t} /\ UNCHANGED <<signal, exit>>
          /\ \A u \in Trade \ {t} : position'[u] = position[u]
      BY <1>1, <1>4 DEF RecoverPosition, RecoverEntry, RecoverExit, RecoverFails, Rows
    <2> QED BY <1>1, <1>3, <2>1 DEF Rows
  <1>5. ASSUME NEW t \in Trade, TickHighWaterMark(t) PROVE RecoveryInv'
    BY <1>3, <1>5 DEF TickHighWaterMark
  <1>6. CASE LockTimeout \/ UNCHANGED vars
    BY <1>3, <1>6 DEF LockTimeout, vars
  <1>7. CASE Restart
    BY <1>1, <1>7, IdleCalls DEF Restart, RecoveryInv, RecoveryFirst, OpenPositions
  <1> QED BY <1>2, <1>4, <1>5, <1>6, <1>7, CallsWait DEF Next

LEMMA RecoveryStep ==
    RecoveryInv /\ [Next]_vars =>
        \A t \in recovering \ recovering' :
            position'[t] \in {"EXIT_CONFIRMED", "ORDER_FAILED"} => t \notin wallet'
  <1> SUFFICES ASSUME RecoveryInv, [Next]_vars, NEW t \in recovering \ recovering',
                      position'[t] \in {"EXIT_CONFIRMED", "ORDER_FAILED"}
               PROVE  t \notin wallet'
    OBVIOUS
  <1>1. Rows /\ t \in Trade /\ t \in OpenPositions
    BY TypeParts DEF RecoveryInv, Rows
  <1>2. ASSUME NEW u \in Trade, RecoverPosition(u) PROVE t \notin wallet'
    <2>1. t = u
      BY <1>1, <1>2 DEF RecoverPosition, RecoverEntry, RecoverExit, RecoverFails
    <2>2. CASE RecoverEntry(u)
      <3>1. Balance(pairOf[t]) = {} /\ wallet' = wallet
        BY <1>1, <2>1, <2>2 DEF RecoverEntry, Recovered, Rows
      <3> QED BY <1>1, <3>1 DEF Balance, OfPair
    <2>3. CASE RecoverExit(u)
      BY <1>1, <2>1, <2>3 DEF RecoverExit, OfPair
    <2>4. ASSUME NEW sold \in BOOLEAN, RecoverFails(u, sold) PROVE FALSE
      BY <1>1, <2>4 DEF RecoverFails, OpenPositions
    <2> QED BY <1>2, <2>2, <2>3, <2>4 DEF RecoverPosition
  <1>3. CASE Restart
    BY <1>1, <1>3 DEF Restart
  <1>4. CASE recovering' = recovering
    BY <1>4
  <1>5. CASE (\E u \in Trade : TickHighWaterMark(u)) \/ LockTimeout \/ UNCHANGED vars
    BY <1>4, <1>5 DEF TickHighWaterMark, LockTimeout, vars
  <1> QED BY <1>2, <1>3, <1>5, CallsWait DEF Next

\* The recovery calls a position closed or failed only when none of its tokens is left.
THEOREM RecoveryKeeps == Spec => RecoveryKeepsHeld
  <1>1. Init => RecoveryInv
    BY InitType DEF Init, RecoveryInv, RecoveryFirst
  <1>2. RecoveryInv /\ [Next]_vars =>
           [\A t \in recovering \ recovering' :
              position'[t] \in {"EXIT_CONFIRMED", "ORDER_FAILED"} => t \notin wallet']_vars
    BY RecoveryStep
  <1> QED BY <1>1, <1>2, RecoveryNext, PTL DEF Spec, RecoveryKeepsHeld

-----------------------------------------------------------------------------
(* The limit on positions *)

\* an execution that may still insert a trade row was approved
Approving ==
    \A s \in Signal :
        signal[s].pc \in {"create", "submit", "buy", "confirm", "insert"} => signal[s].approved
PositionsInv == TypeInv /\ Approving /\ PositionsBounded

LEMMA PositionsFinite ==
    /\ IsFiniteSet(OpenTrades) /\ IsFiniteSet(Admitted) /\ IsFiniteSet(Signal)
    /\ Cardinality(OpenTrades) \in Nat /\ Cardinality(Admitted) \in Nat
    /\ Cardinality(Signal) \in Nat
  BY FS_Subset, FS_CardinalityType, MainAssumption DEF OpenTrades, Admitted

\* An entry step admits a signal only below the limit, and inserts only for an admitted
\* signal, which it is no longer then.
LEMMA EntryPositions ==
    ASSUME Calls, Rows, Approving, NEW s \in Signal, EntryStep(s)
    PROVE  /\ Approving'
           /\ \/ OpenTrades' \subseteq OpenTrades /\ Admitted' \subseteq Admitted
              \/ /\ OpenTrades' = OpenTrades /\ Cardinality(OpenTrades) < MaxConcurrent
                 /\ Admitted' \subseteq Signal
              \/ /\ s \in Admitted /\ Admitted' \subseteq Admitted \ {s}
                 /\ OpenTrades' \subseteq OpenTrades \cup {signal[s].id}
  <1> USE DEF Calls, Approving, Admitted, Goto
  <1>1. CASE GetPortfolioState(s)
    <2> DEFINE a == Approved(signal[s].pair)
               r == [signal[s] EXCEPT !.pc = "acquire", !.approved = a]
    <2>1. r.approved = a /\ r.pc = "acquire"
      OBVIOUS
    <2>2. signal' = [signal EXCEPT ![s] = r] /\ trade' = trade
      BY <1>1 DEF GetPortfolioState
    <2>3. a => Cardinality(OpenTrades) < MaxConcurrent
      BY DEF Approved
    <2> HIDE DEF a, r
    <2>4. OpenTrades' = OpenTrades
      BY <2>2 DEF OpenTrades
    <2>5. \A q \in Signal : signal'[q] = IF q = s THEN r ELSE signal[q]
      BY <2>2
    <2>6. Approving'
      BY <2>1, <2>5
    <2>7. CASE a
      BY <2>3, <2>4, <2>6, <2>7
    <2>8. CASE ~a
      <3>1. Admitted' \subseteq Admitted
        BY <2>1, <2>5, <2>8
      <3> QED BY <2>4, <2>6, <3>1
    <2> QED BY <2>7, <2>8
  <1>2. CASE InsertTrade(s)
    <2> DEFINE r == [signal[s] EXCEPT !.pc = "monitor", !.approved = FALSE]
    <2>1. ~r.approved /\ r.pc = "monitor"
      OBVIOUS
    <2>2. signal' = [signal EXCEPT ![s] = r] /\ signal[s].pc = "insert"
      BY <1>2 DEF InsertTrade
    <2>3. OpenTrades' \subseteq OpenTrades \cup {signal[s].id}
      BY <1>2 DEF InsertTrade, OpenTrades, Rows
    <2> HIDE DEF r
    <2>4. \A q \in Signal : signal'[q] = IF q = s THEN r ELSE signal[q]
      BY <2>2
    <2>5. Approving' /\ s \in Admitted /\ Admitted' \subseteq Admitted \ {s}
      BY <2>1, <2>2, <2>4
    <2> QED BY <2>3, <2>5
  <1>3. ASSUME NEW r, signal' = [signal EXCEPT ![s] = r], trade' = trade,
               r.approved => signal[s].approved,
               r.pc \in {"create", "submit", "buy", "confirm", "insert"} => r.approved
        PROVE  /\ Approving' /\ Admitted' \subseteq Admitted
               /\ OpenTrades' \subseteq OpenTrades
    <2>1. \A q \in Signal : signal'[q] = IF q = s THEN r ELSE signal[q]
      BY <1>3
    <2> QED BY <1>3, <2>1 DEF OpenTrades
  <1>4. CASE SignalDropped(s) \/ ReleaseLock(s)
    <2>1. signal' = [signal EXCEPT ![s] = IdleSignal] /\ trade' = trade
      BY <1>4 DEF SignalDropped, ReleaseLock
    <2> QED BY <1>3, <2>1, IdleCalls
  <1>5. ASSUME NEW p \in Pair, HandleRealtimeSignal(s, p)
        PROVE  Approving' /\ Admitted' \subseteq Admitted /\ OpenTrades' \subseteq OpenTrades
    <2> DEFINE r == [IdleSignal EXCEPT !.pc = "gates", !.pair = p]
    <2>1. ~r.approved /\ r.pc = "gates"
      BY DEF IdleSignal
    <2>2. signal' = [signal EXCEPT ![s] = r] /\ trade' = trade
      BY <1>5 DEF HandleRealtimeSignal
    <2> HIDE DEF r
    <2> QED BY <1>3, <2>1, <2>2
  <1>6. ASSUME NEW pc \in SignalPc, signal' = [signal EXCEPT ![s].pc = pc], trade' = trade,
               pc \in {"create", "submit", "buy", "confirm", "insert"} => signal[s].approved
        PROVE  Approving' /\ Admitted' \subseteq Admitted /\ OpenTrades' \subseteq OpenTrades
    <2> DEFINE r == [signal[s] EXCEPT !.pc = pc]
    <2>1. r.approved = signal[s].approved /\ r.pc = pc
      OBVIOUS
    <2>2. signal' = [signal EXCEPT ![s] = r]
      BY <1>6
    <2> HIDE DEF r
    <2> QED BY <1>3, <1>6, <2>1, <2>2
  <1>7. ASSUME NEW pc \in SignalPc, trade' = trade,
               signal' = [signal EXCEPT ![s].pc = pc, ![s].approved = FALSE],
               pc \in {"release", "failed"}
        PROVE  Approving' /\ Admitted' \subseteq Admitted /\ OpenTrades' \subseteq OpenTrades
    <2> DEFINE r == [signal[s] EXCEPT !.pc = pc, !.approved = FALSE]
    <2>1. ~r.approved /\ r.pc = pc
      OBVIOUS
    <2>2. signal' = [signal EXCEPT ![s] = r]
      BY <1>7
    <2> HIDE DEF r
    <2> QED BY <1>3, <1>7, <2>1, <2>2
  <1>8. CASE AcquireLock(s)
    <2>1. CASE signal[s].approved
      BY <1>6, <1>8, <2>1 DEF AcquireLock
    <2>2. CASE ~signal[s].approved
      BY <1>6, <1>8, <2>2 DEF AcquireLock
    <2> QED BY <2>1, <2>2
  <1>9. CASE SubmitOrder(s) \/ ConfirmEntry(s) \/ ExecuteBuy(s)
    BY <1>6, <1>9 DEF SubmitOrder, ConfirmEntry, ExecuteBuy, Progress
  <1>10. CASE FailPosition(s) \/ \E to \in {"release", "failed"} : StartMonitoring(s, to)
    BY <1>6, <1>10 DEF FailPosition, StartMonitoring, Progress
  <1>11. CASE OrderRejected(s) \/ InsertFails(s)
    BY <1>7, <1>11 DEF OrderRejected, InsertFails
  <1>12. ASSUME NEW thrown \in BOOLEAN, BuyThrows(s, thrown) \/ PriceAnomaly(s, thrown)
         PROVE  Approving' /\ Admitted' \subseteq Admitted /\ OpenTrades' \subseteq OpenTrades
    <2>1. /\ signal' = [signal EXCEPT ![s].pc = "failed", ![s].approved = FALSE]
          /\ trade' = trade
      BY <1>12 DEF BuyThrows, PriceAnomaly
    <2> QED BY <1>7, <2>1
  <1>13. ASSUME NEW t \in Trade, CreatePosition(s, t)
         PROVE  Approving' /\ Admitted' \subseteq Admitted /\ OpenTrades' \subseteq OpenTrades
    <2> DEFINE r == [signal[s] EXCEPT !.pc = "submit", !.id = t]
    <2>1. r.approved = signal[s].approved /\ r.pc = "submit" /\ signal[s].approved
      BY <1>13 DEF CreatePosition
    <2>2. signal' = [signal EXCEPT ![s] = r] /\ trade' = trade
      BY <1>13 DEF CreatePosition
    <2> HIDE DEF r
    <2> QED BY <1>3, <2>1, <2>2
  <1>14. CASE EntryStepThrows(s)
    <2> DEFINE pc == IF signal[s].pc = "failed" THEN "release" ELSE "failed"
    <2>1. /\ signal' = [signal EXCEPT ![s].approved = FALSE, ![s].pc = pc]
          /\ trade' = trade
      BY <1>14 DEF EntryStepThrows
    <2> DEFINE r == [signal[s] EXCEPT !.approved = FALSE, !.pc = pc]
    <2>2. ~r.approved /\ r.pc \in {"release", "failed"}
      OBVIOUS
    <2>3. signal' = [signal EXCEPT ![s] = r]
      BY <2>1
    <2> HIDE DEF r
    <2> QED BY <1>3, <2>1, <2>2, <2>3
  <1> QED BY <1>1, <1>2, <1>4, <1>5, <1>8, <1>9, <1>10, <1>11, <1>12, <1>13, <1>14 DEF EntryStep

\* exits and the recovery open no trade row
LEMMA OtherPositions ==
    ASSUME Calls, Rows, [Next]_vars, \A s \in Signal : ~EntryStep(s)
    PROVE  OpenTrades' \subseteq OpenTrades /\ (signal' = signal \/ Restart)
  <1> USE DEF Calls, Rows, OpenTrades
  <1>1. ASSUME NEW e \in ExitCall, ExitStep(e)
        PROVE  OpenTrades' \subseteq OpenTrades /\ signal' = signal
    BY <1>1 DEF ExitStep, TickStopLoss, PollExit, Trigger, GetTokenBalance, Sell, SellThrows,
       CloseRow, RowClosed, ExitStepThrows, ConfirmExit, FailTrade, FailTradeThrows
  <1>2. ASSUME NEW t \in Trade, RecoverPosition(t)
        PROVE  OpenTrades' \subseteq OpenTrades /\ signal' = signal
    BY <1>2 DEF RecoverPosition, RecoverEntry, RecoverExit, RecoverFails, RowClosed
  <1>3. ASSUME \/ \E t \in Trade : TickHighWaterMark(t)
               \/ LockTimeout \/ UNCHANGED vars
        PROVE  OpenTrades' \subseteq OpenTrades /\ signal' = signal
    BY <1>3 DEF TickHighWaterMark, LockTimeout, vars
  <1>4. CASE Restart
    BY <1>4 DEF Restart
  <1> QED BY <1>1, <1>2, <1>3, <1>4 DEF Next

LEMMA PositionsNext == PositionsInv /\ [Next]_vars => PositionsInv'
  <1> SUFFICES ASSUME PositionsInv, [Next]_vars PROVE PositionsInv'
    OBVIOUS
  <1>1. TypeInv' /\ Calls /\ Rows
    BY NextType, TypeParts DEF PositionsInv
  <1> DEFINE Fewer == OpenTrades' \subseteq OpenTrades /\ Admitted' \subseteq Admitted
  <1>2. ASSUME Fewer PROVE PositionsBounded'
    BY <1>2, PositionsFinite, MainAssumption, Counting DEF PositionsInv, PositionsBounded
  <1>3. ASSUME NEW s \in Signal, EntryStep(s) PROVE Approving' /\ PositionsBounded'
    <2>1. Approving'
      BY <1>1, <1>3, EntryPositions DEF PositionsInv
    <2>2. ASSUME OpenTrades' = OpenTrades, Cardinality(OpenTrades) < MaxConcurrent,
                 Admitted' \subseteq Signal
          PROVE  PositionsBounded'
      BY <2>2, PositionsFinite, MainAssumption, Counting DEF PositionsBounded
    <2>3. ASSUME s \in Admitted, Admitted' \subseteq Admitted \ {s},
                 OpenTrades' \subseteq OpenTrades \cup {signal[s].id}
          PROVE  PositionsBounded'
      <3>1. /\ Cardinality(OpenTrades') \in Nat
            /\ Cardinality(OpenTrades') <= Cardinality(OpenTrades) + 1
        BY <2>3, PositionsFinite, Counting
      <3>2. /\ Cardinality(Admitted') \in Nat
            /\ Cardinality(Admitted') <= Cardinality(Admitted) - 1
        BY <2>3, PositionsFinite, Counting
      <3> QED BY <3>1, <3>2, PositionsFinite, MainAssumption DEF PositionsInv, PositionsBounded
    <2> QED BY <1>1, <1>2, <1>3, <2>1, <2>2, <2>3, EntryPositions DEF PositionsInv
  <1>4. ASSUME \A s \in Signal : ~EntryStep(s) PROVE Approving' /\ PositionsBounded'
    <2>1. OpenTrades' \subseteq OpenTrades /\ (signal' = signal \/ Restart)
      BY <1>1, <1>4, OtherPositions
    <2>2. CASE signal' = signal
      <3>1. Admitted' \subseteq Admitted /\ Approving'
        BY <2>2 DEF PositionsInv, Approving, Admitted
      <3> QED BY <1>2, <2>1, <3>1
    <2>3. CASE Restart
      <3>1. \A s \in Signal : signal'[s] = IdleSignal
        BY <2>3 DEF Restart
      <3>2. Admitted' \subseteq Admitted /\ Approving'
        BY <3>1, IdleCalls DEF Admitted, Approving
      <3> QED BY <1>2, <2>1, <3>2
    <2> QED BY <2>1, <2>2, <2>3
  <1> QED BY <1>1, <1>3, <1>4 DEF PositionsInv

\* Overlapping signals exceed the limit by less than their number: a risk check that
\* passed counts at most once, and none passes at the limit.
THEOREM PositionsLimited == Spec => []PositionsBounded
  <1>1. Init => PositionsInv
    <2> SUFFICES ASSUME Init PROVE PositionsInv
      OBVIOUS
    <2>1. OpenTrades = {} /\ Admitted = {} /\ Approving
      BY IdleCalls DEF Init, OpenTrades, Admitted, Approving
    <2> QED BY <2>1, InitType, PositionsFinite, MainAssumption, FS_EmptySet
            DEF PositionsInv, PositionsBounded
  <1>2. PositionsInv => PositionsBounded
    BY DEF PositionsInv
  <1> QED BY <1>1, <1>2, PositionsNext, PTL DEF Spec
=============================================================================
