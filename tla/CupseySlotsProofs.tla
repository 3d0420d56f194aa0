------------------------- MODULE CupseySlotsProofs -------------------------
(* What CupseyLane keeps of positions, their ids and their canary slots.     *)
(* Without a survival check: one open position of a pair, and no slot that   *)
(* is not of a position in the map.  For any number of signals in the check: *)
(* as many positions of a pair as there were signals in it together, none    *)
(* let in beside an open one, and no slot that is not of an object still at  *)
(* work.  In paper trading: slots that match the positions.  A step keeps    *)
(* the map (Keeps), drops one object from it (Drops), is a signal or a       *)
(* restart.                                                                  *)
EXTENDS CupseyLaneProofs, FiniteSetTheorems

\* the lane has no survival check to await: paper trading, or SECURITY_GATE_ENABLED=false
Ungated == ~(Live /\ SecurityGate)

\* an object has the id it was made with, and the map has it there or nowhere
Named(o) ==
    /\ pos[o].state # "free" => pos[o].key = o
    /\ activePositions[o] \in {o, NoPosition}
    /\ activePositions[o] = o => pos[o].state # "free"

\* the close that sells works on a position that is still open
Closing(t) == tick[t].pc \in {"balance", "sell"} => pos[tick[t].pos].state \in {"PROBE", "WINNER"}

\* every close that sells does
ClosesOpen == \A t \in TickCall : Closing(t)

\* no signal of the pair is suspended
NoneWaits(p) == survivalChecks[p] = 0

\* the strengthening of OneOpenPositionPerPair of a lane without survival checks
KInv ==
    /\ \A o \in Position : Named(o)
    /\ ClosesOpen
    /\ \A p \in Pair : NoneWaits(p)
    /\ OneOpenPositionPerPair

\* what a step that leaves the map alone does to an object
Moves(o) ==
    /\ pos'[o].key = pos[o].key /\ pos'[o].pair = pos[o].pair
    /\ pos[o].state = "free" => pos'[o].state = "free"
    /\ pos[o].state # "free" => pos'[o].state # "free"
    /\ pos[o].state = "CLOSED" => pos'[o].state = "CLOSED"

\* a step that leaves the map and the slots alone
Keeps ==
    /\ UNCHANGED <<activePositions, survivalChecks, canary, restarts>>
    /\ \A o \in Position : Moves(o)

\* a step that takes an object off the map and releases a slot
Drops(o) ==
    /\ pos[o].state # "free"
    /\ activePositions' = WithoutId(o) /\ canary' = ReleasedSlots
    /\ UNCHANGED <<survivalChecks, restarts>>
    /\ pos' = pos \/ pos' = [pos EXCEPT ![o] = FreePosition]

\* and so they do after the step
ClosingHolds == \A t \in TickCall : Closing(t)'

-----------------------------------------------------------------------------
(* Kinds of steps *)

\* An object whose state alone is written.
LEMMA StateMoves ==
    ASSUME TypeOK, NEW o \in Position, NEW st, st # "free",
           pos[o].state # "free", pos[o].state = "CLOSED" => st = "CLOSED",
           pos' = [pos EXCEPT ![o].state = st]
    PROVE  \A q \in Position : /\ Moves(q)
                               /\ pos'[q].state = IF q = o THEN st ELSE pos[q].state
<1>1. \A q \in Position : pos[q] \in CupseyPosition
    BY DEF TypeOK
<1>2. /\ pos'[o] = [pos[o] EXCEPT !.state = st]
      /\ \A q \in Position : q # o => pos'[q] = pos[q]
    BY DEF TypeOK
<1>3. pos'[o].state = st /\ pos'[o].key = pos[o].key /\ pos'[o].pair = pos[o].pair
    BY <1>1, <1>2 DEF CupseyPosition
<1> QED BY <1>2, <1>3 DEF Moves

\* The visit of a tick.
LEMMA VisitKind ==
    ASSUME IInv, ClosesOpen, VisitStep
    PROVE  ClosingHolds /\ (Keeps \/ \E o \in Position : Drops(o))
<1> SUFFICES ASSUME NEW o \in Position,
                    \/ StalkSkip(o)
                    \/ StalkWalletStop(o)
                    \/ \E written \in BOOLEAN : Promote(o, written)
                    \/ WinnerTick(o)
                    \/ \E t \in TickCall : StalkEntry(t, o) \/ StartClose(t, o)
             PROVE  ClosingHolds /\ (Keeps \/ \E q \in Position : Drops(q))
    BY DEF VisitStep
<1>1. TypeOK /\ \A t \in TickCall : TickInv(t) /\ Closing(t)
    BY DEF IInv, ClosesOpen
<1>2. \A t \in TickCall : tick[t].pc \in {"balance", "sell"} => tick[t].pos \in Position
    BY <1>1 DEF TickInv
<1>3. CASE StalkSkip(o) \/ StalkWalletStop(o)
    <2>1. /\ pos[o].state = "STALK" /\ Drops(o) /\ UNCHANGED tick
        BY <1>3 DEF StalkSkip, StalkWalletStop, Discardable, Discard, Drops
    <2>2. \A q \in Position : q # o => pos'[q] = pos[q]
        BY <1>1, <2>1 DEF Drops, TypeOK
    <2> QED BY <1>1, <1>2, <2>1, <2>2 DEF ClosingHolds, Closing
<1>4. ASSUME NEW written \in BOOLEAN, Promote(o, written) PROVE ClosingHolds /\ Keeps
    <2>1. /\ pos[o].state = "PROBE" /\ pos' = [pos EXCEPT ![o].state = "WINNER"]
          /\ UNCHANGED <<tick, activePositions, survivalChecks, canary, restarts>>
        BY <1>4 DEF Promote, Promotable
    <2>2. \A q \in Position : /\ Moves(q)
                              /\ pos'[q].state = IF q = o THEN "WINNER" ELSE pos[q].state
        BY <1>1, <2>1, StateMoves, ZenonT(60)
    <2> QED BY <1>1, <1>2, <2>1, <2>2 DEF ClosingHolds, Closing, Keeps
<1>5. CASE WinnerTick(o)
    BY <1>1, <1>5 DEF WinnerTick, ClosingHolds, Closing, Keeps, Moves
<1>6. ASSUME NEW t \in TickCall, StalkEntry(t, o) PROVE ClosingHolds /\ Keeps
    <2>1. /\ pos[o].state = "STALK"
          /\ UNCHANGED <<activePositions, survivalChecks, canary, restarts>>
        BY <1>6 DEF StalkEntry
    <2>2. /\ pos'[o].state \in {"STALK", "PROBE"} /\ pos'[o].key = pos[o].key
          /\ pos'[o].pair = pos[o].pair /\ \A q \in Position : q # o => pos'[q] = pos[q]
        BY <1>1, <2>1, <1>6 DEF StalkEntry, TypeOK, CupseyPosition
    <2>3. tick'[t].pc \notin {"balance", "sell"} /\ \A u \in TickCall : u # t => tick'[u] = tick[u]
        BY <1>1, <1>6 DEF StalkEntry, TypeOK, Idle
    <2> QED BY <1>1, <1>2, <2>1, <2>2, <2>3 DEF ClosingHolds, Closing, Keeps, Moves
<1>7. ASSUME NEW t \in TickCall, StartClose(t, o) PROVE ClosingHolds /\ Keeps
    <2>1. tick'[t].pc \notin {"balance", "sell"} /\ \A u \in TickCall : u # t => tick'[u] = tick[u]
        BY <1>1, <1>7 DEF StartClose, TypeOK, Idle
    <2> QED BY <1>1, <1>7, <2>1 DEF StartClose, ClosingHolds, Closing, Keeps, Moves
<1> QED BY <1>3, <1>4, <1>5, <1>6, <1>7

\* What a promise resolves to.
LEMMA AwaitKind ==
    ASSUME IInv, ClosesOpen, NEW t \in TickCall, AwaitReturns(t)
    PROVE  ClosingHolds /\ (Keeps \/ Drops(tick[t].pos))
<1>1. TypeOK /\ \A u \in TickCall : TickInv(u) /\ Closing(u) /\ tick[u] \in TickState
    BY DEF IInv, ClosesOpen, TypeOK
<1>2. PICK o : o = tick[t].pos
    OBVIOUS
<1>3. o \in Position /\ pos[o].state # "free"
    <2>1. tick[t].pc # "idle"
        BY DEF AwaitReturns, BuySucceeds, BuyFails, InsertSucceeds, InsertFails, CloseBegins,
               BalanceRead,
               SellSucceeds, SellFails, CloseInsertSucceeds, CloseTradeSucceeds, ClosePersistFails
    <2> QED BY <1>1, <1>2, <2>1, ShapeFromInv DEF TickInv
<1>4. \A u \in TickCall : u # t => tick'[u] = tick[u]
    BY <1>1 DEF TypeOK, AwaitReturns, BuySucceeds, BuyFails, InsertSucceeds, InsertFails,
           CloseBegins,
           BalanceRead, SellSucceeds, SellFails, CloseInsertSucceeds, CloseTradeSucceeds,
           ClosePersistFails, CloseEnds, Leave, PersistClose
<1>5. \A u \in TickCall : tick[u].pc \in {"balance", "sell"} => tick[u].pos \in Position
    BY <1>1 DEF TickInv
<1>6. ASSUME tick'[t].pc \notin {"balance", "sell"},
             \A u \in TickCall : u # t /\ tick[u].pc \in {"balance", "sell"} =>
                 pos'[tick[u].pos].state = pos[tick[u].pos].state
      PROVE  ClosingHolds
    BY <1>1, <1>4, <1>6 DEF ClosingHolds, Closing
<1>7. CASE BuySucceeds(t)
    <2>1. /\ pos[o].state = "STALK" /\ pos' = [pos EXCEPT ![o].state = "PROBE"]
          /\ tick'[t].pc = "insert"
          /\ UNCHANGED <<activePositions, survivalChecks, canary, restarts>>
        BY <1>1, <1>2, <1>7 DEF BuySucceeds, TickInv, TypeOK, TickState
    <2>2. \A q \in Position : /\ Moves(q)
                              /\ pos'[q].state = IF q = o THEN "PROBE" ELSE pos[q].state
        BY <1>1, <1>3, <2>1, StateMoves, ZenonT(60)
    <2>3. \A u \in TickCall : tick[u].pc \in {"balance", "sell"} => tick[u].pos # o
        BY <1>1, <2>1 DEF Closing
    <2> QED BY <1>5, <1>6, <2>1, <2>2, <2>3 DEF Keeps
<1>8. ASSUME NEW landed \in BOOLEAN, BuyFails(t, landed) PROVE ClosingHolds /\ Drops(o)
    <2>1. pos[o].state = "STALK" /\ tick'[t].pc = "idle" /\ Drops(o)
        BY <1>1, <1>2, <1>3, <1>8 DEF BuyFails, TickInv, TypeOK, Drops, Idle
    <2>2. \A q \in Position : q # o => pos'[q] = pos[q]
        BY <1>1, <2>1 DEF Drops, TypeOK
    <2>3. \A u \in TickCall : tick[u].pc \in {"balance", "sell"} => tick[u].pos # o
        BY <1>1, <2>1 DEF Closing
    <2> QED BY <1>5, <1>6, <2>1, <2>2, <2>3
<1>9. CASE InsertSucceeds(t) \/ InsertFails(t) \/ CloseInsertSucceeds(t)
    <2>1. /\ pos' = pos \/ pos' = [pos EXCEPT ![o].dbTradeId = "entry"]
          /\ UNCHANGED <<activePositions, survivalChecks, canary, restarts>>
        BY <1>2, <1>9 DEF InsertSucceeds, InsertFails, CloseInsertSucceeds
    <2>3. \A q \in Position : /\ pos'[q].state = pos[q].state /\ pos'[q].key = pos[q].key
                              /\ pos'[q].pair = pos[q].pair
        BY <1>1, <1>3, <2>1 DEF TypeOK, CupseyPosition
    <2>2. tick'[t].pc \in {"idle", "closeTrade"}
        BY <1>1, <1>9 DEF InsertSucceeds, InsertFails, CloseInsertSucceeds, TypeOK, TickState, Idle
    <2> QED BY <1>5, <1>6, <2>1, <2>2, <2>3 DEF Keeps, Moves
<1>10. ASSUME NEW u \in TickCall, u # t, tick[t].pc \in Critical \/ Head(closeMutex) = t
       PROVE  tick[u].pc \notin {"balance", "sell"}
    BY <1>1, <1>10 DEF TickInv, Critical
<1>11. CASE CloseBegins(t)
    <2>1. /\ tick[t].pc = "queued" /\ Head(closeMutex) = t /\ pos[o].state \in Entered
          /\ UNCHANGED <<activePositions, survivalChecks, canary, restarts>>
        BY <1>1, <1>2, <1>11 DEF CloseBegins, TickInv
    <2>2. CASE AlreadyClosed(o)
        <3>1. tick'[t].pc = "idle" /\ pos' = pos
            BY <1>1, <1>2, <1>11, <2>2 DEF CloseBegins, Leave, TypeOK, Idle
        <3> QED BY <1>6, <2>1, <3>1 DEF Keeps, Moves
    <2>3. CASE ~AlreadyClosed(o) /\ Live
        <3>1. /\ tick'[t].pos = o /\ pos' = pos
            BY <1>1, <1>2, <1>11, <2>3 DEF CloseBegins, TypeOK, TickState
        <3>2. pos[o].state \in {"PROBE", "WINNER"}
            BY <2>1, <2>3 DEF AlreadyClosed, Entered
        <3> QED BY <1>1, <1>4, <2>1, <3>1, <3>2 DEF ClosingHolds, Closing, Keeps, Moves
    <2>4. CASE ~AlreadyClosed(o) /\ ~Live
        <3>1. /\ pos' = [pos EXCEPT ![o].state = "CLOSED"]
              /\ tick'[t].pc \in {"closeInsert", "closeTrade"}
            BY <1>1, <1>2, <1>11, <2>4 DEF CloseBegins, PersistClose, TypeOK, TickState
        <3>2. \A q \in Position : Moves(q)
            BY <1>1, <1>3, <3>1, StateMoves, ZenonT(60)
        <3> QED BY <1>6, <1>10, <2>1, <3>1, <3>2 DEF Keeps
    <2> QED BY <2>2, <2>3, <2>4
<1>12. CASE BalanceRead(t)
    <2>1. /\ tick[t].pc = "balance" /\ tick'[t].pos = o /\ pos' = pos
          /\ UNCHANGED <<activePositions, survivalChecks, canary, restarts>>
        BY <1>1, <1>2, <1>12 DEF BalanceRead, TypeOK, TickState
    <2> QED BY <1>1, <1>2, <1>4, <2>1 DEF ClosingHolds, Closing, Keeps, Moves
<1>13. CASE SellSucceeds(t)
    <2>1. /\ tick[t].pc = "sell" /\ pos' = [pos EXCEPT ![o].state = "CLOSED"]
          /\ tick'[t].pc \in {"closeInsert", "closeTrade"}
          /\ UNCHANGED <<activePositions, survivalChecks, canary, restarts>>
        BY <1>1, <1>2, <1>13 DEF SellSucceeds, PersistClose, TypeOK, TickState
    <2>2. \A q \in Position : Moves(q)
        BY <1>1, <1>3, <2>1, StateMoves, ZenonT(60)
    <2> QED BY <1>6, <1>10, <2>1, <2>2 DEF Keeps, Critical
<1>14. ASSUME NEW landed \in BOOLEAN, SellFails(t, landed) PROVE ClosingHolds /\ Keeps
    <2>1. /\ tick[t].pc \in {"balance", "sell"} /\ pos' = [pos EXCEPT ![o].state = tick[t].prev]
          /\ tick'[t].pc = "idle"
          /\ UNCHANGED <<activePositions, survivalChecks, canary, restarts>>
        BY <1>1, <1>2, <1>14 DEF SellFails, StateAfterFailedSell, Leave, TypeOK, Idle
    <2>2. tick[t].prev \in {"PROBE", "WINNER"} /\ pos[o].state \in {"PROBE", "WINNER"}
        BY <1>1, <1>2, <2>1 DEF TickInv, Closing
    <2>3. \A q \in Position : Moves(q)
        BY <1>1, <1>3, <2>1, <2>2, StateMoves, ZenonT(60)
    <2> QED BY <1>6, <1>10, <2>1, <2>3 DEF Keeps, Critical
<1>15. CASE CloseTradeSucceeds(t) \/ ClosePersistFails(t)
    <2>1. pos' = pos /\ tick'[t].pc = "idle" /\ Drops(o)
        BY <1>1, <1>2, <1>3, <1>15
           DEF CloseTradeSucceeds, ClosePersistFails, CloseEnds, Leave, TypeOK, Drops, Idle
    <2> QED BY <1>2, <1>6, <2>1
<1> QED BY <1>2, <1>7, <1>8, <1>9, <1>11, <1>12, <1>13, <1>14, <1>15 DEF AwaitReturns

-----------------------------------------------------------------------------
(* One open position of a pair *)

\* being tracked, in terms of the map alone
OnTheMap ==
    /\ TrackedPositions = {o \in Position : activePositions[o] = o}
    /\ OpenPositions = {o \in Position : activePositions[o] = o /\ pos[o].state # "CLOSED"}

\* every object has an id of its own
AllNamed == \A o \in Position : Named(o)

\* Objects with ids of their own are tracked exactly while the map has their id.
LEMMA NamedOnTheMap == AllNamed => OnTheMap
<1> SUFFICES ASSUME AllNamed PROVE OnTheMap
    OBVIOUS
<1>1. NoPosition \notin Position
    BY LaneAssumption
<1>2. ASSUME NEW o \in Position PROVE Tracked(o) <=> activePositions[o] = o
    BY <1>1, <1>2 DEF Tracked, Named, AllNamed
<1> QED BY <1>2 DEF TrackedPositions, OpenPositions, OnTheMap

\* The same of the next state.
LEMMA NextOnTheMap == AllNamed' => OnTheMap'
BY NamedOnTheMap, PTL

\* No object opens but a new one.
LEMMA KeepsHolds ==
    ASSUME IInv, IInv', KInv, Keeps, ClosingHolds
    PROVE  KInv' /\ TrackedPositions' = TrackedPositions
<1>1. ASSUME NEW o \in Position PROVE Named(o)'
    BY DEF Named, KInv, Keeps, Moves
<1>2. /\ TrackedPositions' = TrackedPositions
      /\ OpenPositions' \subseteq OpenPositions
      /\ \A o \in OpenPositions' : o \in Position /\ pos'[o].pair = pos[o].pair
    <2>1. /\ TrackedPositions = {o \in Position : activePositions[o] = o}
          /\ OpenPositions = {o \in Position : activePositions[o] = o /\ pos[o].state # "CLOSED"}
        BY NamedOnTheMap DEF KInv, AllNamed, OnTheMap
    <2>2. /\ TrackedPositions' = {o \in Position : activePositions'[o] = o}
          /\ OpenPositions' = {o \in Position : activePositions'[o] = o /\ pos'[o].state # "CLOSED"}
        BY <1>1, NextOnTheMap DEF AllNamed, OnTheMap
    <2> QED BY <2>1, <2>2 DEF Keeps, Moves
<1>3. \A p \in Pair : NoneWaits(p)'
    BY DEF KInv, NoneWaits, Keeps
<1>4. OneOpenPositionPerPair'
    BY <1>2 DEF KInv, OneOpenPositionPerPair
<1> QED BY <1>1, <1>2, <1>3, <1>4 DEF KInv, ClosesOpen, ClosingHolds

\* An object leaves the map, if it was on it.
LEMMA DropsHolds ==
    ASSUME IInv, IInv', KInv, NEW o \in Position, Drops(o), ClosingHolds
    PROVE  KInv' /\ TrackedPositions' = TrackedPositions \ {o}
<1>1. /\ activePositions' = [activePositions EXCEPT ![o] = NoPosition]
      /\ NoPosition \notin Position
    BY LaneAssumption DEF Drops, WithoutId, KInv, Named
<1>2. /\ \A q \in Position : q # o => pos'[q] = pos[q] /\ activePositions'[q] = activePositions[q]
      /\ activePositions'[o] = NoPosition /\ (pos'[o] = pos[o] \/ pos'[o].state = "free")
    BY <1>1 DEF Drops, IInv, TypeOK, FreePosition
<1>3. ASSUME NEW q \in Position PROVE Named(q)'
    BY <1>1, <1>2 DEF Named, KInv
<1>4. /\ TrackedPositions' = TrackedPositions \ {o}
      /\ OpenPositions' \subseteq OpenPositions
      /\ \A q \in OpenPositions' : q \in Position /\ pos'[q].pair = pos[q].pair
    <2>1. /\ TrackedPositions = {q \in Position : activePositions[q] = q}
          /\ OpenPositions = {q \in Position : activePositions[q] = q /\ pos[q].state # "CLOSED"}
        BY NamedOnTheMap DEF KInv, AllNamed, OnTheMap
    <2>2. /\ TrackedPositions' = {q \in Position : activePositions'[q] = q}
          /\ OpenPositions' = {q \in Position : activePositions'[q] = q /\ pos'[q].state # "CLOSED"}
        BY <1>3, NextOnTheMap DEF AllNamed, OnTheMap
    <2> QED BY <1>1, <1>2, <2>1, <2>2
<1>5. \A p \in Pair : NoneWaits(p)'
    BY DEF KInv, NoneWaits, Drops
<1>6. OneOpenPositionPerPair'
    BY <1>4 DEF KInv, OneOpenPositionPerPair
<1> QED BY <1>3, <1>4, <1>5, <1>6 DEF KInv, ClosesOpen, ClosingHolds

\* A signal opens a position of a pair that has none, under an id of its own.
LEMMA SignalHolds ==
    ASSUME IInv, IInv', KInv, Ungated, SignalStep
    PROVE  /\ KInv' /\ restarts' = restarts
           /\ \/ UNCHANGED <<pos, activePositions, canary>>
              \/ \E o \in Position, p \in Pair :
                     /\ CreateStalk(o, p, o) /\ TrackedPositions' = TrackedPositions \cup {o}
                     /\ o \notin TrackedPositions
<1>1. PICK p \in Pair : HandleSignal(p)
    <2>1. \A p \in Pair : ~SurvivalReturns(p)
        BY DEF SurvivalReturns, KInv, NoneWaits
    <2> QED BY <2>1 DEF SignalStep, SurvivalRejects, SurvivalApproves
<1>2. /\ UNCHANGED <<tick, restarts, survivalChecks>> /\ ~AlreadyHolding(p)
      /\ \A t \in TickCall : TickInv(t) /\ Closing(t)
    BY <1>1 DEF HandleSignal, MayAdmit, Ungated, IInv, KInv, ClosesOpen
<1>3. PICK o \in Position : CreateStalk(o, p, o)
    BY <1>1 DEF HandleSignal, Ungated
<1>4. /\ pos'[o] = NewStalk(p, o) /\ activePositions'[o] = o /\ activePositions[o] = NoPosition
      /\ pos[o].state = "free" /\ NoPosition \notin Position
      /\ \A q \in Position : q # o =>
            /\ pos'[q] = pos[q]
            /\ activePositions'[q] = activePositions[q]
    BY <1>3, LaneAssumption DEF CreateStalk, Fresh, IInv, TypeOK
<1>5. ASSUME NEW q \in Position PROVE Named(q)'
    BY <1>4 DEF Named, KInv, NewStalk
<1>6. /\ TrackedPositions' = TrackedPositions \cup {o} /\ o \notin TrackedPositions
      /\ OpenPositions' = OpenPositions \cup {o} /\ pos'[o].pair = p
      /\ \A q \in OpenPositions : q # o /\ pos'[q] = pos[q]
    <2>1. /\ TrackedPositions = {q \in Position : activePositions[q] = q}
          /\ OpenPositions = {q \in Position : activePositions[q] = q /\ pos[q].state # "CLOSED"}
        BY NamedOnTheMap DEF KInv, AllNamed, OnTheMap
    <2>2. /\ TrackedPositions' = {q \in Position : activePositions'[q] = q}
          /\ OpenPositions' = {q \in Position : activePositions'[q] = q /\ pos'[q].state # "CLOSED"}
        BY <1>5, NextOnTheMap DEF AllNamed, OnTheMap
    <2> QED BY <1>4, <2>1, <2>2 DEF NewStalk
<1>7. OneOpenPositionPerPair'
    BY <1>2, <1>6 DEF KInv, OneOpenPositionPerPair, AlreadyHolding, OpenOf
<1>8. \A t \in TickCall : Closing(t)'
    BY <1>2, <1>4 DEF Closing, TickInv
<1>9. \A q \in Pair : NoneWaits(q)'
    BY <1>2 DEF KInv, NoneWaits
<1> QED BY <1>2, <1>3, <1>5, <1>6, <1>7, <1>8, <1>9 DEF KInv, ClosesOpen

\* A recovery makes one object of a pair.
LEMMA RestartHolds ==
    ASSUME IInv, IInv', Restart
    PROVE  /\ KInv' /\ canary' = 0
           /\ \A o \in Position :
                pos'[o].state # "free" => /\ pos'[o].state \in {"PROBE", "WINNER"}
                                          /\ activePositions'[o] = o
<1>1. PICK sel \in SUBSET OpenTrades :
        /\ RecoverySelects(sel)
        /\ pos' = [o \in Position |->
                     IF \E k \in RowKind : <<o, k>> \in sel
                     THEN RecoveredPosition(o, CHOOSE k \in RowKind : <<o, k>> \in sel)
                     ELSE FreePosition]
        /\ activePositions' = [o \in Position |->
                     IF \E k \in RowKind : <<o, k>> \in sel THEN o ELSE NoPosition]
    BY DEF Restart
<1>2. NoPosition \notin Position
    BY LaneAssumption
<1> DEFINE Kind(o) == CHOOSE k \in RowKind : <<o, k>> \in sel
           Chosen == {o \in Position : \E k \in RowKind : <<o, k>> \in sel}
<1>3. \A o \in Position :
        /\ o \in Chosen => /\ pos'[o] = RecoveredPosition(o, Kind(o)) /\ activePositions'[o] = o
                           /\ Kind(o) \in RowKind /\ <<o, Kind(o)>> \in sel
        /\ o \notin Chosen => /\ pos'[o] = FreePosition
                              /\ activePositions'[o] = NoPosition
    BY <1>1
<1> HIDE DEF Kind, Chosen
<1>10. \A o \in Position :
        /\ o \in Chosen => /\ pos'[o].state \in {"PROBE", "WINNER"} /\ pos'[o].key = o
                           /\ pos'[o].pair = tradeStore[o][Kind(o)].pair
        /\ o \notin Chosen => pos'[o].state = "free"
    <2>1. ASSUME NEW o, NEW k
          PROVE  /\ RecoveredPosition(o, k).state \in {"PROBE", "WINNER"}
                 /\ RecoveredPosition(o, k).key = o
                 /\ RecoveredPosition(o, k).pair = tradeStore[o][k].pair
        <3>1. CASE tradeStore[o][k].mfe
            BY <3>1 DEF RecoveredPosition
        <3>2. CASE ~tradeStore[o][k].mfe
            BY <3>2 DEF RecoveredPosition
        <3> QED BY <3>1, <3>2
    <2>2. ASSUME NEW o \in Position, o \in Chosen
          PROVE  /\ pos'[o].state \in {"PROBE", "WINNER"} /\ pos'[o].key = o
                 /\ pos'[o].pair = tradeStore[o][Kind(o)].pair
        <3>1. pos'[o] = RecoveredPosition(o, Kind(o))
            BY <1>3, <2>2
        <3> QED BY <2>1, <3>1
    <2>3. ASSUME NEW o \in Position, o \notin Chosen PROVE pos'[o].state = "free"
        <3>1. pos'[o] = FreePosition
            BY <1>3, <2>3
        <3> QED BY <3>1 DEF FreePosition
    <2> QED BY <2>2, <2>3
<1>4. ASSUME NEW o \in Position PROVE Named(o)'
    <2>1. CASE o \in Chosen
        BY <1>3, <1>10, <2>1 DEF Named
    <2>2. CASE o \notin Chosen
        <3>1. activePositions'[o] = NoPosition
            BY <1>3, <2>2
        <3>2. pos'[o].state = "free"
            BY <1>10, <2>2
        <3> QED BY <1>2, <3>1, <3>2 DEF Named
    <2> QED BY <2>1, <2>2
<1>5. \A o \in OpenPositions' : o \in Chosen /\ o \in Position
    BY <1>10 DEF OpenPositions, TrackedPositions, Tracked
<1>6. ASSUME NEW o \in Chosen, NEW q \in Chosen, o \in Position, q \in Position,
             pos'[o].pair = pos'[q].pair
      PROVE  o = q
    <2>1. PICK p \in Pair : <<o, Kind(o)>> \in OpenRows(p)
        BY <1>1, <1>3, <1>6 DEF OpenTrades
    <2>2. pos'[o].pair = p /\ pos'[q].pair = p
        BY <1>6, <1>10, <2>1 DEF OpenRows
    <2>3. PICK r \in Pair : <<q, Kind(q)>> \in OpenRows(r)
        BY <1>1, <1>3, <1>6 DEF OpenTrades
    <2>4. r = p
        BY <1>6, <1>10, <2>2, <2>3 DEF OpenRows
    <2>5. Cardinality(sel \cap OpenRows(p)) = 1
        BY <1>1, <2>1 DEF RecoverySelects
    <2>6. IsFiniteSet(sel \cap OpenRows(p))
        <3>1. IsFiniteSet(Position) /\ IsFiniteSet(RowKind)
            <4>1. RowKind = {"entry"} \cup {"close"}
                BY DEF RowKind
            <4>2. IsFiniteSet(RowKind)
                BY <4>1, FS_Singleton, FS_AddElement
            <4>3. IsFiniteSet(Position)
                BY LaneAssumption
            <4> QED BY <4>2, <4>3
        <3>2. IsFiniteSet(Position \X RowKind)
            BY <3>1, FS_Product
        <3>3. sel \cap OpenRows(p) \in SUBSET (Position \X RowKind)
            BY DEF OpenRows
        <3> QED BY <3>2, <3>3, FS_Subset
    <2>7. \E x : sel \cap OpenRows(p) = {x}
        BY <2>5, <2>6, FS_Singleton
    <2>8. <<o, Kind(o)>> = <<q, Kind(q)>>
        BY <1>3, <1>6, <2>1, <2>3, <2>4, <2>7
    <2> QED BY <2>8
<1>7. /\ \A t \in TickCall : Closing(t)'
      /\ \A p \in Pair : NoneWaits(p)'
      /\ canary' = 0
    BY DEF Restart, Closing, NoneWaits, Idle
<1>8. OneOpenPositionPerPair'
    BY <1>5, <1>6 DEF OneOpenPositionPerPair
<1>9. \A o \in Position :
        pos'[o].state # "free" => /\ pos'[o].state \in {"PROBE", "WINNER"}
                                  /\ activePositions'[o] = o
    BY <1>3, <1>10
<1> QED BY <1>4, <1>7, <1>8, <1>9 DEF KInv, ClosesOpen

\* The invariant holds at the start.
LEMMA KInit == Init => KInv
<1> SUFFICES ASSUME Init PROVE KInv
    OBVIOUS
<1>1. NoPosition \notin Position
    BY LaneAssumption
<1>2. /\ \A o \in Position : pos[o] = FreePosition /\ activePositions[o] = NoPosition
      /\ \A t \in TickCall : tick[t] = Idle
      /\ \A p \in Pair : survivalChecks[p] = 0
    BY DEF Init
<1>3. \A o \in Position : pos[o].state = "free"
    BY <1>2 DEF FreePosition
<1>4. \A t \in TickCall : tick[t].pc = "idle"
    BY <1>2 DEF Idle
<1> QED BY <1>1, <1>2, <1>3, <1>4 DEF KInv, ClosesOpen, Named, Closing, NoneWaits,
           OneOpenPositionPerPair, OpenPositions, TrackedPositions, Tracked

\* What a step does to the map.
LEMMA StepKind ==
    ASSUME IInv, ClosesOpen, [Next]_vars
    PROVE  \/ ClosingHolds /\ Keeps
           \/ ClosingHolds /\ \E o \in Position : Drops(o)
           \/ SignalStep
           \/ Restart
<1>1. CASE VisitStep
    BY <1>1, VisitKind
<1>2. ASSUME NEW t \in TickCall, AwaitReturns(t)
      PROVE  ClosingHolds /\ (Keeps \/ \E o \in Position : Drops(o))
    <2>1. tick[t].pc # "idle"
        BY <1>2 DEF AwaitReturns, BuySucceeds, BuyFails, InsertSucceeds, InsertFails, CloseBegins,
               BalanceRead, SellSucceeds, SellFails, CloseInsertSucceeds, CloseTradeSucceeds,
               ClosePersistFails
    <2>2. tick[t].pos \in Position
        BY <2>1 DEF IInv, TickInv
    <2> QED BY <1>2, <2>2, AwaitKind
<1>3. CASE ResetIntegrityHalt \/ WalletStopChanges \/ UNCHANGED vars
    BY <1>3 DEF ResetIntegrityHalt, WalletStopChanges, vars, ClosingHolds, ClosesOpen, Closing,
           Keeps, Moves
<1> QED BY <1>1, <1>2, <1>3 DEF Next

\* The invariant is kept, if no signal is suspended.
LEMMA KStep ==
    ASSUME Ungated, IInv, IInv', KInv, [Next]_vars PROVE KInv'
BY StepKind, KeepsHolds, DropsHolds, SignalHolds, RestartHolds DEF KInv

-----------------------------------------------------------------------------
(* Slots *)

\* A slot is held by the lane's own positions only.
Slots == (~CanaryEnabled => canary = 0) /\ NoSlotLeak

\* The positions in the map are finitely many.
LEMMA TrackedFinite == IsFiniteSet(TrackedPositions)
<1>1. IsFiniteSet(Position) /\ TrackedPositions \in SUBSET Position
    BY LaneAssumption DEF TrackedPositions
<1> QED BY <1>1, FS_Subset

\* No step keeps a slot of a position it drops.
LEMMA SlotsStep ==
    ASSUME Ungated, IInv, IInv', KInv, Slots, [Next]_vars PROVE Slots'
<1>1. canary \in Nat /\ canary' \in Nat /\ CanaryEnabled \in BOOLEAN
    BY LaneAssumption DEF IInv, TypeOK
<1>2. IsFiniteSet(TrackedPositions) /\ Cardinality(TrackedPositions) \in Nat
    BY TrackedFinite, FS_CardinalityType
<1>3. CASE ClosingHolds /\ Keeps
    <2>1. canary' = canary /\ TrackedPositions' = TrackedPositions
        BY <1>3, KeepsHolds DEF Keeps
    <2> QED BY <2>1 DEF Slots, NoSlotLeak
<1>4. ASSUME NEW o \in Position, Drops(o), ClosingHolds PROVE Slots'
    <2>1. canary' = ReleasedSlots /\ TrackedPositions' = TrackedPositions \ {o}
        BY <1>4, DropsHolds DEF Drops
    <2>2. /\ Cardinality(TrackedPositions') \in Nat
          /\ Cardinality(TrackedPositions') >= Cardinality(TrackedPositions) - 1
        <3>1. /\ IsFiniteSet(TrackedPositions \ {o})
              /\ Cardinality(TrackedPositions \ {o}) = IF o \in TrackedPositions
                    THEN Cardinality(TrackedPositions) - 1 ELSE Cardinality(TrackedPositions)
            BY <1>2, FS_RemoveElement
        <3>2. Cardinality(TrackedPositions \ {o}) \in Nat
            BY <3>1, FS_CardinalityType
        <3> QED BY <1>2, <2>1, <3>1, <3>2
    <2> QED BY <1>1, <1>2, <2>1, <2>2 DEF Slots, NoSlotLeak, ReleasedSlots
<1>5. CASE SignalStep
    <2>1. CASE UNCHANGED <<pos, activePositions, canary>>
        BY <2>1 DEF Slots, NoSlotLeak, TrackedPositions, Tracked
    <2>2. ASSUME NEW o \in Position, NEW p \in Pair, CreateStalk(o, p, o),
                 o \notin TrackedPositions,
                 TrackedPositions' = TrackedPositions \cup {o}
          PROVE  Slots'
        <3>1. /\ canary' = AcquiredSlots
              /\ Cardinality(TrackedPositions') = Cardinality(TrackedPositions) + 1
            BY <1>2, <2>2, FS_AddElement DEF CreateStalk
        <3> QED BY <1>1, <1>2, <3>1 DEF Slots, NoSlotLeak, AcquiredSlots
    <2> QED BY <1>5, <2>1, <2>2, SignalHolds
<1>6. CASE Restart
    <2>1. canary' = 0
        BY <1>6 DEF Restart
    <2>2. Cardinality(TrackedPositions)' \in Nat
        <3>1. IsFiniteSet(TrackedPositions)' 
            BY TrackedFinite, PTL
        <3> QED BY <3>1, FS_CardinalityType
    <2> QED BY <2>1, <2>2 DEF Slots, NoSlotLeak
<1> QED BY <1>3, <1>4, <1>5, <1>6, StepKind DEF KInv

\* Without a survival check to await, the lane works one open position of a pair, whatever
\* ticks, queued closes, failures and recoveries overlap.
THEOREM OnePositionPerPair ==
    ASSUME Ungated PROVE Spec => []OneOpenPositionPerPair
<1>1. IInv /\ IInv' /\ KInv /\ [Next]_vars => KInv'
    BY KStep
<1>2. KInv => OneOpenPositionPerPair
    BY DEF KInv
<1> QED BY <1>1, <1>2, KInit, Invariance, PTL DEF Spec

\* Nor does any path that drops a position then keep its canary slot (releaseCanarySlot of
\* cupseyLaneHandler.ts).
THEOREM NoSlotLeaks ==
    ASSUME Ungated PROVE Spec => []NoSlotLeak
<1>1. IInv /\ IInv' /\ KInv /\ [Next]_vars => KInv'
    BY KStep
<1>2. IInv /\ IInv' /\ KInv /\ Slots /\ [Next]_vars => Slots'
    BY SlotsStep
<1>3. Init => Slots
    <2>1. Init => canary = 0
        BY DEF Init
    <2>2. Cardinality(TrackedPositions) \in Nat
        BY TrackedFinite, FS_CardinalityType
    <2> QED BY <2>1, <2>2 DEF Slots, NoSlotLeak
<1>4. Slots => NoSlotLeak
    BY DEF Slots
<1> QED BY <1>1, <1>2, <1>3, <1>4, KInit, Invariance, PTL DEF Spec

-----------------------------------------------------------------------------
(* Any number of signals in the survival check *)

\* no signal is suspended where there is nothing to await
Await == ~(Live /\ SecurityGate) => \A p \in Pair : NoneWaits(p)

\* the strengthening of PairOverlapBounded
OInv == ClosesOpen /\ Await /\ PairOverlapBounded

\* The open positions of a pair are finitely many.
LEMMA OpenFinite ==
    \A p : IsFiniteSet(OpenOf(p)) /\ Cardinality(OpenOf(p)) \in Nat
<1>1. \A p : OpenOf(p) \in SUBSET Position /\ IsFiniteSet(Position)
    BY LaneAssumption DEF OpenOf, OpenPositions, TrackedPositions
<1> QED BY <1>1, FS_Subset, FS_CardinalityType

\* The same of the next state.
LEMMA NextOpenFinite ==
    ASSUME NEW p PROVE IsFiniteSet(OpenOf(p)') /\ Cardinality(OpenOf(p)') \in Nat
<1>1. OpenOf(p)' \in SUBSET Position /\ IsFiniteSet(Position)
    BY LaneAssumption DEF OpenOf, OpenPositions, TrackedPositions
<1> QED BY <1>1, FS_Subset, FS_CardinalityType

\* A step that leaves the map alone, or takes an id off it, opens nothing.
LEMMA NothingOpens ==
    ASSUME IInv, Keeps \/ \E o \in Position : Drops(o)
    PROVE  survivalChecks' = survivalChecks /\ \A p \in Pair : OpenOf(p)' \subseteq OpenOf(p)
<1>1. NoPosition \notin Position /\ TypeOK
    BY LaneAssumption DEF IInv
<1>2. CASE Keeps
    BY <1>2 DEF Keeps, Moves, OpenOf, OpenPositions, TrackedPositions, Tracked
<1>3. ASSUME NEW o \in Position, Drops(o)
      PROVE  survivalChecks' = survivalChecks /\ \A p \in Pair : OpenOf(p)' \subseteq OpenOf(p)
    <2>1. \A k \in Position : activePositions'[k] \in {activePositions[k], NoPosition}
        BY <1>1, <1>3 DEF Drops, WithoutId, TypeOK
    <2>2. \A q \in Position : pos'[q] = pos[q] \/ pos'[q].state = "free"
        BY <1>1, <1>3 DEF Drops, TypeOK, FreePosition
    <2>3. \A q \in Position : pos[q].key \in Position \cup {NoPosition}
        BY <1>1 DEF TypeOK, CupseyPosition
    <2>4. activePositions'[NoPosition] = activePositions[NoPosition]
        BY <1>1, <1>3 DEF Drops, WithoutId, TypeOK
    <2>5. \A q \in Position : Tracked(q)' => Tracked(q) /\ pos'[q] = pos[q]
        BY <1>1, <2>1, <2>2, <2>3, <2>4 DEF Tracked
    <2> QED BY <1>3, <2>5 DEF Drops, OpenOf, OpenPositions, TrackedPositions
<1> QED BY <1>2, <1>3

\* what a pair may have of open positions and suspended signals
Allowed == IF Live /\ SecurityGate THEN MaxPending ELSE 1

\* A new STALK opens one position of its pair and none of another.
LEMMA OneOpens ==
    ASSUME IInv, NEW o \in Position, NEW p \in Pair, NEW k \in Position \cup {NoPosition},
           CreateStalk(o, p, k)
    PROVE  /\ Cardinality(OpenOf(p)') <= Cardinality(OpenOf(p)) + 1
           /\ \A q \in Pair : q # p => OpenOf(q)' \subseteq OpenOf(q)
<1>1. /\ TypeOK /\ NoPosition \notin Position
    BY LaneAssumption DEF IInv
<1>2. /\ pos'[o].pair = p /\ \A q \in Position : q # o => pos'[q] = pos[q]
    BY <1>1 DEF CreateStalk, TypeOK, NewStalk
<1>3. \A j : activePositions'[j] \in {activePositions[j], o}
    BY <1>1 DEF CreateStalk, TypeOK
<1>4. \A q \in Position : q # o /\ Tracked(q)' => Tracked(q)
    BY <1>2, <1>3 DEF Tracked
<1>5. \A q \in Pair : OpenOf(q)' \subseteq OpenOf(q) \cup (IF q = p THEN {o} ELSE {})
    BY <1>2, <1>4 DEF OpenOf, OpenPositions, TrackedPositions
<1>6. /\ IsFiniteSet(OpenOf(p) \cup {o})
      /\ Cardinality(OpenOf(p) \cup {o}) <= Cardinality(OpenOf(p)) + 1
      /\ Cardinality(OpenOf(p) \cup {o}) \in Nat
    <2>1. /\ IsFiniteSet(OpenOf(p) \cup {o})
          /\ \/ Cardinality(OpenOf(p) \cup {o}) = Cardinality(OpenOf(p))
             \/ Cardinality(OpenOf(p) \cup {o}) = Cardinality(OpenOf(p)) + 1
        BY OpenFinite, FS_AddElement
    <2>2. Cardinality(OpenOf(p) \cup {o}) \in Nat /\ Cardinality(OpenOf(p)) \in Nat
        BY <2>1, OpenFinite, FS_CardinalityType
    <2> QED BY <2>1, <2>2
<1>7. Cardinality(OpenOf(p)') <= Cardinality(OpenOf(p) \cup {o})
    BY <1>5, <1>6, FS_Subset
<1> QED BY <1>5, <1>6, <1>7, OpenFinite, NextOpenFinite

\* A signal keeps the bound: it is let in beside no open position.
LEMMA SignalOverlap ==
    ASSUME IInv, IInv', OInv, SignalStep PROVE OInv'
<1>1. PICK p \in Pair : HandleSignal(p) \/ SurvivalRejects(p) \/ SurvivalApproves(p)
    BY DEF SignalStep
<1>2. /\ TypeOK /\ survivalChecks \in [Pair -> Nat] /\ survivalChecks' \in [Pair -> Nat]
      /\ Allowed \in Nat /\ Allowed >= 1
      /\ \A t \in TickCall : TickInv(t) /\ Closing(t)
      /\ tick' = tick
    BY <1>1, LaneAssumption DEF IInv, TypeOK, OInv, ClosesOpen, Allowed, HandleSignal,
           SurvivalRejects, SurvivalApproves, SurvivalReturns
<1>3. ClosesOpen'
    <2>1. \A o \in Position : pos[o].state # "free" => pos'[o].state = pos[o].state
        <3>1. ASSUME NEW o \in Position, NEW k, CreateStalk(o, p, k)
              PROVE  \A q \in Position : pos[q].state # "free" => pos'[q].state = pos[q].state
            BY <1>2, <3>1 DEF CreateStalk, Fresh, TypeOK
        <3>2. pos' = pos \/ \E o \in Position : \E k : CreateStalk(o, p, k)
            BY <1>1 DEF HandleSignal, SurvivalRejects, SurvivalApproves
        <3> QED BY <3>1, <3>2
    <2> QED BY <1>2, <2>1 DEF ClosesOpen, Closing, TickInv
<1>4. Cardinality(OpenOf(p)) \in Nat /\ Cardinality(OpenOf(p)') \in Nat
    BY OpenFinite, NextOpenFinite
<1>5. ASSUME Cardinality(OpenOf(p)') + survivalChecks'[p] <= Allowed,
             \A q \in Pair : q # p => /\ OpenOf(q)' \subseteq OpenOf(q)
                                      /\ survivalChecks'[q] = survivalChecks[q]
      PROVE  PairOverlapBounded'
    <2> SUFFICES ASSUME NEW q \in Pair, q # p
                 PROVE  Cardinality(OpenOf(q)') + survivalChecks'[q] <= Allowed
        BY <1>5 DEF PairOverlapBounded, Allowed
    <2>1. Cardinality(OpenOf(q)') <= Cardinality(OpenOf(q))
        BY <1>5, OpenFinite, FS_Subset
    <2>2. Cardinality(OpenOf(q)) + survivalChecks[q] <= Allowed
        BY DEF OInv, PairOverlapBounded, Allowed
    <2> QED BY <1>2, <1>5, <2>1, <2>2, OpenFinite, NextOpenFinite
<1>6. ASSUME UNCHANGED <<pos, activePositions>>
      PROVE  \A q \in Pair : OpenOf(q)' = OpenOf(q)
    BY <1>6 DEF OpenOf, OpenPositions, TrackedPositions, Tracked
<1>7. Cardinality(OpenOf(p)) + survivalChecks[p] <= Allowed
    BY DEF OInv, PairOverlapBounded, Allowed
<1>8. ASSUME HandleSignal(p), Live /\ SecurityGate PROVE PairOverlapBounded' /\ Await'
    <2>1. /\ OpenOf(p) = {} /\ survivalChecks[p] < MaxPending
          /\ survivalChecks' = [survivalChecks EXCEPT ![p] = @ + 1]
          /\ UNCHANGED <<pos, activePositions>>
        BY <1>8 DEF HandleSignal, MayAdmit, AlreadyHolding
    <2>2. Cardinality(OpenOf(p)') = 0
        BY <1>6, <2>1, FS_EmptySet
    <2> QED BY <1>2, <1>5, <1>6, <1>8, <2>1, <2>2, LaneAssumption DEF Allowed, Await
<1>9. ASSUME HandleSignal(p), ~(Live /\ SecurityGate) PROVE PairOverlapBounded' /\ Await'
    <2>1. /\ OpenOf(p) = {} /\ survivalChecks[p] = 0 /\ survivalChecks' = survivalChecks
          /\ \E o \in Position : CreateStalk(o, p, o)
        BY <1>9 DEF HandleSignal, MayAdmit, AlreadyHolding, OInv, Await, NoneWaits
    <2>2. Cardinality(OpenOf(p)) = 0
        BY <2>1, FS_EmptySet
    <2>3. /\ Cardinality(OpenOf(p)') <= 1
          /\ \A q \in Pair : q # p => OpenOf(q)' \subseteq OpenOf(q)
        BY <2>1, <2>2, OneOpens
    <2> QED BY <1>2, <1>4, <1>5, <2>1, <2>3 DEF Await, NoneWaits, OInv
<1>10. ASSUME SurvivalReturns(p)
       PROVE  /\ Await' /\ survivalChecks'[p] = survivalChecks[p] - 1
              /\ \A q \in Pair : q # p => survivalChecks'[q] = survivalChecks[q]
    BY <1>2, <1>10 DEF SurvivalReturns, OInv, Await, NoneWaits
<1>11. CASE SurvivalRejects(p)
    BY <1>2, <1>3, <1>4, <1>5, <1>6, <1>7, <1>10, <1>11 DEF SurvivalRejects, OInv
<1>12. CASE SurvivalApproves(p)
    <2>1. PICK o \in Position : \E k \in {o} \cup SameSecondIds(p) : CreateStalk(o, p, k)
        BY <1>12 DEF SurvivalApproves
    <2>2. SameSecondIds(p) \subseteq Position \cup {NoPosition}
        BY <1>2 DEF SameSecondIds, OpenPositions, TrackedPositions, TypeOK, CupseyPosition
    <2>3. /\ Cardinality(OpenOf(p)') <= Cardinality(OpenOf(p)) + 1
          /\ \A q \in Pair : q # p => OpenOf(q)' \subseteq OpenOf(q)
        BY <2>1, <2>2, OneOpens
    <2>4. SurvivalReturns(p)
        BY <1>12 DEF SurvivalApproves
    <2> QED BY <1>2, <1>3, <1>4, <1>5, <1>7, <1>10, <2>3, <2>4 DEF OInv
<1> QED BY <1>1, <1>3, <1>8, <1>9, <1>11, <1>12 DEF OInv

\* A recovery opens one position of a pair at most, and no signal survives a crash.
LEMMA RestartOpensOne ==
    ASSUME IInv, IInv', Restart, NEW p \in Pair
    PROVE  survivalChecks'[p] = 0 /\ Cardinality(OpenOf(p)') <= 1
<1>1. OneOpenPositionPerPair' /\ survivalChecks'[p] = 0
    BY RestartHolds DEF KInv, NoneWaits
<1>2. \A o, q \in OpenOf(p)' : o = q
    BY <1>1 DEF OneOpenPositionPerPair, OpenOf
<1>3. CASE OpenOf(p)' = {}
    BY <1>1, <1>3, FS_EmptySet
<1>4. ASSUME NEW o \in OpenOf(p)' PROVE Cardinality(OpenOf(p)') <= 1
    <2>1. OpenOf(p)' = {o}
        BY <1>2, <1>4
    <2> QED BY <2>1, FS_Singleton
<1> QED BY <1>1, <1>3, <1>4

\* Every step of the lane keeps the bound.
LEMMA OverlapStep ==
    ASSUME IInv, IInv', OInv, [Next]_vars PROVE OInv'
<1>1. CASE ClosingHolds /\ (Keeps \/ \E o \in Position : Drops(o))
    <2>1. survivalChecks' = survivalChecks /\ \A p \in Pair : OpenOf(p)' \subseteq OpenOf(p)
        BY <1>1, NothingOpens
    <2>2. ASSUME NEW p \in Pair
          PROVE  Cardinality(OpenOf(p)') + survivalChecks'[p]
                     <= IF Live /\ SecurityGate THEN MaxPending ELSE 1
        <3>1. Cardinality(OpenOf(p)') <= Cardinality(OpenOf(p))
            BY <2>1, OpenFinite, FS_Subset
        <3>2. Cardinality(OpenOf(p)) + survivalChecks[p] <= Allowed
            BY DEF OInv, PairOverlapBounded, Allowed
        <3>3. Allowed \in Nat /\ survivalChecks[p] \in Nat
            BY LaneAssumption DEF Allowed, IInv, TypeOK
        <3> QED BY <2>1, <3>1, <3>2, <3>3, OpenFinite, NextOpenFinite DEF Allowed
    <2> QED BY <1>1, <2>1, <2>2 DEF OInv, ClosesOpen, ClosingHolds, Await, NoneWaits,
               PairOverlapBounded
<1>2. CASE SignalStep
    BY <1>2, SignalOverlap
<1>3. CASE Restart
    <2>1. ClosesOpen'
        BY <1>3, RestartHolds DEF KInv
    <2>2. \A p \in Pair : survivalChecks'[p] = 0 /\ Cardinality(OpenOf(p)') <= 1
        BY <1>3, RestartOpensOne
    <2>3. \A p \in Pair : Cardinality(OpenOf(p)') + survivalChecks'[p]
                            <= IF Live /\ SecurityGate THEN MaxPending ELSE 1
        BY <2>2, NextOpenFinite, LaneAssumption
    <2> QED BY <2>1, <2>2, <2>3 DEF OInv, Await, NoneWaits, PairOverlapBounded
<1> QED BY <1>1, <1>2, <1>3, StepKind DEF OInv

\* The bound holds at the start.
LEMMA OInit == Init => OInv
<1> SUFFICES ASSUME Init PROVE OInv
    OBVIOUS
<1>1. KInv /\ \A p \in Pair : survivalChecks[p] = 0
    BY KInit DEF Init
<1>2. \A o \in Position : pos[o].state = "free"
    <2>1. \A o \in Position : pos[o] = FreePosition
        BY DEF Init
    <2> QED BY <2>1 DEF FreePosition
<1>3. \A p \in Pair : OpenOf(p) = {}
    BY <1>2 DEF OpenOf, OpenPositions, TrackedPositions, Tracked
<1>4. \A p \in Pair : Cardinality(OpenOf(p)) = 0
    BY <1>3, FS_EmptySet
<1> QED BY <1>1, <1>4, LaneAssumption DEF OInv, KInv, Await, NoneWaits, PairOverlapBounded

\* Whatever overlaps, fails or restarts, a pair has no more open positions and suspended
\* signals together than signals were in its survival check at once (MaxPending, for any
\* value of it), and one if there is no such check: handleCupseyLaneSignal looks at the
\* positions of the pair before it awaits checkPureWsSurvival, not after.
THEOREM OverlapBound == Spec => []PairOverlapBounded
<1>1. Init => OInv
    BY OInit
<1>2. IInv /\ IInv' /\ OInv /\ [Next]_vars => OInv'
    BY OverlapStep
<1>3. OInv => PairOverlapBounded
    BY DEF OInv
<1> QED BY <1>1, <1>2, <1>3, Invariance, PTL DEF Spec

\* A close that awaits its balance or its sale (closeCupseyPositionSerialized) works on a
\* position still open, however many ticks queue a close of it.
THEOREM ClosesWork == Spec => []ClosesWorkOnOpen
<1>1. IInv /\ IInv' /\ OInv /\ [Next]_vars => OInv'
    BY OverlapStep
<1>2. OInv => ClosesWorkOnOpen
    BY DEF OInv, ClosesOpen, Closing, ClosesWorkOnOpen
<1> QED BY <1>1, <1>2, OInit, Invariance, PTL DEF Spec

\* What NoneJoinsOpenPosition asks of a step, for one pair.
JoinsNone(p) ==
    InTrade(p)' > InTrade(p) => OpenOf(p) = {} /\ (OpenOf(p)' = {} \/ InTrade(p)' = 1)

\* A signal joins no open position.
LEMMA SignalJoinsNone ==
    ASSUME IInv, IInv', OInv, SignalStep, NEW p \in Pair PROVE JoinsNone(p)
<1>1. PICK q \in Pair : HandleSignal(q) \/ SurvivalRejects(q) \/ SurvivalApproves(q)
    BY DEF SignalStep
<1>2. /\ TypeOK /\ survivalChecks[p] \in Nat /\ survivalChecks'[p] \in Nat
      /\ Cardinality(OpenOf(p)) \in Nat /\ Cardinality(OpenOf(p)') \in Nat
    BY OpenFinite, NextOpenFinite DEF IInv, TypeOK
<1>3. ASSUME survivalChecks'[p] <= survivalChecks[p], OpenOf(p)' \subseteq OpenOf(p)
      PROVE  JoinsNone(p)
    <2>1. Cardinality(OpenOf(p)') <= Cardinality(OpenOf(p))
        BY <1>3, OpenFinite, FS_Subset
    <2> QED BY <1>2, <1>3, <2>1 DEF JoinsNone, InTrade
<1>4. UNCHANGED <<pos, activePositions>> => OpenOf(p)' = OpenOf(p)
    BY DEF OpenOf, OpenPositions, TrackedPositions, Tracked
<1>5. CASE HandleSignal(q) /\ Live /\ SecurityGate
    <2>1. /\ OpenOf(q) = {} /\ UNCHANGED <<pos, activePositions>>
          /\ survivalChecks' = [survivalChecks EXCEPT ![q] = @ + 1]
        BY <1>5 DEF HandleSignal, MayAdmit, AlreadyHolding
    <2>2. CASE p = q
        BY <1>4, <2>1, <2>2 DEF JoinsNone
    <2>3. CASE p # q
        BY <1>2, <1>3, <1>4, <2>1, <2>3 DEF TypeOK
    <2> QED BY <2>2, <2>3
<1>6. CASE HandleSignal(q) /\ ~(Live /\ SecurityGate)
    <2>1. /\ OpenOf(q) = {} /\ survivalChecks[p] = 0 /\ survivalChecks' = survivalChecks
          /\ \E o \in Position : CreateStalk(o, q, o)
        BY <1>6 DEF HandleSignal, MayAdmit, AlreadyHolding, OInv, Await, NoneWaits
    <2>2. /\ Cardinality(OpenOf(q)') <= Cardinality(OpenOf(q)) + 1
          /\ p # q => OpenOf(p)' \subseteq OpenOf(p)
        BY <2>1, OneOpens
    <2>3. CASE p = q
        <3>1. Cardinality(OpenOf(p)) = 0
            BY <2>1, <2>3, FS_EmptySet
        <3>2. /\ OpenOf(p) = {} /\ survivalChecks[p] = 0 /\ survivalChecks'[p] = 0
              /\ Cardinality(OpenOf(p)') <= 1
            BY <2>1, <2>2, <2>3, <3>1
        <3>3. InTrade(p)' > InTrade(p) => InTrade(p)' = 1
            BY <1>2, <3>1, <3>2 DEF InTrade
        <3> QED BY <3>2, <3>3 DEF JoinsNone
    <2>4. CASE p # q
        BY <1>2, <1>3, <2>1, <2>2, <2>4
    <2> QED BY <2>3, <2>4
<1>7. SurvivalReturns(q) =>
        /\ survivalChecks'[q] = survivalChecks[q] - 1 /\ survivalChecks[q] \in Nat
        /\ p # q => survivalChecks'[p] = survivalChecks[p]
    BY <1>2 DEF SurvivalReturns, TypeOK
<1>8. CASE SurvivalRejects(q)
    BY <1>2, <1>3, <1>4, <1>7, <1>8 DEF SurvivalRejects
<1>9. CASE SurvivalApproves(q)
    <2>1. PICK o \in Position : \E k \in {o} \cup SameSecondIds(q) : CreateStalk(o, q, k)
        BY <1>9 DEF SurvivalApproves
    <2>2. SameSecondIds(q) \subseteq Position \cup {NoPosition}
        BY <1>2 DEF SameSecondIds, OpenPositions, TrackedPositions, TypeOK, CupseyPosition
    <2>3. /\ Cardinality(OpenOf(q)') <= Cardinality(OpenOf(q)) + 1
          /\ p # q => OpenOf(p)' \subseteq OpenOf(p)
        BY <2>1, <2>2, OneOpens
    <2>4. SurvivalReturns(q)
        BY <1>9 DEF SurvivalApproves
    <2>5. CASE p = q
        BY <1>2, <1>7, <2>3, <2>4, <2>5 DEF JoinsNone, InTrade
    <2>6. CASE p # q
        BY <1>2, <1>3, <1>7, <2>3, <2>4, <2>6
    <2> QED BY <2>5, <2>6
<1> QED BY <1>1, <1>5, <1>6, <1>8, <1>9

\* Nor does any other step.
LEMMA StepJoinsNone ==
    ASSUME IInv, IInv', OInv, [Next]_vars, NEW p \in Pair PROVE JoinsNone(p)
<1>1. /\ survivalChecks[p] \in Nat /\ survivalChecks'[p] \in Nat
      /\ Cardinality(OpenOf(p)) \in Nat /\ Cardinality(OpenOf(p)') \in Nat
    BY OpenFinite, NextOpenFinite DEF IInv, TypeOK
<1>2. CASE Keeps \/ \E o \in Position : Drops(o)
    <2>1. survivalChecks' = survivalChecks /\ OpenOf(p)' \subseteq OpenOf(p)
        BY <1>2, NothingOpens
    <2>2. Cardinality(OpenOf(p)') <= Cardinality(OpenOf(p))
        BY <2>1, OpenFinite, FS_Subset
    <2> QED BY <1>1, <2>1, <2>2 DEF JoinsNone, InTrade
<1>3. CASE Restart
    <2>1. survivalChecks'[p] = 0 /\ Cardinality(OpenOf(p)') <= 1
        BY <1>3, RestartOpensOne
    <2>2. OpenOf(p) # {} => Cardinality(OpenOf(p)) >= 1
        <3>1. Cardinality(OpenOf(p)) = 0 <=> OpenOf(p) = {}
            BY OpenFinite, FS_EmptySet
        <3> QED BY <1>1, <3>1
    <2> QED BY <1>1, <2>1, <2>2 DEF JoinsNone, InTrade
<1>4. CASE SignalStep
    BY <1>4, SignalJoinsNone
<1> QED BY <1>2, <1>3, <1>4, StepKind DEF OInv

\* Whatever overlaps, fails or restarts, and for any number of suspended signals, a signal
\* is let in only while no position of its pair is open (the holding guard of
\* handleCupseyLaneSignal), and a recovery works one position of a pair.
THEOREM NoneJoins == Spec => NoneJoinsOpenPosition
<1>1. IInv /\ IInv' /\ OInv /\ [Next]_vars => OInv'
    BY OverlapStep
<1>2. IInv /\ IInv' /\ OInv /\ [Next]_vars =>
        \A p \in Pair :
            InTrade(p)' > InTrade(p) => OpenOf(p) = {} /\ (OpenOf(p)' = {} \/ InTrade(p)' = 1)
    BY StepJoinsNone DEF JoinsNone
<1> QED BY <1>1, <1>2, OInit, Invariance, PTL DEF Spec, NoneJoinsOpenPosition

-----------------------------------------------------------------------------
(* Slots and the objects that hold them *)

Alive == {"STALK", "PROBE", "WINNER"}
PersistPc == {"closeInsert", "closeTrade"}

\* a slot is held by the lane's own objects only
SlotsKept == (~CanaryEnabled => canary = 0) /\ SlotsHeldByPositions

\* the objects that hold slots stay, but for one that may give its slot back
HoldersStay == canary' = canary /\ SlotHolders \subseteq SlotHolders'
HolderLeaves(o) == canary' = ReleasedSlots /\ SlotHolders \ {o} \subseteq SlotHolders'

\* An object stays a holder if it stays alive, or its close goes on.
LEMMA StaysHolder ==
    ASSUME NEW S, \A q \in Position \ S : pos[q].state \in Alive => q \in SlotHolders',
           \A u \in TickCall : tick[u].pc \in PersistPc /\ tick[u].pos \notin S =>
               tick'[u].pc \in PersistPc /\ tick'[u].pos = tick[u].pos
    PROVE  SlotHolders \ S \subseteq SlotHolders'
BY DEF SlotHolders, Alive, PersistPc

\* The visit of a tick.
LEMMA VisitHolders ==
    ASSUME IInv, VisitStep PROVE HoldersStay \/ \E o \in Position : HolderLeaves(o)
<1> SUFFICES ASSUME NEW o \in Position,
                    \/ StalkSkip(o)
                    \/ StalkWalletStop(o)
                    \/ \E written \in BOOLEAN : Promote(o, written)
                    \/ WinnerTick(o)
                    \/ \E t \in TickCall : StalkEntry(t, o) \/ StartClose(t, o)
             PROVE  HoldersStay \/ HolderLeaves(o)
    BY DEF VisitStep
<1>1. TypeOK
    BY DEF IInv
<1>2. CASE StalkSkip(o) \/ StalkWalletStop(o)
    <2>1. canary' = ReleasedSlots /\ tick' = tick
        BY <1>2 DEF StalkSkip, StalkWalletStop, Discard
    <2>2. \A q \in Position : q # o => pos'[q] = pos[q]
        BY <1>1, <1>2 DEF StalkSkip, StalkWalletStop, Discard, TypeOK
    <2> QED BY <2>1, <2>2 DEF HolderLeaves, SlotHolders
<1>3. ASSUME canary' = canary, \A q \in Position : pos[q].state \in Alive => pos'[q].state \in Alive,
             \A u \in TickCall : tick[u].pc \in PersistPc => tick'[u] = tick[u]
      PROVE  HoldersStay
    BY <1>3 DEF HoldersStay, SlotHolders, Alive, PersistPc
<1>4. ASSUME NEW st \in Alive, pos' = [pos EXCEPT ![o].state = st]
      PROVE  \A q \in Position : pos[q].state \in Alive => pos'[q].state \in Alive
    <2>1. pos'[o].state = st /\ \A q \in Position : q # o => pos'[q] = pos[q]
        BY <1>1, <1>4 DEF TypeOK, CupseyPosition
    <2> QED BY <2>1
<1>5. ASSUME NEW written \in BOOLEAN, Promote(o, written) PROVE HoldersStay
    <2>1. pos' = [pos EXCEPT ![o].state = "WINNER"] /\ UNCHANGED <<tick, canary>>
        BY <1>5 DEF Promote
    <2> QED BY <1>3, <1>4, <2>1 DEF Alive
<1>6. CASE WinnerTick(o)
    BY <1>3, <1>6 DEF WinnerTick
<1>7. ASSUME NEW t \in TickCall, StalkEntry(t, o) PROVE HoldersStay
    <2>1. /\ canary' = canary /\ pos'[o].state \in Alive
          /\ \A q \in Position : q # o => pos'[q] = pos[q]
        BY <1>1, <1>7 DEF StalkEntry, TypeOK, CupseyPosition, Alive
    <2>2. \A u \in TickCall : tick[u].pc \in PersistPc => tick'[u] = tick[u]
        BY <1>1, <1>7 DEF StalkEntry, TypeOK, PersistPc
    <2> QED BY <1>3, <2>1, <2>2
<1>8. ASSUME NEW t \in TickCall, StartClose(t, o) PROVE HoldersStay
    <2>1. canary' = canary /\ pos' = pos
        BY <1>8 DEF StartClose
    <2>2. \A u \in TickCall : tick[u].pc \in PersistPc => tick'[u] = tick[u]
        BY <1>1, <1>8 DEF StartClose, TypeOK, PersistPc
    <2> QED BY <1>3, <2>1, <2>2
<1> QED BY <1>2, <1>5, <1>6, <1>7, <1>8

\* What a promise resolves to.
LEMMA AwaitHolders ==
    ASSUME IInv, NEW t \in TickCall, AwaitReturns(t)
    PROVE  HoldersStay \/ HolderLeaves(tick[t].pos)
<1>1. TypeOK /\ TickInv(t) /\ tick[t] \in TickState
    BY DEF IInv, TypeOK
<1>2. \A u \in TickCall : u # t => tick'[u] = tick[u]
    BY <1>1 DEF TypeOK, AwaitReturns, BuySucceeds, BuyFails, InsertSucceeds, InsertFails,
           CloseBegins, BalanceRead, SellSucceeds, SellFails, CloseInsertSucceeds,
           CloseTradeSucceeds, ClosePersistFails, CloseEnds, Leave, PersistClose
<1>3. PICK o : o = tick[t].pos
    OBVIOUS
<1>4. \A q \in Position : q # o => pos'[q] = pos[q]
    BY <1>1, <1>3 DEF AwaitReturns, BuySucceeds, BuyFails, InsertSucceeds, InsertFails,
           CloseBegins, BalanceRead, SellSucceeds, SellFails, CloseInsertSucceeds,
           CloseTradeSucceeds, ClosePersistFails, CloseEnds, TypeOK
<1>5. ASSUME canary' = canary,
             tick[t].pc \notin PersistPc \/ (tick'[t].pc \in PersistPc /\ tick'[t].pos = o),
             o \in Position /\ pos[o].state \in Alive =>
                 pos'[o].state \in Alive \/ (tick'[t].pc \in PersistPc /\ tick'[t].pos = o)
      PROVE  HoldersStay
    <2>1. \A q \in Position : pos[q].state \in Alive => q \in SlotHolders'
        BY <1>4, <1>5 DEF SlotHolders, Alive, PersistPc
    <2>2. \A u \in TickCall : tick[u].pc \in PersistPc => tick'[u].pc \in PersistPc /\ tick'[u].pos = tick[u].pos
        BY <1>2, <1>3, <1>5 DEF PersistPc
    <2>3. SlotHolders \ {} \subseteq SlotHolders'
        BY <2>1, <2>2, StaysHolder
    <2> QED BY <1>5, <2>3 DEF HoldersStay
<1>6. ASSUME canary' = ReleasedSlots PROVE HolderLeaves(o)
    <2>1. \A q \in Position \ {o} : pos[q].state \in Alive => q \in SlotHolders'
        BY <1>4 DEF SlotHolders, Alive
    <2>2. \A u \in TickCall : tick[u].pc \in PersistPc /\ tick[u].pos \notin {o} =>
            tick'[u].pc \in PersistPc /\ tick'[u].pos = tick[u].pos
        BY <1>2, <1>3 DEF PersistPc
    <2>3. SlotHolders \ {o} \subseteq SlotHolders'
        BY <2>1, <2>2, StaysHolder
    <2> QED BY <1>6, <2>3 DEF HolderLeaves
<1>7. ASSUME NEW st, pos' = [pos EXCEPT ![o].state = st], o \in Position
      PROVE  pos'[o].state = st
    BY <1>1, <1>7 DEF TypeOK, CupseyPosition
<1>8. CASE BuySucceeds(t)
    <2>1. /\ canary' = canary /\ tick[t].pc \notin PersistPc
          /\ pos' = [pos EXCEPT ![o].state = "PROBE"]
        BY <1>3, <1>8 DEF BuySucceeds, PersistPc
    <2> QED BY <1>5, <1>7, <2>1 DEF Alive
<1>9. CASE \/ \E landed \in BOOLEAN : BuyFails(t, landed)
           \/ CloseTradeSucceeds(t) \/ ClosePersistFails(t)
    BY <1>3, <1>6, <1>9 DEF BuyFails, CloseTradeSucceeds, ClosePersistFails, CloseEnds
<1>10. CASE InsertSucceeds(t) \/ InsertFails(t) \/ CloseInsertSucceeds(t)
    <2>1. canary' = canary /\ (pos' = pos \/ pos' = [pos EXCEPT ![o].dbTradeId = "entry"])
        BY <1>3, <1>10 DEF InsertSucceeds, InsertFails, CloseInsertSucceeds
    <2>2. o \in Position => pos'[o].state = pos[o].state
        BY <1>1, <2>1 DEF TypeOK, CupseyPosition
    <2>3. tick[t].pc \notin PersistPc \/ (tick'[t].pc \in PersistPc /\ tick'[t].pos = o)
        <3>1. CASE InsertSucceeds(t) \/ InsertFails(t)
            BY <3>1 DEF InsertSucceeds, InsertFails, PersistPc
        <3>2. CASE CloseInsertSucceeds(t)
            BY <1>1, <1>3, <3>2 DEF CloseInsertSucceeds, PersistPc, TypeOK, TickState
        <3> QED BY <1>10, <3>1, <3>2
    <2> QED BY <1>5, <2>1, <2>2, <2>3
<1>11. CASE CloseBegins(t)
    <2>1. canary' = canary /\ tick[t].pc \notin PersistPc
        BY <1>11 DEF CloseBegins, PersistPc
    <2>2. CASE pos' = pos
        BY <1>5, <2>1, <2>2
    <2>3. CASE pos' # pos
        <3>1. tick'[t].pc \in PersistPc /\ tick'[t].pos = o
            BY <1>1, <1>3, <1>11, <2>3 DEF CloseBegins, PersistClose, PersistPc, TypeOK, TickState
        <3> QED BY <1>5, <2>1, <3>1
    <2> QED BY <2>2, <2>3
<1>12. CASE BalanceRead(t)
    BY <1>5, <1>12 DEF BalanceRead, PersistPc
<1>13. CASE SellSucceeds(t)
    <2>1. /\ canary' = canary /\ tick[t].pc \notin PersistPc /\ tick'[t].pc \in PersistPc /\ tick'[t].pos = o
        BY <1>1, <1>3, <1>13 DEF SellSucceeds, PersistClose, PersistPc, TypeOK, TickState
    <2> QED BY <1>5, <2>1
<1>14. ASSUME NEW landed \in BOOLEAN, SellFails(t, landed) PROVE HoldersStay
    <2>1. /\ canary' = canary /\ tick[t].pc \notin PersistPc /\ tick[t].prev \in Alive
          /\ pos' = [pos EXCEPT ![o].state = tick[t].prev]
        BY <1>1, <1>3, <1>14 DEF SellFails, StateAfterFailedSell, PersistPc, TickInv, Alive
    <2> QED BY <1>5, <1>7, <2>1
<1> QED BY <1>3, <1>8, <1>9, <1>10, <1>11, <1>12, <1>13, <1>14 DEF AwaitReturns

\* The holders are finitely many.
LEMMA HoldersFinite == IsFiniteSet(SlotHolders) /\ Cardinality(SlotHolders) \in Nat
<1>1. SlotHolders \in SUBSET Position /\ IsFiniteSet(Position)
    BY LaneAssumption DEF SlotHolders
<1> QED BY <1>1, FS_Subset, FS_CardinalityType

\* The same of the next state.
LEMMA NextHoldersFinite == IsFiniteSet(SlotHolders') /\ Cardinality(SlotHolders') \in Nat
<1>1. SlotHolders' \in SUBSET Position /\ IsFiniteSet(Position)
    BY LaneAssumption DEF SlotHolders
<1> QED BY <1>1, FS_Subset, FS_CardinalityType

\* A signal takes a slot for a new object, or takes none.
LEMMA SignalHolders == IInv /\ SlotsKept /\ SignalStep => SlotsKept'
<1> SUFFICES ASSUME IInv, SlotsKept, NEW p \in Pair,
                    HandleSignal(p) \/ SurvivalRejects(p) \/ SurvivalApproves(p)
             PROVE  SlotsKept'
    BY DEF SignalStep
<1>1. /\ TypeOK /\ tick' = tick /\ canary \in Nat /\ CanaryEnabled \in BOOLEAN
      /\ \A t \in TickCall : TickInv(t)
    BY LaneAssumption DEF IInv, TypeOK, HandleSignal, SurvivalRejects, SurvivalApproves,
           SurvivalReturns
<1>2. CASE UNCHANGED <<pos, canary>>
    BY <1>1, <1>2 DEF SlotsKept, SlotsHeldByPositions, SlotHolders
<1>3. ASSUME NEW o \in Position, NEW k, CreateStalk(o, p, k) PROVE SlotsKept'
    <2>1. /\ pos[o].state = "free" /\ pos'[o].state = "STALK" /\ canary' = AcquiredSlots
          /\ \A q \in Position : q # o => pos'[q] = pos[q]
        BY <1>1, <1>3 DEF CreateStalk, Fresh, NewStalk, TypeOK
    <2>2. o \notin SlotHolders
        BY <1>1, <2>1 DEF SlotHolders, TickInv
    <2>3. SlotHolders' = SlotHolders \cup {o}
        BY <1>1, <2>1 DEF SlotHolders
    <2>4. Cardinality(SlotHolders') = Cardinality(SlotHolders) + 1
        BY <2>2, <2>3, HoldersFinite, FS_AddElement
    <2> QED BY <1>1, <2>1, <2>4, HoldersFinite DEF SlotsKept, SlotsHeldByPositions, AcquiredSlots
<1> QED BY <1>2, <1>3 DEF HandleSignal, SurvivalRejects, SurvivalApproves

\* No step forgets the slot of an object it drops.
LEMMA SlotsKeptStep == IInv /\ IInv' /\ SlotsKept /\ [Next]_vars => SlotsKept'
<1> SUFFICES ASSUME IInv, IInv', SlotsKept, [Next]_vars PROVE SlotsKept'
    OBVIOUS
<1>1. canary \in Nat /\ CanaryEnabled \in BOOLEAN
    BY LaneAssumption DEF IInv, TypeOK
<1>2. CASE HoldersStay
    <2>1. Cardinality(SlotHolders) <= Cardinality(SlotHolders')
        BY <1>2, NextHoldersFinite, FS_Subset DEF HoldersStay
    <2> QED BY <1>1, <1>2, <2>1, HoldersFinite, NextHoldersFinite
            DEF SlotsKept, SlotsHeldByPositions, HoldersStay
<1>3. ASSUME NEW o, HolderLeaves(o) PROVE SlotsKept'
    <2>1. /\ IsFiniteSet(SlotHolders \ {o})
          /\ Cardinality(SlotHolders \ {o}) = IF o \in SlotHolders
                THEN Cardinality(SlotHolders) - 1 ELSE Cardinality(SlotHolders)
        BY HoldersFinite, FS_RemoveElement
    <2>2. Cardinality(SlotHolders \ {o}) <= Cardinality(SlotHolders')
        BY <1>3, NextHoldersFinite, FS_Subset DEF HolderLeaves
    <2>3. Cardinality(SlotHolders) - 1 <= Cardinality(SlotHolders')
        BY <2>1, <2>2, HoldersFinite, NextHoldersFinite
    <2> QED BY <1>1, <1>3, <2>3, HoldersFinite, NextHoldersFinite
            DEF SlotsKept, SlotsHeldByPositions, HolderLeaves, ReleasedSlots
<1>4. CASE SignalStep
    BY <1>4, SignalHolders
<1>5. CASE VisitStep
    BY <1>2, <1>3, <1>5, VisitHolders
<1>6. ASSUME NEW t \in TickCall, AwaitReturns(t) PROVE SlotsKept'
    BY <1>2, <1>3, <1>6, AwaitHolders
<1>7. CASE ResetIntegrityHalt \/ WalletStopChanges \/ UNCHANGED vars
    BY <1>7 DEF ResetIntegrityHalt, WalletStopChanges, vars, SlotsKept, SlotsHeldByPositions,
           SlotHolders
<1>8. CASE Restart
    BY <1>8, NextHoldersFinite DEF Restart, SlotsKept, SlotsHeldByPositions
<1> QED BY <1>4, <1>5, <1>6, <1>7, <1>8 DEF Next

\* Every slot in use is held by an object that was neither dropped nor closed to the end,
\* for any number of signals in the survival check: releaseCanarySlot is reached on every
\* path of cupseyLaneHandler.ts that gives up an object it can still reach.
THEOREM SlotsHeld == Spec => []SlotsHeldByPositions
<1>1. Init => SlotsKept
    BY HoldersFinite DEF Init, SlotsKept, SlotsHeldByPositions
<1>2. SlotsKept => SlotsHeldByPositions
    BY DEF SlotsKept
<1> QED BY <1>1, <1>2, SlotsKeptStep, Invariance, PTL DEF Spec

-----------------------------------------------------------------------------
(* Paper trading: nothing is awaited between the stalk and the map *)

\* what the map and the calls say of an object when no swap is awaited
Watched(o) == pos[o].state \in {"PROBE", "WINNER"} => activePositions[o] = o
Unlocked(o) == pos[o].state = "STALK" => ~pos[o].enteringLock
PaperCall(t) ==
    /\ tick[t].pc \in {"idle", "insert", "queued", "closeInsert", "closeTrade"}
    /\ tick[t].pc \in {"closeInsert", "closeTrade"} => activePositions[tick[t].pos] = tick[t].pos

\* the strengthening of BoughtPositionIsMonitored
PInv ==
    /\ \A o \in Position : Watched(o) /\ Unlocked(o)
    /\ \A t \in TickCall : PaperCall(t)

\* a step of a visit or of a call: what it drops was on the map
PaperMove ==
    /\ PInv'
    /\ Keeps \/ \E o \in TrackedPositions : Drops(o)

\* A visit enters at once, or drops a STALK that nobody is buying.
LEMMA PaperVisit ==
    ASSUME ~Live, IInv, KInv, PInv, VisitStep PROVE PaperMove
<1> SUFFICES ASSUME NEW o \in Position,
                    \/ StalkSkip(o)
                    \/ StalkWalletStop(o)
                    \/ \E written \in BOOLEAN : Promote(o, written)
                    \/ WinnerTick(o)
                    \/ \E t \in TickCall : StalkEntry(t, o) \/ StartClose(t, o)
             PROVE  PaperMove
    BY DEF VisitStep
<1>1. TypeOK /\ \A t \in TickCall : TickInv(t) /\ PaperCall(t)
    BY DEF IInv, PInv
<1>2. /\ NoPosition \notin Position
      /\ \A q \in Position : Named(q) /\ Watched(q) /\ Unlocked(q)
    BY LaneAssumption DEF KInv, PInv
<1>3. o \in TrackedPositions => activePositions[o] = o
    BY <1>2, NamedOnTheMap DEF OnTheMap, AllNamed
<1>4. CASE StalkSkip(o) \/ StalkWalletStop(o)
    <2>1. /\ pos[o].state = "STALK" /\ Drops(o) /\ UNCHANGED tick /\ o \in TrackedPositions
          /\ pos' = [pos EXCEPT ![o] = FreePosition]
        BY <1>2, <1>4 DEF StalkSkip, StalkWalletStop, Discardable, Discard, Drops, Unlocked,
               TrackedPositions
    <2>2. pos'[o].state = "free" /\ \A q \in Position : q # o => pos'[q] = pos[q]
        BY <1>1, <2>1 DEF TypeOK, FreePosition
    <2>3. activePositions' = [activePositions EXCEPT ![o] = NoPosition]
        BY <1>2, <2>1 DEF Drops, WithoutId, Named
    <2>4. \A q \in Position : q # o => activePositions'[q] = activePositions[q]
        BY <1>1, <2>3 DEF TypeOK
    <2>5. \A q \in Position : Watched(q)' /\ Unlocked(q)'
        BY <1>2, <2>2, <2>4 DEF Watched, Unlocked
    <2>6. \A t \in TickCall : PaperCall(t)'
        BY <1>1, <2>1, <2>4 DEF PaperCall, TickInv
    <2> QED BY <2>1, <2>5, <2>6 DEF PaperMove, PInv
<1>5. ASSUME NEW written \in BOOLEAN, Promote(o, written) PROVE PaperMove
    <2>1. /\ pos[o].state = "PROBE" /\ pos' = [pos EXCEPT ![o].state = "WINNER"]
          /\ UNCHANGED <<tick, activePositions, survivalChecks, canary, restarts>>
        BY <1>5 DEF Promote, Promotable
    <2>2. \A q \in Position : /\ Moves(q)
                              /\ pos'[q].state = IF q = o THEN "WINNER" ELSE pos[q].state
        BY <1>1, <2>1, StateMoves, ZenonT(60)
    <2>3. \A q \in Position : q # o => pos'[q] = pos[q]
        BY <1>1, <2>1 DEF TypeOK
    <2>4. \A q \in Position : Watched(q)' /\ Unlocked(q)'
        BY <1>2, <2>1, <2>2, <2>3 DEF Watched, Unlocked
    <2>5. \A t \in TickCall : PaperCall(t)'
        BY <1>1, <2>1 DEF PaperCall
    <2> QED BY <2>1, <2>2, <2>4, <2>5 DEF PaperMove, PInv, Keeps
<1>6. CASE WinnerTick(o)
    BY <1>1, <1>2, <1>6 DEF WinnerTick, PaperMove, PInv, Watched, Unlocked, PaperCall, Keeps,
           Moves
<1>7. ASSUME NEW t \in TickCall, StalkEntry(t, o) PROVE PaperMove
    <2>1. /\ pos[o].state = "STALK" /\ o \in TrackedPositions
          /\ UNCHANGED <<activePositions, survivalChecks, canary, restarts>>
        BY <1>7 DEF StalkEntry, TrackedPositions
    <2>2. /\ pos'[o].state = "PROBE" /\ pos'[o].key = pos[o].key /\ pos'[o].pair = pos[o].pair
          /\ \A q \in Position : q # o => pos'[q] = pos[q]
        BY <1>1, <2>1, <1>7 DEF StalkEntry, TypeOK, CupseyPosition
    <2>3. tick'[t].pc = "insert" /\ \A u \in TickCall : u # t => tick'[u] = tick[u]
        BY <1>1, <1>7 DEF StalkEntry, TypeOK, Idle
    <2>4. \A q \in Position : Watched(q)' /\ Unlocked(q)'
        BY <1>2, <1>3, <2>1, <2>2 DEF Watched, Unlocked
    <2>5. \A u \in TickCall : PaperCall(u)'
        BY <1>1, <2>1, <2>3 DEF PaperCall
    <2>6. Keeps
        BY <2>1, <2>2 DEF Keeps, Moves
    <2> QED BY <2>4, <2>5, <2>6 DEF PaperMove, PInv
<1>8. ASSUME NEW t \in TickCall, StartClose(t, o) PROVE PaperMove
    <2>1. tick'[t].pc = "queued" /\ \A u \in TickCall : u # t => tick'[u] = tick[u]
        BY <1>1, <1>8 DEF StartClose, TypeOK, Idle
    <2>2. UNCHANGED <<pos, activePositions, survivalChecks, canary, restarts>>
        BY <1>8 DEF StartClose
    <2>3. \A u \in TickCall : PaperCall(u)'
        BY <1>1, <2>1, <2>2 DEF PaperCall
    <2>4. (\A q \in Position : Watched(q)' /\ Unlocked(q)') /\ Keeps
        BY <1>2, <2>2 DEF Watched, Unlocked, Keeps, Moves
    <2> QED BY <2>3, <2>4 DEF PaperMove, PInv
<1> QED BY <1>4, <1>5, <1>6, <1>7, <1>8

\* A close marks the position CLOSED and drops it, once.
LEMMA PaperAwait ==
    ASSUME ~Live, IInv, KInv, PInv, NEW t \in TickCall, AwaitReturns(t) PROVE PaperMove
<1>1. TypeOK /\ \A u \in TickCall : TickInv(u) /\ PaperCall(u) /\ tick[u] \in TickState
    BY DEF IInv, PInv, TypeOK
<1>2. /\ NoPosition \notin Position
      /\ \A q \in Position : Named(q) /\ Watched(q) /\ Unlocked(q)
    BY LaneAssumption DEF KInv, PInv
<1>3. PICK o : o = tick[t].pos
    OBVIOUS
<1>4. CASE InsertSucceeds(t) \/ InsertFails(t) \/ CloseInsertSucceeds(t)
    <2>1. /\ o \in Position /\ pos[o].state \in Entered
          /\ pos' = pos \/ pos' = [pos EXCEPT ![o].dbTradeId = "entry"]
          /\ UNCHANGED <<activePositions, survivalChecks, canary, restarts>>
        BY <1>1, <1>3, <1>4 DEF InsertSucceeds, InsertFails, CloseInsertSucceeds, TickInv
    <2>2. \A q \in Position : /\ pos'[q].state = pos[q].state /\ pos'[q].key = pos[q].key
                              /\ pos'[q].pair = pos[q].pair
                              /\ pos'[q].enteringLock = pos[q].enteringLock
        <3>1. \A q \in Position : pos[q] \in CupseyPosition
            BY <1>1 DEF TypeOK
        <3>2. CASE pos' = [pos EXCEPT ![o].dbTradeId = "entry"]
            <4>1. /\ pos'[o] = [pos[o] EXCEPT !.dbTradeId = "entry"]
                  /\ \A q \in Position : q # o => pos'[q] = pos[q]
                BY <1>1, <2>1, <3>2 DEF TypeOK
            <4>2. /\ pos'[o].state = pos[o].state /\ pos'[o].key = pos[o].key
                  /\ pos'[o].pair = pos[o].pair /\ pos'[o].enteringLock = pos[o].enteringLock
                BY <2>1, <3>1, <4>1 DEF CupseyPosition
            <4> QED BY <4>1, <4>2
        <3> QED BY <2>1, <3>2
    <2>3. /\ \A u \in TickCall : u # t => tick'[u] = tick[u]
          /\ \/ tick'[t].pc = "idle"
             \/ tick[t].pc = "closeInsert" /\ tick'[t].pc = "closeTrade" /\ tick'[t].pos = o
        BY <1>1, <1>3, <1>4 DEF InsertSucceeds, InsertFails, CloseInsertSucceeds, TypeOK,
               TickState, Idle
    <2>4. \A q \in Position : Watched(q)' /\ Unlocked(q)'
        BY <1>2, <2>1, <2>2 DEF Watched, Unlocked
    <2>5. \A u \in TickCall : PaperCall(u)'
        BY <1>1, <1>3, <2>1, <2>3 DEF PaperCall
    <2>6. Keeps
        BY <2>1, <2>2 DEF Keeps, Moves
    <2> QED BY <2>4, <2>5, <2>6 DEF PaperMove, PInv
<1>5. CASE CloseBegins(t)
    <2>1. /\ o \in Position /\ tick[t].pc = "queued" /\ Head(closeMutex) = t
          /\ pos[o].state \in Entered
          /\ UNCHANGED <<activePositions, survivalChecks, canary, restarts>>
        BY <1>1, <1>3, <1>5 DEF CloseBegins, TickInv
    <2>2. CASE AlreadyClosed(o)
        <3>1. /\ pos' = pos /\ tick'[t].pc = "idle"
              /\ \A u \in TickCall : u # t => tick'[u] = tick[u]
            BY <1>1, <1>3, <1>5, <2>2 DEF CloseBegins, Leave, TypeOK, Idle
        <3>2. \A u \in TickCall : PaperCall(u)'
            BY <1>1, <2>1, <3>1 DEF PaperCall
        <3>3. (\A q \in Position : Watched(q)' /\ Unlocked(q)') /\ Keeps
            BY <1>2, <2>1, <3>1 DEF Watched, Unlocked, Keeps, Moves
        <3> QED BY <3>2, <3>3 DEF PaperMove, PInv
    <2>3. CASE ~AlreadyClosed(o)
        <3>1. /\ pos' = [pos EXCEPT ![o].state = "CLOSED"] /\ tick'[t].pos = o
              /\ tick'[t].pc \in {"closeInsert", "closeTrade"}
              /\ \A u \in TickCall : u # t => tick'[u] = tick[u]
            BY <1>1, <1>3, <1>5, <2>3 DEF CloseBegins, PersistClose, TypeOK, TickState
        <3>2. pos[o].state \in {"PROBE", "WINNER"} /\ activePositions[o] = o
            BY <1>2, <2>1, <2>3 DEF AlreadyClosed, Entered, Watched
        <3>3. \A q \in Position : /\ Moves(q)
                                  /\ pos'[q].state = IF q = o THEN "CLOSED" ELSE pos[q].state
            BY <1>1, <2>1, <3>1, <3>2, StateMoves, ZenonT(60)
        <3>4. \A q \in Position : q # o => pos'[q] = pos[q]
            BY <1>1, <3>1 DEF TypeOK
        <3>5. \A q \in Position : Watched(q)' /\ Unlocked(q)'
            BY <1>2, <2>1, <3>3, <3>4 DEF Watched, Unlocked
        <3>6. \A u \in TickCall : PaperCall(u)'
            BY <1>1, <2>1, <3>1, <3>2 DEF PaperCall
        <3>7. Keeps
            BY <2>1, <3>3 DEF Keeps
        <3> QED BY <3>5, <3>6, <3>7 DEF PaperMove, PInv
    <2> QED BY <2>2, <2>3
<1>6. CASE CloseTradeSucceeds(t) \/ ClosePersistFails(t)
    <2>1. /\ tick[t].pc \in {"closeInsert", "closeTrade"} /\ pos' = pos
          /\ activePositions' = WithoutId(o) /\ canary' = ReleasedSlots
          /\ UNCHANGED <<survivalChecks, restarts>>
          /\ tick'[t].pc = "idle" /\ \A u \in TickCall : u # t => tick'[u] = tick[u]
        BY <1>1, <1>3, <1>6
           DEF CloseTradeSucceeds, ClosePersistFails, CloseEnds, Leave, TypeOK, Idle
    <2>2. /\ o \in Position /\ pos[o].state = "CLOSED" /\ activePositions[o] = o
          /\ Head(closeMutex) = t
        BY <1>1, <1>3, <2>1 DEF TickInv, PaperCall, Critical
    <2>3. /\ activePositions'[o] = NoPosition
          /\ \A q \in Position : q # o => activePositions'[q] = activePositions[q]
        BY <1>1, <1>2, <2>1, <2>2 DEF WithoutId, Named, TypeOK
    <2>4. o \in TrackedPositions
        BY <1>2, <2>2, NamedOnTheMap DEF OnTheMap, AllNamed
    <2>5. \A u \in TickCall : PaperCall(u)'
        <3>1. ASSUME NEW u \in TickCall, u # t PROVE tick[u].pc \in {"idle", "insert", "queued"}
            BY <1>1, <2>2, <3>1 DEF PaperCall, TickInv, Critical
        <3> QED BY <2>1, <3>1 DEF PaperCall
    <2>6. \A q \in Position : Watched(q)' /\ Unlocked(q)'
        BY <1>2, <2>1, <2>2, <2>3 DEF Watched, Unlocked
    <2>7. Drops(o)
        BY <2>1, <2>2 DEF Drops
    <2> QED BY <2>4, <2>5, <2>6, <2>7 DEF PaperMove, PInv
<1>7. CASE BuySucceeds(t) \/ (\E landed \in BOOLEAN : BuyFails(t, landed)) \/ BalanceRead(t)
           \/ SellSucceeds(t) \/ \E landed \in BOOLEAN : SellFails(t, landed)
    BY <1>1, <1>7 DEF BuySucceeds, BuyFails, BalanceRead, SellSucceeds, SellFails, PaperCall
<1> QED BY <1>4, <1>5, <1>6, <1>7 DEF AwaitReturns

\* A step of the lane in paper trading.
LEMMA PaperStep ==
    ASSUME ~Live, IInv, KInv, PInv, [Next]_vars PROVE PaperMove \/ SignalStep \/ Restart
<1>1. CASE VisitStep
    BY <1>1, PaperVisit
<1>2. ASSUME NEW t \in TickCall, AwaitReturns(t) PROVE PaperMove
    BY <1>2, PaperAwait
<1>3. CASE ResetIntegrityHalt \/ WalletStopChanges \/ UNCHANGED vars
    BY <1>3 DEF ResetIntegrityHalt, WalletStopChanges, vars, PaperMove, PInv, Watched, Unlocked,
           PaperCall, Keeps, Moves
<1> QED BY <1>1, <1>2, <1>3 DEF Next

\* A new STALK and a recovered position are on the map as well.
LEMMA PInvStep ==
    ASSUME ~Live, IInv, IInv', KInv, PInv, [Next]_vars PROVE PInv'
<1>1. CASE PaperMove
    BY <1>1 DEF PaperMove
<1>2. CASE SignalStep
    <2>1. Ungated
        BY DEF Ungated
    <2>2. \A t \in TickCall : PaperCall(t) /\ TickInv(t) /\ tick'[t] = tick[t]
        BY <1>2 DEF SignalStep, HandleSignal, SurvivalRejects, SurvivalApproves, SurvivalReturns,
               PInv,
               IInv
    <2>3. CASE UNCHANGED <<pos, activePositions, canary>>
        BY <2>2, <2>3 DEF PInv, Watched, Unlocked, PaperCall
    <2>4. ASSUME NEW o \in Position, NEW p \in Pair, CreateStalk(o, p, o) PROVE PInv'
        <3>1. /\ pos'[o] = NewStalk(p, o) /\ activePositions'[o] = o /\ pos[o].state = "free"
              /\ \A q \in Position : q # o =>
                    /\ pos'[q] = pos[q]
                    /\ activePositions'[q] = activePositions[q]
            BY <2>4 DEF CreateStalk, Fresh, IInv, TypeOK
        <3>2. pos'[o].state = "STALK" /\ ~pos'[o].enteringLock
            BY <3>1 DEF NewStalk
        <3>3. \A q \in Position : Watched(q)' /\ Unlocked(q)'
            BY <3>1, <3>2 DEF PInv, Watched, Unlocked
        <3>4. \A t \in TickCall : PaperCall(t)'
            BY <2>2, <3>1 DEF PaperCall, TickInv, Entered
        <3> QED BY <3>3, <3>4 DEF PInv
    <2> QED BY <1>2, <2>1, <2>3, <2>4, SignalHolds
<1>3. CASE Restart
    <2>1. \A o \in Position : Watched(o)' /\ Unlocked(o)'
        BY <1>3, RestartHolds DEF Watched, Unlocked
    <2>2. \A t \in TickCall : PaperCall(t)'
        BY <1>3 DEF Restart, PaperCall, Idle
    <2> QED BY <2>1, <2>2 DEF PInv
<1> QED BY <1>1, <1>2, <1>3, PaperStep

\* A process that has just started has nothing to watch.
LEMMA PInit == Init => PInv
<1> SUFFICES ASSUME Init PROVE PInv
    OBVIOUS
<1>1. \A o \in Position : pos[o] = FreePosition
    BY DEF Init
<1>2. \A o \in Position : pos[o].state = "free"
    BY <1>1 DEF FreePosition
<1>3. \A t \in TickCall : tick[t].pc = "idle"
    BY DEF Init, Idle
<1> QED BY <1>2, <1>3 DEF PInv, Watched, Unlocked, PaperCall

\* In paper trading a position that was entered and not closed is on the map, whatever ticks,
\* queued closes and restarts overlap: updateCupseyPositions goes on applying its stops.
THEOREM PaperWatched ==
    ASSUME ~Live PROVE Spec => []BoughtPositionIsMonitored
<1>1. IInv /\ IInv' /\ KInv /\ [Next]_vars => KInv'
    BY KStep DEF Ungated
<1>2. IInv /\ IInv' /\ KInv /\ PInv /\ [Next]_vars => PInv'
    BY PInvStep
<1>3. KInv /\ PInv => BoughtPositionIsMonitored
    <2> SUFFICES ASSUME KInv, PInv PROVE BoughtPositionIsMonitored
        OBVIOUS
    <2>1. OnTheMap
        BY NamedOnTheMap DEF KInv, AllNamed
    <2> QED BY <2>1 DEF OnTheMap, PInv, Watched, BoughtPositionIsMonitored, TrackedPositions
<1> QED BY <1>1, <1>2, <1>3, KInit, PInit, Invariance, PTL DEF Spec

\* slots taken, as long as the process has not restarted
SlotsTaken ==
    /\ CanaryEnabled => canary <= GlobalCap
    /\ SlotPerPosition

\* A position takes a slot when it enters the map and returns it when it leaves, once.
LEMMA SlotsTakenStep ==
    ASSUME ~Live, IInv, IInv', KInv, PInv, SlotsTaken, [Next]_vars PROVE SlotsTaken'
<1>1. /\ canary \in Nat /\ canary' \in Nat /\ restarts \in Nat
      /\ CanaryEnabled \in BOOLEAN /\ GlobalCap \in Nat
    BY LaneAssumption DEF IInv, TypeOK
<1>2. IsFiniteSet(TrackedPositions) /\ Cardinality(TrackedPositions) \in Nat
    BY TrackedFinite, FS_CardinalityType
<1>3. IInv /\ KInv /\ Ungated
    BY DEF Ungated
<1>4. CASE PaperMove
    <2>1. ClosingHolds
        BY PInvStep DEF PInv, PaperCall, ClosingHolds, Closing
    <2>2. CASE Keeps
        <3>1. canary' = canary /\ restarts' = restarts /\ TrackedPositions' = TrackedPositions
            BY <2>1, <2>2, KeepsHolds DEF Keeps
        <3> QED BY <3>1 DEF SlotsTaken, SlotPerPosition
    <2>3. ASSUME NEW o \in TrackedPositions, Drops(o) PROVE SlotsTaken'
        <3>1. o \in Position
            BY DEF TrackedPositions
        <3>2. /\ canary' = ReleasedSlots /\ restarts' = restarts
              /\ TrackedPositions' = TrackedPositions \ {o}
            BY <2>1, <2>3, <3>1, DropsHolds DEF Drops
        <3>3. Cardinality(TrackedPositions') = Cardinality(TrackedPositions) - 1
            BY <1>2, <3>2, FS_RemoveElement
        <3>4. Cardinality(TrackedPositions') \in Nat
            BY <1>2, <3>2, FS_RemoveElement, FS_CardinalityType
        <3> QED BY <1>1, <1>2, <3>2, <3>3, <3>4 DEF SlotsTaken, SlotPerPosition, ReleasedSlots
    <2> QED BY <1>4, <2>2, <2>3 DEF PaperMove
<1>5. CASE SignalStep
    <2>1. CASE UNCHANGED <<pos, activePositions, canary>> /\ restarts' = restarts
        BY <2>1 DEF SlotsTaken, SlotPerPosition, TrackedPositions, Tracked
    <2>2. ASSUME NEW o \in Position, NEW p \in Pair, CreateStalk(o, p, o),
                 o \notin TrackedPositions,
                 TrackedPositions' = TrackedPositions \cup {o}, restarts' = restarts
          PROVE  SlotsTaken'
        <3>1. /\ canary' = AcquiredSlots /\ CanaryFree
              /\ Cardinality(TrackedPositions') = Cardinality(TrackedPositions) + 1
            BY <1>2, <2>2, FS_AddElement DEF CreateStalk
        <3> QED BY <1>1, <1>2, <2>2, <3>1
                DEF SlotsTaken, SlotPerPosition, AcquiredSlots, CanaryFree
    <2> QED BY <1>3, <1>5, <2>1, <2>2, SignalHolds
<1>6. CASE Restart
    <2>1. canary' = 0 /\ restarts' # 0
        BY <1>1, <1>6 DEF Restart
    <2> QED BY <1>1, <2>1 DEF SlotsTaken, SlotPerPosition
<1> QED BY <1>4, <1>5, <1>6, PaperStep

\* A process that has just started holds no slot.
LEMMA SlotsTakenInit == Init => SlotsTaken
<1> SUFFICES ASSUME Init PROVE SlotsTaken
    OBVIOUS
<1>1. canary = 0 /\ GlobalCap \in Nat
    BY LaneAssumption DEF Init
<1>2. \A o \in Position : pos[o] = FreePosition
    BY DEF Init
<1>3. \A o \in Position : pos[o].state = "free"
    BY <1>2 DEF FreePosition
<1>4. Cardinality(TrackedPositions) = 0
    BY <1>3, FS_EmptySet DEF TrackedPositions, Tracked
<1> QED BY <1>1, <1>4 DEF SlotsTaken, SlotPerPosition

\* In paper trading, until the process restarts, the slots in use are exactly the positions in
\* the map: the acquire of handleCupseyLaneSignal and the releases of the skip and close paths
\* (acquireCanarySlot, releaseCanarySlot) pair up.
THEOREM PaperSlots ==
    ASSUME ~Live PROVE Spec => []SlotPerPosition
<1>1. IInv /\ IInv' /\ KInv /\ [Next]_vars => KInv'
    BY KStep DEF Ungated
<1>2. IInv /\ IInv' /\ KInv /\ PInv /\ [Next]_vars => PInv'
    BY PInvStep
<1>3. IInv /\ IInv' /\ KInv /\ PInv /\ SlotsTaken /\ [Next]_vars => SlotsTaken'
    BY SlotsTakenStep
<1>4. SlotsTaken => SlotPerPosition
    BY DEF SlotsTaken
<1> QED BY <1>1, <1>2, <1>3, <1>4, KInit, PInit, SlotsTakenInit, Invariance, PTL DEF Spec

\* the process has not restarted
NotRestarted == restarts = 0

\* So a paper lane that has not restarted keeps the cap of the canary guard.
THEOREM PaperCap ==
    ASSUME ~Live, MaxRestarts = 0 PROVE Spec => []OpenPositionsWithinGlobalCap
<1>1. IInv /\ IInv' /\ KInv /\ [Next]_vars => KInv'
    BY KStep DEF Ungated
<1>2. IInv /\ IInv' /\ KInv /\ PInv /\ [Next]_vars => PInv'
    BY PInvStep
<1>3. IInv /\ IInv' /\ KInv /\ PInv /\ SlotsTaken /\ [Next]_vars => SlotsTaken'
    BY SlotsTakenStep
<1>4. Init => NotRestarted
    BY DEF Init, NotRestarted
<1>5. IInv /\ KInv /\ PInv /\ NotRestarted /\ [Next]_vars => NotRestarted'
    <2> SUFFICES ASSUME IInv, KInv, PInv, restarts = 0, [Next]_vars PROVE restarts' = 0
        BY DEF NotRestarted
    <2>1. CASE PaperMove
        BY <2>1 DEF PaperMove, Keeps, Drops
    <2>2. CASE SignalStep
        BY <2>2 DEF SignalStep, HandleSignal, SurvivalRejects, SurvivalApproves, SurvivalReturns
    <2>3. CASE Restart
        BY <2>3 DEF Restart
    <2> QED BY <2>1, <2>2, <2>3, PaperStep
<1>6. IInv /\ SlotsTaken /\ NotRestarted => OpenPositionsWithinGlobalCap
    <2> SUFFICES ASSUME IInv, SlotsTaken, restarts = 0, CanaryEnabled
                 PROVE  Cardinality(OpenPositions) <= GlobalCap
        BY DEF OpenPositionsWithinGlobalCap, NotRestarted
    <2>1. /\ IsFiniteSet(TrackedPositions) /\ Cardinality(TrackedPositions) <= GlobalCap
        BY TrackedFinite DEF SlotsTaken, SlotPerPosition
    <2>2. OpenPositions \in SUBSET TrackedPositions
        BY DEF OpenPositions
    <2>3. /\ Cardinality(OpenPositions) <= Cardinality(TrackedPositions)
          /\ IsFiniteSet(OpenPositions)
        BY <2>1, <2>2, FS_Subset
    <2>4. Cardinality(OpenPositions) \in Nat /\ Cardinality(TrackedPositions) \in Nat
        BY <2>1, <2>3, FS_CardinalityType
    <2> QED BY <2>1, <2>3, <2>4, LaneAssumption
<1> QED BY <1>1, <1>2, <1>3, <1>4, <1>5, <1>6, KInit, PInit, SlotsTakenInit, Invariance,
          PTL DEF Spec
=============================================================================
