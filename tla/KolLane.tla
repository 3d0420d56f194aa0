------------------------------ MODULE KolLane ------------------------------
(***************************************************************************)
(* The live side of the KOL hunter lane                                    *)
(* (orchestration/kolSignalHandler.ts).  A KOL's buy makes a mint pending; *)
(* a trigger admits it; the entry buys it (PROBE); ticks promote the       *)
(* position (RUNNER_T1, T2, T3) or ask to close it.  The lane does not use *)
(* the shared close mutex: on one position a close, the partial take of T1 *)
(* and a rotation reduce may sell at the same time, and what orders them   *)
(* are marks on the position.                                              *)
(*                                                                         *)
(* The process is a single thread: an action is one stretch between two    *)
(* awaits.  A call is a suspended closeLivePosition, T1 take or reduce.    *)
(* The price feed of the lane and its paper arms are in KolFeed: here a    *)
(* tick may come to any live position.  A tail is its parent's object      *)
(* under a derived id; here it takes the parent's identity when the parent *)
(* leaves the active map.                                                  *)
(***************************************************************************)
EXTENDS Integers, FiniteSets, Functions

CONSTANTS
    Mint, Position, Call,
    NoPosition, NoCall,
    Sublane,         \* canary lanes that entries use
    PartialTake,     \* kolHunterPartialTakeEnabled && kolHunterPartialTakeLiveEnabled
    TailRetain,      \* kolHunterTailRetainEnabled && kolHunterTailRetainLiveEnabled
    MaxConcurrent,   \* canaryGlobalMaxConcurrent, the guard being enabled
    Bought,          \* tokens a buy leaves in the wallet
    Promoted,        \* bound: tiers that ticks promote positions from
    MaxTokens,       \* bound: tokens of one mint in the wallet
    MaxRestarts      \* bound: process restarts

ASSUME KolAssumption ==
    /\ NoPosition \notin Position /\ NoCall \notin Call
    /\ IsFiniteSet(Mint) /\ IsFiniteSet(Position)
    /\ Sublane \subseteq {"kol_hunter", "kol_hunter_smart_v3", "kol_hunter_rotation"}
    /\ PartialTake \in BOOLEAN /\ TailRetain \in BOOLEAN
    /\ Promoted \subseteq {"PROBE", "RUNNER_T1", "RUNNER_T2"}
    /\ MaxConcurrent \in Nat /\ Bought \in Nat \ {0}
    /\ MaxTokens \in Nat /\ MaxRestarts \in Nat

VARIABLES
    admitted,     \* triggers past the same-mint check, suspended before the entry
    entry,        \* inflightLiveEntry, by mint: where the entry is
    pos,          \* live position objects
    active,       \* live positions in the active map
    call,         \* suspended calls
    wallet,       \* tokens held on chain, by mint
    row,          \* trade rows, by position
    canary,       \* slots held in the canary guard, by lane
    lost,         \* history: mints whose tokens no handler was told of
    restarts

entryVars == <<admitted, entry>>
vars == <<admitted, entry, pos, active,
          call, wallet, row, canary, lost, restarts>>

-----------------------------------------------------------------------------
(* Values *)

EntryLane == Sublane \cup {"kol_hunter"}
LaneTState == {"PROBE", "RUNNER_T1", "RUNNER_T2", "RUNNER_T3", "TAIL", "CLOSED"}
Mark == {"no", "inFlight", "done"}

\* take: partialTakeT1InFlight and partialTakeT1AtSec; reduce: the marks of a
\* rotation reduce; deferred: pendingCloseAfterPartialTake
KolPosition ==
    [state : LaneTState \cup {"none"}, mint : Mint, lane : EntryLane,
     take : Mark, reduce : Mark, deferred : BOOLEAN]
NewPosition(state, m, l) ==
    [state |-> state, mint |-> m, lane |-> l,
     take |-> "no", reduce |-> "no", deferred |-> FALSE]

EntryState ==
    [pc : {"none", "quote", "buy", "persist", "exit"}, lane : EntryLane,
     pos : Position \cup {NoPosition}, call : Call \cup {NoCall}]
NoEntry == [pc |-> "none", lane |-> "kol_hunter", pos |-> NoPosition, call |-> NoCall]

\* prev: the state of the position when its close was requested; seen: the balance
\* the call read; retain: isPriceKillParent
CallState ==
    [kind : {"idle", "close", "take", "reduce"},
     pc : {"none", "probe", "sell", "append", "fallback", "confirm", "persist"},
     pos : Position \cup {NoPosition}, prev : LaneTState \cup {"none"},
     retain : BOOLEAN, seen : Nat]
IdleCall == [kind |-> "idle", pc |-> "none", pos |-> NoPosition, prev |-> "none",
             retain |-> FALSE, seen |-> 0]

TypeOK ==
    /\ admitted \subseteq Mint
    /\ entry \in [Mint -> EntryState]
    /\ pos \in [Position -> KolPosition]
    /\ active \subseteq Position
    /\ call \in [Call -> CallState]
    /\ wallet \in [Mint -> Nat]
    /\ row \in [Position -> {"none", "OPEN", "CLOSED"}]
    /\ canary \in [EntryLane -> Nat]
    /\ lost \subseteq Mint
    /\ restarts \in Nat

Init ==
    /\ admitted = {}
    /\ entry = [m \in Mint |-> NoEntry]
    /\ pos \in [Position -> {NewPosition("none", m, "kol_hunter") : m \in Mint}]
    /\ active = {}
    /\ call = [c \in Call |-> IdleCall]
    /\ wallet = [m \in Mint |-> 0]
    /\ row = [p \in Position |-> "none"]
    /\ canary = [l \in EntryLane |-> 0]
    /\ lost = {}
    /\ restarts = 0

-----------------------------------------------------------------------------
(* What handlers look up *)

ActiveOf(m) == {p \in active : pos[p].mint = m}
Part(n) == n \div 2          \* the share of a take, a reduce or a retaining close
Lesser(a, b) == IF a < b THEN a ELSE b
Spent(m, amount) == [wallet EXCEPT ![m] = @ - Lesser(amount, @)]

FreshPositions == {p \in Position : pos[p].state = "none"}
Fresh == CHOOSE p \in FreshPositions : TRUE
IdleCalls == {c \in Call : call[c].kind = "idle"}
FreeCall == CHOOSE c \in IdleCalls : TRUE
Of(kind) == {c \in Call : call[c].kind = kind}
CallsOn(p, kind) == {c \in Of(kind) : call[c].pos = p}

HeldSlots == FoldFunction(LAMBDA a, b : a + b, 0, canary)
X_Released_NoFloor(l) == [canary EXCEPT ![l] = @ - 1]
\* releaseCanarySlot, acquireCanarySlot
Released(l) == [canary EXCEPT ![l] = IF @ > 0 THEN @ - 1 ELSE 0]
Acquired(l) == [canary EXCEPT ![l] = @ + 1]

-----------------------------------------------------------------------------
(* Entries *)

\* a trigger fires for a mint of which no live position is active; other gates and
\* two file reads follow before the entry
TriggerLive(m) ==
    /\ ActiveOf(m) = {}
    /\ FreshPositions # {}         \* bound
    /\ admitted' = admitted \cup {m}
    /\ UNCHANGED <<entry, pos, active, call, wallet, row, canary, lost, restarts>>

\* one of those gates turns it into a paper entry, or drops it
AdmissionRefused(m) ==
    /\ m \in admitted
    /\ admitted' = admitted \ {m}
    /\ UNCHANGED <<entry, pos, active, call, wallet, row, canary, lost, restarts>>

\* enterLivePosition; a mint whose live entry is under way is skipped
Enter(m) ==
    /\ m \in admitted
    /\ admitted' = admitted \ {m}
    /\ IF entry[m].pc = "none"
       THEN \E l \in Sublane :
                 entry' = [entry EXCEPT ![m] = [NoEntry EXCEPT !.pc = "quote", !.lane = l]]
       ELSE UNCHANGED entry
    /\ UNCHANGED <<pos, active, call, wallet, row,
                   canary, lost, restarts>>

\* no price, a quote that is refused, a guard that turns it into a paper entry, or
\* no canary slot
EntryRejected(m) ==
    /\ entry[m].pc = "quote"
    /\ entry' = [entry EXCEPT ![m] = NoEntry]
    /\ UNCHANGED <<admitted, pos, active, call, wallet, row,
                   canary, lost, restarts>>

AcquireSlot(m) ==
    /\ entry[m].pc = "quote"
    /\ HeldSlots < MaxConcurrent
    /\ canary' = Acquired(entry[m].lane)
    /\ entry' = [entry EXCEPT ![m].pc = "buy"]
    /\ UNCHANGED <<admitted, pos, active, call, wallet, row,
                   lost, restarts>>

\* the position id is taken, the object is made once the trade is persisted
BuySucceeds(m) ==
    /\ entry[m].pc = "buy"
    /\ FreshPositions # {} /\ wallet[m] + Bought <= MaxTokens
    /\ entry' = [entry EXCEPT ![m].pc = "persist", ![m].pos = Fresh]
    /\ pos' = [pos EXCEPT ![Fresh] = NewPosition("CLOSED", m, entry[m].lane)]
    /\ wallet' = [wallet EXCEPT ![m] = @ + Bought]
    /\ UNCHANGED <<admitted, active, call, row, canary, lost,
                   restarts>>

X_BuyThrows_SlotKept(m, landed) ==
    /\ entry[m].pc = "buy"
    /\ landed => wallet[m] + Bought <= MaxTokens
    /\ wallet' = [wallet EXCEPT ![m] = IF landed THEN @ + Bought ELSE @]
    /\ lost' = IF landed THEN lost \cup {m} ELSE lost
    /\ entry' = [entry EXCEPT ![m] = NoEntry]
    /\ UNCHANGED <<admitted, pos, active, call, row, canary, restarts>>

\* the executor throws; its transaction may have landed all the same
BuyThrows(m, landed) ==
    /\ entry[m].pc = "buy"
    /\ landed => wallet[m] + Bought <= MaxTokens
    /\ wallet' = [wallet EXCEPT ![m] = IF landed THEN @ + Bought ELSE @]
    /\ lost' = IF landed THEN lost \cup {m} ELSE lost
    /\ canary' = Released(entry[m].lane)
    /\ entry' = [entry EXCEPT ![m] = NoEntry]
    /\ UNCHANGED <<admitted, pos, active, call, row, restarts>>

\* persistOpenTradeWithIntegrity returned: the position opens, recorded or not
Opens(m, state, recorded) ==
    LET p == entry[m].pos IN
    /\ entry[m].pc = "persist"
    /\ pos' = [pos EXCEPT ![p] = NewPosition(state, m, entry[m].lane)]
    /\ active' = active \cup {p}
    /\ row' = [row EXCEPT ![p] = IF recorded THEN "OPEN" ELSE @]
    /\ UNCHANGED <<admitted, wallet, canary, lost, restarts>>

EntryOpens(m, recorded) ==
    /\ Opens(m, "PROBE", recorded)
    /\ entry' = [entry EXCEPT ![m] = NoEntry]
    /\ UNCHANGED call

\* the fill is much better than the reference: the entry sells it at once and
\* stays in flight until that close returns
EntryOpensAndExits(m, recorded) ==
    /\ IdleCalls # {}
    /\ Opens(m, "CLOSED", recorded)
    /\ call' = [call EXCEPT ![FreeCall] = [IdleCall EXCEPT !.kind = "close", !.pc = "probe",
                                             !.pos = entry[m].pos, !.prev = "PROBE"]]
    /\ entry' = [entry EXCEPT ![m].pc = "exit", ![m].call = FreeCall]

-----------------------------------------------------------------------------
(* closePosition of a live position *)

\* what it does to the object q
Requested(q) ==
    IF q.take = "inFlight" THEN [q EXCEPT !.deferred = TRUE]
    ELSE [q EXCEPT !.state = "CLOSED"]

X_StartsClose_NoDeferral(q) == q.state # "CLOSED"
X_StartsClose_Twice(q) == q.take # "inFlight"
StartsClose(q) == q.take # "inFlight" /\ q.state # "CLOSED"

\* the closeLivePosition call that it starts, if it starts one
CloseCall(p, q, retain) ==
    IF StartsClose(q)
    THEN [IdleCall EXCEPT !.kind = "close", !.pc = "probe", !.pos = p, !.prev = q.state,
                          !.retain = retain]
    ELSE IdleCall

\* a tick, a KOL's sell or a structural probe asks for the close; a price kill of
\* a PROBE position retains a tail
RequestClose(p, retain) ==
    /\ p \in active
    /\ IdleCalls # {}
    /\ retain => /\ TailRetain /\ pos[p].lane # "kol_hunter_rotation"
                 /\ pos[p].state = "PROBE"
    /\ pos' = [pos EXCEPT ![p] = Requested(@)]
    /\ call' = [call EXCEPT ![FreeCall] = CloseCall(p, pos[p], retain)]
    /\ UNCHANGED <<entryVars, active, wallet, row, canary, lost, restarts>>

\* a tick promotes; the first promotion starts the T1 take
NextTier == [PROBE |-> "RUNNER_T1", RUNNER_T1 |-> "RUNNER_T2", RUNNER_T2 |-> "RUNNER_T3"]
Takes(p) == PartialTake /\ pos[p].state = "PROBE" /\ pos[p].take = "no"
Promote(p) ==
    /\ p \in active
    /\ pos[p].state \in Promoted
    /\ IF Takes(p)
       THEN /\ IdleCalls # {}
            /\ call' = [call EXCEPT ![FreeCall] = [IdleCall EXCEPT !.kind = "take",
                                                     !.pc = "probe", !.pos = p]]
            /\ pos' = [pos EXCEPT ![p].state = NextTier[@], ![p].take = "inFlight"]
       ELSE /\ pos' = [pos EXCEPT ![p].state = NextTier[@]]
            /\ UNCHANGED call
    /\ UNCHANGED <<entryVars, active, wallet, row, canary, lost, restarts>>

\* a rotation position sells a part; the state of the position is not looked at
StartReduce(p) ==
    /\ p \in active
    /\ pos[p].lane = "kol_hunter_rotation" /\ pos[p].reduce = "no"
    /\ IdleCalls # {}
    /\ pos' = [pos EXCEPT ![p].reduce = "inFlight"]
    /\ call' = [call EXCEPT ![FreeCall] = [IdleCall EXCEPT !.kind = "reduce", !.pc = "probe",
                                             !.pos = p]]
    /\ UNCHANGED <<entryVars, active, wallet, row, canary, lost, restarts>>

-----------------------------------------------------------------------------
(* executeLiveT1PartialTake, executeLiveRotationFlowReduce *)

At(c, kinds, pc) == call[c].kind \in kinds /\ call[c].pc = pc
Held(c) == wallet[pos[call[c].pos].mint]
Sold(c, amount) == Spent(pos[call[c].pos].mint, amount)
Marked(c, mark) ==
    LET p == call[c].pos IN
    IF call[c].kind = "take" THEN [pos[p] EXCEPT !.take = mark]
    ELSE [pos[p] EXCEPT !.reduce = mark]

\* drainPendingCloseAfterPartialTake of the object q, by the call that settles
Drains(q) == q.deferred /\ q.state # "CLOSED"
Drain(c, q) ==
    LET p == call[c].pos
        drained == [q EXCEPT !.deferred = FALSE] IN
    /\ pos' = [pos EXCEPT ![p] = IF Drains(q) THEN Requested(drained) ELSE q]
    /\ call' = [call EXCEPT ![c] = IF Drains(q) THEN CloseCall(p, drained, FALSE)
                                   ELSE IdleCall]

PartProbed(c) ==
    /\ At(c, {"take", "reduce"}, "probe")
    /\ Part(Held(c)) > 0
    /\ call' = [call EXCEPT ![c].pc = "sell", ![c].seen = Held(c)]
    /\ UNCHANGED <<entryVars, pos, active, wallet, row, canary, lost, restarts>>

PartSold(c) ==
    /\ At(c, {"take", "reduce"}, "sell")
    /\ Held(c) > 0
    /\ wallet' = Sold(c, Part(call[c].seen))
    /\ pos' = [pos EXCEPT ![call[c].pos] = Marked(c, "done")]
    /\ call' = [call EXCEPT ![c].pc = "append", ![c].seen = 0]
    /\ UNCHANGED <<entryVars, active, row, canary, lost, restarts>>

X_PartThrows_NotDrained(c, landed) ==
    /\ At(c, {"take", "reduce"}, "probe") \/ At(c, {"take", "reduce"}, "sell")
    /\ landed => call[c].pc = "sell" /\ Held(c) > 0
    /\ wallet' = IF landed THEN Sold(c, Part(call[c].seen)) ELSE wallet
    /\ IF call[c].kind = "take"
       THEN /\ pos' = [pos EXCEPT ![call[c].pos] = Marked(c, "no")]
            /\ call' = [call EXCEPT ![c] = IdleCall]
       ELSE /\ pos' = [pos EXCEPT ![call[c].pos] = Marked(c, "no")]
            /\ call' = [call EXCEPT ![c].pc = "fallback", ![c].seen = 0]
    /\ UNCHANGED <<entryVars, active, row, canary, lost, restarts>>

\* the sale throws, landed or not: a take drains, a reduce sends an alert first
PartThrows(c, landed) ==
    /\ At(c, {"take", "reduce"}, "probe") \/ At(c, {"take", "reduce"}, "sell")
    /\ landed => call[c].pc = "sell" /\ Held(c) > 0
    /\ wallet' = IF landed THEN Sold(c, Part(call[c].seen)) ELSE wallet
    /\ IF call[c].kind = "take"
       THEN Drain(c, Marked(c, "no"))
       ELSE /\ pos' = [pos EXCEPT ![call[c].pos] = Marked(c, "no")]
            /\ call' = [call EXCEPT ![c].pc = "fallback", ![c].seen = 0]
    /\ UNCHANGED <<entryVars, active, row, canary, lost, restarts>>

\* the ledger line is written
PartAppended(c) ==
    /\ At(c, {"take", "reduce"}, "append")
    /\ IF call[c].kind = "take"
       THEN Drain(c, pos[call[c].pos])
       ELSE /\ call' = [call EXCEPT ![c] = IdleCall]
            /\ UNCHANGED pos
    /\ UNCHANGED <<entryVars, active, wallet, row, canary, lost, restarts>>

\* the reduce failed: the whole position is closed instead
FallsBackToClose(c) ==
    LET p == call[c].pos IN
    /\ At(c, {"reduce"}, "fallback")
    /\ pos' = [pos EXCEPT ![p] = Requested(@)]
    /\ call' = [call EXCEPT ![c] = CloseCall(p, pos[p], FALSE)]
    /\ UNCHANGED <<entryVars, active, wallet, row, canary, lost, restarts>>

-----------------------------------------------------------------------------
(* closeLivePosition *)

\* an entry that awaits this close ends with it
EntryAfter(c) ==
    [m \in Mint |-> IF entry[m].pc = "exit" /\ entry[m].call = c THEN NoEntry ELSE entry[m]]

CloseProbed(c) ==
    /\ At(c, {"close"}, "probe")
    /\ call' = [call EXCEPT ![c].seen = Held(c),
                            ![c].pc = IF Held(c) > 0 THEN "sell" ELSE "persist",
                            ![c].retain = @ /\ Held(c) > 0]
    /\ UNCHANGED <<entryVars, pos, active, wallet, row, canary, lost, restarts>>

CloseAmount(c) == IF call[c].retain THEN Part(call[c].seen) ELSE call[c].seen

CloseSold(c) ==
    /\ At(c, {"close"}, "sell")
    /\ Held(c) > 0 /\ CloseAmount(c) > 0
    /\ wallet' = Sold(c, CloseAmount(c))
    /\ call' = [call EXCEPT ![c].pc = "persist", ![c].seen = 0]
    /\ UNCHANGED <<entryVars, pos, active, row, canary, lost, restarts>>

\* the executor throws, or a balance read around it; the sale may have landed
CloseThrows(c, landed) ==
    /\ At(c, {"close"}, "probe") \/ At(c, {"close"}, "sell")
    /\ landed => call[c].pc = "sell" /\ Held(c) > 0
    /\ wallet' = IF landed THEN Sold(c, CloseAmount(c)) ELSE wallet
    /\ call' = [call EXCEPT ![c].pc = "confirm", ![c].seen = 0]
    /\ UNCHANGED <<entryVars, pos, active, row, canary, lost, restarts>>

X_ZeroConfirmed_Assumed(c) ==
    /\ At(c, {"close"}, "confirm")
    /\ call' = [call EXCEPT ![c].pc = "persist"]
    /\ UNCHANGED <<entryVars, pos, active, wallet, row, canary, lost, restarts>>

\* confirmLiveSellZeroTokenBalance: nothing is left, the position is an orphan
ZeroConfirmed(c) ==
    /\ At(c, {"close"}, "confirm")
    /\ Held(c) = 0
    /\ call' = [call EXCEPT ![c].pc = "persist"]
    /\ UNCHANGED <<entryVars, pos, active, wallet, row, canary, lost, restarts>>

X_CloseFails_BackToProbe(c) ==
    /\ At(c, {"close"}, "confirm")
    /\ pos' = [pos EXCEPT ![call[c].pos].state = "PROBE"]
    /\ call' = [call EXCEPT ![c] = IdleCall]
    /\ entry' = EntryAfter(c)
    /\ UNCHANGED <<admitted, active, wallet, row, canary, lost,
                   restarts>>

X_CloseFails_StaysInFlight(c) ==
    /\ At(c, {"close"}, "confirm")
    /\ pos' = [pos EXCEPT ![call[c].pos].state = call[c].prev]
    /\ call' = [call EXCEPT ![c] = IdleCall]
    /\ UNCHANGED <<entryVars, active, wallet, row, canary, lost, restarts>>

\* zero is not confirmed: the position is open again
CloseFails(c) ==
    /\ At(c, {"close"}, "confirm")
    /\ pos' = [pos EXCEPT ![call[c].pos].state = call[c].prev]
    /\ call' = [call EXCEPT ![c] = IdleCall]
    /\ entry' = EntryAfter(c)
    /\ UNCHANGED <<admitted, active, wallet, row, canary, lost,
                   restarts>>

\* closeTrade, which may fail, and all that follows it: the position leaves the
\* active map and its slot; a tail takes its place, without a slot.  A tail and an
\* unrecorded position have no row
CloseFinishes(c, ok) ==
    LET p == call[c].pos
        m == pos[p].mint IN
    /\ At(c, {"close"}, "persist")
    /\ row' = IF ok /\ call[c].prev # "TAIL" /\ row[p] = "OPEN"
              THEN [row EXCEPT ![p] = "CLOSED"] ELSE row
    /\ canary' = Released(pos[p].lane)
    /\ active' = IF call[c].retain THEN active ELSE active \ {p}
    /\ pos' = [pos EXCEPT ![p] =
                  IF call[c].retain THEN NewPosition("TAIL", m, @.lane)
                  ELSE NewPosition("CLOSED", m, "kol_hunter")]
    /\ call' = [call EXCEPT ![c] = IdleCall]
    /\ entry' = EntryAfter(c)
    /\ UNCHANGED <<admitted, wallet, lost, restarts>>

-----------------------------------------------------------------------------
(* Restart: recoverKolHunterOpenPositions *)

OpenRows == {p \in Position : row[p] = "OPEN"}
MintOf(p) == pos[p].mint
HeldRows == {p \in OpenRows : wallet[MintOf(p)] > 0}

\* loaded: the rows with a balance, and those whose balance read throws; closed:
\* rows of the others that closeTrade could update.  The high-water mark of a row
\* is its entry price, so every loaded position is a PROBE
Restart(loaded, closed) ==
    /\ restarts < MaxRestarts
    /\ HeldRows \subseteq loaded /\ loaded \subseteq OpenRows
    /\ closed \subseteq OpenRows \ loaded
    /\ pos' = [p \in Position |->
                 IF p \in loaded THEN NewPosition("PROBE", MintOf(p), "kol_hunter")
                 ELSE IF pos[p].state = "none" THEN pos[p]
                 ELSE NewPosition("CLOSED", MintOf(p), "kol_hunter")]
    /\ active' = loaded
    /\ row' = [p \in Position |-> IF p \in closed THEN "CLOSED" ELSE row[p]]
    /\ lost' = lost \cup {m \in Mint : wallet[m] > 0 /\ \A p \in OpenRows : MintOf(p) # m}
    /\ admitted' = {}
    /\ entry' = [m \in Mint |-> NoEntry]
    /\ call' = [c \in Call |-> IdleCall]
    /\ canary' = [l \in EntryLane |-> 0]
    /\ restarts' = restarts + 1
    /\ UNCHANGED wallet

-----------------------------------------------------------------------------
(* Specification *)

Trigger(m) == TriggerLive(m) \/ AdmissionRefused(m) \/ Enter(m)
EntryStep(m) ==
    \/ EntryRejected(m) \/ AcquireSlot(m) \/ BuySucceeds(m)
    \/ \E b \in BOOLEAN : BuyThrows(m, b) \/ EntryOpens(m, b) \/ EntryOpensAndExits(m, b)
PositionStep(p) == Promote(p) \/ StartReduce(p) \/ \E b \in BOOLEAN : RequestClose(p, b)
CallStep(c) ==
    \/ PartProbed(c) \/ PartSold(c) \/ PartAppended(c) \/ FallsBackToClose(c)
    \/ CloseProbed(c) \/ CloseSold(c) \/ ZeroConfirmed(c) \/ CloseFails(c)
    \/ \E b \in BOOLEAN : PartThrows(c, b) \/ CloseThrows(c, b) \/ CloseFinishes(c, b)

Next ==
    \/ \E m \in Mint : Trigger(m) \/ EntryStep(m)
    \/ \E p \in Position : PositionStep(p)
    \/ \E c \in Call : CallStep(c)
    \/ \E loaded, closed \in SUBSET Position : Restart(loaded, closed)

Spec == Init /\ [][Next]_vars

-----------------------------------------------------------------------------
(* Properties *)

\* A live position of the active map is CLOSED exactly while one closeLivePosition
\* works on it: two requests never sell it twice, and a close that fails gives it
\* back (kolSignalHandler.ts:9729-9742, the race and F1 fixes).
ClosedWhileClosing ==
    \A p \in active :
        /\ pos[p].state = "CLOSED" => CallsOn(p, "close") # {}
        /\ \A c, d \in CallsOn(p, "close") : c = d /\ pos[p].state = "CLOSED"

\* No close sells while the T1 partial take of its position does: the close waits
\* for the take to settle (kolSignalHandler.ts:9709-9723).
NoCloseDuringTake ==
    \A p \in Position : pos[p].take = "inFlight" => CallsOn(p, "close") = {}

\* The canary guard never counts more slots of a lane than it has buys under way
\* and live positions: no failed entry and no close leaves a slot behind that
\* would lower the cap for good (canaryConcurrencyGuard.ts:37-57).
NoSlotLeak ==
    \A l \in EntryLane :
        canary[l] <= Cardinality({m \in Mint : /\ entry[m].pc \in {"buy", "persist"}
                                               /\ entry[m].lane = l})
                     + Cardinality({p \in active : pos[p].lane = l})

\* Tokens in the wallet have someone to sell them: an active live position of their
\* mint, the entry that just bought them or an OPEN row the next start recovers.
\* Only a buy that threw after landing and a restart that finds no OPEN row, both
\* in lost, leave tokens that the lane does not know of.
HeldIsKnown ==
    \A m \in Mint :
        wallet[m] > 0 => \/ m \in lost
                         \/ ActiveOf(m) # {}
                         \/ entry[m].pc = "persist"
                         \/ \E p \in OpenRows : MintOf(p) = m

Rank == [PROBE |-> 0, RUNNER_T1 |-> 1, RUNNER_T2 |-> 2, RUNNER_T3 |-> 3, TAIL |-> 4]
\* the tier of a position, which a close under way keeps
Tier(p) == IF pos[p].state = "CLOSED" THEN call[CHOOSE c \in CallsOn(p, "close") : TRUE].prev
           ELSE pos[p].state

\* Between restarts a live position never falls back to a lower tier, through
\* failed closes, takes and reduces too: the tier selects the trailing stop.
TierKept ==
    [][restarts' = restarts =>
         \A p \in active \cap active' : Rank[Tier(p)] <= Rank[Tier(p)']]_vars

\* A close that was put off by the T1 take is at work when the take returns, also
\* when the take failed, unless the process ended meanwhile
\* (drainPendingCloseAfterPartialTake, kolSignalHandler.ts:9997-10010).
DeferredCloseStarts ==
    [][restarts' = restarts =>
         \A p \in Position : \A c \in CallsOn(p, "take") :
             (pos[p].deferred /\ call'[c].kind # "take") => CallsOn(p, "close")' # {}]_vars

\* What is marked in flight has a suspended call that will clear the mark, on every
\* failure path and across restarts: a take or a reduce that is not yet sold, and
\* the close that a live entry of the mint waits for.  Otherwise no close of that
\* position, no second reduce or no entry of that mint would ever happen again.
NothingStuckInFlight ==
    /\ \A p \in active : pos[p].take = "inFlight" => CallsOn(p, "take") # {}
    /\ \A p \in active : pos[p].reduce = "inFlight" => CallsOn(p, "reduce") # {}
    /\ \A m \in Mint :
           entry[m].pc = "exit" =>
               /\ entry[m].call \in CallsOn(entry[m].pos, "close")
               /\ MintOf(entry[m].pos) = m

=============================================================================
