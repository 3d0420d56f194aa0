----------------------------- MODULE LaneWallet -----------------------------
(***************************************************************************)
(* What the sandbox lanes share: one wallet, the trade rows, the canary    *)
(* guard (risk/canaryConcurrencyGuard.ts) and the mutex of their closes    *)
(* (orchestration/swapSerializer.ts).  PureWsLane and MigrationLane are    *)
(* over this state, SharedWallet puts them together.                       *)
(*                                                                         *)
(* The process is a single thread: an action is one stretch between two    *)
(* awaits, a call is a suspended entry or close.  The wallet tells whose   *)
(* tokens of a mint it holds; a close reads the balance of the mint, and   *)
(* cannot tell them apart.                                                 *)
(***************************************************************************)
EXTENDS Naturals, Sequences, FiniteSets, Functions

CONSTANTS
    Mint, Position, Call,
    NoPosition,
    GlobalCap       \* canaryGlobalMaxConcurrent, the guard being enabled

ASSUME WalletAssumption ==
    /\ Mint # {} /\ NoPosition \notin Position
    /\ IsFiniteSet(Position) /\ IsFiniteSet(Call)
    /\ GlobalCap \in Nat

VARIABLES
    pos,          \* position objects
    call,         \* suspended calls
    closeMutex,   \* calls inside serializeClose, in their order
    wallet,       \* tokens held on chain, by mint: whose they are
    row,          \* trade rows, by position; of an OPEN one its strategy
    canary        \* slots held in the canary guard, by lane

-----------------------------------------------------------------------------
(* Values *)

Primary == "pure_ws_breakout"
SwingV2 == "pure_ws_swing_v2"
Migration == "migration"
Lane == {Primary, SwingV2, Migration}

\* PROBE stands for every state of a bought position.  BOUGHT: tokens whose position
\* object is still to be made; GONE: what no handler of this process knows.  slot, a
\* history variable: the position took a canary slot in this process
PositionState == {"none", "STALK", "BOUGHT", "PROBE", "REJECT", "CLOSED", "GONE"}
LanePosition == [state : PositionState, mint : Mint, lane : Lane, slot : BOOLEAN]
PositionOf(state, m, l, slot) == [state |-> state, mint |-> m, lane |-> l, slot |-> slot]

SignalPc == {"checks", "buy", "persist", "swingBuy", "swingPersist", "tail"}
ProbePc == {"survival", "probeBuy", "probePersist"}
ClosePc == {"queued", "balance", "sell", "sold", "persistClose", "alert"}
CallState ==
    [pc : {"idle"} \cup SignalPc \cup ProbePc \cup ClosePc, mint : Mint,
     pos : Position \cup {NoPosition}, seen : SUBSET Position]
IdleCall == [pc |-> "idle", mint |-> CHOOSE m \in Mint : TRUE, pos |-> NoPosition, seen |-> {}]

WalletTypeOK ==
    /\ pos \in [Position -> LanePosition]
    /\ call \in [Call -> CallState]
    /\ closeMutex \in Seq(Call)
    /\ wallet \in [Mint -> SUBSET Position]
    /\ row \in [Position -> {"none", "CLOSED"} \cup Lane]
    /\ canary \in [Lane -> Nat]

WalletInit ==
    /\ pos = [p \in Position |-> PositionOf("none", IdleCall.mint, Primary, FALSE)]
    /\ call = [c \in Call |-> IdleCall]
    /\ closeMutex = <<>>
    /\ wallet = [m \in Mint |-> {}]
    /\ row = [p \in Position |-> "none"]
    /\ canary = [l \in Lane |-> 0]

-----------------------------------------------------------------------------
(* Helpers *)

At(c, pc) == call[c].pc = pc
Goto(c, pc) == call' = [call EXCEPT ![c].pc = pc]
OpenIn(lanes) == {p \in Position : pos[p].lane \in lanes /\ pos[p].state = "PROBE"}

FreshPositions == {p \in Position : pos[p].state = "none"}
Fresh == CHOOSE p \in FreshPositions : TRUE

\* acquireCanarySlot, releaseCanarySlot
HeldSlots == FoldFunction(LAMBDA a, b : a + b, 0, canary)
SlotFree == HeldSlots < GlobalCap
Acquired(l) == [canary EXCEPT ![l] = @ + 1]
X_Released_NoFloor(l) == [canary EXCEPT ![l] = @ - 1]
Released(l) == [canary EXCEPT ![l] = IF @ > 0 THEN @ - 1 ELSE 0]

-----------------------------------------------------------------------------
(* A close of either lane, inside serializeClose *)

X_Holds_NotAwaited(c) == closeMutex # <<>>
Holds(c) == closeMutex # <<>> /\ Head(closeMutex) = c
Unlocks(c) == call' = [call EXCEPT ![c] = IdleCall] /\ closeMutex' = Tail(closeMutex)

\* a tick asks for the close of an open position; several ticks may
RequestClose(c, p) ==
    /\ At(c, "idle")
    /\ call' = [call EXCEPT ![c] = [IdleCall EXCEPT !.pc = "queued", !.pos = p,
                                                    !.mint = pos[p].mint]]
    /\ closeMutex' = Append(closeMutex, c)
    /\ UNCHANGED <<pos, wallet, row, canary>>

\* its turn has come; the position may have been closed meanwhile
CloseBegins(c) ==
    /\ At(c, "queued") /\ Holds(c)
    /\ IF pos[call[c].pos].state = "CLOSED" THEN Unlocks(c)
       ELSE Goto(c, "balance") /\ UNCHANGED closeMutex
    /\ UNCHANGED <<pos, wallet, row, canary>>

SellSucceeds(c) ==
    /\ At(c, "sell")
    /\ wallet' = [wallet EXCEPT ![call[c].mint] = @ \ call[c].seen]
    /\ Goto(c, "sold")
    /\ UNCHANGED <<pos, closeMutex, row, canary>>

\* the sale throws, landed or not, or a balance read before or after it
CloseThrows(c, landed) ==
    /\ \/ At(c, "balance") \/ At(c, "sell")
       \/ At(c, "sold") /\ call[c].seen # {}
    /\ landed => At(c, "sell")
    /\ wallet' = IF landed THEN [wallet EXCEPT ![call[c].mint] = @ \ call[c].seen] ELSE wallet
    /\ Goto(c, "alert")
    /\ UNCHANGED <<pos, closeMutex, row, canary>>

X_CloseFails_FallsThrough(c) ==
    /\ At(c, "alert")
    /\ Goto(c, "sold")
    /\ UNCHANGED <<pos, closeMutex, wallet, row, canary>>

\* the alert is sent: the position stays open
CloseFails(c) ==
    /\ At(c, "alert")
    /\ Unlocks(c)
    /\ UNCHANGED <<pos, wallet, row, canary>>

CloseStep(c) ==
    \/ CloseBegins(c) \/ SellSucceeds(c) \/ CloseFails(c)
    \/ \E landed \in BOOLEAN : CloseThrows(c, landed)

=============================================================================
