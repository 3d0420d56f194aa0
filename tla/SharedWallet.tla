---------------------------- MODULE SharedWallet ----------------------------
(***************************************************************************)
(* The pure WS lane and the migration lane over one sandbox wallet, with   *)
(* the canary guard, the close mutex and the restart they share            *)
(* (orchestration/swapSerializer.ts, risk/canaryConcurrencyGuard.ts,       *)
(* init/runLaneRecoveries.ts).  The lanes know nothing of each other's     *)
(* positions: both may hold one mint, and a close of either sells the      *)
(* whole balance it reads.                                                 *)
(***************************************************************************)
EXTENDS PureWsLane, MigrationLane

CONSTANT MaxRestarts    \* bound on the number of restarts

ASSUME RestartsAssumption == MaxRestarts \in Nat

VARIABLE restarts

walletVars == <<pos, call, closeMutex, wallet, row, canary>>
vars == <<pos, call, closeMutex, wallet, row, canary, inflight, tracked, restarts>>

Init ==
    /\ WalletInit
    /\ inflight = {}
    /\ tracked = {}
    /\ restarts = 0

-----------------------------------------------------------------------------
(* A crash, then runLaneRecoveries before any signal is taken *)

RowsOf(l) == {p \in Position : row[p] = l}

\* recoverPureWsOpenPositions: a row whose mint has a balance, or whose balance
\* cannot be read, becomes a position; of the others some are closed
PureWsLoads(loaded) ==
    \A p \in RowsOf(Primary) : wallet[pos[p].mint] # {} => p \in loaded

\* recoverMigrationOpenPositions: one row of each mint, whatever the wallet holds
MigrationLoads(loaded) ==
    /\ \A p \in RowsOf(Migration) : \E q \in loaded : pos[q].mint = pos[p].mint
    /\ \A p, q \in loaded : pos[p].mint = pos[q].mint => p = q

Rehydrated(loaded) ==
    [p \in Position |->
        IF p \in loaded THEN PositionOf("PROBE", pos[p].mint, row[p], FALSE)
        ELSE IF pos[p].state = "none" THEN pos[p]
        ELSE PositionOf("GONE", pos[p].mint, pos[p].lane, FALSE)]

\* the slots of the positions that come back are not taken again
Restart(pureWs, migration, closed) ==
    /\ restarts < MaxRestarts
    /\ restarts' = restarts + 1
    /\ PureWsLoads(pureWs) /\ MigrationLoads(migration)
    /\ pos' = Rehydrated(pureWs \cup migration)
    /\ tracked' = migration
    /\ row' = [p \in Position |-> IF p \in closed THEN "CLOSED" ELSE row[p]]
    /\ call' = [c \in Call |-> IdleCall]
    /\ closeMutex' = <<>>
    /\ canary' = [l \in Lane |-> 0]
    /\ inflight' = {}
    /\ UNCHANGED wallet

-----------------------------------------------------------------------------

Next ==
    \/ \E c \in Call :
        \/ PureWsStep(c) /\ UNCHANGED <<tracked, restarts>>
        \/ MigrationStep(c) /\ UNCHANGED <<inflight, restarts>>
        \/ CloseStep(c) /\ UNCHANGED <<inflight, tracked, restarts>>
    \/ /\ \/ \E m \in Mint : OnMigrationEvent(m)
          \/ \E p \in Position : MigrationRejects(p)
       /\ UNCHANGED <<inflight, restarts>>
    \/ \E pureWs \in SUBSET RowsOf(Primary) : \E closed \in SUBSET (RowsOf(Primary) \ pureWs) :
        \E migration \in SUBSET RowsOf(Migration) : Restart(pureWs, migration, closed)

Spec == Init /\ [][Next]_vars

-----------------------------------------------------------------------------
(* Properties *)

\* Positions, calls, rows and slots are of their types, and only suspended calls are
\* in the close mutex, each once.
TypeOK ==
    /\ WalletTypeOK
    /\ inflight \subseteq Mint
    /\ tracked \subseteq Position
    /\ restarts \in 0..MaxRestarts
    /\ \A c \in Call : Cardinality({i \in DOMAIN closeMutex : closeMutex[i] = c}) =
                       IF call[c].pc \in ClosePc THEN 1 ELSE 0

\* A position that a close or a recovery took for sold has no tokens left in the wallet,
\* whichever lane's close sold them and however its own sale failed.
ClosedMeansSold ==
    \A p \in Position :
        pos[p].state = "CLOSED" \/ row[p] = "CLOSED" => p \notin wallet[pos[p].mint]

BuyPc(l) == CASE l = Primary -> "buy" [] l = SwingV2 -> "swingBuy" [] l = Migration -> "probeBuy"
Buying(l) == {c \in Call : call[c].pc = BuyPc(l)}
Closing(p) == \E c \in Call : At(c, "persistClose") /\ call[c].pos = p
SlotHolders(l) ==
    {p \in Position : /\ pos[p].slot /\ pos[p].lane = l
                      /\ pos[p].state \in {"BOUGHT", "PROBE"} \/ Closing(p)}

\* The canary guard counts the buys under way and the positions not yet closed of each
\* lane, one slot each, through every path on which a buy, an insert or a close fails;
\* after a restart closes give back slots that were never taken, and it counts too few.
SlotsCounted ==
    \A l \in Lane :
        LET held == Cardinality(Buying(l)) + Cardinality(SlotHolders(l)) IN
        /\ canary[l] <= held
        /\ restarts = 0 => canary[l] = held

\* Two signals of a mint that come during each other's awaits buy it once: no buy of the
\* primary arm goes beside another of the mint, nor beside a position that one opened;
\* and one tick only buys a migration position.
OneBuyPerPair ==
    LET held == {p \in Position : /\ pos[p].lane = Primary /\ pos[p].slot
                                  /\ pos[p].state \in {"BOUGHT", "PROBE"}}
        buying == Buying(Primary) IN
    /\ \A c, d \in buying : call[c].mint = call[d].mint => c = d
    /\ \A p, q \in held : pos[p].mint = pos[q].mint => p = q
    /\ \A c \in buying, p \in held : call[c].mint # pos[p].mint
    /\ \A c, d \in Buying(Migration) : call[c].pos = call[d].pos => c = d

Inside == {c \in Call : call[c].pc \in ClosePc \ {"queued"}}
Serializer == INSTANCE CloseSerializer WITH
    waiting <- IF Inside = {} THEN closeMutex ELSE Tail(closeMutex),
    inside <- Inside

\* The closes of both lanes, however they overlap, fail or are found closed already, are let
\* in one at a time and in the order in which their ticks asked for them.
ClosesInTurn == Serializer!Spec
=============================================================================
