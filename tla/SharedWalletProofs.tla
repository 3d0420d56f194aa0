------------------------- MODULE SharedWalletProofs -------------------------
(***************************************************************************)
(* Proofs about SharedWallet.  CallOK says what each suspended call may    *)
(* assume of its position after its await, PosOK where a position may have *)
(* a row or tokens; the other parts of IInv keep the calls and positions   *)
(* of a mint apart.  Neither the mutex nor the canary guard is needed for  *)
(* it.  The second half is about these two: MutexInv, and SlotInv that     *)
(* follows each slot from its buy to its close.                            *)
(***************************************************************************)
EXTENDS SharedWallet, FiniteSetTheorems, SequenceTheorems, TLAPS

Typed ==
    /\ pos \in [Position -> LanePosition]
    /\ call \in [Call -> CallState]
    /\ wallet \in [Mint -> SUBSET Position]
    /\ row \in [Position -> {"none", "CLOSED"} \cup Lane]
    /\ inflight \subseteq Mint

BeforeBuy == {"survival", "probeBuy"}
Signals(c) == call[c].pc \in SignalPc

\* the position of a call, by where the call is suspended
CallOK(c) ==
    LET p == call[c].pos
        pc == call[c].pc IN
    /\ pc \in SignalPc => call[c].mint \in inflight
    /\ pc \in BeforeBuy => /\ p \in Position /\ pos[p].lane = Migration
                           /\ pos[p].state \in {"STALK", "REJECT"}
    /\ pc \in {"persist", "swingPersist"} => p \in Position /\ pos[p].state = "BOUGHT"
    /\ pc = "persist" => pos[p].lane = Primary
    /\ pc = "swingPersist" => pos[p].lane = SwingV2
    /\ pc \in {"probePersist"} \cup ClosePc => /\ p \in Position
                                             /\ pos[p].state \in {"PROBE", "CLOSED"}
    /\ pc \in BeforeBuy \cup {"persist", "swingPersist"} \cup ClosePc => pos[p].mint = call[c].mint
    /\ pc = "sell" => p \notin wallet[call[c].mint] \/ p \in call[c].seen
    /\ pc = "sold" => p \notin wallet[call[c].mint]
    /\ pc = "persistClose" => pos[p].state = "CLOSED"

Sold(p) == p \notin wallet[pos[p].mint]

PosOK(p) ==
    /\ row[p] # "none" => pos[p].state \in {"PROBE", "CLOSED", "GONE"}
    /\ pos[p].state = "CLOSED" => Sold(p)
    /\ row[p] = "CLOSED" => Sold(p)
    /\ pos[p].state = "STALK" => pos[p].lane = Migration

\* a BOUGHT position of the primary arm is that of a call
Responsible(p) ==
    pos[p].state = "BOUGHT" /\ pos[p].lane = Primary =>
        \E c \in Call : At(c, "persist") /\ call[c].pos = p

SignalsApart(c, d) == Signals(c) /\ Signals(d) /\ call[c].mint = call[d].mint => c = d

ProbesApart(c, d) ==
    call[c].pc \in BeforeBuy /\ call[d].pc \in BeforeBuy /\ call[c].pos = call[d].pos => c = d

\* no arm of the mint is open while its signal is on the way
SignalAlone(c, p) ==
    /\ call[c].pc \in {"checks", "buy", "persist"}
    /\ pos[p].lane \in PureWs /\ pos[p].state = "PROBE"
    => call[c].mint # pos[p].mint

HeldApart(p, q) ==
    /\ pos[p].lane = Primary /\ pos[p].slot /\ pos[p].state = "PROBE"
    /\ pos[q].lane = Primary /\ pos[q].slot /\ pos[q].state = "PROBE"
    /\ pos[p].mint = pos[q].mint
    => p = q

IInv ==
    /\ Typed
    /\ \A c \in Call : CallOK(c)
    /\ \A p \in Position : PosOK(p) /\ Responsible(p)
    /\ \A c, d \in Call : SignalsApart(c, d) /\ ProbesApart(c, d)
    /\ \A c \in Call, p \in Position : SignalAlone(c, p)
    /\ \A p, q \in Position : HeldApart(p, q)

\* What the constants give: an idle call is a call, and has no position.
LEMMA Consts ==
    /\ IdleCall \in CallState /\ IdleCall.pc = "idle" /\ IdleCall.mint \in Mint
    /\ IdleCall.pos = NoPosition /\ IdleCall.seen = {}
    /\ Mint # {} /\ NoPosition \notin Position
BY WalletAssumption DEF IdleCall, CallState

\* A fresh position, as long as there is one, is one nobody has used.
LEMMA FreshIsNone ==
    ASSUME FreshPositions # {}
    PROVE  Fresh \in Position /\ pos[Fresh].state = "none"
BY DEF Fresh, FreshPositions

-----------------------------------------------------------------------------
(* Steps of one call *)

\* A call that goes on, and touches no position: sales only take tokens away.
LEMMA Continues ==
    ASSUME IInv, NEW c \in Call, NEW r \in CallState,
           call' = [call EXCEPT ![c] = r], UNCHANGED <<pos, row>>,
           wallet' \in [Mint -> SUBSET Position], \A m \in Mint : wallet'[m] \subseteq wallet[m],
           inflight' = inflight \/ (inflight' = inflight \ {call[c].mint} /\ Signals(c)),
           CallOK(c)', call[c].pc # "persist",
           r.pc \in SignalPc => Signals(c) /\ r.mint = call[c].mint,
           r.pc \in BeforeBuy => call[c].pc \in BeforeBuy /\ r.pos = call[c].pos,
           r.pc \in {"checks", "buy", "persist"} => call[c].pc \in {"checks", "buy"}
    PROVE  IInv'
<1>1. call'[c] = r /\ \A d \in Call : d # c => call'[d] = call[d]
  BY DEF IInv, Typed
<1>2. \A d \in Call : d # c /\ Signals(d) => call[d].mint \in inflight'
  BY DEF IInv, CallOK, SignalsApart, Signals
<1>3. Typed'
  BY <1>1 DEF IInv, Typed
<1>4. ASSUME NEW d \in Call PROVE CallOK(d)'
  <2>1. CASE d = c
    BY <2>1
  <2>2. CASE d # c
    <3>1. CallOK(d) /\ call'[d] = call[d] /\ call[d].mint \in Mint
      BY <1>1, <2>2 DEF IInv, Typed, CallState
    <3> QED BY <1>2, <2>2, <3>1 DEF CallOK, Signals
  <2> QED BY <2>1, <2>2
<1>5. ASSUME NEW p \in Position PROVE PosOK(p)'
  <2>1. PosOK(p) /\ pos[p].mint \in Mint
    BY DEF IInv, Typed, LanePosition
  <2> QED BY <2>1 DEF PosOK, Sold
<1>6. ASSUME NEW p \in Position PROVE Responsible(p)'
  BY <1>1 DEF IInv, Responsible, At
<1>7. ASSUME NEW d \in Call, NEW e \in Call PROVE SignalsApart(d, e)' /\ ProbesApart(d, e)'
  BY <1>1 DEF IInv, SignalsApart, ProbesApart, Signals
<1>8. ASSUME NEW d \in Call, NEW p \in Position PROVE SignalAlone(d, p)'
  BY <1>1 DEF IInv, SignalAlone, SignalPc
<1>9. ASSUME NEW p \in Position, NEW q \in Position PROVE HeldApart(p, q)'
  BY DEF IInv, HeldApart
<1> QED BY <1>3, <1>4, <1>5, <1>6, <1>7, <1>8, <1>9 DEF IInv

\* A call that goes on and changes one position, its row or its tokens: what is left to
\* show is about the two of them.
LEMMA Changes ==
    ASSUME IInv, NEW c \in Call, NEW r \in CallState, NEW x \in Position, NEW s \in LanePosition,
           call' = [call EXCEPT ![c] = r], pos' = [pos EXCEPT ![x] = s],
           row' \in [Position -> {"none", "CLOSED"} \cup Lane],
           \A p \in Position : p # x => row'[p] = row[p],
           wallet' \in [Mint -> SUBSET Position],
           \A m \in Mint : wallet'[m] \subseteq wallet[m] \cup {x},
           inflight' = inflight \/ (inflight' = inflight \ {call[c].mint} /\ Signals(c)),
           CallOK(c)', PosOK(x)', Responsible(x)',
           \A d \in Call : d # c /\ call[d].pos = x => CallOK(d)',
           call[c].pc = "persist" => call[c].pos = x,
           r.pc \in SignalPc => Signals(c) /\ r.mint = call[c].mint,
           r.pc \notin BeforeBuy,
           r.pc \in {"checks", "buy", "persist"} => call[c].pc \in {"checks", "buy"},
           \A d \in Call : SignalAlone(d, x)',
           \A q \in Position : HeldApart(x, q)'
    PROVE  IInv'
<1>1. /\ call'[c] = r /\ \A d \in Call : d # c => call'[d] = call[d]
      /\ pos'[x] = s /\ \A p \in Position : p # x => pos'[p] = pos[p]
  BY DEF IInv, Typed
<1>2. \A d \in Call : d # c /\ Signals(d) => call[d].mint \in inflight'
  BY DEF IInv, CallOK, SignalsApart, Signals
<1>3. Typed'
  BY <1>1 DEF IInv, Typed
<1>4. ASSUME NEW d \in Call PROVE CallOK(d)'
  <2>1. CASE d = c \/ call[d].pos = x
    BY <2>1
  <2>2. CASE d # c /\ call[d].pos # x
    <3>1. CallOK(d) /\ call'[d] = call[d] /\ call[d].mint \in Mint
      BY <1>1, <2>2 DEF IInv, Typed, CallState
    <3>2. call[d].pos \in Position => pos'[call[d].pos] = pos[call[d].pos]
      BY <1>1, <2>2
    <3>3. call[d].pos \notin wallet[call[d].mint] => call[d].pos \notin wallet'[call[d].mint]
      BY <2>2, <3>1
    <3>4. call[d].pc \in {"sell", "sold", "persistClose"} => call[d].pc \in ClosePc
      BY DEF ClosePc
    <3> QED BY <1>2, <2>2, <3>1, <3>2, <3>3, <3>4 DEF CallOK, Signals
  <2> QED BY <2>1, <2>2
<1>5. ASSUME NEW p \in Position PROVE PosOK(p)'
  <2>1. CASE p = x
    BY <2>1
  <2>2. CASE p # x
    <3>1. PosOK(p) /\ pos[p].mint \in Mint /\ pos'[p] = pos[p] /\ row'[p] = row[p]
      BY <1>1, <2>2 DEF IInv, Typed, LanePosition
    <3> QED BY <2>2, <3>1 DEF PosOK, Sold
  <2> QED BY <2>1, <2>2
<1>6. ASSUME NEW p \in Position PROVE Responsible(p)'
  <2>1. CASE p = x
    BY <2>1
  <2>2. CASE p # x
    BY <1>1, <2>2 DEF IInv, Responsible, At
  <2> QED BY <2>1, <2>2
<1>7. ASSUME NEW d \in Call, NEW e \in Call PROVE SignalsApart(d, e)' /\ ProbesApart(d, e)'
  BY <1>1 DEF IInv, SignalsApart, ProbesApart, Signals
<1>8. ASSUME NEW d \in Call, NEW p \in Position PROVE SignalAlone(d, p)'
  <2>1. CASE p = x
    BY <2>1
  <2>2. CASE p # x
    BY <1>1, <2>2 DEF IInv, SignalAlone, SignalPc
  <2> QED BY <2>1, <2>2
<1>9. ASSUME NEW p \in Position, NEW q \in Position PROVE HeldApart(p, q)'
  <2>1. CASE p = x
    BY <2>1
  <2>2. CASE q = x
    <3>1. HeldApart(x, p)'
      OBVIOUS
    <3> QED BY <2>2, <3>1 DEF HeldApart
  <2>3. CASE p # x /\ q # x
    BY <1>1, <2>3 DEF IInv, HeldApart
  <2> QED BY <2>1, <2>2, <2>3
<1> QED BY <1>3, <1>4, <1>5, <1>6, <1>7, <1>8, <1>9 DEF IInv

-----------------------------------------------------------------------------
(* The steps that touch no position *)

\* An entry or a failed close ends.
LEMMA EndsStep ==
    ASSUME IInv, NEW c \in Call,
           \/ SignalRejected(c)
           \/ EntryReturns(c)
           \/ CloseFails(c) /\ UNCHANGED inflight
    PROVE  IInv'
<1>1. /\ call' = [call EXCEPT ![c] = IdleCall] /\ UNCHANGED <<pos, row, wallet>>
      /\ inflight' = inflight \/ (inflight' = inflight \ {call[c].mint} /\ Signals(c))
      /\ call[c].pc \in {"checks", "tail", "alert"}
  BY DEF SignalRejected, EntryReturns, CloseFails, Returns, Unlocks, Signals, SignalPc, At
<1>2. call'[c] = IdleCall
  BY <1>1 DEF IInv, Typed
<1>3. CallOK(c)'
  BY <1>2, Consts DEF CallOK, BeforeBuy, SignalPc, ClosePc
<1> QED BY <1>1, <1>3, Consts, Continues DEF IInv, Typed, SignalPc, BeforeBuy

\* A slot is free, or a sale is done.
LEMMA GoesOnStep ==
    ASSUME IInv, NEW c \in Call, UNCHANGED inflight,
           AcquireSlot(c) \/ ProbeAcquires(c) \/ SellSucceeds(c)
    PROVE  IInv'
<1>1. PICK pc \in {"buy", "probeBuy", "sold"} :
        /\ call' = [call EXCEPT ![c].pc = pc] /\ UNCHANGED <<pos, row>>
        /\ pc = "buy" => call[c].pc = "checks" /\ wallet' = wallet
        /\ pc = "probeBuy" => call[c].pc = "survival" /\ wallet' = wallet
        /\ pc = "sold" => /\ call[c].pc = "sell"
                          /\ wallet' = [wallet EXCEPT ![call[c].mint] = @ \ call[c].seen]
  BY DEF AcquireSlot, ProbeAcquires, SellSucceeds, Goto, At
<1> DEFINE r == [call[c] EXCEPT !.pc = pc]
<1>2. call' = [call EXCEPT ![c] = r] /\ call'[c] = r
  BY <1>1 DEF IInv, Typed, CallState
<1>3. /\ r \in CallState /\ r.pc = pc /\ r.pos = call[c].pos /\ r.mint = call[c].mint
      /\ r.seen = call[c].seen /\ call[c].mint \in Mint
  BY <1>1 DEF IInv, Typed, CallState, SignalPc, ProbePc, ClosePc
<1> HIDE DEF r
<1>4. /\ wallet' \in [Mint -> SUBSET Position]
      /\ \A m \in Mint : wallet'[m] \subseteq wallet[m]
      /\ pc = "sold" => wallet'[call[c].mint] = wallet[call[c].mint] \ call[c].seen
  BY <1>1, <1>3 DEF IInv, Typed
<1>5. CallOK(c)
  BY DEF IInv
<1>6. CallOK(c)'
  BY <1>1, <1>2, <1>3, <1>4, <1>5 DEF CallOK, BeforeBuy, SignalPc, ClosePc
<1> QED BY <1>1, <1>2, <1>3, <1>4, <1>6, Continues DEF Signals, SignalPc, BeforeBuy

\* A close whose turn has come starts, or returns as its position is closed already.
LEMMA CloseBeginsStep ==
    ASSUME IInv, NEW c \in Call, CloseBegins(c) /\ UNCHANGED inflight
    PROVE  IInv'
<1> DEFINE r == IF pos[call[c].pos].state = "CLOSED" THEN IdleCall
                ELSE [call[c] EXCEPT !.pc = "balance"]
<1>1. /\ call' = [call EXCEPT ![c] = r] /\ UNCHANGED <<pos, row, wallet, inflight>>
      /\ call[c].pc = "queued"
  BY DEF CloseBegins, Unlocks, Goto, At, IInv, Typed, CallState
<1>2. /\ r \in CallState /\ r.pc \in {"idle", "balance"}
      /\ r.pc = "balance" => r.pos = call[c].pos /\ r.mint = call[c].mint
  BY Consts DEF IInv, Typed, CallState, ClosePc
<1>3. CallOK(c) /\ call'[c] = r
  BY <1>1 DEF IInv, Typed
<1> HIDE DEF r
<1>4. CallOK(c)'
  BY <1>1, <1>2, <1>3 DEF CallOK, BeforeBuy, SignalPc, ClosePc
<1> QED BY <1>1, <1>2, <1>4, Continues DEF IInv, Typed, SignalPc, BeforeBuy

\* A close that threw, landed or not, only takes tokens away.
LEMMA CloseThrowsStep ==
    ASSUME IInv, NEW c \in Call, NEW landed \in BOOLEAN,
           CloseThrows(c, landed) /\ UNCHANGED inflight
    PROVE  IInv'
<1> DEFINE r == [call[c] EXCEPT !.pc = "alert"]
<1>1. /\ call' = [call EXCEPT ![c] = r] /\ UNCHANGED <<pos, row, inflight>>
      /\ call[c].pc \in {"balance", "sell", "sold"}
      /\ wallet' \in [Mint -> SUBSET Position] /\ \A m \in Mint : wallet'[m] \subseteq wallet[m]
  BY DEF CloseThrows, Goto, At, IInv, Typed, CallState
<1>2. r \in CallState /\ r.pc = "alert" /\ r.pos = call[c].pos /\ r.mint = call[c].mint
  BY DEF IInv, Typed, CallState, ClosePc
<1>3. CallOK(c) /\ call'[c] = r
  BY <1>1 DEF IInv, Typed
<1> HIDE DEF r
<1>4. CallOK(c)'
  BY <1>1, <1>2, <1>3 DEF CallOK, BeforeBuy, SignalPc, ClosePc
<1> QED BY <1>1, <1>2, <1>4, Continues DEF SignalPc, BeforeBuy

\* A tick asks for a close of an open position.
LEMMA RequestCloseStep ==
    ASSUME IInv, NEW c \in Call, NEW p \in Position, pos[p].state = "PROBE",
           RequestClose(c, p) /\ UNCHANGED inflight
    PROVE  IInv'
<1> DEFINE r == [IdleCall EXCEPT !.pc = "queued", !.pos = p, !.mint = pos[p].mint]
<1>1. /\ call' = [call EXCEPT ![c] = r] /\ UNCHANGED <<pos, row, wallet, inflight>>
      /\ call[c].pc = "idle"
  BY DEF RequestClose, At
<1>2. r \in CallState /\ r.pc = "queued" /\ r.pos = p /\ r.mint = pos[p].mint
  BY Consts DEF IInv, Typed, LanePosition, CallState, IdleCall, ClosePc
<1>3. call'[c] = r
  BY <1>1 DEF IInv, Typed
<1> HIDE DEF r
<1>4. CallOK(c)'
  BY <1>1, <1>2, <1>3 DEF CallOK, BeforeBuy, SignalPc, ClosePc
<1> QED BY <1>1, <1>2, <1>4, Continues DEF IInv, Typed, SignalPc, BeforeBuy

\* The balance is read: a sale follows, or in the pure WS lane the orphan's alert.
LEMMA BalanceReadStep ==
    ASSUME IInv, NEW c \in Call, call[c].pc = "balance",
           NEW pc \in {"sell", "sold"}, pc = "sold" => wallet[call[c].mint] = {},
           call' = [call EXCEPT ![c].seen = wallet[call[c].mint], ![c].pc = pc],
           UNCHANGED <<pos, row, wallet, inflight>>
    PROVE  IInv'
<1> DEFINE r == [call[c] EXCEPT !.seen = wallet[call[c].mint], !.pc = pc]
<1>1. call' = [call EXCEPT ![c] = r]
  BY DEF IInv, Typed, CallState
<1>2. /\ r \in CallState /\ r.pc = pc /\ r.pos = call[c].pos /\ r.mint = call[c].mint
      /\ r.seen = wallet[call[c].mint]
  BY DEF IInv, Typed, CallState, ClosePc
<1>3. CallOK(c) /\ call'[c] = r
  BY <1>1 DEF IInv, Typed
<1> HIDE DEF r
<1>4. CallOK(c)'
  BY <1>1, <1>2, <1>3 DEF CallOK, BeforeBuy, SignalPc, ClosePc
<1> QED BY <1>1, <1>2, <1>4, Continues DEF IInv, Typed, SignalPc, BeforeBuy

\* The buy threw and nothing landed.
LEMMA BuyFailsStep ==
    ASSUME IInv, NEW c \in Call,
           \/ PrimaryBuyThrows(c, FALSE)
           \/ SwingBuyThrows(c, FALSE)
    PROVE  IInv'
<1> DEFINE r == IF At(c, "buy") THEN IdleCall ELSE [call[c] EXCEPT !.pc = "tail"]
<1>1. /\ call' = [call EXCEPT ![c] = r] /\ UNCHANGED <<pos, row, wallet>>
      /\ call[c].pc \in {"buy", "swingBuy"}
      /\ inflight' = inflight \/ (inflight' = inflight \ {call[c].mint} /\ Signals(c))
  BY DEF PrimaryBuyThrows, SwingBuyThrows, LandsUnknown, Returns, Goto, At, Signals, SignalPc,
         IInv, Typed, CallState
<1>2. /\ r \in CallState /\ r.pc \in {"idle", "tail"}
      /\ r.pc = "tail" => r.mint = call[c].mint /\ inflight' = inflight
  BY Consts, <1>1 DEF PrimaryBuyThrows, SwingBuyThrows, At, IInv, Typed, CallState, SignalPc
<1>3. CallOK(c) /\ call'[c] = r
  BY <1>1 DEF IInv, Typed
<1> HIDE DEF r
<1>4. CallOK(c)'
  BY <1>1, <1>2, <1>3 DEF CallOK, BeforeBuy, SignalPc, ClosePc
<1> QED BY <1>1, <1>2, <1>4, Continues DEF IInv, Typed, Signals, SignalPc, BeforeBuy

\* A signal marks its pair, and finds no open arm of it.
LEMMA SignalStep ==
    ASSUME IInv, NEW c \in Call, NEW m \in Mint, HandlePureWsSignal(c, m)
    PROVE  IInv'
<1> DEFINE r == [IdleCall EXCEPT !.pc = "checks", !.mint = m]
<1>1. /\ call' = [call EXCEPT ![c] = r] /\ UNCHANGED <<pos, row, wallet>>
      /\ call[c].pc = "idle" /\ m \notin inflight /\ inflight' = inflight \cup {m} /\ ~Holding(m)
  BY DEF HandlePureWsSignal, At
<1>2. r \in CallState /\ r.pc = "checks" /\ r.mint = m
  BY Consts DEF CallState, SignalPc
<1>3. call'[c] = r /\ \A d \in Call : d # c => call'[d] = call[d]
  BY <1>1 DEF IInv, Typed
<1> HIDE DEF r
<1>4. Typed'
  BY <1>1, <1>2 DEF IInv, Typed
<1>5. ASSUME NEW d \in Call PROVE CallOK(d)'
  <2>1. CASE d = c
    BY <1>1, <1>2, <1>3, <2>1 DEF CallOK, BeforeBuy, SignalPc, ClosePc
  <2>2. CASE d # c
    BY <1>1, <1>3, <2>2 DEF IInv, CallOK
  <2> QED BY <2>1, <2>2
<1>6. ASSUME NEW p \in Position PROVE PosOK(p)' /\ Responsible(p)'
  BY <1>1, <1>3 DEF IInv, PosOK, Sold, Responsible, At
<1>7. ASSUME NEW d \in Call, NEW e \in Call PROVE SignalsApart(d, e)' /\ ProbesApart(d, e)'
  <2>1. \A f \in Call : Signals(f) => call[f].mint # m
    BY <1>1 DEF IInv, CallOK, Signals
  <2> QED BY <1>2, <1>3, <2>1 DEF IInv, SignalsApart, ProbesApart, Signals, BeforeBuy
<1>8. ASSUME NEW d \in Call, NEW p \in Position PROVE SignalAlone(d, p)'
  <2>1. CASE d = c
    BY <1>1, <1>2, <1>3, <2>1 DEF SignalAlone, Holding, OpenIn
  <2>2. CASE d # c
    BY <1>1, <1>3, <2>2 DEF IInv, SignalAlone
  <2> QED BY <2>1, <2>2
<1>9. ASSUME NEW p \in Position, NEW q \in Position PROVE HeldApart(p, q)'
  BY <1>1 DEF IInv, HeldApart
<1> QED BY <1>4, <1>5, <1>6, <1>7, <1>8, <1>9 DEF IInv

\* A READY tick finds no other call before a buy of the position.
LEMMA ReadyStep ==
    ASSUME IInv, NEW c \in Call, NEW x \in Position, MigrationReady(c, x), UNCHANGED inflight
    PROVE  IInv'
<1> DEFINE r == [IdleCall EXCEPT !.pc = "survival", !.pos = x, !.mint = pos[x].mint]
<1>1. /\ call' = [call EXCEPT ![c] = r] /\ UNCHANGED <<pos, row, wallet>>
      /\ call[c].pc = "idle" /\ pos[x].state = "STALK" /\ ~Entering(x)
  BY DEF MigrationReady, Stalked, At
<1>2. r \in CallState /\ r.pc = "survival" /\ r.pos = x /\ r.mint = pos[x].mint
  BY Consts DEF IInv, Typed, LanePosition, CallState, ProbePc, IdleCall
<1>3. call'[c] = r /\ \A d \in Call : d # c => call'[d] = call[d]
  BY <1>1 DEF IInv, Typed
<1> HIDE DEF r
<1>4. Typed'
  BY <1>1, <1>2 DEF IInv, Typed
<1>5. ASSUME NEW d \in Call PROVE CallOK(d)'
  <2>1. CASE d = c
    BY <1>1, <1>2, <1>3, <2>1 DEF IInv, PosOK, CallOK, BeforeBuy, SignalPc, ClosePc
  <2>2. CASE d # c
    BY <1>1, <1>3, <2>2 DEF IInv, CallOK
  <2> QED BY <2>1, <2>2
<1>6. ASSUME NEW p \in Position PROVE PosOK(p)' /\ Responsible(p)'
  BY <1>1, <1>3 DEF IInv, PosOK, Sold, Responsible, At
<1>7. ASSUME NEW d \in Call, NEW e \in Call PROVE SignalsApart(d, e)' /\ ProbesApart(d, e)'
  <2>1. \A f \in Call : call[f].pc \in BeforeBuy => call[f].pos # x
    BY <1>1 DEF Entering, ProbePc, BeforeBuy
  <2> QED BY <1>2, <1>3, <2>1 DEF IInv, SignalsApart, ProbesApart, Signals, SignalPc
<1>8. ASSUME NEW d \in Call, NEW p \in Position PROVE SignalAlone(d, p)'
  BY <1>1, <1>2, <1>3 DEF IInv, SignalAlone
<1>9. ASSUME NEW p \in Position, NEW q \in Position PROVE HeldApart(p, q)'
  BY <1>1 DEF IInv, HeldApart
<1> QED BY <1>4, <1>5, <1>6, <1>7, <1>8, <1>9 DEF IInv

-----------------------------------------------------------------------------
(* The steps that change a position *)

\* A position that was none has no row and no call.
LEMMA FreshIsUnknown ==
    ASSUME IInv, NEW x \in Position, pos[x].state = "none"
    PROVE  /\ row[x] = "none"
           /\ \A d \in Call : call[d].pos = x =>
                  call[d].pc \notin BeforeBuy \cup {"persist", "swingPersist", "probePersist"} \cup ClosePc
<1>1. PosOK(x) /\ row[x] \in {"none", "CLOSED"} \cup Lane
  BY DEF IInv, Typed
<1>2. ASSUME NEW d \in Call, call[d].pos = x
      PROVE  call[d].pc \notin BeforeBuy \cup {"persist", "swingPersist", "probePersist"} \cup ClosePc
  <2>1. CallOK(d)
    BY DEF IInv
  <2> QED BY <1>2, <2>1 DEF CallOK
<1> QED BY <1>1, <1>2 DEF PosOK

\* A buy has returned: its position is the call's alone.
LEMMA BuysStep ==
    ASSUME IInv, NEW c \in Call,
           \/ At(c, "buy") /\ Buys(c, Primary, "persist")
           \/ At(c, "swingBuy") /\ Buys(c, SwingV2, "swingPersist")
    PROVE  IInv'
<1>1. PICK x \in Position : x = Fresh /\ pos[x].state = "none"
  <2>1. FreshPositions # {}
    BY DEF Buys, At
  <2> QED BY <2>1, FreshIsNone
<1> DEFINE l == IF At(c, "buy") THEN Primary ELSE SwingV2
           pc == IF At(c, "buy") THEN "persist" ELSE "swingPersist"
           s == PositionOf("BOUGHT", call[c].mint, l, TRUE)
           r == [call[c] EXCEPT !.pc = pc, !.pos = x]
<1>2. /\ call' = [call EXCEPT ![c] = r] /\ pos' = [pos EXCEPT ![x] = s]
      /\ wallet' = [wallet EXCEPT ![call[c].mint] = @ \cup {x}] /\ UNCHANGED <<row, inflight>>
      /\ call[c].pc \in {"buy", "swingBuy"}
  BY <1>1 DEF Buys, At, IInv, Typed, CallState
<1>3. /\ s \in LanePosition /\ s.state = "BOUGHT" /\ s.mint = call[c].mint /\ s.lane = l
  BY DEF IInv, Typed, CallState, LanePosition, PositionState, PositionOf, Lane
<1>4. r \in CallState /\ r.pc = pc /\ r.pos = x /\ r.mint = call[c].mint
  BY <1>2 DEF IInv, Typed, CallState, SignalPc
<1>5. /\ call[c].pc = "buy" => pc = "persist" /\ l = Primary
      /\ call[c].pc = "swingBuy" => pc = "swingPersist" /\ l = SwingV2
  BY DEF At
<1> HIDE DEF s, r, l, pc
<1>6. /\ call'[c] = r /\ \A d \in Call : d # c => call'[d] = call[d]
      /\ pos'[x] = s /\ \A p \in Position : p # x => pos'[p] = pos[p]
  BY <1>1, <1>2 DEF IInv, Typed
<1>7. CallOK(c)'
  <2>1. call[c].mint \in inflight
    BY <1>1, <1>2 DEF IInv, CallOK, SignalPc
  <2> QED BY <1>1, <1>2, <1>3, <1>4, <1>5, <1>6, <2>1 DEF CallOK, BeforeBuy, SignalPc, ClosePc
<1>8. row[x] = "none" /\ PosOK(x)'
  BY <1>1, <1>2, <1>3, <1>6, FreshIsUnknown DEF PosOK, Sold
<1>9. Responsible(x)'
  BY <1>1, <1>2, <1>3, <1>4, <1>5, <1>6 DEF Responsible, At, Primary, SwingV2
<1>10. ASSUME NEW d \in Call, d # c, call[d].pos = x PROVE CallOK(d)'
  <2>1. /\ CallOK(d) /\ call'[d] = call[d]
        /\ call[d].pc \notin BeforeBuy \cup {"persist", "swingPersist", "probePersist"} \cup ClosePc
    BY <1>1, <1>6, <1>10, FreshIsUnknown DEF IInv
  <2> QED BY <1>1, <1>2, <2>1 DEF CallOK, ClosePc
<1>11. \A d \in Call : SignalAlone(d, x)'
  BY <1>3, <1>6 DEF SignalAlone
<1>12. \A q \in Position : HeldApart(x, q)'
  BY <1>3, <1>6 DEF HeldApart
<1>13. /\ wallet' \in [Mint -> SUBSET Position]
       /\ \A m \in Mint : wallet'[m] \subseteq wallet[m] \cup {x}
  BY <1>1, <1>2 DEF IInv, Typed, CallState
<1>14. /\ r.pc \in SignalPc => Signals(c) /\ r.mint = call[c].mint
       /\ r.pc \notin BeforeBuy /\ call[c].pc # "persist"
       /\ r.pc \in {"checks", "buy", "persist"} => call[c].pc \in {"checks", "buy"}
  BY <1>1, <1>2, <1>4, <1>5 DEF Signals, SignalPc, BeforeBuy
<1> QED BY <1>1, <1>2, <1>3, <1>4, <1>7, <1>8, <1>9, <1>10, <1>11, <1>12, <1>13, <1>14, Changes
        DEF IInv, Typed

\* The buy threw and landed all the same.
LEMMA LandsStep ==
    ASSUME IInv, NEW c \in Call,
           \/ PrimaryBuyThrows(c, TRUE)
           \/ SwingBuyThrows(c, TRUE)
    PROVE  IInv'
<1>1. PICK x \in Position : x = Fresh /\ pos[x].state = "none"
  <2>1. FreshPositions # {}
    BY DEF PrimaryBuyThrows, SwingBuyThrows, LandsUnknown
  <2> QED BY <2>1, FreshIsNone
<1> DEFINE l == IF At(c, "buy") THEN Primary ELSE SwingV2
           s == PositionOf("GONE", call[c].mint, l, FALSE)
           r == IF At(c, "buy") THEN IdleCall ELSE [call[c] EXCEPT !.pc = "tail"]
<1>2. /\ call' = [call EXCEPT ![c] = r] /\ pos' = [pos EXCEPT ![x] = s]
      /\ wallet' = [wallet EXCEPT ![call[c].mint] = @ \cup {x}] /\ UNCHANGED row
      /\ call[c].pc \in {"buy", "swingBuy"}
      /\ inflight' = inflight \/ (inflight' = inflight \ {call[c].mint} /\ Signals(c))
      /\ ~At(c, "buy") => inflight' = inflight
  BY <1>1 DEF PrimaryBuyThrows, SwingBuyThrows, LandsUnknown, Returns, Goto, At, Signals, SignalPc,
         IInv, Typed, CallState
<1>3. s \in LanePosition /\ s.state = "GONE"
  BY DEF IInv, Typed, CallState, LanePosition, PositionState, PositionOf, Lane
<1>4. /\ r \in CallState /\ r.pc \in {"idle", "tail"}
      /\ r.pc = "tail" => r.mint = call[c].mint /\ inflight' = inflight
  BY Consts, <1>1, <1>2 DEF IInv, Typed, CallState, SignalPc
<1> HIDE DEF s, r, l
<1>6. /\ call'[c] = r /\ \A d \in Call : d # c => call'[d] = call[d]
      /\ pos'[x] = s /\ \A p \in Position : p # x => pos'[p] = pos[p]
  BY <1>1, <1>2 DEF IInv, Typed
<1>7. CallOK(c)'
  <2>1. call[c].mint \in inflight
    BY <1>1, <1>2 DEF IInv, CallOK, SignalPc
  <2> QED BY <1>1, <1>2, <1>4, <1>6, <2>1 DEF CallOK, BeforeBuy, SignalPc, ClosePc
<1>8. PosOK(x)' /\ Responsible(x)'
  BY <1>1, <1>2, <1>3, <1>6, FreshIsUnknown DEF PosOK, Sold, Responsible
<1>10. ASSUME NEW d \in Call, d # c, call[d].pos = x PROVE CallOK(d)'
  <2>1. /\ CallOK(d) /\ call'[d] = call[d]
        /\ call[d].pc \notin BeforeBuy \cup {"persist", "swingPersist", "probePersist"} \cup ClosePc
    BY <1>1, <1>6, <1>10, FreshIsUnknown DEF IInv
  <2>2. Signals(d) => call[d].mint \in inflight'
    BY <1>1, <1>2, <1>10 DEF IInv, CallOK, SignalsApart, Signals
  <2> QED BY <1>1, <1>2, <2>1, <2>2 DEF CallOK, ClosePc, Signals
<1>11. \A d \in Call : SignalAlone(d, x)'
  BY <1>3, <1>6 DEF SignalAlone
<1>12. \A q \in Position : HeldApart(x, q)'
  BY <1>3, <1>6 DEF HeldApart
<1>13. /\ wallet' \in [Mint -> SUBSET Position]
       /\ \A m \in Mint : wallet'[m] \subseteq wallet[m] \cup {x}
  BY <1>1, <1>2 DEF IInv, Typed, CallState
<1>14. /\ r.pc \in SignalPc => Signals(c) /\ r.mint = call[c].mint
       /\ r.pc \notin BeforeBuy \cup {"checks", "buy", "persist"} /\ call[c].pc # "persist"
  BY <1>1, <1>2, <1>4 DEF Signals, SignalPc, BeforeBuy
<1> QED BY <1>1, <1>2, <1>3, <1>4, <1>7, <1>8, <1>10, <1>11, <1>12, <1>13, <1>14, Changes
        DEF IInv, Typed

\* Only the call that bought a position holds it while it is being opened.
LEMMA OpensStep ==
    ASSUME IInv, NEW c \in Call, NEW recorded \in BOOLEAN, NEW swing \in BOOLEAN,
           PrimaryOpens(c, recorded, swing) \/ SwingOpens(c, recorded)
    PROVE  IInv'
<1>1. PICK x : x = call[c].pos
  OBVIOUS
<1>2. /\ call[c].pc \in {"persist", "swingPersist"} /\ x \in Position /\ pos[x].state = "BOUGHT"
      /\ pos[x].mint = call[c].mint /\ call[c].mint \in inflight /\ inflight' = inflight
      /\ call[c].pc = "persist" => pos[x].lane = Primary
      /\ call[c].pc = "swingPersist" => pos[x].lane = SwingV2
  <2>1. CallOK(c) /\ call[c].pc \in {"persist", "swingPersist"} /\ inflight' = inflight
    BY DEF IInv, PrimaryOpens, SwingOpens, At
  <2> QED BY <1>1, <2>1 DEF CallOK, SignalPc
<1> DEFINE s == [pos[x] EXCEPT !.state = "PROBE"]
           r == [call[c] EXCEPT !.pc = IF call[c].pc = "persist" /\ swing THEN "swingBuy" ELSE "tail",
                                !.pos = NoPosition]
<1>3. /\ call' = [call EXCEPT ![c] = r] /\ pos' = [pos EXCEPT ![x] = s] /\ wallet' = wallet
      /\ row' \in [Position -> {"none", "CLOSED"} \cup Lane]
      /\ \A p \in Position : p # x => row'[p] = row[p]
      /\ row'[x] \in {row[x], pos[x].lane}
  <2>1. CASE PrimaryOpens(c, recorded, swing)
    BY <1>1, <1>2, <2>1 DEF PrimaryOpens, Opened, Recorded, At, IInv, Typed, CallState, LanePosition
  <2>2. CASE SwingOpens(c, recorded)
    BY <1>1, <1>2, <2>2 DEF SwingOpens, Opened, Recorded, At, IInv, Typed, CallState, LanePosition
  <2> QED BY <2>1, <2>2
<1>4. /\ s \in LanePosition /\ s.state = "PROBE" /\ s.mint = pos[x].mint /\ s.lane = pos[x].lane
  BY <1>2 DEF IInv, Typed, LanePosition, PositionState
<1>5. r \in CallState /\ r.pc \in {"swingBuy", "tail"} /\ r.mint = call[c].mint
  BY <1>2 DEF IInv, Typed, CallState, SignalPc
<1> HIDE DEF s, r
<1>6. /\ call'[c] = r /\ \A d \in Call : d # c => call'[d] = call[d]
      /\ pos'[x] = s /\ \A p \in Position : p # x => pos'[p] = pos[p]
  BY <1>2, <1>3 DEF IInv, Typed
<1>7. CallOK(c)'
  BY <1>2, <1>5, <1>6 DEF CallOK, BeforeBuy, SignalPc, ClosePc
<1>8. PosOK(x)' /\ Responsible(x)'
  <2>1. row[x] = "none" /\ row'[x] \in {"none", Primary, SwingV2}
    BY <1>2, <1>3 DEF IInv, PosOK
  <2> QED BY <1>4, <1>6, <2>1 DEF PosOK, Responsible, Primary, SwingV2
<1>9. \A d \in Call : d # c /\ Signals(d) => call[d].mint # call[c].mint
  BY <1>2 DEF IInv, SignalsApart, Signals, SignalPc
<1>10. ASSUME NEW d \in Call, d # c, call[d].pos = x PROVE CallOK(d)'
  <2>1. CallOK(d) /\ call'[d] = call[d]
    BY <1>6, <1>10 DEF IInv
  <2>2. call[d].pc \notin BeforeBuy \cup {"persist", "swingPersist", "probePersist"} \cup ClosePc
    BY <1>2, <1>9, <1>10, <2>1 DEF CallOK, Signals, SignalPc, BeforeBuy, ClosePc
  <2> QED BY <1>2, <2>1, <2>2 DEF CallOK, ClosePc
<1>11. ASSUME NEW d \in Call PROVE SignalAlone(d, x)'
  <2>1. CASE d = c
    BY <1>5, <1>6, <2>1 DEF SignalAlone
  <2>2. CASE d # c
    BY <1>2, <1>4, <1>6, <1>9, <2>2 DEF SignalAlone, Signals, SignalPc
  <2> QED BY <2>1, <2>2
<1>12. ASSUME NEW q \in Position PROVE HeldApart(x, q)'
  <2>1. CASE call[c].pc = "persist" /\ q # x
    <3>1. SignalAlone(c, q)
      BY DEF IInv
    <3> QED BY <1>2, <1>4, <1>6, <2>1, <3>1 DEF HeldApart, SignalAlone, PureWs
  <2>2. CASE call[c].pc = "swingPersist" \/ q = x
    BY <1>2, <1>4, <1>6, <2>2 DEF HeldApart, Primary, SwingV2
  <2> QED BY <1>2, <2>1, <2>2
<1>13. /\ wallet' \in [Mint -> SUBSET Position]
       /\ \A m \in Mint : wallet'[m] \subseteq wallet[m] \cup {x}
  BY <1>3 DEF IInv, Typed
<1>14. /\ r.pc \in SignalPc => Signals(c) /\ r.mint = call[c].mint
       /\ r.pc \notin BeforeBuy \cup {"checks", "buy", "persist"}
       /\ call[c].pc = "persist" => call[c].pos = x
  BY <1>1, <1>2, <1>5 DEF Signals, SignalPc, BeforeBuy
<1> QED BY <1>2, <1>3, <1>4, <1>5, <1>7, <1>8, <1>10, <1>11, <1>12, <1>13, <1>14, Changes

\* A probe ends unbought or is bought; no other call is before a buy of its position.
LEMMA ProbeStep ==
    ASSUME IInv, NEW c \in Call, NEW landed \in BOOLEAN, UNCHANGED inflight,
           ProbeRejected(c) \/ ProbeBuys(c) \/ ProbeBuyThrows(c, landed)
    PROVE  IInv'
<1>1. PICK x : x = call[c].pos
  OBVIOUS
<1>2. /\ call[c].pc \in BeforeBuy /\ x \in Position /\ pos[x].state \in {"STALK", "REJECT"}
      /\ pos[x].lane = Migration
  <2>1. CallOK(c) /\ call[c].pc \in BeforeBuy
    BY DEF IInv, ProbeRejected, ProbeBuys, ProbeBuyThrows, At, BeforeBuy
  <2> QED BY <1>1, <2>1 DEF CallOK
<1> DEFINE s == IF ProbeBuys(c) THEN [pos[x] EXCEPT !.state = "PROBE", !.slot = TRUE]
                ELSE [pos[x] EXCEPT !.state = "REJECT"]
           r == IF ProbeBuys(c) THEN [call[c] EXCEPT !.pc = "probePersist"] ELSE IdleCall
<1>3. /\ call' = [call EXCEPT ![c] = r] /\ pos' = [pos EXCEPT ![x] = s] /\ row' = row
      /\ wallet' \in [Mint -> SUBSET Position]
      /\ \A m \in Mint : wallet'[m] \subseteq wallet[m] \cup {x}
  <2>1. CASE ProbeBuys(c)
    BY <1>1, <1>2, <2>1 DEF ProbeBuys, Goto, IInv, Typed, CallState, LanePosition
  <2>2. CASE ~ProbeBuys(c)
    <3>1. CASE ProbeRejected(c)
      BY <1>1, <1>2, <2>2, <3>1 DEF ProbeRejected, Drops, Gives, IInv, Typed, CallState, LanePosition
    <3>2. CASE ProbeBuyThrows(c, landed)
      BY <1>1, <1>2, <2>2, <3>2 DEF ProbeBuyThrows, Drops, Gives, IInv, Typed, CallState, LanePosition
    <3> QED BY <2>2, <3>1, <3>2
  <2> QED BY <2>1, <2>2
<1>4. /\ s \in LanePosition /\ s.state \in {"PROBE", "REJECT"} /\ s.lane = Migration
      /\ ProbeBuys(c) => s.state = "PROBE"
  BY <1>2 DEF IInv, Typed, LanePosition, PositionState
<1>5. /\ r \in CallState /\ r.pc \in {"idle", "probePersist"}
      /\ r.pc = "probePersist" => ProbeBuys(c) /\ r.pos = x
  BY <1>1, Consts DEF IInv, Typed, CallState, ProbePc
<1> HIDE DEF s, r
<1>6. /\ call'[c] = r /\ \A d \in Call : d # c => call'[d] = call[d]
      /\ pos'[x] = s /\ \A p \in Position : p # x => pos'[p] = pos[p]
  BY <1>2, <1>3 DEF IInv, Typed
<1>7. CallOK(c)'
  BY <1>2, <1>4, <1>5, <1>6 DEF CallOK, BeforeBuy, SignalPc, ClosePc
<1>8. PosOK(x)' /\ Responsible(x)'
  <2>1. row[x] = "none"
    BY <1>2 DEF IInv, PosOK
  <2> QED BY <1>3, <1>4, <1>6, <2>1 DEF PosOK, Responsible
<1>10. ASSUME NEW d \in Call, d # c, call[d].pos = x PROVE CallOK(d)'
  <2>1. CallOK(d) /\ call'[d] = call[d] /\ ProbesApart(c, d)
    BY <1>6, <1>10 DEF IInv
  <2>2. call[d].pc \notin BeforeBuy \cup {"persist", "swingPersist", "probePersist"} \cup ClosePc
    BY <1>1, <1>2, <1>10, <2>1 DEF CallOK, ProbesApart
  <2> QED BY <1>2, <2>1, <2>2 DEF CallOK, ClosePc
<1>11. \A d \in Call : SignalAlone(d, x)'
  BY <1>4, <1>6 DEF SignalAlone, PureWs, Primary, SwingV2, Migration
<1>12. \A q \in Position : HeldApart(x, q)'
  BY <1>4, <1>6 DEF HeldApart, Primary, Migration
<1>14. r.pc \notin BeforeBuy \cup SignalPc /\ call[c].pc # "persist"
  BY <1>2, <1>5 DEF SignalPc, BeforeBuy
<1>15. r.pc \notin {"checks", "buy", "persist"}
  BY <1>5
<1>16. row' \in [Position -> {"none", "CLOSED"} \cup Lane]
  BY <1>3 DEF IInv, Typed
<1> QED BY <1>2, <1>3, <1>4, <1>5, <1>7, <1>8, <1>10, <1>11, <1>12, <1>14, <1>15, <1>16, Changes

\* The sale is over, or there was nothing to sell: the position closes.
LEMMA ClosesStep ==
    ASSUME IInv, NEW c \in Call, NEW r \in CallState, UNCHANGED <<row, wallet, inflight>>,
           call[c].pc = "sold" \/ (call[c].pc = "balance" /\ wallet[call[c].mint] = {}),
           pos' = [pos EXCEPT ![call[c].pos].state = "CLOSED"],
           call' = [call EXCEPT ![c] = r],
           r = IdleCall \/ r = [call[c] EXCEPT !.pc = "persistClose"]
    PROVE  IInv'
<1>1. PICK x : x = call[c].pos
  OBVIOUS
<1>2. /\ call[c].pc \in {"sold", "balance"} /\ x \in Position /\ pos[x].state \in {"PROBE", "CLOSED"}
      /\ pos[x].mint = call[c].mint /\ x \notin wallet[call[c].mint] /\ call[c].mint \in Mint
  <2>1. CallOK(c) /\ call[c].pc \in {"sold", "balance"} /\ call[c].mint \in Mint
    BY DEF IInv, Typed, CallState
  <2> QED BY <1>1, <2>1 DEF CallOK, ClosePc
<1> DEFINE s == [pos[x] EXCEPT !.state = "CLOSED"]
<1>3. pos' = [pos EXCEPT ![x] = s]
  BY <1>1, <1>2 DEF IInv, Typed, LanePosition
<1>4. /\ s \in LanePosition /\ s.state = "CLOSED" /\ s.mint = pos[x].mint
  BY <1>2 DEF IInv, Typed, LanePosition, PositionState
<1>5. /\ r.pc \in {"idle", "persistClose"}
      /\ r.pc = "persistClose" => r.pos = x /\ r.mint = call[c].mint
  BY <1>1, Consts DEF IInv, Typed, CallState
<1> HIDE DEF s
<1>6. /\ call'[c] = r /\ \A d \in Call : d # c => call'[d] = call[d]
      /\ pos'[x] = s /\ \A p \in Position : p # x => pos'[p] = pos[p]
  BY <1>2, <1>3 DEF IInv, Typed
<1>7. CallOK(c)'
  BY <1>2, <1>4, <1>5, <1>6 DEF CallOK, BeforeBuy, SignalPc, ClosePc
<1>8. PosOK(x)' /\ Responsible(x)'
  BY <1>2, <1>4, <1>6 DEF PosOK, Sold, Responsible
<1>10. ASSUME NEW d \in Call, d # c, call[d].pos = x PROVE CallOK(d)'
  <2>1. CallOK(d) /\ call'[d] = call[d]
    BY <1>6, <1>10 DEF IInv
  <2>2. call[d].pc \notin BeforeBuy \cup {"persist", "swingPersist"}
    BY <1>2, <1>10, <2>1 DEF CallOK
  <2> QED BY <1>2, <1>4, <1>6, <1>10, <2>1, <2>2 DEF CallOK
<1>11. \A d \in Call : SignalAlone(d, x)'
  BY <1>4, <1>6 DEF SignalAlone
<1>12. \A q \in Position : HeldApart(x, q)'
  BY <1>4, <1>6 DEF HeldApart
<1>14. r.pc \notin BeforeBuy \cup SignalPc /\ call[c].pc # "persist"
  BY <1>2, <1>5 DEF SignalPc, BeforeBuy
<1>15. r.pc \notin {"checks", "buy", "persist"}
  BY <1>5
<1>16. /\ wallet' \in [Mint -> SUBSET Position]
       /\ \A m \in Mint : wallet'[m] \subseteq wallet[m] \cup {x}
       /\ row' \in [Position -> {"none", "CLOSED"} \cup Lane]
       /\ \A p \in Position : p # x => row'[p] = row[p]
  BY DEF IInv, Typed
<1> QED BY <1>2, <1>3, <1>4, <1>5, <1>7, <1>8, <1>10, <1>11, <1>12, <1>14, <1>15, <1>16, Changes

\* The row of a bought or closed position is written, and the call ends.
LEMMA RowStep ==
    ASSUME IInv, NEW c \in Call, UNCHANGED <<pos, wallet, inflight>>,
           call[c].pc \in {"probePersist", "persistClose"},
           call' = [call EXCEPT ![c] = IdleCall],
           NEW w \in {"none", "CLOSED"} \cup Lane, row' = [row EXCEPT ![call[c].pos] = w],
           w = "CLOSED" => call[c].pc = "persistClose" \/ row[call[c].pos] = "CLOSED"
    PROVE  IInv'
<1>1. PICK x : x = call[c].pos
  OBVIOUS
<1>2. /\ x \in Position /\ pos[x].state \in {"PROBE", "CLOSED"}
      /\ call[c].pc = "persistClose" => pos[x].state = "CLOSED"
  <2>1. CallOK(c)
    BY DEF IInv
  <2> QED BY <1>1, <2>1 DEF CallOK, ClosePc
<1>3. pos[x] \in LanePosition /\ pos' = [pos EXCEPT ![x] = pos[x]] /\ pos' = pos
  BY <1>2 DEF IInv, Typed
<1>4. /\ call'[c] = IdleCall /\ \A d \in Call : d # c => call'[d] = call[d]
      /\ row' \in [Position -> {"none", "CLOSED"} \cup Lane]
      /\ row'[x] = w /\ \A p \in Position : p # x => row'[p] = row[p]
  BY <1>1, <1>2 DEF IInv, Typed
<1>7. CallOK(c)'
  BY <1>4, Consts DEF CallOK, BeforeBuy, SignalPc, ClosePc
<1>8. PosOK(x)' /\ Responsible(x)'
  <2>1. PosOK(x)
    BY <1>2 DEF IInv
  <2> QED BY <1>1, <1>2, <1>3, <1>4, <2>1 DEF PosOK, Sold, Responsible
<1>10. ASSUME NEW d \in Call, d # c, call[d].pos = x PROVE CallOK(d)'
  BY <1>3, <1>4, <1>10 DEF IInv, CallOK
<1>11. ASSUME NEW d \in Call PROVE SignalAlone(d, x)'
  BY <1>2, <1>3, <1>4, Consts DEF IInv, SignalAlone
<1>12. ASSUME NEW q \in Position PROVE HeldApart(x, q)'
  BY <1>2, <1>3 DEF IInv, HeldApart
<1>14. /\ IdleCall.pc \notin BeforeBuy \cup SignalPc \cup {"checks", "buy", "persist"}
       /\ call[c].pc # "persist"
  BY Consts DEF SignalPc, BeforeBuy
<1>16. /\ wallet' \in [Mint -> SUBSET Position]
       /\ \A m \in Mint : wallet'[m] \subseteq wallet[m] \cup {x}
  BY DEF IInv, Typed
<1> QED BY <1>2, <1>3, <1>4, <1>7, <1>8, <1>10, <1>11, <1>12, <1>14, <1>16, Changes, Consts

-----------------------------------------------------------------------------
(* The steps of no call *)

\* An event of a new pool is stalked.
LEMMA EventStep ==
    ASSUME IInv, NEW m \in Mint, OnMigrationEvent(m), UNCHANGED inflight
    PROVE  IInv'
<1>1. PICK x \in Position : x = Fresh /\ pos[x].state = "none"
  BY FreshIsNone DEF OnMigrationEvent
<1> DEFINE s == PositionOf("STALK", m, Migration, FALSE)
<1>2. /\ pos' = [pos EXCEPT ![x] = s] /\ UNCHANGED <<call, wallet, row>>
      /\ s \in LanePosition /\ s.state = "STALK" /\ s.lane = Migration
  BY <1>1 DEF OnMigrationEvent, LanePosition, PositionState, PositionOf, Lane
<1> HIDE DEF s
<1>3. pos'[x] = s /\ \A p \in Position : p # x => pos'[p] = pos[p]
  BY <1>1, <1>2 DEF IInv, Typed
<1>4. Typed'
  BY <1>2 DEF IInv, Typed
<1>5. ASSUME NEW d \in Call PROVE CallOK(d)'
  <2>1. CallOK(d)
    BY DEF IInv
  <2>2. CASE call[d].pos = x
    BY <1>1, <1>2, <2>1, <2>2, FreshIsUnknown DEF CallOK, ClosePc
  <2>3. CASE call[d].pos # x
    BY <1>2, <1>3, <2>1, <2>3 DEF CallOK, ClosePc
  <2> QED BY <2>2, <2>3
<1>6. ASSUME NEW p \in Position PROVE PosOK(p)' /\ Responsible(p)'
  <2>1. CASE p = x
    BY <1>1, <1>2, <1>3, <2>1, FreshIsUnknown DEF PosOK, Responsible
  <2>2. CASE p # x
    BY <1>2, <1>3, <2>2 DEF IInv, PosOK, Sold, Responsible, At
  <2> QED BY <2>1, <2>2
<1>7. ASSUME NEW d \in Call, NEW e \in Call PROVE SignalsApart(d, e)' /\ ProbesApart(d, e)'
  BY <1>2 DEF IInv, SignalsApart, ProbesApart, Signals
<1>8. ASSUME NEW d \in Call, NEW p \in Position PROVE SignalAlone(d, p)'
  BY <1>2, <1>3 DEF IInv, SignalAlone
<1>9. ASSUME NEW p \in Position, NEW q \in Position PROVE HeldApart(p, q)'
  BY <1>2, <1>3 DEF IInv, HeldApart
<1> QED BY <1>4, <1>5, <1>6, <1>7, <1>8, <1>9 DEF IInv

\* A tick drops a stalked position, perhaps one whose call is before its buy.
LEMMA RejectsStep ==
    ASSUME IInv, NEW x \in Position, MigrationRejects(x), UNCHANGED inflight
    PROVE  IInv'
<1> DEFINE s == [pos[x] EXCEPT !.state = "REJECT"]
<1>1. /\ pos' = [pos EXCEPT ![x] = s] /\ UNCHANGED <<call, wallet, row>>
      /\ pos[x].state = "STALK"
  BY DEF MigrationRejects, Drops, Stalked, IInv, Typed, LanePosition
<1>2. /\ s \in LanePosition /\ s.state = "REJECT" /\ s.lane = pos[x].lane /\ s.mint = pos[x].mint
  BY DEF IInv, Typed, LanePosition, PositionState
<1> HIDE DEF s
<1>3. pos'[x] = s /\ \A p \in Position : p # x => pos'[p] = pos[p]
  BY <1>1 DEF IInv, Typed
<1>4. Typed'
  BY <1>1, <1>2 DEF IInv, Typed
<1>5. ASSUME NEW d \in Call PROVE CallOK(d)'
  <2>1. CallOK(d)
    BY DEF IInv
  <2>2. CASE call[d].pos = x
    BY <1>1, <1>2, <1>3, <2>1, <2>2 DEF CallOK
  <2>3. CASE call[d].pos # x
    BY <1>1, <1>3, <2>1, <2>3 DEF CallOK, ClosePc
  <2> QED BY <2>2, <2>3
<1>6. ASSUME NEW p \in Position PROVE PosOK(p)' /\ Responsible(p)'
  <2>1. CASE p = x
    BY <1>1, <1>2, <1>3, <2>1 DEF IInv, PosOK, Sold, Responsible
  <2>2. CASE p # x
    BY <1>1, <1>3, <2>2 DEF IInv, PosOK, Sold, Responsible, At
  <2> QED BY <2>1, <2>2
<1>7. ASSUME NEW d \in Call, NEW e \in Call PROVE SignalsApart(d, e)' /\ ProbesApart(d, e)'
  BY <1>1 DEF IInv, SignalsApart, ProbesApart, Signals
<1>8. ASSUME NEW d \in Call, NEW p \in Position PROVE SignalAlone(d, p)'
  BY <1>1, <1>2, <1>3 DEF IInv, SignalAlone
<1>9. ASSUME NEW p \in Position, NEW q \in Position PROVE HeldApart(p, q)'
  BY <1>1, <1>2, <1>3 DEF IInv, HeldApart
<1> QED BY <1>4, <1>5, <1>6, <1>7, <1>8, <1>9 DEF IInv

\* Only a row whose mint has no balance is closed by a recovery.
LEMMA RestartStep ==
    ASSUME IInv, NEW pureWs \in SUBSET RowsOf(Primary),
           NEW closed \in SUBSET (RowsOf(Primary) \ pureWs),
           NEW migration \in SUBSET RowsOf(Migration), Restart(pureWs, migration, closed)
    PROVE  IInv'
<1> DEFINE loaded == pureWs \cup migration
<1>1. /\ call' = [c \in Call |-> IdleCall] /\ inflight' = {} /\ wallet' = wallet
      /\ row' = [p \in Position |-> IF p \in closed THEN "CLOSED" ELSE row[p]]
  BY DEF Restart
<1>2. \A p \in closed : p \in Position /\ row[p] = Primary /\ wallet[pos[p].mint] = {}
  BY DEF Restart, PureWsLoads, RowsOf
<1>3. \A p \in loaded : row[p] \in Lane
  BY DEF RowsOf, Lane
<1>4. ASSUME NEW p \in Position
      PROVE  /\ pos'[p] \in LanePosition /\ pos'[p].mint = pos[p].mint
             /\ \/ pos'[p].state \in {"PROBE", "GONE"} /\ pos'[p].slot = FALSE
                \/ (pos'[p] = pos[p] /\ pos[p].state = "none")
  <2>1. pos'[p] = IF p \in loaded THEN PositionOf("PROBE", pos[p].mint, row[p], FALSE)
                  ELSE IF pos[p].state = "none" THEN pos[p]
                  ELSE PositionOf("GONE", pos[p].mint, pos[p].lane, FALSE)
    BY DEF Restart, Rehydrated
  <2>2. pos[p] \in LanePosition
    BY DEF IInv, Typed
  <2>3. CASE p \in loaded
    BY <1>3, <2>1, <2>2, <2>3 DEF LanePosition, PositionOf, PositionState
  <2>4. CASE p \notin loaded
    BY <2>1, <2>2, <2>4 DEF LanePosition, PositionOf, PositionState
  <2> QED BY <2>3, <2>4
<1>5. pos' = [p \in Position |-> pos'[p]]
  BY DEF Restart, Rehydrated
<1> HIDE DEF loaded
<1>6. Typed'
  <2>1. pos' \in [Position -> LanePosition]
    BY <1>4, <1>5
  <2>2. row' \in [Position -> {"none", "CLOSED"} \cup Lane]
    BY <1>1 DEF IInv, Typed
  <2> QED BY <1>1, <2>1, <2>2, Consts DEF IInv, Typed
<1>7. ASSUME NEW c \in Call PROVE CallOK(c)'
  BY <1>1, Consts DEF CallOK, BeforeBuy, SignalPc, ClosePc
<1>8. ASSUME NEW p \in Position PROVE PosOK(p)' /\ Responsible(p)'
  <2>1. PosOK(p) /\ (p \in closed => row[p] # "none")
    BY <1>2 DEF IInv, Primary
  <2>2. row'[p] = IF p \in closed THEN "CLOSED" ELSE row[p]
    BY <1>1
  <2>3. row'[p] # "none" => pos[p].state # "none"
    BY <2>1, <2>2 DEF PosOK
  <2>4. row'[p] = "CLOSED" => Sold(p)
    BY <1>2, <2>1, <2>2 DEF PosOK, Sold
  <2>5. /\ pos'[p].state \in {"PROBE", "GONE", "none"}
        /\ pos'[p].state = "none" => pos[p].state = "none"
    <3>1. pos'[p] = IF p \in pureWs \cup migration
                    THEN PositionOf("PROBE", pos[p].mint, row[p], FALSE)
                    ELSE IF pos[p].state = "none" THEN pos[p]
                    ELSE PositionOf("GONE", pos[p].mint, pos[p].lane, FALSE)
      BY DEF Restart, Rehydrated
    <3> QED BY <3>1 DEF PositionOf
  <2> QED BY <1>1, <1>4, <2>3, <2>4, <2>5 DEF PosOK, Sold, Responsible
<1>9. ASSUME NEW c \in Call, NEW d \in Call PROVE SignalsApart(c, d)' /\ ProbesApart(c, d)'
  BY <1>1, Consts DEF SignalsApart, ProbesApart, Signals, SignalPc, BeforeBuy
<1>10. ASSUME NEW c \in Call, NEW p \in Position PROVE SignalAlone(c, p)'
  BY <1>1, Consts DEF SignalAlone
<1>11. ASSUME NEW p \in Position, NEW q \in Position PROVE HeldApart(p, q)'
  BY <1>4 DEF HeldApart
<1> QED BY <1>6, <1>7, <1>8, <1>9, <1>10, <1>11 DEF IInv

-----------------------------------------------------------------------------
(* The invariant *)

\* The invariant holds at the start.
LEMMA InitIInv == Init => IInv
<1> SUFFICES ASSUME Init PROVE IInv
  OBVIOUS
<1>1. /\ call = [c \in Call |-> IdleCall] /\ inflight = {}
      /\ wallet = [m \in Mint |-> {}] /\ row = [p \in Position |-> "none"]
      /\ \A p \in Position : pos[p].state = "none" /\ pos[p].slot = FALSE
  BY DEF Init, WalletInit, PositionOf
<1>2. Typed
  <2>1. PositionOf("none", IdleCall.mint, Primary, FALSE) \in LanePosition
    BY Consts DEF PositionOf, LanePosition, PositionState, Lane
  <2> QED BY <1>1, <2>1, Consts DEF Init, WalletInit, Typed
<1>3. \A c \in Call : CallOK(c)
  BY <1>1, Consts DEF CallOK, BeforeBuy, SignalPc, ClosePc
<1>4. \A p \in Position : PosOK(p) /\ Responsible(p)
  BY <1>1 DEF PosOK, Responsible
<1>5. \A c, d \in Call : SignalsApart(c, d) /\ ProbesApart(c, d)
  BY <1>1, Consts DEF SignalsApart, ProbesApart, Signals, SignalPc, BeforeBuy
<1>6. \A c \in Call, p \in Position : SignalAlone(c, p)
  BY <1>1 DEF SignalAlone
<1>7. \A p, q \in Position : HeldApart(p, q)
  BY <1>1 DEF HeldApart
<1> QED BY <1>2, <1>3, <1>4, <1>5, <1>6, <1>7 DEF IInv

\* The steps of the pure WS lane keep the invariant.
LEMMA PureWsSteps ==
    ASSUME IInv, NEW c \in Call, PureWsStep(c)
    PROVE  IInv'
<1>1. ASSUME NEW m \in Mint, HandlePureWsSignal(c, m) PROVE IInv'
  BY <1>1, SignalStep
<1>2. CASE SignalRejected(c) \/ EntryReturns(c) \/ AcquireSlot(c)
  <2>1. UNCHANGED inflight \/ SignalRejected(c) \/ EntryReturns(c)
    BY <1>2 DEF AcquireSlot
  <2> QED BY <1>2, <2>1, EndsStep, GoesOnStep
<1>3. CASE PrimaryBuys(c) \/ SwingBuys(c)
  BY <1>3, BuysStep DEF PrimaryBuys, SwingBuys
<1>4. ASSUME NEW landed \in BOOLEAN, PrimaryBuyThrows(c, landed) \/ SwingBuyThrows(c, landed)
      PROVE  IInv'
  <2>1. CASE landed = TRUE
    BY <1>4, <2>1, LandsStep
  <2>2. CASE landed = FALSE
    BY <1>4, <2>2, BuyFailsStep
  <2> QED BY <2>1, <2>2
<1>5. ASSUME NEW recorded \in BOOLEAN, NEW swing \in BOOLEAN,
             PrimaryOpens(c, recorded, swing) \/ SwingOpens(c, recorded)
      PROVE  IInv'
  BY <1>5, OpensStep
<1>6. ASSUME NEW p \in Position, PureWsTick(c, p) PROVE IInv'
  BY <1>6, RequestCloseStep DEF PureWsTick, OpenIn
<1>7. CASE PureWsBalanceRead(c)
  <2>1. /\ call[c].pc = "balance" /\ UNCHANGED <<pos, row, wallet, inflight>>
        /\ \E pc \in {"sell", "sold"} :
            /\ pc = "sold" => wallet[call[c].mint] = {}
            /\ call' = [call EXCEPT ![c].seen = wallet[call[c].mint], ![c].pc = pc]
    BY <1>7 DEF PureWsBalanceRead, At
  <2> QED BY <2>1, BalanceReadStep
<1>8. CASE PureWsClosed(c)
  <2> DEFINE r == [call[c] EXCEPT !.pc = "persistClose"]
  <2>1. r \in CallState /\ call' = [call EXCEPT ![c] = r]
    BY <1>8 DEF PureWsClosed, Goto, IInv, Typed, CallState, ClosePc
  <2>2. /\ At(c, "sold") /\ UNCHANGED <<row, wallet, inflight>>
        /\ pos' = [pos EXCEPT ![call[c].pos].state = "CLOSED"]
    BY <1>8 DEF PureWsClosed
  <2>3. \E q \in CallState : /\ call' = [call EXCEPT ![c] = q]
                             /\ q = IdleCall \/ q = [call[c] EXCEPT !.pc = "persistClose"]
    BY <2>1
  <2> HIDE DEF r
  <2>4. call[c].pc = "sold" \/ (call[c].pc = "balance" /\ wallet[call[c].mint] = {})
    BY <2>2 DEF At
  <2> QED BY <2>2, <2>3, <2>4, ClosesStep
<1>9. ASSUME NEW after, PureWsPersisted(c, after) PROVE IInv'
  <2>1. call[c].pc = "persistClose" /\ call[c].pos \in Position
    BY <1>9 DEF PureWsPersisted, At, IInv, CallOK, ClosePc
  <2>2. after \in {"none", "CLOSED"} \cup Lane
    BY <1>9, <2>1 DEF PureWsPersisted, RowsAfter, IInv, Typed, Lane
  <2> QED BY <1>9, <2>1, <2>2, RowStep DEF PureWsPersisted, Unlocks
<1> QED BY <1>1, <1>2, <1>3, <1>4, <1>5, <1>6, <1>7, <1>8, <1>9 DEF PureWsStep

\* The steps of the migration lane keep the invariant.
LEMMA MigrationSteps ==
    ASSUME IInv, NEW c \in Call, MigrationStep(c), UNCHANGED inflight
    PROVE  IInv'
<1>1. ASSUME NEW p \in Position, MigrationReady(c, p) PROVE IInv'
  BY <1>1, ReadyStep
<1>2. ASSUME NEW p \in Position, MigrationTick(c, p) PROVE IInv'
  BY <1>2, RequestCloseStep DEF MigrationTick
<1>3. CASE ProbeAcquires(c)
  BY <1>3, GoesOnStep
<1>4. ASSUME NEW landed \in BOOLEAN,
             ProbeRejected(c) \/ ProbeBuys(c) \/ ProbeBuyThrows(c, landed)
      PROVE  IInv'
  BY <1>4, ProbeStep
<1>5. ASSUME NEW recorded \in BOOLEAN, ProbeRecorded(c, recorded) PROVE IInv'
  <2> DEFINE w == IF recorded THEN Migration ELSE row[call[c].pos]
  <2>1. call[c].pc = "probePersist" /\ call[c].pos \in Position
    BY <1>5 DEF ProbeRecorded, At, IInv, CallOK, ClosePc
  <2>2. w \in {"none", "CLOSED"} \cup Lane /\ row' = [row EXCEPT ![call[c].pos] = w]
    BY <1>5, <2>1 DEF ProbeRecorded, IInv, Typed, Lane
  <2>3. w = "CLOSED" => row[call[c].pos] = "CLOSED"
    BY DEF Migration
  <2> HIDE DEF w
  <2> QED BY <1>5, <2>1, <2>2, <2>3, RowStep DEF ProbeRecorded, Gives
<1>6. ASSUME MigrationEnds(c),
             call[c].pc = "sold" \/ (call[c].pc = "balance" /\ wallet[call[c].mint] = {})
      PROVE  IInv'
  <2> DEFINE q == [call[c] EXCEPT !.pc = "persistClose"]
  <2>1. IdleCall \in CallState /\ q \in CallState
    BY Consts DEF IInv, Typed, CallState, ClosePc
  <2>2. call' = [call EXCEPT ![c] = IdleCall] \/ call' = [call EXCEPT ![c] = q]
    BY <1>6 DEF MigrationEnds, Goto, Unlocks, IInv, Typed, CallState
  <2> HIDE DEF q
  <2>3. \E r \in CallState : /\ call' = [call EXCEPT ![c] = r]
                             /\ r = IdleCall \/ r = q
    BY <2>1, <2>2
  <2> QED BY <1>6, <2>3, ClosesStep DEF MigrationEnds, q
<1>7. CASE MigrationBalanceRead(c)
  <2>1. CASE wallet[call[c].mint] = {}
    BY <1>6, <1>7, <2>1 DEF MigrationBalanceRead, At
  <2>2. CASE wallet[call[c].mint] # {}
    <3>1. /\ call[c].pc = "balance" /\ UNCHANGED <<pos, row, wallet>>
          /\ call' = [call EXCEPT ![c].seen = wallet[call[c].mint], ![c].pc = "sell"]
      BY <1>7, <2>2 DEF MigrationBalanceRead, At
    <3> QED BY <3>1, BalanceReadStep
  <2> QED BY <2>1, <2>2
<1>8. CASE MigrationClosed(c)
  <2>1. At(c, "sold") /\ MigrationEnds(c)
    BY <1>8 DEF MigrationClosed
  <2>2. call[c].pc = "sold" \/ (call[c].pc = "balance" /\ wallet[call[c].mint] = {})
    BY <2>1 DEF At
  <2> QED BY <1>6, <2>1, <2>2
<1>9. ASSUME NEW closed \in BOOLEAN, MigrationPersisted(c, closed) PROVE IInv'
  <2> DEFINE w == IF closed THEN "CLOSED" ELSE row[call[c].pos]
  <2>1. call[c].pc = "persistClose" /\ call[c].pos \in Position
    BY <1>9 DEF MigrationPersisted, At, IInv, CallOK, ClosePc
  <2>2. w \in {"none", "CLOSED"} \cup Lane /\ row' = [row EXCEPT ![call[c].pos] = w]
    BY <1>9, <2>1 DEF MigrationPersisted, IInv, Typed
  <2> HIDE DEF w
  <2> QED BY <1>9, <2>1, <2>2, RowStep DEF MigrationPersisted, Unlocks
<1> QED BY <1>1, <1>2, <1>3, <1>4, <1>5, <1>7, <1>8, <1>9 DEF MigrationStep

\* The steps the closes of both lanes share keep the invariant.
LEMMA CloseSteps ==
    ASSUME IInv, NEW c \in Call, CloseStep(c), UNCHANGED inflight
    PROVE  IInv'
BY CloseBeginsStep, GoesOnStep, EndsStep, CloseThrowsStep DEF CloseStep

\* The invariant is inductive.
LEMMA StepIInv == IInv /\ [Next]_vars => IInv'
<1> SUFFICES ASSUME IInv, [Next]_vars PROVE IInv'
  OBVIOUS
<1>1. CASE UNCHANGED vars
  <2>1. UNCHANGED <<pos, call, wallet, row, inflight>>
    BY <1>1 DEF vars
  <2> QED BY <2>1 DEF IInv, Typed, CallOK, PosOK, Sold, Responsible, At, SignalsApart, ProbesApart,
             Signals, SignalAlone, HeldApart
<1>2. ASSUME NEW c \in Call, PureWsStep(c) PROVE IInv'
  BY <1>2, PureWsSteps
<1>3. ASSUME NEW c \in Call, MigrationStep(c), UNCHANGED inflight PROVE IInv'
  BY <1>3, MigrationSteps
<1>4. ASSUME NEW c \in Call, CloseStep(c), UNCHANGED inflight PROVE IInv'
  BY <1>4, CloseSteps
<1>5. ASSUME NEW m \in Mint, OnMigrationEvent(m), UNCHANGED inflight PROVE IInv'
  BY <1>5, EventStep
<1>6. ASSUME NEW p \in Position, MigrationRejects(p), UNCHANGED inflight PROVE IInv'
  BY <1>6, RejectsStep
<1>7. ASSUME NEW pureWs \in SUBSET RowsOf(Primary),
             NEW closed \in SUBSET (RowsOf(Primary) \ pureWs),
             NEW migration \in SUBSET RowsOf(Migration), Restart(pureWs, migration, closed)
      PROVE  IInv'
  BY <1>7, RestartStep
<1> QED BY <1>1, <1>2, <1>3, <1>4, <1>5, <1>6, <1>7 DEF Next

\* The invariant holds in every reachable state.
LEMMA SpecIInv == Spec => []IInv
BY InitIInv, StepIInv, PTL DEF Spec

\* For any number of mints, positions, calls and restarts: what a close or a recovery
\* took for sold (closePureWsPosition, closeMigrationPosition, the two recoveries) has no
\* tokens left in the wallet.
THEOREM SoldBeforeClosed == Spec => []ClosedMeansSold
<1>1. IInv => ClosedMeansSold
  BY DEF IInv, PosOK, Sold, ClosedMeansSold
<1> QED BY <1>1, SpecIInv, PTL

\* For any number of mints, positions, calls and restarts: inflightEntryByPair and
\* enteringLock keep the buys of a pair, and of a stalked position, to one.
THEOREM BuysApart == Spec => []OneBuyPerPair
<1>1. ASSUME IInv PROVE OneBuyPerPair
  <2> DEFINE Held(p) == /\ pos[p].lane = Primary /\ pos[p].slot
                        /\ pos[p].state \in {"BOUGHT", "PROBE"}
  <2>1. \A c \in Buying(Primary) : c \in Call /\ call[c].pc = "buy" /\ Signals(c)
    BY DEF Buying, BuyPc, Signals, SignalPc, Primary, SwingV2, Migration
  <2>2. \A c \in Buying(Migration) : c \in Call /\ call[c].pc \in BeforeBuy
    BY DEF Buying, BuyPc, BeforeBuy, Primary, SwingV2, Migration
  <2>3. \A c, d \in Buying(Primary) : call[c].mint = call[d].mint => c = d
    BY <1>1, <2>1 DEF IInv, SignalsApart
  <2>4. \A c, d \in Buying(Migration) : call[c].pos = call[d].pos => c = d
    BY <1>1, <2>2 DEF IInv, ProbesApart
  <2>5. ASSUME NEW p \in Position, pos[p].state = "BOUGHT", pos[p].lane = Primary
        PROVE  \E c \in Call : /\ call[c].pc = "persist" /\ Signals(c) /\ call[c].pos = p
                               /\ pos[p].mint = call[c].mint
    <3>1. PICK c \in Call : At(c, "persist") /\ call[c].pos = p
      BY <1>1, <2>5 DEF IInv, Responsible
    <3>2. CallOK(c)
      BY <1>1 DEF IInv
    <3> QED BY <3>1, <3>2 DEF CallOK, At, Signals, SignalPc
  <2>6. ASSUME NEW c \in Buying(Primary), NEW p \in Position, Held(p)
        PROVE  call[c].mint # pos[p].mint
    <3>1. CASE pos[p].state = "PROBE"
      BY <1>1, <2>1, <2>6, <3>1 DEF IInv, SignalAlone, PureWs
    <3>2. CASE pos[p].state = "BOUGHT"
      BY <1>1, <2>1, <2>5, <2>6, <3>2 DEF IInv, SignalsApart
    <3> QED BY <2>6, <3>1, <3>2
  <2>7. ASSUME NEW p \in Position, NEW q \in Position, Held(p), Held(q), pos[p].mint = pos[q].mint
        PROVE  p = q
    <3>1. CASE pos[p].state = "PROBE" /\ pos[q].state = "PROBE"
      BY <1>1, <2>7, <3>1 DEF IInv, HeldApart
    <3>2. CASE pos[p].state = "BOUGHT" /\ pos[q].state = "BOUGHT"
      BY <1>1, <2>5, <2>7, <3>2 DEF IInv, SignalsApart
    <3>3. CASE pos[p].state = "BOUGHT" /\ pos[q].state = "PROBE"
      BY <1>1, <2>5, <2>7, <3>3 DEF IInv, SignalAlone, PureWs
    <3>4. CASE pos[p].state = "PROBE" /\ pos[q].state = "BOUGHT"
      BY <1>1, <2>5, <2>7, <3>4 DEF IInv, SignalAlone, PureWs
    <3> QED BY <2>7, <3>1, <3>2, <3>3, <3>4
  <2> QED BY <2>3, <2>4, <2>6, <2>7 DEF OneBuyPerPair
<1> QED BY <1>1, SpecIInv, PTL

-----------------------------------------------------------------------------
(* What the mutex holds *)

\* the mutex holds the calls that are in a close, each once, and only its head goes on
InMutex(c) == \E i \in 1..Len(closeMutex) : closeMutex[i] = c

MutexInv ==
    /\ closeMutex \in Seq(Call)
    /\ \A i, j \in 1..Len(closeMutex) : closeMutex[i] = closeMutex[j] => i = j
    /\ \A c \in Call : InMutex(c) <=> call[c].pc \in ClosePc
    /\ \A c \in Call : call[c].pc \in ClosePc \ {"queued"} => Holds(c)

-----------------------------------------------------------------------------
(* The mutex *)

\* A call that is or is not in a close stays so.
LEMMA MutexStays ==
    ASSUME Typed, MutexInv, NEW c \in Call, NEW r \in CallState,
           call' = [call EXCEPT ![c] = r], closeMutex' = closeMutex,
           r.pc \in ClosePc <=> call[c].pc \in ClosePc,
           r.pc \in ClosePc \ {"queued"} => Holds(c)
    PROVE  MutexInv'
<1>1. call'[c] = r /\ \A d \in Call : d # c => call'[d] = call[d]
  BY DEF Typed
<1>2. \A d \in Call : InMutex(d)' <=> InMutex(d)
  BY DEF InMutex
<1>3. \A d \in Call : Holds(d)' <=> Holds(d)
  BY DEF Holds
<1>4. ASSUME NEW d \in Call
      PROVE  /\ InMutex(d)' <=> call'[d].pc \in ClosePc
             /\ call'[d].pc \in ClosePc \ {"queued"} => Holds(d)'
  <2>1. CASE d = c
    BY <1>1, <1>2, <1>3, <2>1 DEF MutexInv
  <2>2. CASE d # c
    BY <1>1, <1>2, <1>3, <2>2 DEF MutexInv
  <2> QED BY <2>1, <2>2
<1> QED BY <1>4 DEF MutexInv

\* A close is asked for: the call is the last in the mutex.
LEMMA MutexJoins ==
    ASSUME Typed, MutexInv, NEW c \in Call, NEW r \in CallState,
           call' = [call EXCEPT ![c] = r], closeMutex' = Append(closeMutex, c),
           call[c].pc \notin ClosePc, r.pc = "queued"
    PROVE  MutexInv'
<1> DEFINE n == Len(closeMutex)
<1>1. call'[c] = r /\ \A d \in Call : d # c => call'[d] = call[d]
  BY DEF Typed
<1>2. /\ closeMutex' \in Seq(Call) /\ Len(closeMutex') = n + 1 /\ n \in Nat
      /\ \A i \in 1..n : closeMutex'[i] = closeMutex[i]
      /\ closeMutex'[n + 1] = c
  BY AppendProperties DEF MutexInv
<1>3. ~InMutex(c)
  BY DEF MutexInv
<1>4. \A i, j \in 1..Len(closeMutex') : closeMutex'[i] = closeMutex'[j] => i = j
  <2> SUFFICES ASSUME NEW i \in 1..(n + 1), NEW j \in 1..(n + 1), closeMutex'[i] = closeMutex'[j]
               PROVE  i = j
    BY <1>2
  <2>1. (i \in 1..n \/ i = n + 1) /\ (j \in 1..n \/ j = n + 1)
    BY <1>2
  <2>2. CASE i \in 1..n /\ j \in 1..n
    BY <1>2, <2>2 DEF MutexInv
  <2>3. \A k \in 1..n : closeMutex'[k] # c
    BY <1>2, <1>3 DEF InMutex
  <2> QED BY <1>2, <2>1, <2>2, <2>3
<1>5. ASSUME NEW d \in Call PROVE InMutex(d)' <=> InMutex(d) \/ d = c
  <2>1. InMutex(d)' <=> \E i \in 1..(n + 1) : closeMutex'[i] = d
    BY <1>2 DEF InMutex
  <2>2. \A i : i \in 1..(n + 1) <=> i \in 1..n \/ i = n + 1
    BY <1>2
  <2> QED BY <1>2, <2>1, <2>2 DEF InMutex
<1>6. \A d \in Call : Holds(d) => Holds(d)'
  BY <1>2, HeadTailAppend DEF Holds, MutexInv
<1>7. ASSUME NEW d \in Call
      PROVE  /\ InMutex(d)' <=> call'[d].pc \in ClosePc
             /\ call'[d].pc \in ClosePc \ {"queued"} => Holds(d)'
  <2>1. CASE d = c
    BY <1>1, <1>5, <2>1 DEF ClosePc
  <2>2. CASE d # c
    BY <1>1, <1>5, <1>6, <2>2 DEF MutexInv
  <2> QED BY <2>1, <2>2
<1> QED BY <1>2, <1>4, <1>7 DEF MutexInv

\* The close at the head returns; all behind it wait.
LEMMA MutexLeaves ==
    ASSUME Typed, MutexInv, NEW c \in Call,
           call' = [call EXCEPT ![c] = IdleCall], closeMutex' = Tail(closeMutex),
           Holds(c)
    PROVE  MutexInv'
<1> DEFINE n == Len(closeMutex)
<1>1. call'[c] = IdleCall /\ \A d \in Call : d # c => call'[d] = call[d]
  BY DEF Typed
<1>2. closeMutex \in Seq(Call) /\ closeMutex # <<>> /\ closeMutex[1] = c /\ n \in Nat /\ n # 0
  BY DEF MutexInv, Holds
<1>3. /\ closeMutex' \in Seq(Call) /\ Len(closeMutex') = n - 1
      /\ \A i \in 1..(n - 1) : closeMutex'[i] = closeMutex[i + 1]
  <2>1. /\ Tail(closeMutex) \in Seq(Call) /\ Len(Tail(closeMutex)) = n - 1
        /\ \A i \in 1..Len(Tail(closeMutex)) : Tail(closeMutex)[i] = closeMutex[i + 1]
    BY <1>2, HeadTailProperties
  <2> QED BY <2>1
<1>4. \A i, j \in 1..Len(closeMutex') : closeMutex'[i] = closeMutex'[j] => i = j
  <2> SUFFICES ASSUME NEW i \in 1..(n - 1), NEW j \in 1..(n - 1), closeMutex'[i] = closeMutex'[j]
               PROVE  i = j
    BY <1>3
  <2>1. i + 1 \in 1..n /\ j + 1 \in 1..n /\ closeMutex[i + 1] = closeMutex[j + 1]
    BY <1>2, <1>3
  <2>2. i + 1 = j + 1
    BY <2>1 DEF MutexInv
  <2> QED BY <2>2
<1>5. ASSUME NEW d \in Call PROVE InMutex(d)' <=> InMutex(d) /\ d # c
  <2>1. InMutex(d)' <=> \E i \in 1..(n - 1) : closeMutex[i + 1] = d
    BY <1>3 DEF InMutex
  <2>2. ASSUME NEW i \in 1..(n - 1), closeMutex[i + 1] = d PROVE InMutex(d) /\ d # c
    <3>1. i + 1 \in 1..n /\ 1 \in 1..n /\ i + 1 # 1
      BY <1>2
    <3> QED BY <1>2, <2>2, <3>1 DEF InMutex, MutexInv
  <2>3. ASSUME NEW i \in 1..n, closeMutex[i] = d, d # c
        PROVE  \E k \in 1..(n - 1) : closeMutex[k + 1] = d
    <3>1. i - 1 \in 1..(n - 1) /\ (i - 1) + 1 = i
      BY <1>2, <2>3
    <3> QED BY <2>3, <3>1
  <2> QED BY <2>1, <2>2, <2>3 DEF InMutex
<1>6. \A d \in Call : d # c => ~Holds(d)
  BY DEF Holds
<1>7. ASSUME NEW d \in Call
      PROVE  /\ InMutex(d)' <=> call'[d].pc \in ClosePc
             /\ call'[d].pc \in ClosePc \ {"queued"} => Holds(d)'
  <2>1. CASE d = c
    BY <1>1, <1>5, <2>1, Consts DEF ClosePc
  <2>2. CASE d # c
    BY <1>1, <1>5, <1>6, <2>2 DEF MutexInv
  <2> QED BY <2>1, <2>2
<1> QED BY <1>3, <1>4, <1>7 DEF MutexInv

\* No call is in a close.
LEMMA MutexEmpty ==
    ASSUME closeMutex = <<>>, call = [c \in Call |-> IdleCall]
    PROVE  MutexInv
<1>1. closeMutex \in Seq(Call) /\ Len(closeMutex) = 0 /\ 1..Len(closeMutex) = {}
  OBVIOUS
<1> QED BY <1>1, Consts DEF MutexInv, InMutex, ClosePc

-----------------------------------------------------------------------------
(* What a step adds to the slots of a lane *)

Held(l) == Cardinality(Buying(l)) + Cardinality(SlotHolders(l))
Holder(p, l) == p \in SlotHolders(l)
Unit(P) == IF P THEN 1 ELSE 0

\* Only the call of the step can begin or end a buy.
LEMMA BuyingSize ==
    ASSUME Typed, NEW c \in Call, NEW r \in CallState, NEW l \in Lane,
           call' = [call EXCEPT ![c] = r]
    PROVE  /\ Cardinality(Buying(l)) \in Nat
           /\ Cardinality(Buying(l))' =
                Cardinality(Buying(l)) + Unit(r.pc = BuyPc(l)) - Unit(call[c].pc = BuyPc(l))
           /\ Unit(call[c].pc = BuyPc(l)) <= Cardinality(Buying(l))
<1> DEFINE B == Buying(l) \ {c}
<1>1. call'[c] = r /\ \A d \in Call : d # c => call'[d] = call[d]
  BY DEF Typed
<1>2. IsFiniteSet(Buying(l)) /\ Cardinality(Buying(l)) \in Nat
  <2>1. Buying(l) \in SUBSET Call /\ IsFiniteSet(Call)
    BY WalletAssumption DEF Buying
  <2> QED BY <2>1, FS_Subset, FS_CardinalityType
<1>3. /\ IsFiniteSet(B)
      /\ Cardinality(B) = Cardinality(Buying(l)) - Unit(call[c].pc = BuyPc(l))
      /\ Cardinality(B) \in Nat
  <2>1. c \in Buying(l) <=> call[c].pc = BuyPc(l)
    BY DEF Buying
  <2>2. IsFiniteSet(B) /\ Cardinality(B) = IF c \in Buying(l) THEN Cardinality(Buying(l)) - 1
                                          ELSE Cardinality(Buying(l))
    BY <1>2, FS_RemoveElement
  <2>3. Cardinality(B) \in Nat
    BY <2>2, FS_CardinalityType
  <2> QED BY <1>2, <2>1, <2>2, <2>3 DEF Unit
<1>4. Buying(l)' = IF r.pc = BuyPc(l) THEN B \cup {c} ELSE B
  BY <1>1 DEF Buying, BuyPc
<1>5. Cardinality(B \cup {c}) = Cardinality(B) + 1
  <2>1. c \notin B
    OBVIOUS
  <2> QED BY <1>3, <2>1, FS_AddElement
<1>6. Cardinality(Buying(l))' = Cardinality(B) + Unit(r.pc = BuyPc(l))
  BY <1>3, <1>4, <1>5 DEF Unit
<1>7. Unit(r.pc = BuyPc(l)) \in {0, 1} /\ Unit(call[c].pc = BuyPc(l)) \in {0, 1}
  BY DEF Unit
<1> QED BY <1>2, <1>3, <1>6, <1>7

\* Only the position of the step can begin or cease to hold a slot.
LEMMA HoldersSize ==
    ASSUME Typed, NEW c \in Call, NEW r \in CallState, NEW x \in Position, NEW s \in LanePosition,
           NEW l \in Lane,
           call' = [call EXCEPT ![c] = r], pos' = [pos EXCEPT ![x] = s],
           call[c].pc = "persistClose" => call[c].pos = x,
           r.pc = "persistClose" => r.pos = x
    PROVE  /\ Cardinality(SlotHolders(l)) \in Nat
           /\ Cardinality(SlotHolders(l))' =
                Cardinality(SlotHolders(l)) + Unit(Holder(x, l))' - Unit(Holder(x, l))
           /\ Unit(Holder(x, l)) <= Cardinality(SlotHolders(l))
<1> DEFINE H == SlotHolders(l) \ {x}
<1>1. /\ call'[c] = r /\ \A d \in Call : d # c => call'[d] = call[d]
      /\ pos'[x] = s /\ \A p \in Position : p # x => pos'[p] = pos[p]
  BY DEF Typed
<1>2. IsFiniteSet(SlotHolders(l)) /\ Cardinality(SlotHolders(l)) \in Nat
  <2>1. SlotHolders(l) \in SUBSET Position /\ IsFiniteSet(Position)
    BY WalletAssumption DEF SlotHolders
  <2> QED BY <2>1, FS_Subset, FS_CardinalityType
<1>3. /\ IsFiniteSet(H)
      /\ Cardinality(H) = Cardinality(SlotHolders(l)) - Unit(Holder(x, l))
      /\ Cardinality(H) \in Nat
  <2>1. IsFiniteSet(H) /\ Cardinality(H) = IF Holder(x, l) THEN Cardinality(SlotHolders(l)) - 1
                                          ELSE Cardinality(SlotHolders(l))
    BY <1>2, FS_RemoveElement DEF Holder
  <2>2. Cardinality(H) \in Nat
    BY <2>1, FS_CardinalityType
  <2> QED BY <1>2, <2>1, <2>2 DEF Unit
<1>4. \A p \in Position : p # x => (Closing(p)' <=> Closing(p))
  BY <1>1 DEF Closing, At
<1>5. \A p \in Position : p # x => (p \in SlotHolders(l)' <=> p \in SlotHolders(l))
  BY <1>1, <1>4 DEF SlotHolders
<1>6. SlotHolders(l)' = IF Holder(x, l)' THEN H \cup {x} ELSE H
  <2>1. SlotHolders(l)' \subseteq Position /\ SlotHolders(l) \subseteq Position
    BY DEF SlotHolders
  <2> QED BY <1>5, <2>1 DEF Holder
<1>7. Cardinality(H \cup {x}) = Cardinality(H) + 1
  <2>1. x \notin H
    OBVIOUS
  <2> QED BY <1>3, <2>1, FS_AddElement
<1>8. Cardinality(SlotHolders(l))' = Cardinality(H) + Unit(Holder(x, l))'
  BY <1>3, <1>6, <1>7 DEF Unit
<1>9. Unit(Holder(x, l))' \in {0, 1} /\ Unit(Holder(x, l)) \in {0, 1}
  BY DEF Unit
<1> QED BY <1>2, <1>3, <1>8, <1>9

\* The slots of a lane after a step of one call that may change one position.
LEMMA HeldChange ==
    ASSUME Typed, NEW c \in Call, NEW r \in CallState, NEW x \in Position, NEW s \in LanePosition,
           NEW l \in Lane,
           call' = [call EXCEPT ![c] = r], pos' = [pos EXCEPT ![x] = s],
           call[c].pc = "persistClose" => call[c].pos = x,
           r.pc = "persistClose" => r.pos = x
    PROVE  /\ Held(l) \in Nat
           /\ Held(l)' = Held(l) + Unit(r.pc = BuyPc(l)) - Unit(call[c].pc = BuyPc(l))
                                 + Unit(Holder(x, l))' - Unit(Holder(x, l))
           /\ Unit(call[c].pc = BuyPc(l)) + Unit(Holder(x, l)) <= Held(l)
<1>1. Unit(Holder(x, l))' \in {0, 1} /\ Unit(Holder(x, l)) \in {0, 1}
  BY DEF Unit
<1>2. Unit(r.pc = BuyPc(l)) \in {0, 1} /\ Unit(call[c].pc = BuyPc(l)) \in {0, 1}
  BY DEF Unit
<1>3. /\ Cardinality(Buying(l)) \in Nat
      /\ Cardinality(Buying(l))' =
            Cardinality(Buying(l)) + Unit(r.pc = BuyPc(l)) - Unit(call[c].pc = BuyPc(l))
      /\ Unit(call[c].pc = BuyPc(l)) <= Cardinality(Buying(l))
  BY BuyingSize
<1>4. /\ Cardinality(SlotHolders(l)) \in Nat
      /\ Cardinality(SlotHolders(l))' =
            Cardinality(SlotHolders(l)) + Unit(Holder(x, l))' - Unit(Holder(x, l))
      /\ Unit(Holder(x, l)) <= Cardinality(SlotHolders(l))
  BY HoldersSize
<1>5. Held(l)' = Cardinality(Buying(l))' + Cardinality(SlotHolders(l))'
  BY DEF Held
<1> QED BY ONLY <1>1, <1>2, <1>3, <1>4, <1>5 DEF Held

\* The slots of a lane after a step of one call that changes no position.
LEMMA HeldCall ==
    ASSUME Typed, NEW c \in Call, NEW r \in CallState, NEW l \in Lane,
           call' = [call EXCEPT ![c] = r], pos' = pos,
           call[c].pc # "persistClose", r.pc # "persistClose"
    PROVE  /\ Held(l) \in Nat
           /\ Held(l)' = Held(l) + Unit(r.pc = BuyPc(l)) - Unit(call[c].pc = BuyPc(l))
           /\ Unit(call[c].pc = BuyPc(l)) <= Held(l)
<1>1. call'[c] = r /\ \A d \in Call : d # c => call'[d] = call[d]
  BY DEF Typed
<1>2. \A p \in Position : Closing(p)' <=> Closing(p)
  BY <1>1 DEF Closing, At
<1>3. SlotHolders(l)' = SlotHolders(l)
  BY <1>2 DEF SlotHolders
<1>4. Cardinality(SlotHolders(l)) \in Nat
  <2>1. SlotHolders(l) \in SUBSET Position /\ IsFiniteSet(Position)
    BY WalletAssumption DEF SlotHolders
  <2> QED BY <2>1, FS_Subset, FS_CardinalityType
<1>5. Unit(r.pc = BuyPc(l)) \in {0, 1} /\ Unit(call[c].pc = BuyPc(l)) \in {0, 1}
  BY DEF Unit
<1>6. Cardinality(SlotHolders(l))' = Cardinality(SlotHolders(l))
  BY <1>3
<1>7. /\ Cardinality(Buying(l)) \in Nat
      /\ Cardinality(Buying(l))' =
            Cardinality(Buying(l)) + Unit(r.pc = BuyPc(l)) - Unit(call[c].pc = BuyPc(l))
      /\ Unit(call[c].pc = BuyPc(l)) <= Cardinality(Buying(l))
  BY BuyingSize
<1>8. Held(l)' = Cardinality(Buying(l))' + Cardinality(SlotHolders(l))'
  BY DEF Held
<1> QED BY ONLY <1>4, <1>5, <1>6, <1>7, <1>8 DEF Held

-----------------------------------------------------------------------------
(* The invariant of the slots *)

SellPc == {"balance", "sell", "sold"}

Counted(l) == canary[l] <= Held(l) /\ (restarts = 0 => canary[l] = Held(l))

\* a position that is being sold is open: no other close can have closed it; and before
\* any restart a bought position has a slot to give back
SlotInv ==
    /\ canary \in [Lane -> Nat]
    /\ MutexInv
    /\ \A c \in Call : call[c].pc \in SellPc => pos[call[c].pos].state = "PROBE"
    /\ restarts = 0 => \A p \in Position : pos[p].state \in {"BOUGHT", "PROBE", "CLOSED"} => pos[p].slot
    /\ \A l \in Lane : Counted(l)

\* The canary guard's two operations.
LEMMA CanaryOps ==
    ASSUME canary \in [Lane -> Nat], NEW l \in Lane
    PROVE  /\ Acquired(l) \in [Lane -> Nat] /\ Released(l) \in [Lane -> Nat]
           /\ Acquired(l)[l] = canary[l] + 1
           /\ Released(l)[l] = IF canary[l] > 0 THEN canary[l] - 1 ELSE 0
           /\ \A k \in Lane : k # l => Acquired(l)[k] = canary[k] /\ Released(l)[k] = canary[k]
BY DEF Acquired, Released

\* The record of a close is written for a closed position.
LEMMA ClosingIsClosed ==
    ASSUME IInv, NEW p \in Position, Closing(p)
    PROVE  pos[p].state = "CLOSED"
BY DEF IInv, CallOK, Closing, At

\* One close at a time is past its wait.
LEMMA OneCloser ==
    ASSUME MutexInv, NEW c \in Call, NEW d \in Call,
           call[c].pc \in ClosePc \ {"queued"}, call[d].pc \in ClosePc \ {"queued"}
    PROVE  c = d
BY DEF MutexInv, Holds

\* A call goes on, and no position changes: what is left is the mutex and the count.
LEMMA SlotCall ==
    ASSUME IInv, SlotInv, NEW c \in Call, NEW r \in CallState,
           call' = [call EXCEPT ![c] = r], pos' = pos, restarts' = restarts,
           canary' \in [Lane -> Nat], MutexInv', \A l \in Lane : Counted(l)',
           r.pc \in SellPc => pos[r.pos].state = "PROBE"
    PROVE  SlotInv'
<1>1. call'[c] = r /\ \A d \in Call : d # c => call'[d] = call[d]
  BY DEF IInv, Typed
<1>2. \A d \in Call : call'[d].pc \in SellPc => pos'[call'[d].pos].state = "PROBE"
  BY <1>1 DEF SlotInv
<1>3. restarts' = 0 => \A p \in Position : pos'[p].state \in {"BOUGHT", "PROBE", "CLOSED"} => pos'[p].slot
  BY DEF SlotInv
<1> QED BY <1>2, <1>3 DEF SlotInv

\* A call goes on and changes one position; an open one only the close at work changes.
LEMMA SlotChange ==
    ASSUME IInv, SlotInv, NEW c \in Call, NEW r \in CallState, NEW x \in Position, NEW s \in LanePosition,
           call' = [call EXCEPT ![c] = r], pos' = [pos EXCEPT ![x] = s], restarts' = restarts,
           canary' \in [Lane -> Nat], MutexInv', \A l \in Lane : Counted(l)',
           r.pc \notin SellPc,
           pos[x].state = "PROBE" => s.state = "PROBE" \/ call[c].pc \in SellPc,
           restarts = 0 /\ s.state \in {"BOUGHT", "PROBE", "CLOSED"} => s.slot
    PROVE  SlotInv'
<1>1. /\ call'[c] = r /\ \A d \in Call : d # c => call'[d] = call[d]
      /\ pos'[x] = s /\ \A p \in Position : p # x => pos'[p] = pos[p]
  BY DEF IInv, Typed
<1>2. ASSUME NEW d \in Call, call'[d].pc \in SellPc PROVE pos'[call'[d].pos].state = "PROBE"
  <2>1. d # c /\ call'[d] = call[d] /\ pos[call[d].pos].state = "PROBE"
    BY <1>1, <1>2 DEF SlotInv
  <2>2. call[d].pos \in Position
    BY <1>2, <2>1 DEF IInv, CallOK, SellPc, ClosePc
  <2>3. call[c].pc \notin SellPc
    BY <1>2, <2>1, OneCloser DEF SlotInv, SellPc, ClosePc
  <2> QED BY <1>1, <2>1, <2>2, <2>3
<1>3. restarts' = 0 => \A p \in Position : pos'[p].state \in {"BOUGHT", "PROBE", "CLOSED"} => pos'[p].slot
  BY <1>1 DEF SlotInv
<1> QED BY <1>2, <1>3 DEF SlotInv

\* A call goes on outside the canary guard.
LEMMA SlotQuiet ==
    ASSUME IInv, SlotInv, NEW c \in Call, NEW r \in CallState,
           call' = [call EXCEPT ![c] = r], UNCHANGED <<pos, restarts, canary>>, MutexInv',
           {call[c].pc, r.pc} \cap {"buy", "swingBuy", "probeBuy", "persistClose"} = {},
           r.pc \in SellPc => pos[r.pos].state = "PROBE"
    PROVE  SlotInv'
<1>1. ASSUME NEW l \in Lane PROVE Counted(l)'
  <2>1. Held(l)' = Held(l) + Unit(r.pc = BuyPc(l)) - Unit(call[c].pc = BuyPc(l)) /\ Held(l) \in Nat
    BY HeldCall DEF IInv
  <2>2. r.pc # BuyPc(l) /\ call[c].pc # BuyPc(l)
    BY DEF BuyPc, Lane, Primary, SwingV2, Migration
  <2>3. Held(l)' = Held(l)
    BY <2>1, <2>2 DEF Unit
  <2> QED BY <2>3 DEF SlotInv, Counted
<1> QED BY <1>1, SlotCall DEF SlotInv

-----------------------------------------------------------------------------
(* The steps that take and give back no slot *)

\* Entries before and after their buys.
LEMMA QuietEntry ==
    ASSUME IInv, SlotInv, NEW c \in Call, UNCHANGED restarts,
           \/ SignalRejected(c) \/ EntryReturns(c)
           \/ \E m \in Mint : HandlePureWsSignal(c, m)
           \/ \E p \in Position : MigrationReady(c, p)
           \/ \E recorded \in BOOLEAN : ProbeRecorded(c, recorded)
    PROVE  SlotInv'
<1>1. PICK r \in CallState :
        /\ call' = [call EXCEPT ![c] = r] /\ UNCHANGED <<pos, canary, closeMutex>>
        /\ r.pc \in {"idle", "checks", "survival"}
        /\ call[c].pc \in {"idle", "checks", "tail", "probePersist"}
  <2>1. CASE \/ SignalRejected(c) \/ EntryReturns(c)
             \/ \E recorded \in BOOLEAN : ProbeRecorded(c, recorded)
    BY <2>1, Consts DEF SignalRejected, EntryReturns, Returns, ProbeRecorded, Gives, At
  <2>2. ASSUME NEW m \in Mint, HandlePureWsSignal(c, m)
        PROVE  \E r \in CallState :
                 /\ call' = [call EXCEPT ![c] = r] /\ UNCHANGED <<pos, canary, closeMutex>>
                 /\ r.pc = "checks" /\ call[c].pc = "idle"
    <3> DEFINE q == [IdleCall EXCEPT !.pc = "checks", !.mint = m]
    <3>1. q \in CallState /\ q.pc = "checks"
      BY Consts DEF CallState, SignalPc
    <3>2. call' = [call EXCEPT ![c] = q] /\ UNCHANGED <<pos, canary, closeMutex>> /\ call[c].pc = "idle"
      BY <2>2 DEF HandlePureWsSignal, At
    <3> HIDE DEF q
    <3> QED BY <3>1, <3>2
  <2>3. ASSUME NEW p \in Position, MigrationReady(c, p)
        PROVE  \E r \in CallState :
                 /\ call' = [call EXCEPT ![c] = r] /\ UNCHANGED <<pos, canary, closeMutex>>
                 /\ r.pc = "survival" /\ call[c].pc = "idle"
    <3> DEFINE q == [IdleCall EXCEPT !.pc = "survival", !.pos = p, !.mint = pos[p].mint]
    <3>1. q \in CallState /\ q.pc = "survival"
      BY Consts DEF CallState, ProbePc, IInv, Typed, LanePosition
    <3>2. call' = [call EXCEPT ![c] = q] /\ UNCHANGED <<pos, canary, closeMutex>> /\ call[c].pc = "idle"
      BY <2>3 DEF MigrationReady, At
    <3> HIDE DEF q
    <3> QED BY <3>1, <3>2
  <2> QED BY <2>1, <2>2, <2>3
<1>2. r.pc \notin ClosePc /\ call[c].pc \notin ClosePc
  BY <1>1 DEF ClosePc
<1>3. MutexInv'
  BY <1>1, <1>2, MutexStays DEF IInv, SlotInv
<1> QED BY <1>1, <1>3, SlotQuiet DEF SellPc

\* A tick asks for a close.
LEMMA QuietRequest ==
    ASSUME IInv, SlotInv, NEW c \in Call, NEW p \in Position, UNCHANGED restarts, RequestClose(c, p)
    PROVE  SlotInv'
<1> DEFINE r == [IdleCall EXCEPT !.pc = "queued", !.pos = p, !.mint = pos[p].mint]
<1>1. r \in CallState /\ r.pc = "queued"
  BY Consts DEF CallState, ClosePc, IInv, Typed, LanePosition
<1>2. /\ call[c].pc = "idle" /\ call' = [call EXCEPT ![c] = r]
      /\ closeMutex' = Append(closeMutex, c) /\ UNCHANGED <<pos, canary>>
  BY DEF RequestClose, At
<1> HIDE DEF r
<1>3. MutexInv'
  BY <1>1, <1>2, MutexJoins DEF IInv, SlotInv, ClosePc
<1> QED BY <1>1, <1>2, <1>3, SlotQuiet DEF SellPc

\* A close goes on towards its sale, or to its alert.
LEMMA QuietSale ==
    ASSUME IInv, SlotInv, NEW c \in Call, NEW r \in CallState,
           call' = [call EXCEPT ![c] = r], UNCHANGED <<pos, restarts, canary, closeMutex>>,
           call[c].pc \in {"queued"} \cup SellPc, r.pc \in SellPc \cup {"alert"},
           Holds(c), r.pc \in SellPc => pos[r.pos].state = "PROBE"
    PROVE  SlotInv'
<1>1. MutexInv'
  BY MutexStays DEF IInv, SlotInv, SellPc, ClosePc
<1> QED BY <1>1, SlotQuiet DEF SellPc

\* A close returns and has changed nothing.
LEMMA QuietReturn ==
    ASSUME IInv, SlotInv, NEW c \in Call, Unlocks(c), Holds(c), UNCHANGED <<pos, restarts, canary>>,
           call[c].pc \in {"queued", "alert"}
    PROVE  SlotInv'
<1>1. MutexInv'
  BY MutexLeaves DEF IInv, SlotInv, Unlocks
<1> QED BY <1>1, Consts, SlotQuiet DEF Unlocks, SellPc

\* A balance is read: the close sells it, or takes an empty one for sold.
LEMMA BalanceSlot ==
    ASSUME IInv, SlotInv, NEW c \in Call, NEW pc \in {"sell", "sold"}, call[c].pc = "balance",
           call' = [call EXCEPT ![c].seen = wallet[call[c].mint], ![c].pc = pc],
           UNCHANGED <<pos, restarts, canary, closeMutex>>
    PROVE  SlotInv'
<1> DEFINE r == [call[c] EXCEPT !.seen = wallet[call[c].mint], !.pc = pc]
<1>1. r \in CallState /\ r.pc = pc /\ r.pos = call[c].pos /\ call' = [call EXCEPT ![c] = r]
  BY DEF IInv, Typed, CallState, ClosePc
<1> HIDE DEF r
<1>2. Holds(c) /\ pos[call[c].pos].state = "PROBE"
  BY DEF SlotInv, MutexInv, SellPc, ClosePc
<1> QED BY <1>1, <1>2, QuietSale DEF SellPc

\* What the closes of both lanes share.
LEMMA QuietClose ==
    ASSUME IInv, SlotInv, NEW c \in Call, UNCHANGED restarts, CloseStep(c)
    PROVE  SlotInv'
<1>1. call[c] \in CallState /\ CallOK(c) /\ pos \in [Position -> LanePosition]
  BY DEF IInv, Typed
<1>2. call[c].pc \in SellPc \cup {"alert"} => Holds(c)
  BY DEF SlotInv, MutexInv, SellPc, ClosePc
<1>3. call[c].pc \in SellPc => pos[call[c].pos].state = "PROBE"
  BY DEF SlotInv
<1>4. ASSUME NEW pc \in SellPc \cup {"alert"}
      PROVE  LET r == [call[c] EXCEPT !.pc = pc] IN
             /\ r \in CallState /\ r.pc = pc /\ r.pos = call[c].pos
             /\ Goto(c, pc) => call' = [call EXCEPT ![c] = r]
  BY <1>1, <1>4 DEF CallState, SellPc, ClosePc, Goto
<1>5. CASE CloseBegins(c)
  <2>1. CASE pos[call[c].pos].state = "CLOSED"
    <3>1. /\ Unlocks(c) /\ Holds(c) /\ UNCHANGED <<pos, canary>>
          /\ call[c].pc = "queued"
      BY <1>5, <2>1 DEF CloseBegins, At
    <3> QED BY <3>1, QuietReturn
  <2>2. CASE pos[call[c].pos].state # "CLOSED"
    <3>1. /\ Goto(c, "balance") /\ Holds(c) /\ UNCHANGED <<pos, canary, closeMutex>>
          /\ call[c].pc = "queued"
      BY <1>5, <2>2 DEF CloseBegins, At
    <3>2. pos[call[c].pos].state = "PROBE"
      BY <1>1, <2>2, <3>1 DEF CallOK, ClosePc
    <3> DEFINE r == [call[c] EXCEPT !.pc = "balance"]
    <3>3. r \in CallState /\ r.pc = "balance" /\ r.pos = call[c].pos /\ call' = [call EXCEPT ![c] = r]
      BY <1>4, <3>1 DEF SellPc
    <3> HIDE DEF r
    <3> QED BY <3>1, <3>2, <3>3, QuietSale DEF SellPc
  <2> QED BY <2>1, <2>2
<1>6. CASE SellSucceeds(c)
  <2>1. Goto(c, "sold") /\ UNCHANGED <<pos, canary, closeMutex>> /\ call[c].pc \in SellPc
    BY <1>6 DEF SellSucceeds, At, SellPc
  <2> DEFINE r == [call[c] EXCEPT !.pc = "sold"]
  <2>2. r \in CallState /\ r.pc = "sold" /\ r.pos = call[c].pos /\ call' = [call EXCEPT ![c] = r]
    BY <1>4, <2>1 DEF SellPc
  <2> HIDE DEF r
  <2> QED BY <1>2, <1>3, <2>1, <2>2, QuietSale DEF SellPc
<1>7. ASSUME NEW landed \in BOOLEAN, CloseThrows(c, landed) PROVE SlotInv'
  <2>1. Goto(c, "alert") /\ UNCHANGED <<pos, canary, closeMutex>> /\ call[c].pc \in SellPc
    BY <1>7 DEF CloseThrows, At, SellPc
  <2> DEFINE r == [call[c] EXCEPT !.pc = "alert"]
  <2>2. r \in CallState /\ r.pc = "alert" /\ call' = [call EXCEPT ![c] = r]
    BY <1>4, <2>1
  <2> HIDE DEF r
  <2> QED BY <1>2, <2>1, <2>2, QuietSale DEF SellPc
<1>8. CASE CloseFails(c)
  BY <1>2, <1>8, QuietReturn DEF CloseFails, At
<1> QED BY <1>5, <1>6, <1>7, <1>8 DEF CloseStep

-----------------------------------------------------------------------------
(* The steps that take or give back a slot *)

\* Each lane has a place of its own where its buys are.
LEMMA BuyPlaces ==
    ASSUME NEW l \in Lane
    PROVE  /\ BuyPc(l) = "buy" <=> l = Primary
           /\ BuyPc(l) = "swingBuy" <=> l = SwingV2
           /\ BuyPc(l) = "probeBuy" <=> l = Migration
           /\ BuyPc(l) \in {"buy", "swingBuy", "probeBuy"}
BY DEF BuyPc, Lane, Primary, SwingV2, Migration

\* One lane holds a slot more, and has acquired it.
LEMMA CountUp ==
    ASSUME SlotInv, NEW k \in Lane, canary' = Acquired(k), UNCHANGED restarts,
           \A l \in Lane : Held(l) \in Nat /\ Held(l)' = Held(l) + Unit(l = k)
    PROVE  canary' \in [Lane -> Nat] /\ \A l \in Lane : Counted(l)'
<1>1. ASSUME NEW l \in Lane PROVE Counted(l)'
  <2>1. canary[l] \in Nat /\ canary'[l] = canary[l] + Unit(l = k)
    BY CanaryOps DEF SlotInv, Unit
  <2>2. Unit(l = k) \in {0, 1}
    BY DEF Unit
  <2> QED BY <2>1, <2>2 DEF SlotInv, Counted
<1> QED BY <1>1, CanaryOps DEF SlotInv

\* One lane holds a slot less, and has released it.
LEMMA CountDown ==
    ASSUME SlotInv, NEW k \in Lane, canary' = Released(k), UNCHANGED restarts,
           \A l \in Lane : /\ Held(l) \in Nat /\ Held(l)' = Held(l) - Unit(l = k)
                           /\ Unit(l = k) <= Held(l)
    PROVE  canary' \in [Lane -> Nat] /\ \A l \in Lane : Counted(l)'
<1>1. ASSUME NEW l \in Lane PROVE Counted(l)'
  <2>1. /\ canary[l] \in Nat /\ l # k => canary'[l] = canary[l]
        /\ l = k => canary'[l] = IF canary[l] > 0 THEN canary[l] - 1 ELSE 0
    BY CanaryOps DEF SlotInv
  <2>2. Unit(l = k) = IF l = k THEN 1 ELSE 0
    BY DEF Unit
  <2> QED BY <2>1, <2>2 DEF SlotInv, Counted
<1> QED BY <1>1, CanaryOps DEF SlotInv

\* No lane holds more or less.
LEMMA CountSame ==
    ASSUME SlotInv, UNCHANGED <<canary, restarts>>, \A l \in Lane : Held(l)' = Held(l)
    PROVE  canary' \in [Lane -> Nat] /\ \A l \in Lane : Counted(l)'
BY DEF SlotInv, Counted

\* After a restart a lane may release what it does not hold.
LEMMA CountForgotten ==
    ASSUME SlotInv, NEW k \in Lane, canary' = Released(k), UNCHANGED restarts, restarts # 0,
           \A l \in Lane : Held(l) \in Nat /\ Held(l)' = Held(l)
    PROVE  canary' \in [Lane -> Nat] /\ \A l \in Lane : Counted(l)'
<1>1. ASSUME NEW l \in Lane PROVE Counted(l)'
  <2>1. canary[l] \in Nat /\ canary'[l] \in Nat /\ canary'[l] <= canary[l]
    BY CanaryOps DEF SlotInv
  <2> QED BY <2>1 DEF SlotInv, Counted
<1> QED BY <1>1, CanaryOps DEF SlotInv

\* A slot is taken for a buy.
LEMMA TakesStep ==
    ASSUME IInv, SlotInv, NEW c \in Call, UNCHANGED restarts, AcquireSlot(c) \/ ProbeAcquires(c)
    PROVE  SlotInv'
<1>1. PICK k \in {Primary, Migration} :
        /\ canary' = Acquired(k) /\ call' = [call EXCEPT ![c].pc = BuyPc(k)]
        /\ UNCHANGED <<pos, closeMutex>> /\ call[c].pc \in {"checks", "survival"}
  BY DEF AcquireSlot, ProbeAcquires, Goto, At, BuyPc, Primary, SwingV2, Migration
<1> DEFINE r == [call[c] EXCEPT !.pc = BuyPc(k)]
<1>2. k \in Lane /\ BuyPc(k) \in {"buy", "probeBuy"}
  BY BuyPlaces, <1>1 DEF Lane
<1>3. r \in CallState /\ r.pc = BuyPc(k) /\ call' = [call EXCEPT ![c] = r]
  BY <1>1, <1>2 DEF IInv, Typed, CallState, SignalPc, ProbePc
<1> HIDE DEF r
<1>4. MutexInv'
  BY <1>1, <1>2, <1>3, MutexStays DEF IInv, SlotInv, ClosePc
<1>5. ASSUME NEW l \in Lane PROVE Held(l) \in Nat /\ Held(l)' = Held(l) + Unit(l = k)
  <2>0. Typed /\ pos' = pos /\ call[c].pc # "persistClose" /\ r.pc # "persistClose"
    BY <1>1, <1>2, <1>3 DEF IInv
  <2>1. Held(l) \in Nat /\ Held(l)' = Held(l) + Unit(r.pc = BuyPc(l)) - Unit(call[c].pc = BuyPc(l))
    BY <1>3, <2>0, HeldCall
  <2>2. Unit(r.pc = BuyPc(l)) = Unit(l = k) /\ Unit(call[c].pc = BuyPc(l)) = 0
    BY <1>1, <1>2, <1>3, BuyPlaces DEF Unit
  <2>3. Unit(l = k) \in {0, 1}
    BY DEF Unit
  <2> QED BY <2>1, <2>2, <2>3
<1>6. canary' \in [Lane -> Nat] /\ \A l \in Lane : Counted(l)'
  BY <1>1, <1>2, <1>5, CountUp
<1> QED BY <1>1, <1>2, <1>3, <1>4, <1>6, SlotCall DEF SellPc

\* A buy that failed gives its slot back, whether its transaction landed or not.
LEMMA BuyThrowsStep ==
    ASSUME IInv, SlotInv, NEW c \in Call, NEW landed \in BOOLEAN, UNCHANGED restarts,
           PrimaryBuyThrows(c, landed) \/ SwingBuyThrows(c, landed)
    PROVE  SlotInv'
<1>1. PICK k \in {Primary, SwingV2}, r \in CallState :
        /\ LandsUnknown(c, k, landed) /\ canary' = Released(k) /\ call[c].pc = BuyPc(k)
        /\ call' = [call EXCEPT ![c] = r] /\ r.pc \in {"idle", "tail"} /\ UNCHANGED closeMutex
  <2>1. CASE PrimaryBuyThrows(c, landed)
    <3>1. BuyPc(Primary) = "buy"
      BY BuyPlaces DEF Lane
    <3> QED BY <2>1, <3>1, Consts DEF PrimaryBuyThrows, LandsUnknown, Returns, At
  <2>2. CASE SwingBuyThrows(c, landed)
    <3> DEFINE q == [call[c] EXCEPT !.pc = "tail"]
    <3>1. BuyPc(SwingV2) = "swingBuy"
      BY BuyPlaces DEF Lane
    <3>2. q \in CallState /\ q.pc = "tail" /\ (Goto(c, "tail") => call' = [call EXCEPT ![c] = q])
      BY DEF Goto, IInv, Typed, CallState, SignalPc
    <3> HIDE DEF q
    <3> QED BY <2>2, <3>1, <3>2 DEF SwingBuyThrows, LandsUnknown, At
  <2> QED BY <2>1, <2>2
<1>2. k \in Lane /\ call[c].pc \in {"buy", "swingBuy"}
  BY <1>1, BuyPlaces DEF Lane
<1>3. MutexInv'
  BY <1>1, <1>2, MutexStays DEF IInv, SlotInv, ClosePc
<1>4. \A l \in Lane : Unit(r.pc = BuyPc(l)) = 0 /\ Unit(call[c].pc = BuyPc(l)) = Unit(l = k)
  <2>1. \A l \in Lane : r.pc # BuyPc(l) /\ (call[c].pc = BuyPc(l) <=> l = k)
    BY <1>1, <1>2, BuyPlaces
  <2> QED BY <2>1 DEF Unit
<1>5. \A l \in Lane : Unit(l = k) \in {0, 1}
  BY DEF Unit
<1>6. CASE landed = FALSE
  <2>1. pos' = pos
    BY <1>1, <1>6 DEF LandsUnknown
  <2>2. ASSUME NEW l \in Lane
        PROVE  Held(l) \in Nat /\ Held(l)' = Held(l) - Unit(l = k) /\ Unit(l = k) <= Held(l)
    <3>1. /\ Held(l) \in Nat /\ Held(l)' = Held(l) + Unit(r.pc = BuyPc(l)) - Unit(call[c].pc = BuyPc(l))
          /\ Unit(call[c].pc = BuyPc(l)) <= Held(l)
      BY <1>1, <1>2, <2>1, HeldCall DEF IInv
    <3> QED BY <1>4, <1>5, <3>1
  <2>3. canary' \in [Lane -> Nat] /\ \A l \in Lane : Counted(l)'
    BY <1>1, <1>2, <2>2, CountDown
  <2> QED BY <1>1, <1>3, <2>1, <2>3, SlotCall DEF SellPc
<1>7. CASE landed = TRUE
  <2> DEFINE s == PositionOf("GONE", call[c].mint, k, FALSE)
  <2>1. PICK x \in Position : pos[x].state = "none" /\ pos' = [pos EXCEPT ![x] = s]
    BY <1>1, <1>7, FreshIsNone DEF LandsUnknown
  <2>2. s \in LanePosition /\ s.state = "GONE" /\ s.slot = FALSE
    BY <1>2 DEF PositionOf, LanePosition, PositionState, IInv, Typed, CallState
  <2> HIDE DEF s
  <2>3. pos'[x] = s
    BY <2>1 DEF IInv, Typed
  <2>4. ASSUME NEW l \in Lane
        PROVE  Held(l) \in Nat /\ Held(l)' = Held(l) - Unit(l = k) /\ Unit(l = k) <= Held(l)
    <3>1. /\ Held(l) \in Nat
          /\ Held(l)' = Held(l) + Unit(r.pc = BuyPc(l)) - Unit(call[c].pc = BuyPc(l))
                                + Unit(Holder(x, l))' - Unit(Holder(x, l))
          /\ Unit(call[c].pc = BuyPc(l)) + Unit(Holder(x, l)) <= Held(l)
      <4>1. /\ Typed /\ call[c].pc # "persistClose" /\ r.pc # "persistClose"
            /\ c \in Call /\ r \in CallState /\ x \in Position /\ s \in LanePosition /\ l \in Lane
            /\ call' = [call EXCEPT ![c] = r] /\ pos' = [pos EXCEPT ![x] = s]
        BY <1>1, <1>2, <2>1, <2>2 DEF IInv
      <4> QED BY ONLY <4>1, HeldChange
    <3>2. Unit(Holder(x, l)) = 0
      <4>1. ~Closing(x)
        BY <2>1, ClosingIsClosed
      <4> QED BY <2>1, <4>1 DEF Holder, SlotHolders, Unit
    <3>3. Unit(Holder(x, l))' = 0
      BY <2>2, <2>3 DEF Holder, SlotHolders, Unit
    <3> QED BY <1>4, <1>5, <3>1, <3>2, <3>3
  <2>5. canary' \in [Lane -> Nat] /\ \A l \in Lane : Counted(l)'
    BY <1>1, <1>2, <2>4, CountDown
  <2> QED BY <1>1, <1>3, <2>1, <2>2, <2>5, SlotChange DEF SellPc
<1> QED BY <1>6, <1>7

\* A buy returned: its slot is that of the position it made.
LEMMA BuysSlot ==
    ASSUME IInv, SlotInv, NEW c \in Call, UNCHANGED restarts, PrimaryBuys(c) \/ SwingBuys(c)
    PROVE  SlotInv'
<1>1. PICK k \in {Primary, SwingV2}, next \in {"persist", "swingPersist"} :
        Buys(c, k, next) /\ call[c].pc = BuyPc(k)
  BY BuyPlaces DEF PrimaryBuys, SwingBuys, At, Lane
<1> DEFINE s == PositionOf("BOUGHT", call[c].mint, k, TRUE)
<1>2. k \in Lane /\ call[c].pc \in {"buy", "swingBuy"}
  BY <1>1, BuyPlaces DEF Lane
<1>3. PICK x \in Position :
        /\ pos[x].state = "none" /\ pos' = [pos EXCEPT ![x] = s]
        /\ call' = [call EXCEPT ![c] = [call[c] EXCEPT !.pc = next, !.pos = x]]
        /\ UNCHANGED <<canary, closeMutex>>
  BY <1>1, FreshIsNone DEF Buys, IInv, Typed, CallState
<1>4. s \in LanePosition /\ s.state = "BOUGHT" /\ s.slot /\ s.lane = k
  BY <1>2 DEF PositionOf, LanePosition, PositionState, IInv, Typed, CallState
<1> DEFINE r == [call[c] EXCEPT !.pc = next, !.pos = x]
<1>5. r \in CallState /\ r.pc = next /\ call' = [call EXCEPT ![c] = r]
  BY <1>3 DEF IInv, Typed, CallState, SignalPc
<1> HIDE DEF r, s
<1>6. /\ pos[x].state = "none" /\ pos' = [pos EXCEPT ![x] = s] /\ pos'[x] = s
      /\ UNCHANGED <<canary, closeMutex>>
  BY <1>3 DEF IInv, Typed
<1>7. MutexInv'
  BY <1>2, <1>6, <1>5, MutexStays DEF IInv, SlotInv, ClosePc
<1>8. ASSUME NEW l \in Lane PROVE Held(l)' = Held(l)
  <2>1. /\ Held(l) \in Nat
        /\ Held(l)' = Held(l) + Unit(r.pc = BuyPc(l)) - Unit(call[c].pc = BuyPc(l))
                              + Unit(Holder(x, l))' - Unit(Holder(x, l))
    <3>1. /\ Typed /\ call[c].pc # "persistClose" /\ r.pc # "persistClose"
          /\ c \in Call /\ r \in CallState /\ x \in Position /\ s \in LanePosition /\ l \in Lane
          /\ call' = [call EXCEPT ![c] = r] /\ pos' = [pos EXCEPT ![x] = s]
      BY <1>2, <1>4, <1>5, <1>6 DEF IInv
    <3> QED BY ONLY <3>1, HeldChange
  <2>2. Unit(r.pc = BuyPc(l)) = 0 /\ Unit(call[c].pc = BuyPc(l)) = Unit(l = k)
    <3>1. r.pc # BuyPc(l) /\ (call[c].pc = BuyPc(l) <=> l = k)
      BY <1>1, <1>2, <1>5, BuyPlaces
    <3> QED BY <3>1 DEF Unit
  <2>3. Unit(Holder(x, l)) = 0
    <3>1. ~Closing(x)
      BY <1>6, ClosingIsClosed
    <3> QED BY <1>6, <3>1 DEF Holder, SlotHolders, Unit
  <2>4. Unit(Holder(x, l))' = Unit(l = k)
    BY <1>4, <1>6 DEF Holder, SlotHolders, Unit
  <2>5. Unit(l = k) \in {0, 1}
    BY DEF Unit
  <2> QED BY <2>1, <2>2, <2>3, <2>4, <2>5
<1>9. canary' \in [Lane -> Nat] /\ \A l \in Lane : Counted(l)'
  BY <1>6, <1>8, CountSame
<1> QED BY <1>2, <1>6, <1>4, <1>5, <1>7, <1>9, SlotChange DEF SellPc

\* A bought position opens; its slot stays, and the arm of swing-v2 may take one.
LEMMA OpensSlot ==
    ASSUME IInv, SlotInv, NEW c \in Call, UNCHANGED restarts,
           \/ \E recorded, swing \in BOOLEAN : PrimaryOpens(c, recorded, swing)
           \/ \E recorded \in BOOLEAN : SwingOpens(c, recorded)
    PROVE  SlotInv'
<1>1. PICK pc \in {"swingBuy", "tail"} :
        /\ call' = [call EXCEPT ![c].pc = pc, ![c].pos = NoPosition]
        /\ pos' = Opened(call[c].pos) /\ UNCHANGED closeMutex
        /\ canary' = IF pc = "swingBuy" THEN Acquired(SwingV2) ELSE canary
        /\ call[c].pc \in {"persist", "swingPersist"}
  BY DEF PrimaryOpens, SwingOpens, At
<1>2. PICK x \in Position : /\ x = call[c].pos /\ call[c] \in CallState
                            /\ pos[x].state = "BOUGHT" /\ pos[x] \in LanePosition
  BY <1>1 DEF IInv, Typed, CallOK
<1> DEFINE r == [call[c] EXCEPT !.pc = pc, !.pos = NoPosition]
           s == [pos[x] EXCEPT !.state = "PROBE"]
<1>3. r \in CallState /\ r.pc = pc /\ call' = [call EXCEPT ![c] = r]
  BY <1>1, <1>2 DEF IInv, Typed, CallState, SignalPc
<1>4. /\ s \in LanePosition /\ s.state = "PROBE" /\ s.slot = pos[x].slot /\ s.lane = pos[x].lane
      /\ pos' = [pos EXCEPT ![x] = s]
  BY <1>1, <1>2 DEF Opened, IInv, Typed, LanePosition, PositionState
<1>5. pos[x].state = "BOUGHT"
  BY <1>2
<1> HIDE DEF r, s
<1>6. pos'[x] = s
  BY <1>4, <1>5 DEF IInv, Typed
<1>7. MutexInv'
  BY <1>1, <1>3, MutexStays DEF IInv, SlotInv, ClosePc
<1>8. ASSUME NEW l \in Lane
      PROVE  Held(l) \in Nat /\ Held(l)' = Held(l) + Unit(r.pc = BuyPc(l))
  <2>1. /\ Held(l) \in Nat
        /\ Held(l)' = Held(l) + Unit(r.pc = BuyPc(l)) - Unit(call[c].pc = BuyPc(l))
                              + Unit(Holder(x, l))' - Unit(Holder(x, l))
    <3>1. /\ Typed /\ call[c].pc # "persistClose" /\ r.pc # "persistClose"
          /\ c \in Call /\ r \in CallState /\ x \in Position /\ s \in LanePosition /\ l \in Lane
          /\ call' = [call EXCEPT ![c] = r] /\ pos' = [pos EXCEPT ![x] = s]
      BY <1>1, <1>3, <1>4, <1>5 DEF IInv
    <3> QED BY ONLY <3>1, HeldChange
  <2>2. Unit(call[c].pc = BuyPc(l)) = 0
    <3>1. call[c].pc # BuyPc(l)
      BY <1>1, BuyPlaces
    <3> QED BY <3>1 DEF Unit
  <2>3. Holder(x, l)' <=> Holder(x, l)
    <3> SUFFICES x \in SlotHolders(l)' <=> x \in SlotHolders(l)
      BY DEF Holder
    <3>1. x \in SlotHolders(l) <=> pos[x].slot /\ pos[x].lane = l
      BY <1>5 DEF SlotHolders
    <3>2. x \in SlotHolders(l)' <=> s.slot /\ s.lane = l
      BY <1>4, <1>5, <1>6 DEF SlotHolders
    <3> QED BY <1>4, <3>1, <3>2
  <2>4. Unit(Holder(x, l))' = Unit(Holder(x, l)) /\ Unit(Holder(x, l)) \in {0, 1}
    BY <2>3 DEF Unit
  <2>5. Unit(r.pc = BuyPc(l)) \in {0, 1}
    BY DEF Unit
  <2> QED BY <2>1, <2>2, <2>4, <2>5
<1>9. canary' \in [Lane -> Nat] /\ \A l \in Lane : Counted(l)'
  <2>1. CASE pc = "swingBuy"
    <3>1. \A l \in Lane : r.pc = BuyPc(l) <=> l = SwingV2
      BY <1>3, <2>1, BuyPlaces
    <3>2. \A l \in Lane : Unit(r.pc = BuyPc(l)) = Unit(l = SwingV2)
      BY <3>1 DEF Unit
    <3>3. SwingV2 \in Lane /\ canary' = Acquired(SwingV2)
      BY <1>1, <2>1 DEF Lane
    <3> QED BY <1>8, <3>2, <3>3, CountUp
  <2>2. CASE pc = "tail"
    <3>1. \A l \in Lane : Unit(r.pc = BuyPc(l)) = 0
      <4>1. \A l \in Lane : r.pc # BuyPc(l)
        BY <1>3, <2>2, BuyPlaces
      <4> QED BY <4>1 DEF Unit
    <3>2. \A l \in Lane : Held(l)' = Held(l)
      BY <1>8, <3>1
    <3> QED BY <1>1, <2>2, <3>2, CountSame
  <2> QED BY <2>1, <2>2
<1>10. restarts = 0 => s.slot
  BY <1>4, <1>5 DEF SlotInv
<1> QED BY <1>3, <1>4, <1>5, <1>7, <1>9, <1>10, SlotChange DEF SellPc

\* The entry of a stalked position is given up, made, or fails.
LEMMA ProbeSlot ==
    ASSUME IInv, SlotInv, NEW c \in Call, NEW landed \in BOOLEAN, UNCHANGED restarts,
           ProbeRejected(c) \/ ProbeBuys(c) \/ ProbeBuyThrows(c, landed)
    PROVE  SlotInv'
<1>1. call[c].pc \in BeforeBuy
  BY DEF ProbeRejected, ProbeBuys, ProbeBuyThrows, At, BeforeBuy
<1>2. PICK x \in Position :
        /\ x = call[c].pos /\ call[c] \in CallState /\ pos[x] \in LanePosition
          /\ pos[x].lane = Migration /\ pos[x].state \in {"STALK", "REJECT"}
  BY <1>1 DEF IInv, Typed, CallOK
<1>3. PICK r \in CallState, s \in LanePosition :
        /\ call' = [call EXCEPT ![c] = r] /\ pos' = [pos EXCEPT ![x] = s]
        /\ UNCHANGED closeMutex /\ s.lane = Migration
        /\ \/ /\ call[c].pc = "survival" /\ r.pc = "idle" /\ canary' = canary
              /\ s.state = "REJECT"
           \/ /\ call[c].pc = "probeBuy" /\ r.pc = "probePersist" /\ canary' = canary
              /\ s.state = "PROBE" /\ s.slot
           \/ /\ call[c].pc = "probeBuy" /\ r.pc = "idle" /\ canary' = Released(Migration)
              /\ s.state = "REJECT"
  <2> DEFINE dropped == [pos[x] EXCEPT !.state = "REJECT"]
             bought == [pos[x] EXCEPT !.state = "PROBE", !.slot = TRUE]
             persists == [call[c] EXCEPT !.pc = "probePersist"]
  <2>1. /\ dropped \in LanePosition /\ dropped.state = "REJECT" /\ dropped.lane = Migration
        /\ Drops(x) => pos' = [pos EXCEPT ![x] = dropped]
    BY <1>2 DEF Drops, LanePosition, PositionState
  <2>2. /\ bought \in LanePosition /\ bought.state = "PROBE" /\ bought.slot /\ bought.lane = Migration
        /\ ProbeBuys(c) => pos' = [pos EXCEPT ![x] = bought]
    BY <1>2 DEF ProbeBuys, LanePosition, PositionState, IInv, Typed
  <2>3. /\ persists \in CallState /\ persists.pc = "probePersist"
        /\ ProbeBuys(c) => call' = [call EXCEPT ![c] = persists]
    BY <1>2 DEF ProbeBuys, Goto, CallState, ProbePc
  <2> HIDE DEF dropped, bought, persists
  <2>4. CASE ProbeRejected(c)
    BY <1>2, <2>1, <2>4, Consts DEF ProbeRejected, Gives, At
  <2>5. CASE ProbeBuys(c)
    BY <1>2, <2>2, <2>3, <2>5 DEF ProbeBuys, At
  <2>6. CASE ProbeBuyThrows(c, landed)
    BY <1>2, <2>1, <2>6, Consts DEF ProbeBuyThrows, Gives, At
  <2> QED BY <2>4, <2>5, <2>6
<1>4. pos'[x] = s
  BY <1>2, <1>3 DEF IInv, Typed
<1>5. MutexInv'
  BY <1>3, MutexStays DEF IInv, SlotInv, ClosePc
<1>6. ASSUME NEW l \in Lane
      PROVE  /\ Held(l) \in Nat
             /\ Held(l)' = Held(l) - Unit(call[c].pc = BuyPc(l)) + Unit(s.state = "PROBE" /\ l = Migration)
             /\ Unit(call[c].pc = BuyPc(l)) <= Held(l)
  <2>1. /\ Held(l) \in Nat
        /\ Held(l)' = Held(l) + Unit(r.pc = BuyPc(l)) - Unit(call[c].pc = BuyPc(l))
                              + Unit(Holder(x, l))' - Unit(Holder(x, l))
        /\ Unit(call[c].pc = BuyPc(l)) + Unit(Holder(x, l)) <= Held(l)
    <3>1. /\ Typed /\ call[c].pc # "persistClose" /\ r.pc # "persistClose"
          /\ c \in Call /\ r \in CallState /\ x \in Position /\ s \in LanePosition /\ l \in Lane
          /\ call' = [call EXCEPT ![c] = r] /\ pos' = [pos EXCEPT ![x] = s]
      BY <1>2, <1>3 DEF IInv
    <3> QED BY ONLY <3>1, HeldChange
  <2>2. Unit(r.pc = BuyPc(l)) = 0
    <3>1. r.pc # BuyPc(l)
      BY <1>3, BuyPlaces
    <3> QED BY <3>1 DEF Unit
  <2>3. ~Closing(x) /\ ~Closing(x)'
    <3>1. ~Closing(x)
      BY <1>2, ClosingIsClosed
    <3>2. \A d \in Call : At(d, "persistClose")' /\ call'[d].pos = x => d # c /\ call'[d] = call[d]
      BY <1>3 DEF At, IInv, Typed
    <3> QED BY <3>1, <3>2 DEF Closing, At
  <2>4. Unit(Holder(x, l)) = 0
    BY <1>2, <2>3 DEF Holder, SlotHolders, Unit
  <2>5. x \in SlotHolders(l)' <=> s.state = "PROBE" /\ l = Migration
    <3>1. x \in SlotHolders(l)' <=> s.slot /\ s.lane = l /\ s.state \in {"BOUGHT", "PROBE"}
      BY <1>2, <1>4, <2>3 DEF SlotHolders
    <3> QED BY <1>3, <3>1
  <2>6. Unit(Holder(x, l))' = Unit(s.state = "PROBE" /\ l = Migration)
    BY <2>5 DEF Holder, Unit
  <2>7. Unit(s.state = "PROBE" /\ l = Migration) \in {0, 1} /\ Unit(call[c].pc = BuyPc(l)) \in {0, 1}
    BY DEF Unit
  <2> QED BY <2>1, <2>2, <2>4, <2>6, <2>7
<1>7. \A l \in Lane : /\ call[c].pc = "survival" => Unit(call[c].pc = BuyPc(l)) = 0
                      /\ call[c].pc = "probeBuy" => Unit(call[c].pc = BuyPc(l)) = Unit(l = Migration)
                      /\ s.state = "REJECT" => Unit(s.state = "PROBE" /\ l = Migration) = 0
                      /\ s.state = "PROBE" => Unit(s.state = "PROBE" /\ l = Migration) = Unit(l = Migration)
                      /\ Unit(l = Migration) \in {0, 1}
  BY BuyPlaces DEF Unit
<1>8. canary' \in [Lane -> Nat] /\ \A l \in Lane : Counted(l)'
  <2>1. CASE canary' = canary /\ \A l \in Lane : Held(l)' = Held(l)
    BY <2>1, CountSame
  <2>2. CASE canary' = Released(Migration) /\ call[c].pc = "probeBuy" /\ s.state = "REJECT"
    <3>1. \A l \in Lane : /\ Held(l) \in Nat /\ Held(l)' = Held(l) - Unit(l = Migration)
                          /\ Unit(l = Migration) <= Held(l)
      BY <1>6, <1>7, <2>2
    <3>2. Migration \in Lane
      BY DEF Lane
    <3> QED BY <2>2, <3>1, <3>2, CountDown
  <2>3. \/ canary' = canary /\ \A l \in Lane : Held(l)' = Held(l)
        \/ canary' = Released(Migration) /\ call[c].pc = "probeBuy" /\ s.state = "REJECT"
    <3>1. CASE call[c].pc = "survival" /\ canary' = canary /\ s.state = "REJECT"
      BY <1>6, <1>7, <3>1
    <3>2. CASE call[c].pc = "probeBuy" /\ canary' = canary /\ s.state = "PROBE"
      BY <1>6, <1>7, <3>2
    <3> QED BY <1>3, <3>1, <3>2
  <2> QED BY <2>1, <2>2, <2>3
<1>9. pos[x].state # "PROBE" /\ r.pc \notin SellPc
  BY <1>2, <1>3 DEF SellPc
<1>10. s.state \in {"BOUGHT", "PROBE", "CLOSED"} => s.slot
  BY <1>3
<1> QED BY <1>2, <1>3, <1>5, <1>8, <1>9, <1>10, SlotChange

\* The trade of a close ends: its position keeps the slot until the row is written, or gives
\* it back at once.
LEMMA EndsSlot ==
    ASSUME IInv, SlotInv, NEW c \in Call, UNCHANGED restarts,
           call[c].pc \in {"balance", "sold"},
           pos' = [pos EXCEPT ![call[c].pos].state = "CLOSED"],
           \/ Goto(c, "persistClose") /\ UNCHANGED <<canary, closeMutex>>
           \/ Unlocks(c) /\ canary' = Released(pos[call[c].pos].lane)
    PROVE  SlotInv'
<1>1. PICK x \in Position : /\ x = call[c].pos /\ call[c] \in CallState /\ pos[x] \in LanePosition
                            /\ pos[x].state = "PROBE" /\ Holds(c)
  BY DEF IInv, Typed, CallOK, SlotInv, MutexInv, SellPc, ClosePc
<1> DEFINE s == [pos[x] EXCEPT !.state = "CLOSED"]
<1>2. /\ s \in LanePosition /\ s.state = "CLOSED" /\ s.slot = pos[x].slot /\ s.lane = pos[x].lane
      /\ pos' = [pos EXCEPT ![x] = s]
  BY <1>1 DEF LanePosition, PositionState, IInv, Typed
<1>3. PICK r \in CallState :
        /\ call' = [call EXCEPT ![c] = r]
        /\ \/ r.pc = "persistClose" /\ r.pos = x /\ UNCHANGED <<canary, closeMutex>>
           \/ r = IdleCall /\ closeMutex' = Tail(closeMutex) /\ canary' = Released(s.lane)
  <2> DEFINE q == [call[c] EXCEPT !.pc = "persistClose"]
  <2>1. /\ q \in CallState /\ q.pc = "persistClose" /\ q.pos = x
        /\ Goto(c, "persistClose") => call' = [call EXCEPT ![c] = q]
    BY <1>1 DEF Goto, CallState, ClosePc
  <2> HIDE DEF q, s
  <2> QED BY <1>1, <1>2, <2>1, Consts DEF Unlocks
<1> HIDE DEF s
<1>4. pos'[x] = s /\ call'[c] = r /\ \A d \in Call : d # c => call'[d] = call[d]
  BY <1>2, <1>3 DEF IInv, Typed
<1>5. MutexInv'
  <2>1. CASE r.pc = "persistClose"
    BY <1>1, <1>3, <2>1, Consts, MutexStays DEF IInv, SlotInv, ClosePc
  <2>2. CASE r = IdleCall
    BY <1>1, <1>3, <2>2, Consts, MutexLeaves DEF IInv, SlotInv
  <2> QED BY <1>3, <2>1, <2>2
<1>6. Closing(x)' <=> r.pc = "persistClose"
  <2>1. \A d \in Call : d # c => ~At(d, "persistClose")
    BY <1>1, OneCloser DEF SlotInv, At, ClosePc
  <2>2. \A d \in Call : d # c => ~At(d, "persistClose")'
    BY <1>4, <2>1 DEF At
  <2>3. At(c, "persistClose")' <=> r.pc = "persistClose"
    BY <1>4 DEF At
  <2> QED BY <1>3, <1>4, <2>2, <2>3, Consts DEF Closing
<1>7. ASSUME NEW l \in Lane
      PROVE  /\ Held(l) \in Nat
             /\ Held(l)' = Held(l) - Unit(r = IdleCall /\ s.slot /\ s.lane = l)
             /\ Unit(r = IdleCall /\ s.slot /\ s.lane = l) <= Held(l)
  <2>1. /\ Held(l) \in Nat
        /\ Held(l)' = Held(l) + Unit(r.pc = BuyPc(l)) - Unit(call[c].pc = BuyPc(l))
                              + Unit(Holder(x, l))' - Unit(Holder(x, l))
        /\ Unit(call[c].pc = BuyPc(l)) + Unit(Holder(x, l)) <= Held(l)
    <3>1. /\ Typed /\ call[c].pc # "persistClose" /\ (r.pc = "persistClose" => r.pos = x)
          /\ c \in Call /\ r \in CallState /\ x \in Position /\ s \in LanePosition /\ l \in Lane
          /\ call' = [call EXCEPT ![c] = r] /\ pos' = [pos EXCEPT ![x] = s]
      BY <1>2, <1>3, Consts DEF IInv
    <3> QED BY ONLY <3>1, HeldChange
  <2>2. Unit(r.pc = BuyPc(l)) = 0 /\ Unit(call[c].pc = BuyPc(l)) = 0
    <3>1. r.pc # BuyPc(l) /\ call[c].pc # BuyPc(l)
      BY <1>3, BuyPlaces, Consts
    <3> QED BY <3>1 DEF Unit
  <2>3. x \in SlotHolders(l) <=> s.slot /\ s.lane = l
    BY <1>1, <1>2 DEF SlotHolders
  <2>4. x \in SlotHolders(l)' <=> s.slot /\ s.lane = l /\ r.pc = "persistClose"
    BY <1>2, <1>4, <1>6 DEF SlotHolders
  <2>5. Unit(Holder(x, l)) - Unit(Holder(x, l))' = Unit(r = IdleCall /\ s.slot /\ s.lane = l)
    <3>1. r.pc = "persistClose" <=> r # IdleCall
      BY <1>3, Consts
    <3> QED BY <2>3, <2>4, <3>1 DEF Holder, Unit
  <2>6. /\ Unit(Holder(x, l)) \in {0, 1} /\ Unit(Holder(x, l))' \in {0, 1}
        /\ Unit(r = IdleCall /\ s.slot /\ s.lane = l) \in {0, 1}
    BY DEF Unit
  <2> QED BY <2>1, <2>2, <2>5, <2>6
<1>8. restarts = 0 => s.slot
  BY <1>1, <1>2 DEF SlotInv
<1>9. canary' \in [Lane -> Nat] /\ \A l \in Lane : Counted(l)'
  <2>1. CASE r.pc = "persistClose"
    <3>1. \A l \in Lane : Held(l)' = Held(l)
      <4>1. \A l \in Lane : Unit(r = IdleCall /\ s.slot /\ s.lane = l) = 0
        BY <2>1, Consts DEF Unit
      <4> QED BY <1>7, <4>1
    <3> QED BY <1>3, <2>1, <3>1, Consts, CountSame
  <2>2. CASE r = IdleCall /\ s.slot
    <3>1. \A l \in Lane : Unit(r = IdleCall /\ s.slot /\ s.lane = l) = Unit(l = s.lane)
      BY <2>2 DEF Unit
    <3>2. s.lane \in Lane /\ canary' = Released(s.lane)
      BY <1>2, <1>3, <2>2, Consts DEF LanePosition
    <3> QED BY <1>7, <3>1, <3>2, CountDown
  <2>3. CASE r = IdleCall /\ ~s.slot
    <3>1. \A l \in Lane : Held(l) \in Nat /\ Held(l)' = Held(l)
      <4>1. \A l \in Lane : Unit(r = IdleCall /\ s.slot /\ s.lane = l) = 0
        BY <2>3 DEF Unit
      <4> QED BY <1>7, <4>1
    <3>2. s.lane \in Lane /\ canary' = Released(s.lane) /\ restarts # 0
      BY <1>2, <1>3, <1>8, <2>3, Consts DEF LanePosition
    <3> QED BY <3>1, <3>2, CountForgotten
  <2> QED BY <1>3, <2>1, <2>2, <2>3
<1>10. r.pc \notin SellPc /\ call[c].pc \in SellPc
  BY <1>3, Consts DEF SellPc
<1>11. call' = [call EXCEPT ![c] = r] /\ restarts' = restarts
  BY <1>3
<1> QED BY <1>2, <1>5, <1>8, <1>9, <1>10, <1>11, SlotChange

\* The row of a closed position is written or not, and its slot given back.
LEMMA PersistedSlot ==
    ASSUME IInv, SlotInv, NEW c \in Call, UNCHANGED <<pos, restarts>>,
           call[c].pc = "persistClose", Unlocks(c), canary' = Released(pos[call[c].pos].lane)
    PROVE  SlotInv'
<1>1. PICK x \in Position : /\ x = call[c].pos /\ pos[x] \in LanePosition
                            /\ pos[x].state = "CLOSED" /\ Holds(c)
  BY DEF IInv, Typed, CallOK, SlotInv, MutexInv, ClosePc
<1>2. call' = [call EXCEPT ![c] = IdleCall] /\ closeMutex' = Tail(closeMutex)
  BY DEF Unlocks
<1>3. MutexInv'
  BY <1>1, <1>2, MutexLeaves DEF IInv, SlotInv
<1>4. pos' = [pos EXCEPT ![x] = pos[x]] /\ pos'[x] = pos[x]
  BY DEF IInv, Typed
<1>5. Closing(x) /\ ~Closing(x)'
  <2>1. \A d \in Call : d # c => ~At(d, "persistClose")
    BY OneCloser DEF SlotInv, At, ClosePc
  <2>2. \A d \in Call : ~At(d, "persistClose")'
    BY <1>2, <2>1, Consts DEF At, IInv, Typed
  <2> QED BY <1>1, <2>2 DEF Closing, At
<1>6. ASSUME NEW l \in Lane
      PROVE  /\ Held(l) \in Nat
             /\ Held(l)' = Held(l) - Unit(pos[x].slot /\ pos[x].lane = l)
             /\ Unit(pos[x].slot /\ pos[x].lane = l) <= Held(l)
  <2>1. /\ Held(l) \in Nat
        /\ Held(l)' = Held(l) + Unit(IdleCall.pc = BuyPc(l)) - Unit(call[c].pc = BuyPc(l))
                              + Unit(Holder(x, l))' - Unit(Holder(x, l))
        /\ Unit(call[c].pc = BuyPc(l)) + Unit(Holder(x, l)) <= Held(l)
    <3>1. PICK r \in CallState, s \in LanePosition :
            /\ r = IdleCall /\ call' = [call EXCEPT ![c] = r] /\ r.pc # "persistClose"
            /\ pos' = [pos EXCEPT ![x] = s]
      BY <1>1, <1>2, <1>4, Consts
    <3>2. Typed /\ (call[c].pc = "persistClose" => call[c].pos = x)
      BY <1>1 DEF IInv
    <3>3. /\ Held(l) \in Nat
          /\ Held(l)' = Held(l) + Unit(r.pc = BuyPc(l)) - Unit(call[c].pc = BuyPc(l))
                                + Unit(Holder(x, l))' - Unit(Holder(x, l))
          /\ Unit(call[c].pc = BuyPc(l)) + Unit(Holder(x, l)) <= Held(l)
      BY ONLY <3>1, <3>2, x \in Position, c \in Call, l \in Lane, HeldChange
    <3> QED BY <3>1, <3>3
  <2>2. Unit(IdleCall.pc = BuyPc(l)) = 0 /\ Unit(call[c].pc = BuyPc(l)) = 0
    <3>1. IdleCall.pc # BuyPc(l) /\ call[c].pc # BuyPc(l)
      BY BuyPlaces, Consts
    <3> QED BY <3>1 DEF Unit
  <2>3. Unit(Holder(x, l)) = Unit(pos[x].slot /\ pos[x].lane = l)
    <3>1. x \in SlotHolders(l) <=> pos[x].slot /\ pos[x].lane = l
      BY <1>5 DEF SlotHolders
    <3> QED BY <3>1 DEF Holder, Unit
  <2>4. Unit(Holder(x, l))' = 0
    BY <1>1, <1>4, <1>5 DEF Holder, SlotHolders, Unit
  <2>5. Unit(pos[x].slot /\ pos[x].lane = l) \in {0, 1}
    BY DEF Unit
  <2> QED BY <2>1, <2>2, <2>3, <2>4, <2>5
<1>7. canary' \in [Lane -> Nat] /\ \A l \in Lane : Counted(l)'
  <2>1. pos[x].lane \in Lane /\ canary' = Released(pos[x].lane)
    BY <1>1 DEF LanePosition
  <2>2. CASE pos[x].slot
    <3>1. \A l \in Lane : Unit(pos[x].slot /\ pos[x].lane = l) = Unit(l = pos[x].lane)
      BY <2>2 DEF Unit
    <3> QED BY <1>6, <2>1, <3>1, CountDown
  <2>3. CASE ~pos[x].slot
    <3>1. \A l \in Lane : Held(l) \in Nat /\ Held(l)' = Held(l)
      <4>1. \A l \in Lane : Unit(pos[x].slot /\ pos[x].lane = l) = 0
        BY <2>3 DEF Unit
      <4> QED BY <1>6, <4>1
    <3>2. restarts # 0
      BY <1>1, <2>3 DEF SlotInv
    <3> QED BY <2>1, <3>1, <3>2, CountForgotten
  <2> QED BY <2>2, <2>3
<1> QED BY <1>2, <1>3, <1>7, Consts, SlotCall DEF SellPc

\* An event of a new pool, or a stalked position that is given up, holds no slot.
LEMMA StalksSlot ==
    ASSUME IInv, SlotInv, UNCHANGED restarts,
           \/ \E m \in Mint : OnMigrationEvent(m)
           \/ \E p \in Position : MigrationRejects(p)
    PROVE  SlotInv'
<1>1. /\ UNCHANGED <<call, closeMutex, canary>>
      /\ \E x \in Position, s \in LanePosition :
            /\ pos' = [pos EXCEPT ![x] = s]
            /\ pos[x].state \in {"none", "STALK"} /\ s.state \in {"STALK", "REJECT"}
  <2>1. ASSUME NEW m \in Mint, OnMigrationEvent(m)
        PROVE  /\ UNCHANGED <<call, closeMutex, canary>>
               /\ \E x \in Position, s \in LanePosition :
                    /\ pos' = [pos EXCEPT ![x] = s]
                    /\ pos[x].state = "none" /\ s.state = "STALK"
    <3> DEFINE q == PositionOf("STALK", m, Migration, FALSE)
    <3>1. q \in LanePosition /\ q.state = "STALK"
      BY DEF PositionOf, LanePosition, PositionState, Lane
    <3>2. /\ Fresh \in Position /\ pos[Fresh].state = "none" /\ pos' = [pos EXCEPT ![Fresh] = q]
          /\ UNCHANGED <<call, closeMutex, canary>>
      BY <2>1, FreshIsNone DEF OnMigrationEvent
    <3> HIDE DEF q
    <3> QED BY <3>1, <3>2
  <2>2. ASSUME NEW p \in Position, MigrationRejects(p)
        PROVE  /\ UNCHANGED <<call, closeMutex, canary>>
               /\ \E x \in Position, s \in LanePosition :
                    /\ pos' = [pos EXCEPT ![x] = s]
                    /\ pos[x].state = "STALK" /\ s.state = "REJECT"
    <3> DEFINE q == [pos[p] EXCEPT !.state = "REJECT"]
    <3>1. q \in LanePosition /\ q.state = "REJECT" /\ pos' = [pos EXCEPT ![p] = q]
      BY <2>2 DEF MigrationRejects, Drops, IInv, Typed, LanePosition, PositionState
    <3>2. pos[p].state = "STALK" /\ UNCHANGED <<call, closeMutex, canary>>
      BY <2>2 DEF MigrationRejects, Stalked
    <3> HIDE DEF q
    <3> QED BY <3>1, <3>2
  <2> QED BY <2>1, <2>2
<1>2. PICK x \in Position, s \in LanePosition :
        /\ pos' = [pos EXCEPT ![x] = s]
        /\ pos[x].state \in {"none", "STALK"} /\ s.state \in {"STALK", "REJECT"}
  BY <1>1
<1>3. pos'[x] = s /\ \A p \in Position : p # x => pos'[p] = pos[p]
  BY <1>2 DEF IInv, Typed
<1>4. MutexInv'
  BY <1>1 DEF SlotInv, MutexInv, InMutex, Holds
<1>5. ASSUME NEW l \in Lane PROVE Held(l)' = Held(l)
  <2>1. \A p \in Position : Closing(p)' <=> Closing(p)
    BY <1>1 DEF Closing, At
  <2>2. ~Closing(x)
    BY <1>2, ClosingIsClosed
  <2>3. SlotHolders(l)' = SlotHolders(l)
    BY <1>2, <1>3, <2>1, <2>2 DEF SlotHolders
  <2>4. Buying(l)' = Buying(l)
    BY <1>1 DEF Buying, BuyPc
  <2> QED BY <2>3, <2>4 DEF Held
<1>6. canary' \in [Lane -> Nat] /\ \A l \in Lane : Counted(l)'
  BY <1>1, <1>5, CountSame
<1>7. \A c \in Call : call'[c].pc \in SellPc => pos'[call'[c].pos].state = "PROBE"
  <2>1. \A c \in Call : call[c].pc \in SellPc => call[c].pos \in Position
    BY DEF IInv, CallOK, SellPc, ClosePc
  <2> QED BY <1>1, <1>2, <1>3, <2>1 DEF SlotInv
<1>8. restarts' = 0 => \A p \in Position : pos'[p].state \in {"BOUGHT", "PROBE", "CLOSED"} => pos'[p].slot
  BY <1>2, <1>3 DEF SlotInv
<1> QED BY <1>4, <1>6, <1>7, <1>8 DEF SlotInv

\* A restart empties the guard: no lane counts too many.
LEMMA RestartSlot ==
    ASSUME IInv, SlotInv, restarts \in Nat,
           NEW pureWs, NEW closed, NEW migration, Restart(pureWs, migration, closed)
    PROVE  SlotInv'
<1>1. /\ call' = [c \in Call |-> IdleCall] /\ closeMutex' = <<>>
      /\ canary' = [l \in Lane |-> 0] /\ restarts' = restarts + 1
  BY DEF Restart
<1>2. MutexInv'
  <2>1. closeMutex' \in Seq(Call) /\ Len(closeMutex') = 0 /\ 1..Len(closeMutex') = {}
    BY <1>1
  <2> QED BY <1>1, <2>1, Consts DEF MutexInv, InMutex, ClosePc
<1>3. ASSUME NEW l \in Lane PROVE Counted(l)'
  <2>1. Held(l)' \in Nat
    <3>1. Buying(l)' \in SUBSET Call /\ SlotHolders(l)' \in SUBSET Position
      BY DEF Buying, SlotHolders
    <3>2. IsFiniteSet(Call) /\ IsFiniteSet(Position)
      BY WalletAssumption
    <3>3. Cardinality(Buying(l)') \in Nat /\ Cardinality(SlotHolders(l)') \in Nat
      BY <3>1, <3>2, FS_Subset, FS_CardinalityType
    <3> QED BY <3>3 DEF Held
  <2> QED BY <1>1, <2>1 DEF Counted
<1>4. \A c \in Call : call'[c].pc \notin SellPc
  BY <1>1, Consts DEF SellPc
<1> QED BY <1>1, <1>2, <1>3, <1>4 DEF SlotInv

-----------------------------------------------------------------------------
(* The theorems on slots and the mutex *)

\* The invariant of the slots, with what the bounds give.
SlotsInv ==
    /\ SlotInv
    /\ tracked \subseteq Position
    /\ restarts \in 0..MaxRestarts

LEMMA InitSlots == Init => SlotsInv
<1> SUFFICES ASSUME Init PROVE SlotsInv
  OBVIOUS
<1>1. /\ call = [c \in Call |-> IdleCall] /\ closeMutex = <<>> /\ canary = [l \in Lane |-> 0]
      /\ tracked = {} /\ restarts = 0 /\ \A p \in Position : pos[p].state = "none"
  BY DEF Init, WalletInit, PositionOf
<1>2. MutexInv
  BY <1>1, MutexEmpty
<1>3. ASSUME NEW l \in Lane PROVE Counted(l)
  <2>1. Buying(l) = {}
    BY <1>1, Consts, BuyPlaces DEF Buying
  <2>2. SlotHolders(l) = {}
    BY <1>1, Consts DEF SlotHolders, Closing, At
  <2>3. Cardinality({}) = 0
    BY FS_EmptySet
  <2>4. Held(l) = 0
    BY <2>1, <2>2, <2>3 DEF Held
  <2> QED BY <1>1, <2>4 DEF Counted
<1>4. \A c \in Call : call[c].pc \notin SellPc
  BY <1>1, Consts DEF SellPc
<1> QED BY <1>1, <1>2, <1>3, <1>4, RestartsAssumption DEF SlotsInv, SlotInv

\* The steps of the pure WS lane keep the slots.
LEMMA PureWsSlots ==
    ASSUME IInv, SlotInv, NEW c \in Call, PureWsStep(c), UNCHANGED restarts
    PROVE  SlotInv'
<1>1. CASE \/ \E m \in Mint : HandlePureWsSignal(c, m)
           \/ SignalRejected(c) \/ EntryReturns(c)
  BY <1>1, QuietEntry
<1>2. CASE AcquireSlot(c)
  BY <1>2, TakesStep
<1>3. CASE PrimaryBuys(c) \/ SwingBuys(c)
  BY <1>3, BuysSlot
<1>4. ASSUME NEW landed \in BOOLEAN, PrimaryBuyThrows(c, landed) \/ SwingBuyThrows(c, landed)
      PROVE  SlotInv'
  BY <1>4, BuyThrowsStep
<1>5. CASE \/ \E recorded, swing \in BOOLEAN : PrimaryOpens(c, recorded, swing)
           \/ \E recorded \in BOOLEAN : SwingOpens(c, recorded)
  BY <1>5, OpensSlot
<1>6. ASSUME NEW p \in Position, PureWsTick(c, p) PROVE SlotInv'
  BY <1>6, QuietRequest DEF PureWsTick
<1>7. CASE PureWsBalanceRead(c)
  <2>1. PICK pc \in {"sell", "sold"} :
          /\ call[c].pc = "balance" /\ UNCHANGED <<pos, canary, closeMutex>>
          /\ call' = [call EXCEPT ![c].seen = wallet[call[c].mint], ![c].pc = pc]
    BY <1>7 DEF PureWsBalanceRead, At
  <2> QED BY <2>1, BalanceSlot
<1>8. CASE PureWsClosed(c)
  BY <1>8, EndsSlot DEF PureWsClosed, At
<1>9. ASSUME NEW after, PureWsPersisted(c, after) PROVE SlotInv'
  BY <1>9, PersistedSlot DEF PureWsPersisted, At
<1> QED BY <1>1, <1>2, <1>3, <1>4, <1>5, <1>6, <1>7, <1>8, <1>9 DEF PureWsStep

\* The steps of the migration lane keep the slots.
LEMMA MigrationSlots ==
    ASSUME IInv, SlotInv, NEW c \in Call, MigrationStep(c), UNCHANGED restarts
    PROVE  SlotInv'
<1>1. CASE \/ \E p \in Position : MigrationReady(c, p)
           \/ \E recorded \in BOOLEAN : ProbeRecorded(c, recorded)
  BY <1>1, QuietEntry
<1>2. ASSUME NEW p \in Position, MigrationTick(c, p) PROVE SlotInv'
  BY <1>2, QuietRequest DEF MigrationTick
<1>3. CASE ProbeAcquires(c)
  BY <1>3, TakesStep
<1>4. ASSUME NEW landed \in BOOLEAN, ProbeRejected(c) \/ ProbeBuys(c) \/ ProbeBuyThrows(c, landed)
      PROVE  SlotInv'
  BY <1>4, ProbeSlot
<1>5. ASSUME MigrationEnds(c), MigrationClose(c), call[c].pc \in {"balance", "sold"} PROVE SlotInv'
  BY <1>5, EndsSlot DEF MigrationEnds, MigrationClose
<1>6. CASE MigrationBalanceRead(c)
  <2>1. CASE wallet[call[c].mint] = {}
    BY <1>5, <1>6, <2>1 DEF MigrationBalanceRead, At
  <2>2. CASE wallet[call[c].mint] # {}
    <3>1. /\ call[c].pc = "balance" /\ UNCHANGED <<pos, canary, closeMutex>>
          /\ call' = [call EXCEPT ![c].seen = wallet[call[c].mint], ![c].pc = "sell"]
      BY <1>6, <2>2 DEF MigrationBalanceRead, At
    <3> QED BY <3>1, BalanceSlot
  <2> QED BY <2>1, <2>2
<1>7. CASE MigrationClosed(c)
  BY <1>5, <1>7 DEF MigrationClosed, At
<1>8. ASSUME NEW done \in BOOLEAN, MigrationPersisted(c, done) PROVE SlotInv'
  BY <1>8, PersistedSlot DEF MigrationPersisted, MigrationClose, At
<1> QED BY <1>1, <1>2, <1>3, <1>4, <1>6, <1>7, <1>8 DEF MigrationStep

\* tracked and restarts keep to their bounds.
LEMMA StepBounds ==
    ASSUME IInv, tracked \subseteq Position, restarts \in 0..MaxRestarts, [Next]_vars
    PROVE  tracked' \subseteq Position /\ restarts' \in 0..MaxRestarts
<1>1. ASSUME NEW c \in Call, MigrationStep(c) PROVE tracked' \subseteq Position
  BY <1>1 DEF MigrationStep, MigrationReady, MigrationTick, ProbeRejected, ProbeAcquires, ProbeBuys,
     ProbeBuyThrows, ProbeRecorded, MigrationBalanceRead, MigrationClosed, MigrationEnds,
     MigrationPersisted, Drops
<1>2. ASSUME NEW m \in Mint, OnMigrationEvent(m) PROVE tracked' \subseteq Position
  BY <1>2, FreshIsNone DEF OnMigrationEvent
<1>3. ASSUME NEW p \in Position, MigrationRejects(p) PROVE tracked' \subseteq Position
  BY <1>3 DEF MigrationRejects, Drops
<1>4. ASSUME NEW pureWs, NEW closed, NEW migration \in SUBSET RowsOf(Migration),
             Restart(pureWs, migration, closed)
      PROVE  tracked' \subseteq Position /\ restarts' \in 0..MaxRestarts
  BY <1>4, RestartsAssumption DEF Restart, RowsOf
<1> QED BY <1>1, <1>2, <1>3, <1>4 DEF Next, vars

\* Every step keeps the slots.
LEMMA StepSlots == IInv /\ SlotsInv /\ [Next]_vars => SlotsInv'
<1> SUFFICES ASSUME IInv, SlotsInv, [Next]_vars PROVE SlotsInv'
  OBVIOUS
<1>1. SlotInv /\ restarts \in Nat
  BY DEF SlotsInv
<1>2. ASSUME UNCHANGED vars PROVE SlotInv'
  <2>1. UNCHANGED <<pos, call, closeMutex, canary, restarts>>
    BY <1>2 DEF vars
  <2>2. \A l \in Lane : Counted(l)'
    BY <1>1, <2>1 DEF SlotInv, Counted, Held, Buying, BuyPc, SlotHolders, Closing, At
  <2> QED BY <1>1, <2>1, <2>2 DEF SlotInv, MutexInv, InMutex, Holds
<1>3. ASSUME NEW c \in Call, PureWsStep(c), UNCHANGED restarts PROVE SlotInv'
  BY <1>1, <1>3, PureWsSlots
<1>4. ASSUME NEW c \in Call, MigrationStep(c), UNCHANGED restarts PROVE SlotInv'
  BY <1>1, <1>4, MigrationSlots
<1>5. ASSUME NEW c \in Call, CloseStep(c), UNCHANGED restarts PROVE SlotInv'
  BY <1>1, <1>5, QuietClose
<1>6. ASSUME \/ \E m \in Mint : OnMigrationEvent(m)
             \/ \E p \in Position : MigrationRejects(p),
             UNCHANGED restarts
      PROVE  SlotInv'
  BY <1>1, <1>6, StalksSlot
<1>7. ASSUME NEW pureWs \in SUBSET RowsOf(Primary),
             NEW closed \in SUBSET (RowsOf(Primary) \ pureWs),
             NEW migration \in SUBSET RowsOf(Migration), Restart(pureWs, migration, closed)
      PROVE  SlotInv'
  BY <1>1, <1>7, RestartSlot
<1>8. ASSUME Next PROVE SlotInv'
  BY <1>3, <1>4, <1>5, <1>6, <1>7, <1>8 DEF Next
<1>9. SlotInv'
  BY <1>2, <1>8
<1> QED BY <1>9, StepBounds DEF SlotsInv

LEMMA SpecSlots == Spec => [](IInv /\ SlotsInv)
BY InitIInv, StepIInv, InitSlots, StepSlots, PTL DEF Spec

\* For any number of mints, positions, calls and restarts: the canary guard counts what
\* the lanes buy and hold, neither too many nor, before a restart, too few.
THEOREM SlotsAreCounted == Spec => []SlotsCounted
<1>1. SlotsInv => SlotsCounted
  BY DEF SlotsInv, SlotInv, SlotsCounted, Counted, Held
<1> QED BY <1>1, SpecSlots, PTL

\* For any number of mints, positions, calls and restarts: types, and serializeClose's
\* queue holds the calls inside a close, each once.
THEOREM TypeCorrect == Spec => []TypeOK
<1>1. ASSUME IInv, SlotsInv PROVE TypeOK
  <2>1. ASSUME NEW c \in Call
        PROVE  Cardinality({i \in DOMAIN closeMutex : closeMutex[i] = c}) =
               IF call[c].pc \in ClosePc THEN 1 ELSE 0
    <3> DEFINE S == {i \in DOMAIN closeMutex : closeMutex[i] = c}
    <3>1. MutexInv /\ DOMAIN closeMutex = 1..Len(closeMutex)
      BY <1>1 DEF SlotsInv, SlotInv, MutexInv
    <3>2. CASE call[c].pc \in ClosePc
      <4>1. PICK i \in 1..Len(closeMutex) : closeMutex[i] = c
        BY <3>1, <3>2 DEF MutexInv, InMutex
      <4>2. S = {i}
        BY <3>1, <4>1 DEF MutexInv
      <4> QED BY <3>2, <4>2, FS_Singleton
    <3>3. CASE call[c].pc \notin ClosePc
      <4>1. S = {}
        BY <3>1, <3>3 DEF MutexInv, InMutex
      <4> QED BY <3>3, <4>1, FS_EmptySet
    <3> QED BY <3>2, <3>3
  <2>2. WalletTypeOK
    BY <1>1 DEF IInv, Typed, SlotsInv, SlotInv, MutexInv, WalletTypeOK
  <2>3. inflight \subseteq Mint /\ tracked \subseteq Position /\ restarts \in 0..MaxRestarts
    BY <1>1 DEF IInv, Typed, SlotsInv
  <2> QED BY <2>1, <2>2, <2>3, Zenon DEF TypeOK
<1> QED BY <1>1, SpecSlots, PTL

\* A close that waits its turn: any other call past its own wait is the one at the head.
OneCloseAtATime ==
    \A c, d \in Call :
        call[c].pc \in ClosePc \ {"queued"} /\ call[d].pc \in ClosePc \ {"queued"} => c = d

\* For any number of mints, positions and calls: between its first check and its return
\* no close of either lane overlaps another, over every await and every throw
\* (swapSerializer.ts serializeClose).
THEOREM ClosesSerialized == Spec => []OneCloseAtATime
<1>1. SlotsInv => OneCloseAtATime
  BY OneCloser DEF SlotsInv, SlotInv, OneCloseAtATime
<1> QED BY <1>1, SpecSlots, PTL

-----------------------------------------------------------------------------
(* What the pure WS lane recorded and still holds, it watches *)

\* A position with an OPEN row of the primary arm whose tokens are still in the wallet is one
\* that the ticks see: neither failed sales and inserts nor a restart lose sight of it
\* (pureWs/recovery.ts recoverPureWsOpenPositions, pureWs/close.ts).
RecordedIsWatched ==
    \A p \in Position : row[p] = Primary /\ ~Sold(p) => pos[p].state = "PROBE"

\* A step of a living process writes such a row only for a bought position, adds no
\* tokens to a recorded one, and ends its watch only by its close.
KeepsWatch(p) ==
    /\ row'[p] = Primary => row[p] = Primary \/ pos'[p].state \in {"PROBE", "CLOSED"}
    /\ row[p] = Primary /\ Sold(p) => Sold(p)'
    /\ row[p] = Primary /\ pos[p].state = "PROBE" => pos'[p].state \in {"PROBE", "CLOSED"}

\* A step that changes one position, without a row of the primary arm.
LEMMA WatchOthers ==
    ASSUME IInv, NEW x \in Position, NEW s, pos' = [pos EXCEPT ![x] = s], row' = row,
           \A m \in Mint : wallet'[m] \subseteq wallet[m] \cup {x}, row[x] = "none"
    PROVE  \A p \in Position : KeepsWatch(p)
<1> SUFFICES ASSUME NEW p \in Position PROVE KeepsWatch(p)
  OBVIOUS
<1>1. CASE p = x
  BY <1>1 DEF KeepsWatch, Primary
<1>2. CASE p # x
  <2>1. pos'[p] = pos[p] /\ pos[p].mint \in Mint
    BY <1>2 DEF IInv, Typed, LanePosition
  <2> QED BY <1>2, <2>1 DEF KeepsWatch, Sold
<1> QED BY <1>1, <1>2

\* A step that opens or closes one bought position, and whatever it writes to its row.
LEMMA WatchOne ==
    ASSUME IInv, NEW x \in Position, NEW s \in {"PROBE", "CLOSED"},
           pos' = [pos EXCEPT ![x].state = s], wallet' = wallet,
           \A p \in Position : p # x => row'[p] = row[p]
    PROVE  \A p \in Position : KeepsWatch(p)
<1> SUFFICES ASSUME NEW p \in Position PROVE KeepsWatch(p)
  OBVIOUS
<1>1. pos[p] \in LanePosition /\ pos[p].mint \in Mint /\ pos'[p].mint = pos[p].mint
  BY DEF IInv, Typed, LanePosition
<1>2. CASE p = x
  <2>1. pos'[p].state = s
    BY <1>1, <1>2 DEF IInv, Typed
  <2> QED BY <1>1, <2>1 DEF KeepsWatch, Sold
<1>3. CASE p # x
  <2>1. pos'[p] = pos[p] /\ row'[p] = row[p]
    BY <1>3 DEF IInv, Typed
  <2> QED BY <2>1 DEF KeepsWatch, Sold
<1> QED BY <1>2, <1>3

\* A step that touches no position, nor a row but of a bought one.
LEMMA WatchSame ==
    ASSUME IInv, NEW x, pos' = pos, x \in Position => pos[x].state \in {"PROBE", "CLOSED"},
           \A p \in Position : p # x => row'[p] = row[p],
           \A m \in Mint : wallet'[m] \subseteq wallet[m]
    PROVE  \A p \in Position : KeepsWatch(p)
<1> SUFFICES ASSUME NEW p \in Position PROVE KeepsWatch(p)
  OBVIOUS
<1>1. pos[p].mint \in Mint
  BY DEF IInv, Typed, LanePosition
<1>2. CASE p = x
  BY <1>1, <1>2 DEF KeepsWatch, Sold
<1>3. CASE p # x
  BY <1>1, <1>3 DEF KeepsWatch, Sold
<1> QED BY <1>2, <1>3

LEMMA EntryKeepsWatch ==
    ASSUME IInv, NEW c \in Call,
           \/ \E m \in Mint : HandlePureWsSignal(c, m)
           \/ SignalRejected(c) \/ AcquireSlot(c) \/ PrimaryBuys(c) \/ SwingBuys(c)
           \/ EntryReturns(c)
           \/ \E landed : PrimaryBuyThrows(c, landed) \/ SwingBuyThrows(c, landed)
           \/ \E recorded, swing : PrimaryOpens(c, recorded, swing)
           \/ \E recorded : SwingOpens(c, recorded)
           \/ \E p \in Position : MigrationReady(c, p)
           \/ ProbeRejected(c) \/ ProbeAcquires(c) \/ ProbeBuys(c)
           \/ \E landed : ProbeBuyThrows(c, landed)
           \/ \E recorded : ProbeRecorded(c, recorded)
    PROVE  \A p \in Position : KeepsWatch(p)
<1> USE DEF At
<1>c. CallOK(c) /\ call[c].mint \in Mint /\ pos \in [Position -> LanePosition]
      /\ wallet \in [Mint -> SUBSET Position] /\ \A p \in Position : PosOK(p)
  BY DEF IInv, Typed, CallState
<1>s. ASSUME pos' = pos, row' = row, wallet' = wallet PROVE \A p \in Position : KeepsWatch(p)
  BY <1>s, WatchSame, Consts
<1>f. FreshPositions # {} => Fresh \in Position /\ row[Fresh] = "none"
  BY <1>c, FreshIsNone DEF PosOK
<1>1. CASE \/ \E m \in Mint : HandlePureWsSignal(c, m)
           \/ SignalRejected(c) \/ AcquireSlot(c) \/ EntryReturns(c)
           \/ \E p \in Position : MigrationReady(c, p)
           \/ ProbeAcquires(c)
  BY <1>1, <1>s DEF HandlePureWsSignal, SignalRejected, AcquireSlot, EntryReturns, MigrationReady,
                    ProbeAcquires
<1>2. ASSUME NEW l, NEW pc, Buys(c, l, pc) PROVE \A p \in Position : KeepsWatch(p)
  <2>1. PICK x \in Position : x = Fresh /\ row[x] = "none"
    BY <1>2, <1>f DEF Buys
  <2>2. /\ pos' = [pos EXCEPT ![x] = PositionOf("BOUGHT", call[c].mint, l, TRUE)] /\ row' = row
        /\ wallet' = [wallet EXCEPT ![call[c].mint] = @ \cup {x}]
    BY <1>2, <2>1 DEF Buys
  <2>3. \A m \in Mint : wallet'[m] \subseteq wallet[m] \cup {x}
    BY <1>c, <2>2
  <2> QED BY <2>1, <2>2, <2>3, WatchOthers
<1>3. ASSUME NEW l, NEW landed, LandsUnknown(c, l, landed) PROVE \A p \in Position : KeepsWatch(p)
  <2>1. CASE ~landed
    BY <1>3, <1>s, <2>1 DEF LandsUnknown
  <2>2. CASE landed
    <3>1. PICK x \in Position : x = Fresh /\ row[x] = "none"
      BY <1>3, <1>f, <2>2 DEF LandsUnknown
    <3>2. /\ pos' = [pos EXCEPT ![x] = PositionOf("GONE", call[c].mint, l, FALSE)] /\ row' = row
          /\ wallet' = [wallet EXCEPT ![call[c].mint] = @ \cup {x}]
      BY <1>3, <2>2, <3>1 DEF LandsUnknown
    <3>3. \A m \in Mint : wallet'[m] \subseteq wallet[m] \cup {x}
      BY <1>c, <3>2
    <3> QED BY <3>1, <3>2, <3>3, WatchOthers
  <2> QED BY <2>1, <2>2
<1>4. ASSUME NEW recorded, call[c].pos \in Position, pos' = Opened(call[c].pos), wallet' = wallet,
             row' = Recorded(call[c].pos, recorded)
      PROVE  \A p \in Position : KeepsWatch(p)
  BY <1>4, WatchOne DEF Opened, Recorded, IInv, Typed
<1>5. ASSUME NEW recorded, NEW swing, PrimaryOpens(c, recorded, swing)
      PROVE  \A p \in Position : KeepsWatch(p)
  BY <1>4, <1>5, <1>c DEF PrimaryOpens, CallOK
<1>6. ASSUME NEW recorded, SwingOpens(c, recorded) PROVE \A p \in Position : KeepsWatch(p)
  BY <1>4, <1>6, <1>c DEF SwingOpens, CallOK
<1>7. ASSUME call[c].pc \in BeforeBuy, row' = row,
             \A m \in Mint : wallet'[m] \subseteq wallet[m] \cup {call[c].pos},
             NEW s, pos' = [pos EXCEPT ![call[c].pos] = s]
      PROVE  \A p \in Position : KeepsWatch(p)
  <2>1. call[c].pos \in Position /\ row[call[c].pos] = "none"
    BY <1>7, <1>c DEF CallOK, PosOK
  <2> QED BY <1>7, <2>1, WatchOthers
<1>8. CASE ProbeRejected(c)
  <2>1. pos' = [pos EXCEPT ![call[c].pos] = [pos[call[c].pos] EXCEPT !.state = "REJECT"]]
    BY <1>8, <1>c DEF ProbeRejected, Drops
  <2> QED BY <1>7, <1>8, <2>1 DEF ProbeRejected, BeforeBuy
<1>9. ASSUME NEW landed, ProbeBuyThrows(c, landed) PROVE \A p \in Position : KeepsWatch(p)
  <2>1. pos' = [pos EXCEPT ![call[c].pos] = [pos[call[c].pos] EXCEPT !.state = "REJECT"]]
    BY <1>9, <1>c DEF ProbeBuyThrows, Drops
  <2>2. \A m \in Mint : wallet'[m] \subseteq wallet[m] \cup {call[c].pos}
    BY <1>9, <1>c DEF ProbeBuyThrows
  <2> QED BY <1>7, <1>9, <2>1, <2>2 DEF ProbeBuyThrows, BeforeBuy
<1>10. CASE ProbeBuys(c)
  <2>1. pos' = [pos EXCEPT ![call[c].pos] = [pos[call[c].pos] EXCEPT !.state = "PROBE", !.slot = TRUE]]
    BY <1>10, <1>c DEF ProbeBuys
  <2>2. \A m \in Mint : wallet'[m] \subseteq wallet[m] \cup {call[c].pos}
    BY <1>10, <1>c DEF ProbeBuys
  <2> QED BY <1>7, <1>10, <2>1, <2>2 DEF ProbeBuys, BeforeBuy
<1>11. ASSUME NEW recorded, ProbeRecorded(c, recorded) PROVE \A p \in Position : KeepsWatch(p)
  <2>1. call[c].pos \in Position /\ pos[call[c].pos].state \in {"PROBE", "CLOSED"}
    BY <1>11, <1>c DEF ProbeRecorded, CallOK
  <2>2. \A p \in Position : p # call[c].pos => row'[p] = row[p]
    BY <1>11 DEF ProbeRecorded, IInv, Typed
  <2> QED BY <1>11, <2>1, <2>2, WatchSame DEF ProbeRecorded
<1> QED BY <1>1, <1>2, <1>3, <1>5, <1>6, <1>8, <1>9, <1>10, <1>11
        DEF PrimaryBuys, SwingBuys, PrimaryBuyThrows, SwingBuyThrows

LEMMA CloseKeepsWatch ==
    ASSUME IInv, NEW c \in Call,
           \/ \E p \in Position : RequestClose(c, p)
           \/ CloseStep(c)
           \/ PureWsBalanceRead(c) \/ PureWsClosed(c)
           \/ MigrationBalanceRead(c) \/ MigrationClosed(c)
           \/ \E after : PureWsPersisted(c, after)
           \/ \E done : MigrationPersisted(c, done)
    PROVE  \A p \in Position : KeepsWatch(p)
<1> USE DEF At
<1>c. CallOK(c) /\ wallet \in [Mint -> SUBSET Position]
  BY DEF IInv, Typed
<1>s. ASSUME pos' = pos, row' = row, \A m \in Mint : wallet'[m] \subseteq wallet[m]
      PROVE  \A p \in Position : KeepsWatch(p)
  BY <1>s, WatchSame, Consts
<1>1. CASE \E p \in Position : RequestClose(c, p)
  BY <1>1, <1>s DEF RequestClose
<1>2. CASE CloseStep(c)
  <2>1. pos' = pos /\ row' = row
    BY <1>2 DEF CloseStep, CloseBegins, SellSucceeds, CloseFails, CloseThrows
  <2>2. \A m \in Mint : wallet'[m] \subseteq wallet[m]
    BY <1>2, <1>c DEF CloseStep, CloseBegins, SellSucceeds, CloseFails, CloseThrows
  <2> QED BY <1>s, <2>1, <2>2
<1>3. CASE PureWsBalanceRead(c)
  BY <1>3, <1>s DEF PureWsBalanceRead
<1>e. ASSUME pos' = [pos EXCEPT ![call[c].pos].state = "CLOSED"], wallet' = wallet, row' = row,
             call[c].pc \in ClosePc
      PROVE  \A p \in Position : KeepsWatch(p)
  BY <1>c, <1>e, WatchOne DEF CallOK
<1>4. CASE PureWsClosed(c)
  BY <1>4, <1>e DEF PureWsClosed, ClosePc
<1>5. CASE MigrationClosed(c)
  BY <1>5, <1>e DEF MigrationClosed, MigrationEnds, ClosePc
<1>6. CASE MigrationBalanceRead(c)
  <2>1. CASE wallet[call[c].mint] = {}
    BY <1>6, <1>e, <2>1 DEF MigrationBalanceRead, MigrationEnds, ClosePc
  <2>2. CASE wallet[call[c].mint] # {}
    BY <1>6, <1>s, <2>2 DEF MigrationBalanceRead
  <2> QED BY <2>1, <2>2
<1>7. ASSUME call[c].pc = "persistClose", pos' = pos, wallet' = wallet,
             NEW v, row' = [row EXCEPT ![call[c].pos] = v]
      PROVE  \A p \in Position : KeepsWatch(p)
  <2>1. call[c].pos \in Position /\ pos[call[c].pos].state \in {"PROBE", "CLOSED"}
    BY <1>7, <1>c DEF CallOK, ClosePc
  <2>2. \A p \in Position : p # call[c].pos => row'[p] = row[p]
    BY <1>7 DEF IInv, Typed
  <2> QED BY <1>7, <2>1, <2>2, WatchSame
<1>8. ASSUME NEW after, PureWsPersisted(c, after) PROVE \A p \in Position : KeepsWatch(p)
  BY <1>7, <1>8 DEF PureWsPersisted
<1>9. ASSUME NEW done, MigrationPersisted(c, done) PROVE \A p \in Position : KeepsWatch(p)
  <2>1. row' = [row EXCEPT ![call[c].pos] = IF done THEN "CLOSED" ELSE row[call[c].pos]]
    BY <1>9 DEF MigrationPersisted
  <2> QED BY <1>7, <1>9, <2>1 DEF MigrationPersisted
<1> QED BY <1>1, <1>2, <1>3, <1>4, <1>5, <1>6, <1>8, <1>9

\* A recovery loads every row of the primary arm whose mint has a balance.
LEMMA RestartWatches ==
    ASSUME IInv, NEW pureWs \in SUBSET RowsOf(Primary),
           NEW closed \in SUBSET (RowsOf(Primary) \ pureWs),
           NEW migration \in SUBSET RowsOf(Migration), Restart(pureWs, migration, closed)
    PROVE  RecordedIsWatched'
<1> SUFFICES ASSUME NEW p \in Position, row'[p] = Primary, ~Sold(p)'
             PROVE  pos'[p].state = "PROBE"
  BY DEF RecordedIsWatched
<1> DEFINE loaded == pureWs \cup migration
<1>1. row[p] = Primary /\ wallet' = wallet
  BY DEF Restart, IInv, Typed, Primary
<1>2. pos'[p] = IF p \in loaded THEN PositionOf("PROBE", pos[p].mint, row[p], FALSE)
                ELSE IF pos[p].state = "none" THEN pos[p]
                ELSE PositionOf("GONE", pos[p].mint, pos[p].lane, FALSE)
  BY DEF Restart, Rehydrated
<1>3. pos'[p].mint = pos[p].mint
  BY <1>2 DEF PositionOf
<1>4. p \in pureWs
  BY <1>1, <1>3 DEF Restart, PureWsLoads, RowsOf, Sold
<1> QED BY <1>2, <1>4 DEF PositionOf

LEMMA StepWatches == IInv /\ RecordedIsWatched /\ [Next]_vars => RecordedIsWatched'
<1> SUFFICES ASSUME IInv, RecordedIsWatched, [Next]_vars PROVE RecordedIsWatched'
  OBVIOUS
<1>k. ASSUME \A p \in Position : KeepsWatch(p) PROVE RecordedIsWatched'
  <2> SUFFICES ASSUME NEW p \in Position, row'[p] = Primary, ~Sold(p)'
               PROVE  pos'[p].state = "PROBE"
    BY DEF RecordedIsWatched
  <2>1. PosOK(p)'
    BY StepIInv DEF IInv
  <2>2. pos'[p].state # "CLOSED"
    BY <2>1 DEF PosOK
  <2>3. row[p] = Primary => pos[p].state = "PROBE"
    BY <1>k DEF RecordedIsWatched, KeepsWatch
  <2> QED BY <1>k, <2>2, <2>3 DEF KeepsWatch
<1>1. CASE UNCHANGED vars
  BY <1>1 DEF vars, RecordedIsWatched, Sold
<1>2. ASSUME NEW c \in Call, PureWsStep(c) PROVE RecordedIsWatched'
  BY <1>2, <1>k, EntryKeepsWatch, CloseKeepsWatch DEF PureWsStep, PureWsTick
<1>3. ASSUME NEW c \in Call, MigrationStep(c) PROVE RecordedIsWatched'
  BY <1>3, <1>k, EntryKeepsWatch, CloseKeepsWatch DEF MigrationStep, MigrationTick
<1>4. ASSUME NEW c \in Call, CloseStep(c) PROVE RecordedIsWatched'
  BY <1>4, <1>k, CloseKeepsWatch
<1>5. ASSUME NEW m \in Mint, OnMigrationEvent(m) PROVE RecordedIsWatched'
  <2>1. PICK x \in Position : x = Fresh /\ pos[x].state = "none"
    BY <1>5, FreshIsNone DEF OnMigrationEvent
  <2>2. pos' = [pos EXCEPT ![x] = PositionOf("STALK", m, Migration, FALSE)] /\ UNCHANGED <<row, wallet>>
    BY <1>5, <2>1 DEF OnMigrationEvent
  <2>3. row[x] = "none"
    BY <2>1 DEF IInv, PosOK
  <2> QED BY <1>k, <2>2, <2>3, WatchOthers
<1>6. ASSUME NEW x \in Position, MigrationRejects(x) PROVE RecordedIsWatched'
  <2>1. pos' = [pos EXCEPT ![x] = [pos[x] EXCEPT !.state = "REJECT"]] /\ UNCHANGED <<row, wallet>>
    BY <1>6 DEF MigrationRejects, Drops, IInv, Typed
  <2>2. row[x] = "none"
    BY <1>6 DEF MigrationRejects, Stalked, IInv, PosOK
  <2> QED BY <1>k, <2>1, <2>2, WatchOthers
<1>7. ASSUME NEW pureWs \in SUBSET RowsOf(Primary),
             NEW closed \in SUBSET (RowsOf(Primary) \ pureWs),
             NEW migration \in SUBSET RowsOf(Migration), Restart(pureWs, migration, closed)
      PROVE  RecordedIsWatched'
  BY <1>7, RestartWatches
<1> QED BY <1>1, <1>2, <1>3, <1>4, <1>5, <1>6, <1>7 DEF Next

\* For any number of mints, positions, calls and restarts: tokens that have an OPEN row of
\* the primary arm are those of a position that ticks see and may close.
THEOREM RecordedWatched == Spec => []RecordedIsWatched
<1>1. Init => RecordedIsWatched
  <2> SUFFICES ASSUME Init, NEW p \in Position PROVE row[p] # Primary
    BY DEF RecordedIsWatched
  <2> QED BY DEF Init, WalletInit, Primary
<1> QED BY <1>1, StepWatches, SpecIInv, PTL DEF Spec

-----------------------------------------------------------------------------
(* The close mutex implements CloseSerializer *)

\* what a step does to the mutex and to the calls in it
Stays(c, r) ==
    /\ call' = [call EXCEPT ![c] = r] /\ closeMutex' = closeMutex
    /\ r.pc \in ClosePc \ {"queued"} <=> call[c].pc \in ClosePc \ {"queued"}

AsksFor(c, r) ==
    /\ call' = [call EXCEPT ![c] = r] /\ closeMutex' = Append(closeMutex, c)
    /\ call[c].pc = "idle" /\ r.pc = "queued"

LetIn(c, r) ==
    /\ call' = [call EXCEPT ![c] = r] /\ closeMutex' = closeMutex
    /\ call[c].pc = "queued" /\ r.pc = "balance" /\ Holds(c)

GoesOut(c) == Unlocks(c) /\ call[c].pc \in ClosePc /\ Holds(c)

Forgets == call' = [c \in Call |-> IdleCall] /\ closeMutex' = <<>>

CallPc == {"idle"} \cup SignalPc \cup ProbePc \cup ClosePc

MutexMove ==
    \/ \E c \in Call : GoesOut(c) \/ \E r \in CallState : Stays(c, r) \/ AsksFor(c, r) \/ LetIn(c, r)
    \/ Forgets
    \/ UNCHANGED <<call, closeMutex>>

\* A call that is inside holds the mutex, alone.
LEMMA InsideHolds ==
    ASSUME MutexInv
    PROVE  \A c \in Inside : Holds(c) /\ Inside = {c}
<1> SUFFICES ASSUME NEW c \in Inside PROVE Holds(c) /\ Inside = {c}
  OBVIOUS
<1>1. \A d \in Inside : Holds(d)
  BY DEF MutexInv, Inside
<1>2. \A d \in Inside : d = c
  BY <1>1 DEF Holds
<1> QED BY <1>1, <1>2

\* Each way of a step with the mutex is one of the serializer.
LEMMA MoveRefines ==
    ASSUME Typed, MutexInv, MutexMove
    PROVE  [Serializer!Next]_(Serializer!vars)
<1> DEFINE waiting == IF Inside = {} THEN closeMutex ELSE Tail(closeMutex)
<1>1. ASSUME NEW c \in Call, NEW r \in CallState, call' = [call EXCEPT ![c] = r]
      PROVE  Inside' = IF r.pc \in ClosePc \ {"queued"} THEN Inside \cup {c} ELSE Inside \ {c}
  <2>1. call'[c] = r /\ \A d \in Call : d # c => call'[d] = call[d]
    BY <1>1 DEF Typed
  <2> QED BY <2>1 DEF Inside
<1>2. ASSUME Inside' = Inside, closeMutex' = closeMutex
      PROVE  [Serializer!Next]_(Serializer!vars)
  BY <1>2 DEF Serializer!vars
<1>3. ASSUME NEW c \in Call, NEW r \in CallState, Stays(c, r)
      PROVE  [Serializer!Next]_(Serializer!vars)
  <2>1. Inside' = Inside
    BY <1>1, <1>3 DEF Stays, Inside
  <2> QED BY <1>2, <1>3, <2>1 DEF Stays
<1>4. ASSUME NEW c \in Call, NEW r \in CallState, AsksFor(c, r)
      PROVE  Serializer!Asks(c)
  <2>1. Inside' = Inside /\ c \notin Inside
    BY <1>1, <1>4 DEF AsksFor, Inside, ClosePc
  <2>2. closeMutex \in Seq(Call) /\ closeMutex' = Append(closeMutex, c) /\ ~InMutex(c)
    BY <1>4 DEF AsksFor, MutexInv, ClosePc
  <2>3. CASE Inside = {}
    BY <2>1, <2>2, <2>3 DEF Serializer!Asks, InMutex
  <2>4. CASE Inside # {}
    <3>1. closeMutex # <<>>
      BY <2>4, InsideHolds DEF Holds
    <3>2. /\ Tail(Append(closeMutex, c)) = Append(Tail(closeMutex), c)
          /\ Len(Tail(closeMutex)) = Len(closeMutex) - 1
          /\ \A i \in 1..Len(Tail(closeMutex)) : Tail(closeMutex)[i] = closeMutex[i + 1]
          /\ Tail(closeMutex) \in Seq(Call) /\ Len(closeMutex) \in Nat
      BY <2>2, <3>1, HeadTailProperties, HeadTailAppend
    <3>3. \A i \in DOMAIN Tail(closeMutex) : Tail(closeMutex)[i] # c
      <4> SUFFICES ASSUME NEW i \in 1..Len(Tail(closeMutex)) PROVE Tail(closeMutex)[i] # c
        BY <3>2
      <4>1. i + 1 \in 1..Len(closeMutex)
        BY <3>2
      <4> QED BY <2>2, <3>2, <4>1 DEF InMutex
    <3> QED BY <2>1, <2>2, <2>4, <3>2, <3>3 DEF Serializer!Asks
  <2> QED BY <2>3, <2>4
<1>5. ASSUME NEW c \in Call, NEW r \in CallState, LetIn(c, r)
      PROVE  Serializer!Enters(c)
  <2>1. c \notin Inside /\ Inside' = Inside \cup {c}
    BY <1>1, <1>5 DEF LetIn, Inside, ClosePc
  <2>2. Inside = {}
    BY <1>5, <2>1, InsideHolds DEF LetIn, Holds
  <2> QED BY <1>5, <2>1, <2>2 DEF LetIn, Holds, Serializer!Enters
<1>6. ASSUME NEW c \in Call, GoesOut(c)
      PROVE  Serializer!Passes(c) \/ Serializer!Returns(c)
  <2>1. Inside' = Inside \ {c}
    BY <1>1, <1>6, Consts DEF GoesOut, Unlocks, ClosePc
  <2>2. closeMutex' = Tail(closeMutex) /\ closeMutex # <<>> /\ Head(closeMutex) = c
    BY <1>6 DEF GoesOut, Unlocks, Holds
  <2>3. CASE c \in Inside
    <3>1. Inside = {c} /\ Inside' = {}
      BY <2>1, <2>3, InsideHolds
    <3> QED BY <2>2, <3>1 DEF Serializer!Returns
  <2>4. CASE c \notin Inside
    <3>1. Inside = {} /\ Inside' = {}
      BY <2>1, <2>2, <2>4, InsideHolds DEF Holds
    <3> QED BY <2>2, <3>1 DEF Serializer!Passes
  <2> QED BY <2>3, <2>4
<1>7. CASE Forgets
  <2>1. Inside' = {}
    BY <1>7, Consts DEF Forgets, Inside, ClosePc
  <2> QED BY <1>7, <2>1 DEF Forgets, Serializer!Next, Serializer!Restart
<1>8. CASE UNCHANGED <<call, closeMutex>>
  BY <1>2, <1>8 DEF Inside
<1> QED BY <1>3, <1>4, <1>5, <1>6, <1>7, <1>8 DEF MutexMove, Serializer!Next

\* A call that stays on its side of the mutex.
LEMMA CallStays ==
    ASSUME Typed, NEW c \in Call, NEW r \in CallState,
           call' = [call EXCEPT ![c] = r], closeMutex' = closeMutex,
           r.pc \in ClosePc \ {"queued"} <=> call[c].pc \in ClosePc \ {"queued"}
    PROVE  MutexMove
BY DEF MutexMove, Stays

\* A call that only changes its pc, on its side of the mutex.
LEMMA CallGoes ==
    ASSUME Typed, NEW c \in Call, NEW pc, Goto(c, pc), closeMutex' = closeMutex,
           pc \in CallPc, pc \in ClosePc \ {"queued"} <=> call[c].pc \in ClosePc \ {"queued"}
    PROVE  MutexMove
<1> DEFINE r == [call[c] EXCEPT !.pc = pc]
<1>1. r \in CallState /\ r.pc = pc
  BY DEF Typed, CallState, CallPc
<1>2. call' = [call EXCEPT ![c] = r]
  BY DEF Goto, Typed
<1> HIDE DEF r
<1> QED BY <1>1, <1>2, CallStays

\* A call that becomes idle and was in no close.
LEMMA CallGivesUp ==
    ASSUME Typed, NEW c \in Call, call' = [call EXCEPT ![c] = IdleCall], closeMutex' = closeMutex,
           call[c].pc \notin ClosePc
    PROVE  MutexMove
<1>1. IdleCall.pc \notin ClosePc
  BY Consts DEF ClosePc
<1> QED BY <1>1, Consts, CallStays

LEMMA LaneCloseMoves ==
    ASSUME IInv, MutexInv, NEW c \in Call,
           \/ \E p \in Position : RequestClose(c, p)
           \/ CloseStep(c)
           \/ PureWsBalanceRead(c) \/ PureWsClosed(c)
           \/ MigrationBalanceRead(c) \/ MigrationClosed(c)
           \/ \E after : PureWsPersisted(c, after)
           \/ \E done : MigrationPersisted(c, done)
    PROVE  MutexMove
<1> USE DEF At
<1>t. Typed /\ call[c] \in CallState /\ (call[c].pc \in ClosePc \ {"queued"} => Holds(c))
  BY DEF IInv, Typed, MutexInv
<1>u. ASSUME Unlocks(c), call[c].pc \in ClosePc, Holds(c) PROVE MutexMove
  BY <1>u DEF MutexMove, GoesOut
<1>1. ASSUME NEW p \in Position, RequestClose(c, p) PROVE MutexMove
  <2> DEFINE r == [IdleCall EXCEPT !.pc = "queued", !.pos = p, !.mint = pos[p].mint]
  <2>1. r \in CallState /\ r.pc = "queued"
    BY <1>t, Consts DEF Typed, LanePosition, CallState, ClosePc
  <2>2. AsksFor(c, r)
    BY <1>1, <2>1 DEF RequestClose, AsksFor
  <2> HIDE DEF r
  <2> QED BY <2>1, <2>2 DEF MutexMove
<1>2. CASE CloseBegins(c)
  <2>1. CASE Unlocks(c)
    BY <1>2, <1>u, <2>1 DEF CloseBegins, ClosePc
  <2>2. CASE ~Unlocks(c)
    <3> DEFINE r == [call[c] EXCEPT !.pc = "balance"]
    <3>1. r \in CallState /\ r.pc = "balance"
      BY <1>t DEF CallState, ClosePc
    <3>2. LetIn(c, r)
      BY <1>2, <2>2, <1>t, <3>1 DEF CloseBegins, Goto, LetIn
    <3> HIDE DEF r
    <3> QED BY <3>1, <3>2 DEF MutexMove
  <2> QED BY <2>1, <2>2
<1>3. CASE SellSucceeds(c)
  BY <1>3, <1>t, CallGoes DEF SellSucceeds, CallPc, ClosePc
<1>4. ASSUME NEW landed \in BOOLEAN, CloseThrows(c, landed) PROVE MutexMove
  BY <1>4, <1>t, CallGoes DEF CloseThrows, CallPc, ClosePc
<1>5. CASE CloseFails(c)
  BY <1>5, <1>t, <1>u DEF CloseFails, ClosePc
<1>6. ASSUME NEW pc \in {"sell", "sold"}, call[c].pc = "balance", closeMutex' = closeMutex,
             NEW seen \in SUBSET Position, call' = [call EXCEPT ![c].seen = seen, ![c].pc = pc]
      PROVE  MutexMove
  <2> DEFINE r == [call[c] EXCEPT !.seen = seen, !.pc = pc]
  <2>1. r \in CallState /\ r.pc = pc
    BY <1>t, <1>6 DEF CallState, ClosePc
  <2>2. call' = [call EXCEPT ![c] = r]
    BY <1>t, <1>6 DEF Typed
  <2> HIDE DEF r
  <2> QED BY <1>t, <1>6, <2>1, <2>2, CallStays DEF ClosePc
<1>7. wallet[call[c].mint] \in SUBSET Position
  BY <1>t DEF Typed, CallState
<1>8. CASE PureWsBalanceRead(c)
  BY <1>6, <1>7, <1>8 DEF PureWsBalanceRead
<1>9. CASE PureWsClosed(c)
  BY <1>9, <1>t, CallGoes DEF PureWsClosed, CallPc, ClosePc
<1>10. ASSUME MigrationEnds(c), call[c].pc \in {"balance", "sold"} PROVE MutexMove
  <2>1. CASE Unlocks(c)
    BY <1>10, <1>t, <1>u, <2>1 DEF ClosePc
  <2>2. CASE ~Unlocks(c)
    BY <1>10, <1>t, <2>2, CallGoes DEF MigrationEnds, CallPc, ClosePc
  <2> QED BY <2>1, <2>2
<1>11. CASE MigrationBalanceRead(c)
  <2>1. CASE wallet[call[c].mint] = {}
    BY <1>10, <1>11, <2>1 DEF MigrationBalanceRead
  <2>2. CASE wallet[call[c].mint] # {}
    BY <1>6, <1>7, <1>11, <2>2 DEF MigrationBalanceRead
  <2> QED BY <2>1, <2>2
<1>12. CASE MigrationClosed(c)
  BY <1>10, <1>12 DEF MigrationClosed
<1>13. ASSUME NEW after, PureWsPersisted(c, after) PROVE MutexMove
  BY <1>13, <1>t, <1>u DEF PureWsPersisted, ClosePc
<1>14. ASSUME NEW done, MigrationPersisted(c, done) PROVE MutexMove
  BY <1>14, <1>t, <1>u DEF MigrationPersisted, ClosePc
<1> QED BY <1>1, <1>2, <1>3, <1>4, <1>5, <1>8, <1>9, <1>11, <1>12, <1>13, <1>14 DEF CloseStep

LEMMA EntryMoves ==
    ASSUME IInv, NEW c \in Call,
           \/ \E m \in Mint : HandlePureWsSignal(c, m)
           \/ SignalRejected(c) \/ AcquireSlot(c) \/ PrimaryBuys(c) \/ SwingBuys(c)
           \/ EntryReturns(c)
           \/ \E landed : PrimaryBuyThrows(c, landed) \/ SwingBuyThrows(c, landed)
           \/ \E recorded, swing : PrimaryOpens(c, recorded, swing)
           \/ \E recorded : SwingOpens(c, recorded)
           \/ \E p \in Position : MigrationReady(c, p)
           \/ ProbeRejected(c) \/ ProbeAcquires(c) \/ ProbeBuys(c)
           \/ \E landed : ProbeBuyThrows(c, landed)
           \/ \E recorded : ProbeRecorded(c, recorded)
    PROVE  MutexMove
<1> USE DEF At
<1>t. Typed /\ call[c] \in CallState
  BY DEF IInv, Typed
<1>n. ASSUME NEW pc \in {"checks", "survival"}, NEW p \in Position \cup {NoPosition}, NEW m \in Mint,
             call[c].pc = "idle", closeMutex' = closeMutex,
             call' = [call EXCEPT ![c] = [IdleCall EXCEPT !.pc = pc, !.pos = p, !.mint = m]]
      PROVE  MutexMove
  <2> DEFINE r == [IdleCall EXCEPT !.pc = pc, !.pos = p, !.mint = m]
  <2>1. r \in CallState /\ r.pc = pc
    BY Consts DEF CallState, SignalPc, ProbePc
  <2> HIDE DEF r
  <2> QED BY <1>n, <1>t, <2>1, CallStays DEF r, ClosePc
<1>1. ASSUME NEW m \in Mint, HandlePureWsSignal(c, m) PROVE MutexMove
  <2>1. call' = [call EXCEPT ![c] = [IdleCall EXCEPT !.pc = "checks", !.pos = NoPosition, !.mint = m]]
    BY <1>1, Consts DEF HandlePureWsSignal, CallState
  <2> QED BY <1>1, <1>n, <2>1 DEF HandlePureWsSignal
<1>2. ASSUME NEW p \in Position, MigrationReady(c, p) PROVE MutexMove
  <2>1. pos[p].mint \in Mint
    BY <1>t DEF Typed, LanePosition
  <2> QED BY <1>2, <1>n, <2>1 DEF MigrationReady
<1>3. CASE SignalRejected(c) \/ EntryReturns(c) \/ ProbeRejected(c)
  BY <1>3, <1>t, CallGivesUp DEF SignalRejected, EntryReturns, ProbeRejected, Returns, Gives, ClosePc
<1>4. ASSUME NEW landed, PrimaryBuyThrows(c, landed) \/ ProbeBuyThrows(c, landed) PROVE MutexMove
  BY <1>4, <1>t, CallGivesUp DEF PrimaryBuyThrows, ProbeBuyThrows, LandsUnknown, Returns, Gives, ClosePc
<1>5. ASSUME NEW recorded, ProbeRecorded(c, recorded) PROVE MutexMove
  BY <1>5, <1>t, CallGivesUp DEF ProbeRecorded, Gives, ClosePc
<1>6. CASE AcquireSlot(c) \/ ProbeAcquires(c) \/ ProbeBuys(c)
  BY <1>6, <1>t, CallGoes DEF AcquireSlot, ProbeAcquires, ProbeBuys, CallPc, SignalPc, ProbePc, ClosePc
<1>7. ASSUME NEW landed, SwingBuyThrows(c, landed) PROVE MutexMove
  BY <1>7, <1>t, CallGoes DEF SwingBuyThrows, LandsUnknown, CallPc, SignalPc, ClosePc
<1>p. ASSUME NEW pc \in {"persist", "swingPersist", "swingBuy", "tail"}, NEW p \in Position \cup {NoPosition},
             call[c].pc \notin ClosePc, closeMutex' = closeMutex,
             call' = [call EXCEPT ![c].pc = pc, ![c].pos = p]
      PROVE  MutexMove
  <2> DEFINE r == [call[c] EXCEPT !.pc = pc, !.pos = p]
  <2>1. r \in CallState /\ r.pc = pc
    BY <1>t, <1>p DEF CallState, SignalPc
  <2>2. call' = [call EXCEPT ![c] = r]
    BY <1>t, <1>p DEF Typed
  <2> HIDE DEF r
  <2> QED BY <1>p, <1>t, <2>1, <2>2, CallStays DEF ClosePc
<1>8. ASSUME NEW l, NEW pc \in {"persist", "swingPersist"}, Buys(c, l, pc), call[c].pc \notin ClosePc
      PROVE  MutexMove
  <2>1. PICK f \in Position : f = Fresh
    BY <1>8, FreshIsNone DEF Buys
  <2>2. call' = [call EXCEPT ![c].pc = pc, ![c].pos = f] /\ closeMutex' = closeMutex
    BY <1>8, <2>1 DEF Buys
  <2> QED BY <1>8, <1>p, <2>2
<1>9. CASE PrimaryBuys(c) \/ SwingBuys(c)
  BY <1>8, <1>9 DEF PrimaryBuys, SwingBuys, ClosePc
<1>10. ASSUME NEW recorded, NEW swing, PrimaryOpens(c, recorded, swing) PROVE MutexMove
  <2> DEFINE pc == IF swing THEN "swingBuy" ELSE "tail"
  <2>1. /\ call[c].pc = "persist" /\ closeMutex' = closeMutex
        /\ call' = [call EXCEPT ![c].pc = pc, ![c].pos = NoPosition]
    BY <1>10 DEF PrimaryOpens
  <2>2. pc \in {"persist", "swingPersist", "swingBuy", "tail"}
    OBVIOUS
  <2> HIDE DEF pc
  <2> QED BY <1>p, <2>1, <2>2 DEF ClosePc
<1>11. ASSUME NEW recorded, SwingOpens(c, recorded) PROVE MutexMove
  BY <1>11, <1>p DEF SwingOpens, ClosePc
<1> QED BY <1>1, <1>2, <1>3, <1>4, <1>5, <1>6, <1>7, <1>9, <1>10, <1>11

LEMMA StepMoves ==
    ASSUME IInv, MutexInv, [Next]_vars
    PROVE  MutexMove
<1>1. CASE UNCHANGED vars
  BY <1>1 DEF vars, MutexMove
<1>2. ASSUME NEW c \in Call, PureWsStep(c) PROVE MutexMove
  BY <1>2, EntryMoves, LaneCloseMoves DEF PureWsStep, PureWsTick
<1>3. ASSUME NEW c \in Call, MigrationStep(c) PROVE MutexMove
  BY <1>3, EntryMoves, LaneCloseMoves DEF MigrationStep, MigrationTick
<1>4. ASSUME NEW c \in Call, CloseStep(c) PROVE MutexMove
  BY <1>4, LaneCloseMoves
<1>5. CASE \/ \E m \in Mint : OnMigrationEvent(m)
           \/ \E p \in Position : MigrationRejects(p)
  BY <1>5 DEF OnMigrationEvent, MigrationRejects, MutexMove
<1>6. ASSUME NEW pureWs, NEW closed, NEW migration, Restart(pureWs, migration, closed) PROVE MutexMove
  BY <1>6 DEF Restart, MutexMove, Forgets
<1> QED BY <1>1, <1>2, <1>3, <1>4, <1>5, <1>6 DEF Next

\* For any number of mints, positions and calls, over both lanes, failing sales, positions found
\* closed and restarts: the promise chain lets the closes in one at a time, in the order in
\* which they were asked for (swapSerializer.ts serializeClose).
THEOREM ClosesKeepTurn == Spec => ClosesInTurn
<1>1. Init => Serializer!Init
  <2> SUFFICES ASSUME Init PROVE Serializer!Init
    OBVIOUS
  <2>1. call = [c \in Call |-> IdleCall] /\ closeMutex = <<>>
    BY DEF Init, WalletInit
  <2>2. Inside = {}
    BY <2>1, Consts DEF Inside, ClosePc
  <2> QED BY <2>1, <2>2 DEF Serializer!Init
<1>2. IInv /\ SlotsInv /\ [Next]_vars => [Serializer!Next]_(Serializer!vars)
  BY StepMoves, MoveRefines DEF IInv, SlotsInv, SlotInv
<1> QED BY <1>1, <1>2, SpecSlots, PTL DEF Spec, ClosesInTurn, Serializer!Spec
=============================================================================
