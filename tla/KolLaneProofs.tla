--------------------------- MODULE KolLaneProofs ---------------------------
(***************************************************************************)
(* Proofs about KolLane.  Rest says what each suspended call may assume of *)
(* its position: a close has it CLOSED and in the active map, a take or a  *)
(* reduce that has not sold yet has its mark in flight, and no mark is in  *)
(* flight without such a call.  HeldInv names who will sell the tokens of  *)
(* a mint, so that a close which did not see all of them is not the one.   *)
(***************************************************************************)
EXTENDS KolLane, FiniteSetTheorems, TLAPS

Busy(c) == call[c].kind # "idle"
Probing(c) == call[c].pc \in {"probe", "sell"}

KindPc == [idle |-> {"none"}, close |-> {"probe", "sell", "confirm", "persist"},
           take |-> {"probe", "sell", "append"},
           reduce |-> {"probe", "sell", "append", "fallback"}]

CallShape(c) ==
    /\ call[c].pc \in KindPc[call[c].kind]
    /\ Busy(c) => call[c].pos \in Position /\ pos[call[c].pos].state # "none"

CloseInv(c) ==
    call[c].kind = "close" =>
        LET p == call[c].pos IN
        /\ p \in active /\ pos[p].state = "CLOSED" /\ pos[p].take # "inFlight"
        /\ call[c].prev \in LaneTState \ {"CLOSED"}
        /\ call[c].retain => call[c].prev = "PROBE"
        /\ call[c].prev = "PROBE" => pos[p].take = "no"

TakeInv(c) ==
    call[c].kind = "take" =>
        LET p == call[c].pos IN
        /\ Probing(c) => pos[p].take = "inFlight"
        /\ ~Probing(c) => pos[p].take = "done" \/ p \notin active

Apart(c, d) ==
    (c # d /\ call[c].kind = call[d].kind /\ call[c].pos = call[d].pos) =>
        /\ call[c].kind # "close"
        /\ call[c].kind = "take" => ~(Probing(c) /\ Probing(d))

PosInv(p) ==
    /\ pos[p].state = "none" => row[p] = "none" /\ pos[p].reduce = "no"
    /\ pos[p].state = "PROBE" => pos[p].take = "no"
    /\ p \in active => pos[p].state # "none"
    /\ p \notin active => /\ pos[p].state \in {"none", "CLOSED"}
                          /\ pos[p].take # "inFlight" /\ ~pos[p].deferred

MarkInv(p) ==
    /\ (p \in active /\ pos[p].state = "CLOSED") =>
           \E c \in Call : call[c].kind = "close" /\ call[c].pos = p
    /\ pos[p].take = "inFlight" =>
           \E c \in Call : call[c].kind = "take" /\ call[c].pos = p /\ Probing(c)
    /\ pos[p].reduce = "inFlight" =>
           \E c \in Call : call[c].kind = "reduce" /\ call[c].pos = p /\ Probing(c)

EntryInv(m) ==
    /\ entry[m].pc = "persist" =>
           LET p == entry[m].pos IN
           /\ p \in Position \ active /\ pos[p].state = "CLOSED"
           /\ pos[p].mint = m
           /\ \A c \in Call : Busy(c) => call[c].pos # p
    /\ entry[m].pc = "exit" =>
           LET p == entry[m].pos IN
           /\ p \in Position /\ pos[p].mint = m
           /\ entry[m].call \in Call
           /\ call[entry[m].call].kind = "close" /\ call[entry[m].call].pos = p

Rest ==
    /\ \A c \in Call : CallShape(c) /\ CloseInv(c) /\ TakeInv(c)
    /\ \A c, d \in Call : Apart(c, d)
    /\ \A p \in Position : PosInv(p) /\ MarkInv(p)
    /\ \A m \in Mint : EntryInv(m)

\* p will sell what the wallet holds: it is not being closed, or the close has not
\* sold, read at least that balance or leaves a tail
Responsible(p) ==
    \A c \in CallsOn(p, "close") :
        \/ call[c].retain \/ call[c].pc \in {"probe", "confirm"}
        \/ call[c].pc = "sell" /\ call[c].seen >= Held(c)

Known(m) ==
    \/ m \in lost \/ entry[m].pc = "persist"
    \/ \E p \in ActiveOf(m) : Responsible(p)
    \/ \E p \in OpenRows \ active : MintOf(p) = m
HeldInv == \A m \in Mint : wallet[m] > 0 => Known(m)

IInv == TypeOK /\ Rest /\ HeldInv /\ NoSlotLeak

-----------------------------------------------------------------------------
(* Types *)

LEMMA Values ==
  /\ IdleCall \in CallState /\ NoEntry \in EntryState
  /\ "kol_hunter" \in EntryLane
  /\ \A state \in LaneTState \cup {"none"}, m \in Mint, l \in EntryLane :
         NewPosition(state, m, l) \in KolPosition
  BY DEF IdleCall, CallState, NoEntry, EntryState, EntryLane, NewPosition, KolPosition,
         LaneTState, Mark

LEMMA FreeCallIsIdle == IdleCalls # {} => FreeCall \in Call /\ call[FreeCall].kind = "idle"
  BY DEF FreeCall, IdleCalls

LEMMA FreshIsFresh == FreshPositions # {} => Fresh \in Position /\ pos[Fresh].state = "none"
  BY DEF Fresh, FreshPositions

\* the tokens that are left after a sale
LEMMA SpentType ==
  ASSUME wallet \in [Mint -> Nat], NEW m \in Mint, NEW amount \in Nat
  PROVE  /\ Spent(m, amount) \in [Mint -> Nat]
         /\ \A n \in Mint \ {m} : Spent(m, amount)[n] = wallet[n]
         /\ Spent(m, amount)[m] <= wallet[m]
         /\ amount >= wallet[m] => Spent(m, amount)[m] = 0
  BY DEF Spent, Lesser

LEMMA PartType == \A n \in Nat : Part(n) \in Nat
  BY DEF Part

LEMMA RequestedType ==
  ASSUME NEW q \in KolPosition
  PROVE  Requested(q) \in KolPosition
  BY DEF Requested, KolPosition, LaneTState

LEMMA CloseCallType ==
  ASSUME NEW p \in Position, NEW q \in KolPosition, NEW retain \in BOOLEAN
  PROVE  CloseCall(p, q, retain) \in CallState
  BY Values DEF CloseCall, CallState, IdleCall, KolPosition, LaneTState

LEMMA MarkedType ==
  ASSUME TypeOK, NEW c \in Call, call[c].pos \in Position, NEW mark \in Mark
  PROVE  Marked(c, mark) \in KolPosition
  BY DEF Marked, TypeOK, KolPosition

LEMMA SoldType ==
  ASSUME TypeOK, NEW c \in Call, call[c].pos \in Position
  PROVE  /\ pos[call[c].pos].mint \in Mint
         /\ Held(c) \in Nat
         /\ CloseAmount(c) \in Nat
         /\ Part(call[c].seen) \in Nat
         /\ \A n \in Nat : Sold(c, n) \in [Mint -> Nat]
  <1>1. pos[call[c].pos].mint \in Mint /\ call[c].seen \in Nat
    BY DEF TypeOK, KolPosition, CallState
  <1>2. Held(c) \in Nat /\ Part(call[c].seen) \in Nat /\ CloseAmount(c) \in Nat
    BY <1>1, PartType DEF Held, CloseAmount, TypeOK
  <1> QED BY <1>1, <1>2, SpentType DEF Sold, TypeOK

LEMMA TypeInit == Init => TypeOK
  BY Values DEF Init, TypeOK, LaneTState

LEMMA EntryType ==
  ASSUME TypeOK, NEW m \in Mint, Trigger(m) \/ EntryStep(m),
         \A n \in Mint : EntryInv(n)
  PROVE  TypeOK'
  <1> USE DEF TypeOK
  <1>1. CASE TriggerLive(m) \/ AdmissionRefused(m)
    BY <1>1 DEF TriggerLive, AdmissionRefused
  <1>2. CASE Enter(m)
    <2>1. \A l \in Sublane : [NoEntry EXCEPT !.pc = "quote", !.lane = l] \in EntryState
      BY Values DEF EntryState, NoEntry, EntryLane
    <2> QED BY <1>2, <2>1 DEF Enter
  <1>3. CASE EntryRejected(m)
    BY <1>3, Values DEF EntryRejected
  <1>4. CASE AcquireSlot(m)
    <2>1. entry[m].lane \in EntryLane
      BY DEF EntryState
    <2>2. Acquired(entry[m].lane) \in [EntryLane -> Nat]
      BY <2>1 DEF Acquired
    <2>3. [entry EXCEPT ![m].pc = "buy"] \in [Mint -> EntryState]
      BY DEF EntryState
    <2> QED BY <1>4, <2>2, <2>3 DEF AcquireSlot
  <1>5. CASE BuySucceeds(m)
    <2>1. Fresh \in Position
      BY <1>5, FreshIsFresh DEF BuySucceeds
    <2>2. [entry EXCEPT ![m].pc = "persist", ![m].pos = Fresh] \in [Mint -> EntryState]
      BY <2>1 DEF EntryState
    <2>3. NewPosition("CLOSED", m, entry[m].lane) \in KolPosition
      BY Values DEF EntryState, LaneTState
    <2>4. [wallet EXCEPT ![m] = @ + Bought] \in [Mint -> Nat]
      BY KolAssumption
    <2> QED BY <1>5, <2>1, <2>2, <2>3, <2>4 DEF BuySucceeds
  <1>6. CASE \E b \in BOOLEAN : BuyThrows(m, b)
    <2>1. entry[m].lane \in EntryLane
      BY DEF EntryState
    <2>2. Released(entry[m].lane) \in [EntryLane -> Nat]
      BY <2>1 DEF Released
    <2>3. [wallet EXCEPT ![m] = @ + Bought] \in [Mint -> Nat]
      BY KolAssumption
    <2> QED BY <1>6, <2>2, <2>3, Values DEF BuyThrows
  <1>7. ASSUME NEW b \in BOOLEAN, NEW state \in {"PROBE", "CLOSED"}, Opens(m, state, b)
        PROVE  /\ admitted' \subseteq Mint /\ pos' \in [Position -> KolPosition]
               /\ active' \subseteq Position /\ wallet' \in [Mint -> Nat]
               /\ row' \in [Position -> {"none", "OPEN", "CLOSED"}]
               /\ canary' \in [EntryLane -> Nat] /\ lost' \subseteq Mint /\ restarts' \in Nat
               /\ entry[m].pos \in Position
    <2>1. entry[m].pos \in Position /\ entry[m].lane \in EntryLane
      BY <1>7 DEF Opens, EntryInv, EntryState
    <2>2. NewPosition(state, m, entry[m].lane) \in KolPosition
      BY <2>1, Values DEF LaneTState
    <2> QED BY <1>7, <2>1, <2>2 DEF Opens
  <1>8. CASE \E b \in BOOLEAN : EntryOpens(m, b)
    BY <1>8, <1>7, Values DEF EntryOpens
  <1>9. CASE \E b \in BOOLEAN : EntryOpensAndExits(m, b)
    <2>1. PICK b \in BOOLEAN : EntryOpensAndExits(m, b)
      BY <1>9
    <2>2. FreeCall \in Call /\ entry[m].pos \in Position
      BY <2>1, <1>7, FreeCallIsIdle DEF EntryOpensAndExits
    <2>3. [IdleCall EXCEPT !.kind = "close", !.pc = "probe", !.pos = entry[m].pos,
                           !.prev = "PROBE"] \in CallState
      BY <2>2 DEF CallState, IdleCall, LaneTState
    <2>4. [entry[m] EXCEPT !.pc = "exit", !.call = FreeCall] \in EntryState
      BY <2>2 DEF EntryState
    <2>5. entry' \in [Mint -> EntryState] /\ call' \in [Call -> CallState]
      BY <2>1, <2>2, <2>3, <2>4 DEF EntryOpensAndExits
    <2> QED BY <2>1, <2>5, <1>7 DEF EntryOpensAndExits
  <1> QED BY <1>1, <1>2, <1>3, <1>4, <1>5, <1>6, <1>8, <1>9 DEF Trigger, EntryStep

LEMMA PositionType ==
  ASSUME TypeOK, NEW p \in Position, PositionStep(p)
  PROVE  TypeOK'
  <1> USE DEF TypeOK
  <1>0. pos[p] \in KolPosition
    OBVIOUS
  <1>1. CASE \E b \in BOOLEAN : RequestClose(p, b)
    BY <1>0, <1>1, FreeCallIsIdle, RequestedType, CloseCallType DEF RequestClose, entryVars
  <1>2. CASE Promote(p)
    <2>1. pos[p].state \in {"PROBE", "RUNNER_T1", "RUNNER_T2"}
      BY <1>2, KolAssumption DEF Promote
    <2>2. NextTier[pos[p].state] \in LaneTState
      BY <2>1 DEF NextTier, LaneTState
    <2>3. /\ [pos[p] EXCEPT !.state = NextTier[@]] \in KolPosition
          /\ [pos[p] EXCEPT !.state = NextTier[@], !.take = "inFlight"] \in KolPosition
      BY <1>0, <2>2 DEF KolPosition, Mark
    <2>4. [IdleCall EXCEPT !.kind = "take", !.pc = "probe", !.pos = p] \in CallState
      BY DEF IdleCall, CallState
    <2>5. CASE Takes(p)
      BY <1>2, <2>3, <2>4, <2>5, FreeCallIsIdle DEF Promote, entryVars
    <2>6. CASE ~Takes(p)
      BY <1>2, <2>3, <2>6 DEF Promote, entryVars
    <2> QED BY <2>5, <2>6
  <1>3. CASE StartReduce(p)
    <2>1. [pos[p] EXCEPT !.reduce = "inFlight"] \in KolPosition
      BY <1>0 DEF KolPosition, Mark
    <2>2. [IdleCall EXCEPT !.kind = "reduce", !.pc = "probe", !.pos = p] \in CallState
      BY DEF IdleCall, CallState
    <2> QED BY <1>3, <2>1, <2>2, FreeCallIsIdle DEF StartReduce, entryVars
  <1> QED BY <1>1, <1>2, <1>3 DEF PositionStep

LEMMA CallType ==
  ASSUME TypeOK, NEW c \in Call, CallStep(c), \A d \in Call : CallShape(d)
  PROVE  TypeOK'
  <1> DEFINE p == call[c].pos
  <1>1. call[c].kind # "idle"
    BY DEF CallStep, PartProbed, PartSold, PartAppended, FallsBackToClose, CloseProbed,
           CloseSold, ZeroConfirmed, CloseFails, PartThrows, CloseThrows, CloseFinishes, At
  <1>2. p \in Position /\ pos[p] \in KolPosition /\ call[c] \in CallState
    BY <1>1 DEF CallShape, Busy, TypeOK
  <1>3. /\ pos[p].mint \in Mint /\ Held(c) \in Nat
        /\ wallet' \in [Mint -> Nat]
    <2>1. /\ pos[p].mint \in Mint /\ Held(c) \in Nat
          /\ Sold(c, CloseAmount(c)) \in [Mint -> Nat]
          /\ Sold(c, Part(call[c].seen)) \in [Mint -> Nat]
      BY <1>2, SoldType
    <2> QED
      BY <2>1 DEF CallStep, PartProbed, PartSold, PartAppended, FallsBackToClose,
           CloseProbed, CloseSold, ZeroConfirmed, CloseFails, PartThrows, CloseThrows,
           CloseFinishes, TypeOK
  <1>4. \A mark \in Mark : Marked(c, mark) \in KolPosition
    BY <1>2, MarkedType
  <1>5. ASSUME NEW q \in KolPosition, Drain(c, q)
        PROVE  pos' \in [Position -> KolPosition] /\ call' \in [Call -> CallState]
    <2>1. [q EXCEPT !.deferred = FALSE] \in KolPosition
      BY DEF KolPosition
    <2>2. /\ Requested([q EXCEPT !.deferred = FALSE]) \in KolPosition
          /\ CloseCall(p, [q EXCEPT !.deferred = FALSE], FALSE) \in CallState
      BY <1>2, <2>1, RequestedType, CloseCallType
    <2> QED BY <1>2, <1>5, <2>2, Values DEF Drain, TypeOK
  <1>6. ASSUME NEW pc \in {"probe", "sell", "append", "fallback", "confirm", "persist"},
               NEW n \in Nat, NEW r \in BOOLEAN
        PROVE  [call[c] EXCEPT !.pc = pc, !.seen = n, !.retain = r] \in CallState
    BY <1>2 DEF CallState
  <1>7. pos' \in [Position -> KolPosition] /\ call' \in [Call -> CallState]
    <2>1. CASE PartProbed(c)
      <3>1. [call[c] EXCEPT !.pc = "sell", !.seen = Held(c)] \in CallState
        BY <1>2, <1>3 DEF CallState
      <3> QED BY <2>1, <3>1 DEF PartProbed, TypeOK
    <2>2. CASE PartSold(c)
      <3>1. [call[c] EXCEPT !.pc = "append", !.seen = 0] \in CallState
        BY <1>2 DEF CallState
      <3> QED BY <2>2, <3>1, <1>4 DEF PartSold, TypeOK, Mark
    <2>3. CASE PartAppended(c)
      BY <2>3, <1>2, <1>5, Values DEF PartAppended, TypeOK
    <2>4. CASE FallsBackToClose(c)
      BY <2>4, <1>2, RequestedType, CloseCallType DEF FallsBackToClose, TypeOK
    <2>5. CASE CloseProbed(c)
      <3> DEFINE r == call[c].retain /\ Held(c) > 0
      <3>1. r \in BOOLEAN
        OBVIOUS
      <3> HIDE DEF r
      <3>2. CASE Held(c) > 0
        <4>1. [call[c] EXCEPT !.seen = Held(c), !.pc = "sell", !.retain = r] \in CallState
          BY <1>2, <1>3, <3>1 DEF CallState
        <4>2. call' = [call EXCEPT ![c] = [call[c] EXCEPT !.seen = Held(c), !.pc = "sell",
                                                         !.retain = r]]
          BY <2>5, <3>2 DEF CloseProbed, r, TypeOK
        <4> QED BY <2>5, <4>1, <4>2 DEF CloseProbed, TypeOK
      <3>3. CASE ~(Held(c) > 0)
        <4>1. [call[c] EXCEPT !.seen = Held(c), !.pc = "persist", !.retain = r] \in CallState
          BY <1>2, <1>3, <3>1 DEF CallState
        <4>2. call' = [call EXCEPT ![c] = [call[c] EXCEPT !.seen = Held(c), !.pc = "persist",
                                                         !.retain = r]]
          BY <2>5, <3>3 DEF CloseProbed, r, TypeOK
        <4> QED BY <2>5, <4>1, <4>2 DEF CloseProbed, TypeOK
      <3> QED BY <3>2, <3>3
    <2>6. CASE CloseSold(c) \/ ZeroConfirmed(c)
      <3>1. /\ [call[c] EXCEPT !.pc = "persist", !.seen = 0] \in CallState
            /\ [call[c] EXCEPT !.pc = "persist"] \in CallState
        BY <1>2 DEF CallState
      <3> QED BY <2>6, <3>1 DEF CloseSold, ZeroConfirmed, TypeOK
    <2>7. CASE CloseFails(c)
      <3>1. [pos[p] EXCEPT !.state = call[c].prev] \in KolPosition
        BY <1>2 DEF KolPosition, CallState
      <3> QED BY <2>7, <3>1, <1>2, Values DEF CloseFails, TypeOK
    <2>8. CASE \E b \in BOOLEAN : PartThrows(c, b)
      <3>1. [call[c] EXCEPT !.pc = "fallback", !.seen = 0] \in CallState
        BY <1>2 DEF CallState
      <3>2. Marked(c, "no") \in KolPosition
        BY <1>4 DEF Mark
      <3> QED BY <2>8, <3>1, <3>2, <1>2, <1>5 DEF PartThrows, TypeOK
    <2>9. CASE \E b \in BOOLEAN : CloseThrows(c, b)
      <3>1. [call[c] EXCEPT !.pc = "confirm", !.seen = 0] \in CallState
        BY <1>2 DEF CallState
      <3> QED BY <2>9, <3>1 DEF CloseThrows, TypeOK
    <2>10. CASE \E b \in BOOLEAN : CloseFinishes(c, b)
      <3>1. /\ NewPosition("TAIL", pos[p].mint, pos[p].lane) \in KolPosition
            /\ NewPosition("CLOSED", pos[p].mint, "kol_hunter") \in KolPosition
        BY <1>2, Values DEF KolPosition, LaneTState
      <3>2. pos' \in [Position -> KolPosition]
        BY <2>10, <3>1, <1>2 DEF CloseFinishes, TypeOK
      <3>3. call' \in [Call -> CallState]
        BY <2>10, Values DEF CloseFinishes, TypeOK
      <3> QED BY <3>2, <3>3
    <2> QED
      BY <2>1, <2>2, <2>3, <2>4, <2>5, <2>6, <2>7, <2>8, <2>9, <2>10 DEF CallStep
  <1>8. entry' \in [Mint -> EntryState]
    <2>1. EntryAfter(c) \in [Mint -> EntryState]
      BY Values DEF EntryAfter, TypeOK
    <2> QED
      BY <2>1 DEF CallStep, PartProbed, PartSold, PartAppended, FallsBackToClose,
           CloseProbed, CloseSold, ZeroConfirmed, CloseFails, PartThrows, CloseThrows,
           CloseFinishes, TypeOK, entryVars
  <1>9. canary' \in [EntryLane -> Nat]
    <2>1. Released(pos[p].lane) \in [EntryLane -> Nat]
      BY <1>2 DEF Released, TypeOK, KolPosition
    <2> QED
      BY <2>1 DEF CallStep, PartProbed, PartSold, PartAppended, FallsBackToClose,
           CloseProbed, CloseSold, ZeroConfirmed, CloseFails, PartThrows, CloseThrows,
           CloseFinishes, TypeOK
  <1>10. /\ admitted' \subseteq Mint /\ active' \subseteq Position
         /\ row' \in [Position -> {"none", "OPEN", "CLOSED"}]
         /\ lost' \subseteq Mint /\ restarts' \in Nat
    BY <1>2 DEF CallStep, PartProbed, PartSold, PartAppended, FallsBackToClose,
           CloseProbed, CloseSold, ZeroConfirmed, CloseFails, PartThrows, CloseThrows,
           CloseFinishes, TypeOK, entryVars
  <1> QED BY <1>3, <1>7, <1>8, <1>9, <1>10 DEF TypeOK

LEMMA RestartType ==
  ASSUME TypeOK, NEW loaded \in SUBSET Position, NEW closed \in SUBSET Position,
         Restart(loaded, closed)
  PROVE  TypeOK'
  <1>1. \A p \in Position : /\ NewPosition("PROBE", MintOf(p), "kol_hunter") \in KolPosition
                            /\ NewPosition("CLOSED", MintOf(p), "kol_hunter") \in KolPosition
    BY Values DEF TypeOK, KolPosition, MintOf, LaneTState
  <1>2. pos' \in [Position -> KolPosition]
    BY <1>1 DEF Restart, TypeOK
  <1>3. /\ entry' \in [Mint -> EntryState] /\ call' \in [Call -> CallState]
        /\ canary' \in [EntryLane -> Nat]
    BY Values DEF Restart
  <1> QED BY <1>2, <1>3 DEF Restart, TypeOK

LEMMA TypeStep ==
  ASSUME TypeOK, \A c \in Call : CallShape(c), \A m \in Mint : EntryInv(m), [Next]_vars
  PROVE  TypeOK'
  <1>1. CASE UNCHANGED vars
    BY <1>1 DEF vars, TypeOK, entryVars
  <1>2. CASE Next
    BY <1>2, EntryType, PositionType, CallType, RestartType DEF Next
  <1> QED BY <1>1, <1>2

-----------------------------------------------------------------------------
(* The marks and the calls *)

\* A step that touches one position p and calls that were idle or on p keeps the
\* invariant if it does so at p
LEMMA Frame ==
  ASSUME Rest, NEW p \in Position,
         \A c \in Call :
             \/ call'[c] = call[c]
             \/ /\ call[c].kind = "idle" \/ call[c].pos = p
                /\ call'[c] = IdleCall \/ (call'[c].kind # "idle" /\ call'[c].pos = p),
         \A r \in Position \ {p} :
             /\ pos'[r] = pos[r] /\ row'[r] = row[r] /\ (r \in active' <=> r \in active),
         \A c \in Call : (call'[c].kind # "idle" /\ call'[c].pos = p) =>
             (CallShape(c) /\ CloseInv(c) /\ TakeInv(c))',
         \A c, d \in Call :
             (/\ call'[c].kind # "idle" /\ call'[c].pos = p
              /\ call'[d].kind # "idle" /\ call'[d].pos = p) => Apart(c, d)',
         (PosInv(p) /\ MarkInv(p))',
         \A m \in Mint : EntryInv(m)'
  PROVE  Rest'
  <1>1. ASSUME NEW c \in Call, ~(call'[c].kind # "idle" /\ call'[c].pos = p)
        PROVE  \/ call'[c] = IdleCall
               \/ /\ call'[c] = call[c] /\ call[c].kind # "idle"
                  /\ call[c].pos \in Position \ {p}
               \/ call'[c].kind = "idle" /\ call'[c].pc = "none"
    BY <1>1 DEF Rest, CallShape, Busy, IdleCall, KindPc
  <1>2. ASSUME NEW c \in Call, ~(call'[c].kind # "idle" /\ call'[c].pos = p)
        PROVE  (CallShape(c) /\ CloseInv(c) /\ TakeInv(c))'
    <2>1. CASE call'[c].kind = "idle" /\ call'[c].pc = "none"
      BY <2>1 DEF CallShape, CloseInv, TakeInv, KindPc, Busy
    <2>2. CASE call'[c] = IdleCall
      BY <2>1, <2>2 DEF IdleCall
    <2>3. CASE /\ call'[c] = call[c] /\ call[c].kind # "idle"
               /\ call[c].pos \in Position \ {p}
      BY <2>3 DEF Rest, CallShape, CloseInv, TakeInv, Busy, Probing
    <2> QED BY <1>1, <1>2, <2>1, <2>2, <2>3
  <1>3. ASSUME NEW c \in Call, NEW d \in Call
        PROVE  Apart(c, d)'
    <2> SUFFICES ASSUME c # d, call'[c].kind = call'[d].kind, call'[c].pos = call'[d].pos
                 PROVE  /\ call'[c].kind # "close"
                        /\ call'[c].kind = "take" => ~(Probing(c)' /\ Probing(d)')
      BY DEF Apart
    <2>1. CASE call'[c].kind = "idle"
      BY <2>1
    <2>2. CASE call'[c].kind # "idle" /\ call'[c].pos = p
      BY <2>2 DEF Apart
    <2>3. CASE call'[c].kind # "idle" /\ call'[c].pos # p
      <3>1. call'[c] = call[c] /\ call'[d] = call[d]
        BY <1>1, <2>3 DEF IdleCall
      <3>2. Apart(c, d)
        BY DEF Rest
      <3> QED BY <3>1, <3>2 DEF Apart, Probing
    <2> QED BY <2>1, <2>2, <2>3
  <1>4. ASSUME NEW r \in Position \ {p}
        PROVE  (PosInv(r) /\ MarkInv(r))'
    <2>1. PosInv(r) /\ MarkInv(r)
      BY DEF Rest
    <2>2. PosInv(r)'
      BY <2>1 DEF PosInv
    <2>3. \A c \in Call : (call[c].kind # "idle" /\ call[c].pos = r) => call'[c] = call[c]
      OBVIOUS
    <2>4. MarkInv(r)'
      BY <2>1, <2>3 DEF MarkInv, Probing
    <2> QED BY <2>2, <2>4
  <1> QED BY <1>2, <1>3, <1>4 DEF Rest

\* An entry that is kept or gives up its position knows its own, which the step does
\* not touch
LEMMA EntryFrame ==
  ASSUME Rest, NEW p \in Position,
         p \in active \/ \E c \in Call : Busy(c) /\ call[c].pos = p,
         pos'[p].mint = pos[p].mint,
         \A c \in Call :
             \/ call'[c] = call[c]
             \/ /\ call[c].kind = "idle" \/ call[c].pos = p
                /\ call'[c] = IdleCall \/ (call'[c].kind # "idle" /\ call'[c].pos = p),
         \A r \in Position \ {p} :
             /\ pos'[r] = pos[r] /\ row'[r] = row[r] /\ (r \in active' <=> r \in active),
         \A m \in Mint : entry'[m] = entry[m] \/ entry'[m] = NoEntry,
         \A c \in Call :
             \/ call[c].kind # "close" \/ call'[c].kind = "close"
             \/ \A m \in Mint : ~(entry'[m].pc = "exit" /\ entry'[m].call = c)
  PROVE  \A m \in Mint : EntryInv(m)'
  <1> TAKE m \in Mint
  <1>1. CASE entry'[m] = NoEntry
    BY <1>1 DEF NoEntry, EntryInv
  <1>2. CASE entry'[m] = entry[m]
    <2>1. EntryInv(m)
      BY DEF Rest
    <2>2. CASE entry[m].pc = "persist"
      <3> DEFINE r == entry[m].pos
      <3>1. /\ r \in Position \ active /\ pos[r].state = "CLOSED" /\ pos[r].mint = m
            /\ \A c \in Call : Busy(c) => call[c].pos # r
        BY <2>1, <2>2 DEF EntryInv
      <3>2. r # p
        BY <3>1
      <3>3. r \in Position \ active' /\ pos'[r].state = "CLOSED" /\ pos'[r].mint = m
        BY <3>1, <3>2
      <3>4. \A c \in Call : Busy(c)' => call'[c].pos # r
        BY <3>1, <3>2 DEF Busy, IdleCall
      <3> QED BY <1>2, <2>2, <3>3, <3>4 DEF EntryInv
    <2>3. CASE entry[m].pc = "exit"
      <3> DEFINE r == entry[m].pos
                 e == entry[m].call
      <3>1. /\ r \in Position /\ pos[r].mint = m /\ e \in Call
            /\ call[e].kind = "close" /\ call[e].pos = r
        BY <2>1, <2>3 DEF EntryInv
      <3>2. call'[e].kind = "close"
        BY <1>2, <2>3, <3>1
      <3>3. call'[e].pos = r
        BY <3>1, <3>2 DEF IdleCall
      <3> QED BY <1>2, <2>3, <3>1, <3>2, <3>3 DEF EntryInv
    <2> QED BY <1>2, <2>2, <2>3 DEF EntryInv
  <1> QED BY <1>1, <1>2

\* A call that only moves on
LEMMA Advances ==
  ASSUME TypeOK, Rest, NEW c \in Call, Busy(c), NEW d,
         call' = [call EXCEPT ![c] = d],
         d.kind = call[c].kind /\ d.pos = call[c].pos /\ d.prev = call[c].prev,
         d.retain => call[c].retain,
         d.pc \in KindPc[d.kind],
         d.kind # "close" => (d.pc \in {"probe", "sell"} <=> Probing(c)),
         UNCHANGED <<pos, active, row, entry>>
  PROVE  Rest'
  <1> DEFINE p == call[c].pos
  <1>1. p \in Position /\ pos[p].state # "none"
    BY DEF Rest, CallShape
  <1>2. call'[c] = d /\ \A e \in Call \ {c} : call'[e] = call[e]
    BY DEF TypeOK
  <1>3. CallShape(c) /\ CloseInv(c) /\ TakeInv(c)
    BY DEF Rest
  <1>4. (CallShape(c) /\ CloseInv(c) /\ TakeInv(c))'
    <2>1. CallShape(c)'
      BY <1>1, <1>2 DEF CallShape
    <2>2. CloseInv(c)'
      BY <1>2, <1>3 DEF CloseInv
    <2>3. TakeInv(c)'
      BY <1>2, <1>3 DEF TakeInv, Probing
    <2> QED BY <2>1, <2>2, <2>3
  <1>5. ASSUME NEW e \in Call
        PROVE  (CallShape(e) /\ CloseInv(e) /\ TakeInv(e))'
    <2>1. CASE e = c
      BY <1>4, <2>1
    <2>2. CASE e # c
      BY <1>2, <2>2 DEF Rest, CallShape, CloseInv, TakeInv, Busy, Probing
    <2> QED BY <2>1, <2>2
  <1>6. ASSUME NEW a \in Call, NEW b \in Call
        PROVE  Apart(a, b)'
    <2>1. Apart(a, b)
      BY DEF Rest
    <2>2. \A e \in Call : call'[e].kind = call[e].kind /\ call'[e].pos = call[e].pos
      BY <1>2
    <2>3. \A e \in Call : call[e].kind # "close" => (Probing(e)' <=> Probing(e))
      BY <1>2 DEF Probing
    <2> QED BY <2>1, <2>2, <2>3 DEF Apart
  <1>7. ASSUME NEW r \in Position
        PROVE  (PosInv(r) /\ MarkInv(r))'
    <2>1. PosInv(r) /\ MarkInv(r)
      BY DEF Rest
    <2>2. \A e \in Call : /\ call'[e].kind = call[e].kind /\ call'[e].pos = call[e].pos
                          /\ call[e].kind # "close" => (Probing(e)' <=> Probing(e))
      BY <1>2 DEF Probing
    <2>3. PosInv(r)'
      BY <2>1 DEF PosInv
    <2>4. MarkInv(r)'
      BY <2>1, <2>2 DEF MarkInv
    <2> QED BY <2>3, <2>4
  <1>8. ASSUME NEW m \in Mint
        PROVE  EntryInv(m)'
    BY <1>2 DEF Rest, EntryInv, Busy
  <1> QED BY <1>5, <1>6, <1>7, <1>8 DEF Rest

LEMMA AdvanceKeeps ==
  ASSUME TypeOK, Rest, NEW c \in Call,
         \/ PartProbed(c) \/ CloseProbed(c) \/ CloseSold(c) \/ ZeroConfirmed(c)
         \/ \E b \in BOOLEAN : CloseThrows(c, b)
  PROVE  Rest'
  <1>0. call[c] \in CallState
    BY DEF TypeOK
  <1>1. CASE PartProbed(c)
    <2> DEFINE d == [call[c] EXCEPT !.pc = "sell", !.seen = Held(c)]
    <2>1. /\ d.kind = call[c].kind /\ d.pos = call[c].pos /\ d.prev = call[c].prev
          /\ (d.retain => call[c].retain) /\ d.pc = "sell" /\ call[c].pc = "probe"
          /\ call[c].kind \in {"take", "reduce"}
      BY <1>0, <1>1 DEF CallState, PartProbed, At
    <2>2. call' = [call EXCEPT ![c] = d] /\ UNCHANGED <<pos, active, row, entry>>
      BY <1>1 DEF PartProbed, entryVars
    <2> HIDE DEF d
    <2>6. /\ Busy(c) /\ d.pc \in KindPc[d.kind]
          /\ d.kind # "close" => (d.pc \in {"probe", "sell"} <=> Probing(c))
      BY <2>1, <2>2 DEF Busy, Probing, KindPc
    <2> QED BY <2>1, <2>2, <2>6, Advances
  <1>2. CASE CloseProbed(c)
    <2> DEFINE d == [call[c] EXCEPT !.seen = Held(c),
                                    !.pc = IF Held(c) > 0 THEN "sell" ELSE "persist",
                                    !.retain = @ /\ Held(c) > 0]
    <2>1. /\ d.kind = call[c].kind /\ d.pos = call[c].pos /\ d.prev = call[c].prev
          /\ d.retain = (call[c].retain /\ Held(c) > 0)
          /\ d.pc = IF Held(c) > 0 THEN "sell" ELSE "persist"
          /\ call[c].kind = "close"
      BY <1>0, <1>2 DEF CallState, CloseProbed, At
    <2>2. d.retain => call[c].retain
      BY <2>1
    <2>3. d.pc \in {"sell", "persist"}
      BY <2>1
    <2>4. call' = [call EXCEPT ![c] = d] /\ UNCHANGED <<pos, active, row, entry>>
      BY <1>2 DEF CloseProbed, entryVars
    <2>5. /\ d.kind = "close" /\ call[c].kind = "close"
          /\ d.pos = call[c].pos /\ d.prev = call[c].prev
      BY <2>1
    <2> HIDE DEF d
    <2>6. /\ Busy(c) /\ d.pc \in KindPc[d.kind]
          /\ d.kind # "close" => (d.pc \in {"probe", "sell"} <=> Probing(c))
      BY <2>2, <2>3, <2>4, <2>5 DEF Busy, Probing, KindPc
    <2> QED BY <2>2, <2>3, <2>4, <2>5, <2>6, Advances
  <1>3. CASE CloseSold(c)
    <2> DEFINE d == [call[c] EXCEPT !.pc = "persist", !.seen = 0]
    <2>1. /\ d.kind = call[c].kind /\ d.pos = call[c].pos /\ d.prev = call[c].prev
          /\ (d.retain => call[c].retain) /\ d.pc = "persist" /\ call[c].kind = "close"
      BY <1>0, <1>3 DEF CallState, CloseSold, At
    <2>2. call' = [call EXCEPT ![c] = d] /\ UNCHANGED <<pos, active, row, entry>>
      BY <1>3 DEF CloseSold, entryVars
    <2> HIDE DEF d
    <2>6. /\ Busy(c) /\ d.pc \in KindPc[d.kind]
          /\ d.kind # "close" => (d.pc \in {"probe", "sell"} <=> Probing(c))
      BY <2>1, <2>2 DEF Busy, Probing, KindPc
    <2> QED BY <2>1, <2>2, <2>6, Advances
  <1>4. CASE ZeroConfirmed(c)
    <2> DEFINE d == [call[c] EXCEPT !.pc = "persist"]
    <2>1. /\ d.kind = call[c].kind /\ d.pos = call[c].pos /\ d.prev = call[c].prev
          /\ (d.retain => call[c].retain) /\ d.pc = "persist" /\ call[c].kind = "close"
      BY <1>0, <1>4 DEF CallState, ZeroConfirmed, At
    <2>2. call' = [call EXCEPT ![c] = d] /\ UNCHANGED <<pos, active, row, entry>>
      BY <1>4 DEF ZeroConfirmed, entryVars
    <2> HIDE DEF d
    <2>6. /\ Busy(c) /\ d.pc \in KindPc[d.kind]
          /\ d.kind # "close" => (d.pc \in {"probe", "sell"} <=> Probing(c))
      BY <2>1, <2>2 DEF Busy, Probing, KindPc
    <2> QED BY <2>1, <2>2, <2>6, Advances
  <1>5. CASE \E b \in BOOLEAN : CloseThrows(c, b)
    <2> DEFINE d == [call[c] EXCEPT !.pc = "confirm", !.seen = 0]
    <2>1. /\ d.kind = call[c].kind /\ d.pos = call[c].pos /\ d.prev = call[c].prev
          /\ (d.retain => call[c].retain) /\ d.pc = "confirm" /\ call[c].kind = "close"
      BY <1>0, <1>5 DEF CallState, CloseThrows, At
    <2>2. call' = [call EXCEPT ![c] = d] /\ UNCHANGED <<pos, active, row, entry>>
      BY <1>5 DEF CloseThrows, entryVars
    <2> HIDE DEF d
    <2>6. /\ Busy(c) /\ d.pc \in KindPc[d.kind]
          /\ d.kind # "close" => (d.pc \in {"probe", "sell"} <=> Probing(c))
      BY <2>1, <2>2 DEF Busy, Probing, KindPc
    <2> QED BY <2>1, <2>2, <2>6, Advances
  <1> QED BY <1>1, <1>2, <1>3, <1>4, <1>5

\* A call that ends, or becomes the close that is asked for
LEMMA Settles ==
  ASSUME TypeOK, Rest, NEW c \in Call, NEW p \in Position,
         NEW q \in KolPosition, NEW retain \in BOOLEAN,
         call[c].kind # "close",
         call[c].kind # "idle" => call[c].pos = p,
         call[c].kind = "idle" => p \in active,
         call[c].kind = "reduce" => ~Probing(c),
         /\ q.state = pos[p].state /\ q.mint = pos[p].mint
         /\ q.reduce = pos[p].reduce /\ (q.deferred => pos[p].deferred),
         IF call[c].kind = "take" /\ Probing(c) THEN q.take = "no" ELSE q.take = pos[p].take,
         retain => q.state = "PROBE",
         \/ /\ pos' = [pos EXCEPT ![p] = Requested(q)]
            /\ call' = [call EXCEPT ![c] = CloseCall(p, q, retain)]
         \/ /\ pos' = [pos EXCEPT ![p] = q]
            /\ call' = [call EXCEPT ![c] = IdleCall],
         UNCHANGED <<active, row, entry>>
  PROVE  Rest'
  <1>1. /\ pos[p].state # "none" /\ PosInv(p) /\ MarkInv(p)
        /\ CallShape(c) /\ TakeInv(c)
    BY DEF Rest, CallShape, Busy, PosInv
  <1>2. (call[c].kind = "take" /\ Probing(c)) => pos[p].take = "inFlight" /\ p \in active
    BY <1>1 DEF TakeInv, PosInv
  <1>3. \A e \in Call \ {c} : call'[e] = call[e]
    BY DEF TypeOK
  <1>4. /\ \A r \in Position \ {p} : pos'[r] = pos[r]
        /\ pos'[p] \in {q, Requested(q)}
    BY DEF TypeOK
  <1>5. /\ pos'[p].mint = pos[p].mint /\ pos'[p].take = q.take
        /\ pos'[p].reduce = pos[p].reduce
        /\ pos'[p].state \in {pos[p].state, "CLOSED"}
        /\ pos[p].state = "CLOSED" => pos'[p].state = "CLOSED"
        /\ q.take = "inFlight" => pos'[p].state = pos[p].state
        /\ (q.take # "inFlight" /\ pos'[p].deferred) => pos[p].deferred
    BY <1>4 DEF Requested, KolPosition
  \* either a close starts, of an active position that had none, or nothing is left
  <1>6. \/ call'[c] = IdleCall /\ (pos[p].state = "CLOSED" \/ pos'[p].state # "CLOSED")
        \/ /\ call'[c].kind = "close" /\ call'[c].pos = p /\ call'[c].pc = "probe"
           /\ call'[c].prev = pos[p].state /\ (call'[c].retain => pos[p].state = "PROBE")
           /\ pos[p].state # "CLOSED" /\ q.take # "inFlight" /\ pos'[p].state = "CLOSED"
    <2>1. CASE StartsClose(q) /\ call' = [call EXCEPT ![c] = CloseCall(p, q, retain)]
               /\ pos' = [pos EXCEPT ![p] = Requested(q)]
      BY <2>1 DEF StartsClose, CloseCall, Requested, KolPosition, TypeOK, IdleCall
    <2>2. CASE ~StartsClose(q) /\ call' = [call EXCEPT ![c] = CloseCall(p, q, retain)]
               /\ pos' = [pos EXCEPT ![p] = Requested(q)]
      BY <2>2 DEF StartsClose, CloseCall, Requested, KolPosition, TypeOK
    <2>3. CASE call' = [call EXCEPT ![c] = IdleCall] /\ pos' = [pos EXCEPT ![p] = q]
      BY <2>3 DEF TypeOK
    <2> QED BY <2>1, <2>2, <2>3
  <1>7. \A e \in Call :
            (call[e].kind = "close" /\ call[e].pos = p) =>
                p \in active /\ pos[p].state = "CLOSED" /\ pos[p].take # "inFlight" /\ e # c
    BY DEF Rest, CloseInv
  <1>8. pos[p].state # "CLOSED" => p \in active /\ pos[p].state \in LaneTState
    BY <1>1 DEF PosInv, TypeOK, KolPosition
  <1>9. pos'[p].state # "none"
    BY <1>1, <1>5
  <1>10. ASSUME NEW e \in Call, call'[e].kind # "idle", call'[e].pos = p
         PROVE  (CallShape(e) /\ CloseInv(e) /\ TakeInv(e))'
    <2>1. CASE e = c
      <3>1. /\ call'[c].kind = "close" /\ call'[c].pos = p /\ call'[c].pc = "probe"
            /\ call'[c].prev = pos[p].state /\ (call'[c].retain => pos[p].state = "PROBE")
            /\ pos[p].state # "CLOSED" /\ q.take # "inFlight" /\ pos'[p].state = "CLOSED"
        BY <1>6, <1>10, <2>1 DEF IdleCall
      <3>2. pos[p].state = "PROBE" => q.take = "no"
        BY <1>1 DEF PosInv
      <3>3. CallShape(c)'
        BY <3>1, <1>9 DEF CallShape, KindPc
      <3>4. CloseInv(c)' /\ TakeInv(c)'
        BY <3>1, <3>2, <1>5, <1>8 DEF CloseInv, TakeInv
      <3> QED BY <2>1, <3>3, <3>4
    <2>2. CASE e # c
      <3>1. call'[e] = call[e] /\ call[e].pos = p /\ CallShape(e) /\ CloseInv(e) /\ TakeInv(e)
        BY <1>3, <1>10, <2>2 DEF Rest
      <3>2. CallShape(e)'
        BY <3>1, <1>9 DEF CallShape, Busy
      <3>3. CloseInv(e)'
        BY <3>1, <1>2, <1>5 DEF CloseInv
      <3>4. TakeInv(e)'
        <4> SUFFICES ASSUME call[e].kind = "take"
                     PROVE  TakeInv(e)'
          BY <3>1 DEF TakeInv
        <4>1. CASE call[c].kind = "take" /\ Probing(c)
          <5>1. ~Probing(e)
            BY <2>2, <3>1, <4>1, <1>10 DEF Rest, Apart
          <5> QED BY <5>1, <3>1, <4>1, <1>2 DEF TakeInv
        <4>2. CASE ~(call[c].kind = "take" /\ Probing(c))
          BY <3>1, <4>2, <1>5 DEF TakeInv, Probing
        <4> QED BY <4>1, <4>2
      <3> QED BY <3>2, <3>3, <3>4
    <2> QED BY <2>1, <2>2
  <1>11. ASSUME NEW a \in Call, NEW b \in Call, call'[a].kind # "idle", call'[a].pos = p,
                call'[b].kind # "idle", call'[b].pos = p
         PROVE  Apart(a, b)'
    <2>1. Apart(a, b)
      BY DEF Rest
    <2>2. CASE a # c /\ b # c
      BY <1>3, <2>1, <2>2 DEF Apart, Probing
    <2>3. CASE (a = c \/ b = c) /\ a # b
      <3>1. call'[c].kind = "close" /\ pos[p].state # "CLOSED"
        BY <1>6, <1>11, <2>3 DEF IdleCall
      <3>2. \A e \in Call \ {c} : call'[e].pos = p => call'[e].kind # "close"
        BY <1>3, <1>7, <3>1
      <3> QED BY <1>11, <2>3, <3>1, <3>2 DEF Apart
    <2> QED BY <2>2, <2>3 DEF Apart
  <1>12. PosInv(p)'
    <2>1. p \notin active => pos[p].state = "CLOSED" /\ q.take # "inFlight" /\ ~pos[p].deferred
      BY <1>1, <1>2 DEF PosInv
    <2>2. pos'[p].state = "PROBE" => q.take = "no"
      BY <1>1, <1>5 DEF PosInv
    <2> QED BY <1>5, <1>9, <2>1, <2>2 DEF PosInv
  <1>13. MarkInv(p)'
    <2>1. (p \in active /\ pos'[p].state = "CLOSED") =>
              \E e \in Call : call'[e].kind = "close" /\ call'[e].pos = p
      <3>1. CASE pos[p].state = "CLOSED"
        BY <3>1, <1>1, <1>3, <1>7 DEF MarkInv
      <3>2. CASE pos[p].state # "CLOSED"
        BY <3>2, <1>6
      <3> QED BY <3>1, <3>2
    <2>2. pos'[p].take = "inFlight" =>
              \E e \in Call : call'[e].kind = "take" /\ call'[e].pos = p /\ Probing(e)'
      <3> SUFFICES ASSUME q.take = "inFlight"
                   PROVE  \E e \in Call : /\ call'[e].kind = "take" /\ call'[e].pos = p
                                          /\ Probing(e)'
        BY <1>5
      <3>1. PICK e \in Call : call[e].kind = "take" /\ call[e].pos = p /\ Probing(e)
        BY <1>1 DEF MarkInv
      <3>2. e # c
        BY <3>1
      <3> QED BY <3>1, <3>2, <1>3 DEF Probing
    <2>3. pos'[p].reduce = "inFlight" =>
              \E e \in Call : call'[e].kind = "reduce" /\ call'[e].pos = p /\ Probing(e)'
      <3> SUFFICES ASSUME pos[p].reduce = "inFlight"
                   PROVE  \E e \in Call : /\ call'[e].kind = "reduce" /\ call'[e].pos = p
                                          /\ Probing(e)'
        BY <1>5
      <3>1. PICK e \in Call : call[e].kind = "reduce" /\ call[e].pos = p /\ Probing(e)
        BY <1>1 DEF MarkInv
      <3>2. e # c
        BY <3>1
      <3> QED BY <3>1, <3>2, <1>3 DEF Probing
    <2> QED BY <2>1, <2>2, <2>3 DEF MarkInv
  <1>14. \A e \in Call :
             \/ call'[e] = call[e]
             \/ /\ call[e].kind = "idle" \/ call[e].pos = p
                /\ call'[e] = IdleCall \/ (call'[e].kind # "idle" /\ call'[e].pos = p)
    BY <1>3, <1>6
  <1>15. \A m \in Mint : EntryInv(m)'
    <2>1. p \in active \/ \E e \in Call : Busy(e) /\ call[e].pos = p
      BY DEF Busy
    <2>2. \A e \in Call : call[e].kind # "close" \/ call'[e].kind = "close"
      BY <1>3
    <2> QED BY <1>4, <1>5, <1>14, <2>1, <2>2, EntryFrame
  <1> QED BY <1>4, <1>10, <1>11, <1>12, <1>13, <1>14, <1>15, Frame

LEMMA SettleKeeps ==
  ASSUME TypeOK, Rest, NEW c \in Call,
         \/ PartAppended(c) \/ FallsBackToClose(c)
         \/ \E b \in BOOLEAN : PartThrows(c, b) /\ call[c].kind = "take"
  PROVE  Rest'
  <1> DEFINE p == call[c].pos
  <1>1. CallShape(c) /\ TakeInv(c) /\ call[c] \in CallState
    BY DEF Rest, TypeOK
  <1>2. call[c].kind \in {"take", "reduce"} /\ p \in Position /\ pos[p] \in KolPosition
    BY <1>1 DEF CallShape, Busy, PartAppended, FallsBackToClose, PartThrows, At, TypeOK
  <1>3. ASSUME NEW q \in KolPosition, Drain(c, q),
               call[c].kind = "reduce" => ~Probing(c),
               q.state = pos[p].state, q.mint = pos[p].mint, q.reduce = pos[p].reduce,
               q.deferred => pos[p].deferred,
               IF call[c].kind = "take" /\ Probing(c) THEN q.take = "no"
               ELSE q.take = pos[p].take,
               UNCHANGED <<active, row, entry>>
        PROVE  Rest'
    <2> DEFINE d == [q EXCEPT !.deferred = FALSE]
    <2>1. /\ d \in KolPosition /\ d.state = q.state /\ d.mint = q.mint
          /\ d.reduce = q.reduce /\ ~d.deferred /\ d.take = q.take
      BY DEF KolPosition
    <2>2. CASE Drains(q)
      <3>1. /\ pos' = [pos EXCEPT ![p] = Requested(d)]
            /\ call' = [call EXCEPT ![c] = CloseCall(p, d, FALSE)]
        BY <1>3, <2>2 DEF Drain
      <3> HIDE DEF d
      <3>2. /\ d.state = pos[p].state /\ d.mint = pos[p].mint /\ d.reduce = pos[p].reduce
            /\ IF call[c].kind = "take" /\ Probing(c) THEN d.take = "no"
               ELSE d.take = pos[p].take
        BY <1>3, <2>1
      <3>3. d.deferred => pos[p].deferred
        BY <2>1
      <3>4. d \in KolPosition
        BY <2>1
      <3> QED BY <1>2, <1>3, <3>1, <3>2, <3>3, <3>4, Settles
    <2>3. CASE ~Drains(q)
      <3>1. /\ pos' = [pos EXCEPT ![p] = q]
            /\ call' = [call EXCEPT ![c] = IdleCall]
        BY <1>3, <2>3 DEF Drain
      <3> QED BY <1>2, <1>3, <3>1, Settles
    <2> QED BY <2>2, <2>3
  <1>4. CASE PartAppended(c)
    <2>1. ~Probing(c) /\ UNCHANGED <<active, row, entry>>
      BY <1>4 DEF PartAppended, At, Probing, entryVars
    <2>2. CASE call[c].kind = "take"
      BY <1>2, <1>3, <1>4, <2>1, <2>2 DEF PartAppended
    <2>3. CASE call[c].kind # "take"
      <3>1. pos' = [pos EXCEPT ![p] = pos[p]] /\ call' = [call EXCEPT ![c] = IdleCall]
        BY <1>2, <1>4, <2>3 DEF PartAppended, TypeOK
      <3> QED BY <1>2, <2>1, <2>3, <3>1, Settles
    <2> QED BY <2>2, <2>3
  <1>5. CASE FallsBackToClose(c)
    <2>1. /\ ~Probing(c) /\ UNCHANGED <<active, row, entry>> /\ call[c].kind = "reduce"
          /\ pos' = [pos EXCEPT ![p] = Requested(pos[p])]
          /\ call' = [call EXCEPT ![c] = CloseCall(p, pos[p], FALSE)]
      BY <1>2, <1>5 DEF FallsBackToClose, At, Probing, entryVars, TypeOK
    <2> QED BY <1>2, <2>1, Settles
  <1>6. CASE \E b \in BOOLEAN : PartThrows(c, b) /\ call[c].kind = "take"
    <2> DEFINE q == Marked(c, "no")
    <2>1. Probing(c) /\ UNCHANGED <<active, row, entry>> /\ Drain(c, q) /\ call[c].kind = "take"
      BY <1>6 DEF PartThrows, At, Probing, entryVars
    <2>2. /\ q \in KolPosition /\ q.state = pos[p].state /\ q.mint = pos[p].mint
          /\ q.reduce = pos[p].reduce /\ q.take = "no" /\ (q.deferred => pos[p].deferred)
      BY <1>2, <2>1 DEF Marked, KolPosition, Mark
    <2> HIDE DEF q
    <2> QED BY <1>3, <2>1, <2>2
  <1> QED BY <1>4, <1>5, <1>6

\* A call that starts, or moves on, and the mark it sets on its position
LEMMA Marks ==
  ASSUME TypeOK, Rest, NEW c \in Call, NEW p \in Position,
         call[c].kind \in {"idle", "take", "reduce"},
         call[c].kind # "idle" => call[c].pos = p /\ call'[c].kind = call[c].kind,
         call[c].kind = "idle" => p \in active,
         \A e \in Call \ {c} : call'[e] = call[e],
         \A r \in Position \ {p} : pos'[r] = pos[r],
         call'[c].kind \in {"take", "reduce"} /\ call'[c].pos = p,
         call'[c].pc \in KindPc[call'[c].kind],
         pos'[p].mint = pos[p].mint,
         call'[c].kind = "take" =>
             /\ pos'[p].reduce = pos[p].reduce
             /\ \/ /\ pos[p].state = "PROBE" /\ pos'[p].state = "RUNNER_T1"
                   /\ call[c].kind = "idle"
                   /\ pos'[p].take = "inFlight" /\ call'[c].pc = "probe"
                \/ /\ pos'[p].state = pos[p].state /\ Probing(c) /\ call[c].kind = "take"
                   /\ (pos'[p].deferred => pos[p].deferred)
                   /\ pos'[p].take = "done" /\ call'[c].pc = "append",
         call'[c].kind = "reduce" =>
             /\ pos'[p].state = pos[p].state /\ pos'[p].take = pos[p].take
             /\ (pos'[p].deferred => pos[p].deferred)
             /\ call'[c].pc \in {"probe", "sell"} <=> pos'[p].reduce = "inFlight"
             /\ pos[p].reduce = "inFlight" => Probing(c) /\ call[c].kind = "reduce",
         UNCHANGED <<active, row, entry>>
  PROVE  Rest'
  <1>1. /\ PosInv(p) /\ MarkInv(p) /\ CallShape(c) /\ TakeInv(c)
        /\ pos[p].state # "none"
    BY DEF Rest, CallShape, Busy, PosInv
  <1>3. (call[c].kind = "take" /\ Probing(c)) => pos[p].take = "inFlight" /\ p \in active
    BY <1>1 DEF TakeInv, PosInv
  <1>4. pos'[p].state # "none"
    BY <1>1
  <1>5. /\ pos'[p].state = "CLOSED" <=> pos[p].state = "CLOSED"
        /\ pos'[p].state = "PROBE" => pos[p].state = "PROBE" /\ pos'[p].take = "no"
    BY <1>1, <1>3 DEF PosInv
  <1>6. ASSUME NEW e \in Call, call'[e].kind # "idle", call'[e].pos = p
        PROVE  (CallShape(e) /\ CloseInv(e) /\ TakeInv(e))'
    <2>1. CASE e = c
      <3>1. CallShape(c)' /\ CloseInv(c)'
        BY <1>4 DEF CallShape, CloseInv, Busy
      <3>2. TakeInv(c)'
        BY DEF TakeInv, Probing
      <3> QED BY <2>1, <3>1, <3>2
    <2>2. CASE e # c
      <3>1. call'[e] = call[e] /\ call[e].pos = p /\ CallShape(e) /\ CloseInv(e) /\ TakeInv(e)
        BY <1>6, <2>2 DEF Rest
      <3>2. CallShape(e)'
        BY <3>1, <1>4 DEF CallShape, Busy
      <3>3. CloseInv(e)'
        BY <3>1, <1>3, <1>5 DEF CloseInv
      <3>4. TakeInv(e)'
        <4> SUFFICES ASSUME call[e].kind = "take"
                     PROVE  TakeInv(e)'
          BY <3>1 DEF TakeInv
        <4>1. CASE call'[c].kind = "reduce"
          BY <3>1, <4>1 DEF TakeInv, Probing
        <4>2. CASE call'[c].kind = "take" /\ call[c].kind = "idle"
          <5>1. pos[p].take = "no" /\ p \in active
            BY <1>1, <4>2 DEF PosInv, Probing
          <5> QED BY <3>1, <5>1 DEF TakeInv
        <4>3. CASE call'[c].kind = "take" /\ call[c].kind = "take"
          <5>1. Probing(c)
            BY <4>3
          <5>2. ~Probing(e)
            BY <2>2, <3>1, <4>3, <5>1 DEF Rest, Apart
          <5> QED BY <3>1, <5>1, <5>2, <4>3, <1>3 DEF TakeInv
        <4> QED BY <4>1, <4>2, <4>3
      <3> QED BY <3>2, <3>3, <3>4
    <2> QED BY <2>1, <2>2
  <1>7. ASSUME NEW a \in Call, NEW b \in Call, call'[a].kind # "idle", call'[a].pos = p,
               call'[b].kind # "idle", call'[b].pos = p
        PROVE  Apart(a, b)'
    <2>1. Apart(a, b) /\ Apart(c, b) /\ Apart(a, c)
      BY DEF Rest
    <2>2. CASE a # c /\ b # c
      BY <2>1, <2>2 DEF Apart, Probing
    <2>3. CASE (a = c \/ b = c) /\ a # b
      <3>1. ASSUME NEW e \in Call \ {c}, call[e].kind = "take", call[e].pos = p,
                   call'[c].kind = "take", call'[c].pc \in {"probe", "sell"}
            PROVE  ~Probing(e)
        <4>1. pos[p].take = "no"
          BY <3>1, <1>1 DEF PosInv, Probing
        <4> QED BY <3>1, <4>1 DEF Rest, TakeInv
      <3> QED BY <1>7, <2>3, <3>1 DEF Apart, Probing
    <2> QED BY <2>2, <2>3 DEF Apart
  <1>8. PosInv(p)'
    <2>1. p \notin active => /\ pos'[p].take # "inFlight" /\ ~pos'[p].deferred
                             /\ pos[p].state = "CLOSED" /\ pos'[p].state = "CLOSED"
      BY <1>1, <1>3 DEF PosInv, Probing
    <2> QED BY <1>4, <1>5, <2>1 DEF PosInv
  <1>9. MarkInv(p)'
    <2>1. (p \in active' /\ pos'[p].state = "CLOSED") =>
              \E e \in Call : call'[e].kind = "close" /\ call'[e].pos = p
      BY <1>1, <1>5 DEF MarkInv
    <2>2. pos'[p].take = "inFlight" =>
              \E e \in Call : call'[e].kind = "take" /\ call'[e].pos = p /\ Probing(e)'
      <3>1. CASE call'[c].kind = "take"
        BY <3>1 DEF Probing
      <3>2. CASE call'[c].kind = "reduce"
        BY <3>2, <1>1 DEF MarkInv, Probing
      <3> QED BY <3>1, <3>2
    <2>3. pos'[p].reduce = "inFlight" =>
              \E e \in Call : call'[e].kind = "reduce" /\ call'[e].pos = p /\ Probing(e)'
      <3>1. CASE call'[c].kind = "take"
        BY <3>1, <1>1 DEF MarkInv, Probing
      <3>2. CASE call'[c].kind = "reduce"
        BY <3>2 DEF Probing
      <3> QED BY <3>1, <3>2
    <2> QED BY <2>1, <2>2, <2>3 DEF MarkInv
  <1>10. \A e \in Call :
             \/ call'[e] = call[e]
             \/ /\ call[e].kind = "idle" \/ call[e].pos = p
                /\ call'[e] = IdleCall \/ (call'[e].kind # "idle" /\ call'[e].pos = p)
    OBVIOUS
  <1>11. \A m \in Mint : EntryInv(m)'
    <2>1. p \in active \/ \E e \in Call : Busy(e) /\ call[e].pos = p
      BY DEF Busy
    <2>2. \A e \in Call : call[e].kind # "close" \/ call'[e].kind = "close"
      OBVIOUS
    <2> QED BY <1>10, <2>1, <2>2, EntryFrame
  <1> QED BY <1>6, <1>7, <1>8, <1>9, <1>10, <1>11, Frame

LEMMA PositionKeeps ==
  ASSUME TypeOK, Rest, NEW p \in Position, PositionStep(p)
  PROVE  Rest'
  <1>1. pos[p] \in KolPosition /\ PosInv(p)
    BY DEF TypeOK, Rest
  <1>2. CASE \E b \in BOOLEAN : RequestClose(p, b)
    <2>1. PICK b \in BOOLEAN : RequestClose(p, b)
      BY <1>2
    <2>2. FreeCall \in Call /\ call[FreeCall].kind = "idle"
      BY <2>1, FreeCallIsIdle DEF RequestClose
    <2>3. /\ pos' = [pos EXCEPT ![p] = Requested(pos[p])]
          /\ call' = [call EXCEPT ![FreeCall] = CloseCall(p, pos[p], b)]
          /\ UNCHANGED <<active, row, entry>> /\ p \in active
          /\ b => pos[p].state = "PROBE"
      BY <2>1 DEF RequestClose, entryVars
    <2> QED BY <1>1, <2>2, <2>3, Settles
  <1>3. CASE Promote(p)
    <2>1. /\ p \in active /\ UNCHANGED <<active, row, entry>>
          /\ pos[p].state \in {"PROBE", "RUNNER_T1", "RUNNER_T2"}
      BY <1>3, KolAssumption DEF Promote, entryVars
    <2>2. CASE Takes(p)
      <3> DEFINE q == [pos[p] EXCEPT !.state = NextTier[@], !.take = "inFlight"]
                 d == [IdleCall EXCEPT !.kind = "take", !.pc = "probe", !.pos = p]
      <3>1. /\ FreeCall \in Call /\ call[FreeCall].kind = "idle"
            /\ call'[FreeCall] = d /\ \A e \in Call \ {FreeCall} : call'[e] = call[e]
            /\ pos'[p] = q /\ \A r \in Position \ {p} : pos'[r] = pos[r]
        BY <1>3, <2>2, FreeCallIsIdle DEF Promote, TypeOK
      <3>0. pos[p].state = "PROBE" /\ NextTier[pos[p].state] = "RUNNER_T1"
        BY <2>2 DEF Takes, NextTier
      <3>2. /\ q \in KolPosition /\ q.mint = pos[p].mint /\ q.reduce = pos[p].reduce
            /\ q.state = "RUNNER_T1" /\ q.take = "inFlight" /\ pos[p].state = "PROBE"
        BY <1>1, <3>0 DEF KolPosition, LaneTState, Mark
      <3>3. d.kind = "take" /\ d.pc = "probe" /\ d.pos = p /\ d.pc \in KindPc[d.kind]
        BY DEF IdleCall, KindPc
      <3> HIDE DEF q, d
      <3>4. call[FreeCall].kind \in {"idle", "take", "reduce"} /\ d.kind \in {"take", "reduce"}
        BY <3>1, <3>3
      <3> QED BY <1>1, <2>1, <3>1, <3>2, <3>3, <3>4, Marks
    <2>3. CASE ~Takes(p)
      <3> DEFINE q == [pos[p] EXCEPT !.state = NextTier[@]]
      <3>1. pos' = [pos EXCEPT ![p] = q] /\ UNCHANGED call
        BY <1>3, <2>3 DEF Promote
      <3>2. /\ q.mint = pos[p].mint /\ q.reduce = pos[p].reduce /\ q.take = pos[p].take
            /\ q.state \in LaneTState \ {"PROBE", "CLOSED"}
        BY <1>1, <2>1 DEF NextTier, KolPosition, LaneTState
      <3> HIDE DEF q
      <3>3. pos'[p] = q /\ \A r \in Position \ {p} : pos'[r] = pos[r]
        BY <3>1 DEF TypeOK
      <3>4. ASSUME NEW c \in Call, call'[c].kind # "idle", call'[c].pos = p
            PROVE  (CallShape(c) /\ CloseInv(c) /\ TakeInv(c))'
        BY <2>1, <3>1, <3>2, <3>3, <3>4 DEF Rest, CallShape, CloseInv, TakeInv, Probing, LaneTState
      <3>5. \A c, d \in Call : Apart(c, d)'
        BY <3>1 DEF Rest, Apart, Probing
      <3>6. PosInv(p)' /\ MarkInv(p)'
        BY <2>1, <3>1, <3>2, <3>3 DEF Rest, PosInv, MarkInv, Probing, LaneTState
      <3>7. \A m \in Mint : EntryInv(m)'
        BY <2>1, <3>1, <3>2, <3>3, EntryFrame
      <3> QED BY <2>1, <3>1, <3>3, <3>4, <3>5, <3>6, <3>7, Frame
    <2> QED BY <2>2, <2>3
  <1>4. CASE StartReduce(p)
    <2> DEFINE q == [pos[p] EXCEPT !.reduce = "inFlight"]
               d == [IdleCall EXCEPT !.kind = "reduce", !.pc = "probe", !.pos = p]
    <2>1. /\ FreeCall \in Call /\ call[FreeCall].kind = "idle"
          /\ call'[FreeCall] = d /\ \A e \in Call \ {FreeCall} : call'[e] = call[e]
          /\ pos'[p] = q /\ \A r \in Position \ {p} : pos'[r] = pos[r]
          /\ p \in active /\ UNCHANGED <<active, row, entry>>
      BY <1>4, FreeCallIsIdle DEF StartReduce, entryVars, TypeOK
    <2>2. /\ q \in KolPosition /\ q.mint = pos[p].mint /\ q.reduce = "inFlight"
          /\ q.state = pos[p].state /\ q.take = pos[p].take /\ pos[p].reduce = "no"
      BY <1>1, <1>4 DEF StartReduce, KolPosition, Mark
    <2>3. q.deferred => pos[p].deferred
      BY <1>1 DEF KolPosition
    <2>4. d.kind = "reduce" /\ d.pc = "probe" /\ d.pos = p /\ d.pc \in KindPc[d.kind]
      BY DEF IdleCall, KindPc
    <2> HIDE DEF q, d
    <2>5. call[FreeCall].kind \in {"idle", "take", "reduce"} /\ d.kind \in {"take", "reduce"}
      BY <2>1, <2>4
    <2> QED BY <2>1, <2>2, <2>3, <2>4, <2>5, Marks
  <1> QED BY <1>2, <1>3, <1>4 DEF PositionStep

LEMMA PartKeeps ==
  ASSUME TypeOK, Rest, NEW c \in Call,
         PartSold(c) \/ \E b \in BOOLEAN : PartThrows(c, b) /\ call[c].kind = "reduce"
  PROVE  Rest'
  <1> DEFINE p == call[c].pos
  <1>1. /\ CallShape(c) /\ TakeInv(c) /\ call[c] \in CallState
        /\ call[c].kind \in {"take", "reduce"} /\ Probing(c)
    BY DEF Rest, TypeOK, PartSold, PartThrows, At, Probing
  <1>2. p \in Position /\ pos[p] \in KolPosition
    BY <1>1 DEF CallShape, Busy, TypeOK
  <1>3. CASE PartSold(c)
    <2>1. /\ pos' = [pos EXCEPT ![p] = Marked(c, "done")]
          /\ call' = [call EXCEPT ![c].pc = "append", ![c].seen = 0]
          /\ UNCHANGED <<active, row, entry>>
      BY <1>3 DEF PartSold, entryVars
    <2>2. /\ call'[c].kind = call[c].kind /\ call'[c].pos = p /\ call'[c].pc = "append"
          /\ \A e \in Call \ {c} : call'[e] = call[e]
      BY <2>1 DEF TypeOK, CallState
    <2>3. pos'[p] = Marked(c, "done") /\ \A r \in Position \ {p} : pos'[r] = pos[r]
      BY <2>1, <1>2 DEF TypeOK
    <2>4. /\ pos'[p].mint = pos[p].mint /\ pos'[p].state = pos[p].state
          /\ pos'[p].deferred = pos[p].deferred
          /\ call[c].kind = "take" => pos'[p].take = "done" /\ pos'[p].reduce = pos[p].reduce
          /\ call[c].kind = "reduce" => pos'[p].reduce = "done" /\ pos'[p].take = pos[p].take
      BY <1>2, <2>3 DEF Marked, KolPosition
    <2>5. call'[c].pc \in KindPc[call'[c].kind]
      BY <1>1, <2>2 DEF KindPc
    <2>6. pos'[p].deferred => pos[p].deferred
      BY <2>4
    <2> QED BY <1>1, <1>2, <2>1, <2>2, <2>3, <2>4, <2>5, <2>6, Marks
  <1>4. CASE \E b \in BOOLEAN : PartThrows(c, b) /\ call[c].kind = "reduce"
    <2>1. /\ pos' = [pos EXCEPT ![p] = Marked(c, "no")]
          /\ call' = [call EXCEPT ![c].pc = "fallback", ![c].seen = 0]
          /\ UNCHANGED <<active, row, entry>> /\ call[c].kind = "reduce"
      BY <1>4 DEF PartThrows, entryVars
    <2>2. /\ call'[c].kind = call[c].kind /\ call'[c].pos = p /\ call'[c].pc = "fallback"
          /\ \A e \in Call \ {c} : call'[e] = call[e]
      BY <2>1 DEF TypeOK, CallState
    <2>3. pos'[p] = Marked(c, "no") /\ \A r \in Position \ {p} : pos'[r] = pos[r]
      BY <2>1, <1>2 DEF TypeOK
    <2>4. /\ pos'[p].mint = pos[p].mint /\ pos'[p].state = pos[p].state
          /\ pos'[p].deferred = pos[p].deferred
          /\ pos'[p].reduce = "no" /\ pos'[p].take = pos[p].take
      BY <1>2, <2>1, <2>3 DEF Marked, KolPosition
    <2>5. call'[c].pc \in KindPc[call'[c].kind]
      BY <2>1, <2>2 DEF KindPc
    <2>6. pos'[p].deferred => pos[p].deferred
      BY <2>4
    <2> QED BY <1>1, <1>2, <2>1, <2>2, <2>3, <2>4, <2>5, <2>6, Marks
  <1> QED BY <1>3, <1>4

\* A close that ends, failed or done
LEMMA CloseEnds ==
  ASSUME TypeOK, Rest, NEW c \in Call, call[c].kind = "close",
         CloseFails(c) \/ \E b \in BOOLEAN : CloseFinishes(c, b)
  PROVE  Rest'
  <1>0. PICK p \in Position : p = call[c].pos
    BY DEF Rest, CallShape, Busy
  <1>1. CallShape(c) /\ CloseInv(c) /\ call[c] \in CallState
    BY DEF Rest, TypeOK
  <1>2. /\ p \in Position /\ p \in active /\ pos[p] \in KolPosition
        /\ pos[p].state = "CLOSED" /\ pos[p].take # "inFlight"
        /\ call[c].prev \in LaneTState \ {"CLOSED"}
        /\ call[c].retain => call[c].prev = "PROBE"
        /\ call[c].prev = "PROBE" => pos[p].take = "no"
    BY <1>0, <1>1 DEF CallShape, Busy, CloseInv, TypeOK
  <1>3. /\ call'[c] = IdleCall /\ \A e \in Call \ {c} : call'[e] = call[e]
        /\ entry' = EntryAfter(c)
    BY DEF CloseFails, CloseFinishes, TypeOK
  <1>4. \A r \in Position \ {p} :
            /\ pos'[r] = pos[r] /\ row'[r] = row[r] /\ (r \in active' <=> r \in active)
    BY <1>0 DEF CloseFails, CloseFinishes, TypeOK
  <1>5. /\ pos'[p].mint = pos[p].mint
        /\ \/ /\ active' = active /\ pos'[p].state = call[c].prev
              /\ pos'[p].take = pos[p].take /\ pos'[p].reduce = pos[p].reduce
           \/ /\ active' = active /\ pos'[p].state = "TAIL" /\ call[c].retain
              /\ pos'[p].take = "no" /\ pos'[p].reduce = "no"
           \/ /\ p \notin active' /\ pos'[p].state = "CLOSED" /\ ~pos'[p].deferred
              /\ pos'[p].take = "no" /\ pos'[p].reduce = "no"
    <2>1. CASE CloseFails(c)
      <3>1. pos'[p] = [pos[p] EXCEPT !.state = call[c].prev] /\ active' = active
        BY <1>0, <1>2, <2>1 DEF CloseFails, TypeOK
      <3> QED BY <1>2, <3>1 DEF KolPosition
    <2>2. CASE \E b \in BOOLEAN : CloseFinishes(c, b)
      <3>1. CASE call[c].retain
        <4>1. /\ pos'[p] = NewPosition("TAIL", pos[p].mint, pos[p].lane) /\ active' = active
          BY <1>0, <1>2, <2>2, <3>1 DEF CloseFinishes, TypeOK
        <4> QED BY <3>1, <4>1 DEF NewPosition
      <3>2. CASE ~call[c].retain
        <4>1. /\ pos'[p] = NewPosition("CLOSED", pos[p].mint, "kol_hunter")
              /\ active' = active \ {p}
          BY <1>0, <1>2, <2>2, <3>2 DEF CloseFinishes, TypeOK
        <4> QED BY <4>1 DEF NewPosition
      <3> QED BY <3>1, <3>2
    <2> QED BY <2>1, <2>2
  <1>6. pos'[p].state # "none" /\ pos'[p].take # "inFlight"
    BY <1>2, <1>5 DEF LaneTState
  <1>7. \A e \in Call \ {c} : (call[e].kind = "close" => call[e].pos # p)
    BY <1>0 DEF Rest, Apart
  <1>8. \A e \in Call : (call[e].kind = "take" /\ call[e].pos = p) =>
            ~Probing(e) /\ pos[p].take = "done"
    BY <1>2 DEF Rest, TakeInv
  <1>9. ASSUME NEW e \in Call, call'[e].kind # "idle", call'[e].pos = p
        PROVE  (CallShape(e) /\ CloseInv(e) /\ TakeInv(e))'
    <2>1. /\ e # c /\ call'[e] = call[e] /\ call[e].pos = p /\ call[e].kind # "close"
          /\ CallShape(e) /\ TakeInv(e)
      BY <1>3, <1>7, <1>9 DEF IdleCall, Rest
    <2>2. CallShape(e)' /\ CloseInv(e)'
      BY <1>2, <1>6, <2>1 DEF CallShape, CloseInv
    <2>3. TakeInv(e)'
      BY <1>2, <1>5, <1>8, <2>1 DEF TakeInv, Probing
    <2> QED BY <2>2, <2>3
  <1>10. ASSUME NEW a \in Call, NEW b \in Call, call'[a].kind # "idle", call'[b].kind # "idle"
         PROVE  Apart(a, b)'
    BY <1>3, <1>10 DEF Rest, Apart, Probing, IdleCall
  <1>11. PosInv(p)'
    <2>1. CASE active' = active
      <3>1. p \in active' /\ (pos'[p].state = "PROBE" => pos'[p].take = "no")
        BY <1>2, <1>5, <2>1
      <3> QED BY <1>6, <3>1 DEF PosInv
    <2>2. CASE p \notin active'
      <3>1. pos'[p].state = "CLOSED" /\ pos'[p].take = "no" /\ ~pos'[p].deferred
        BY <1>2, <1>5, <2>2
      <3> QED BY <2>2, <3>1 DEF PosInv
    <2> QED BY <1>5, <2>1, <2>2
  <1>12. MarkInv(p)'
    <2>1. ~(p \in active' /\ pos'[p].state = "CLOSED")
      BY <1>2, <1>5
    <2>2. pos'[p].reduce = "inFlight" => pos[p].reduce = "inFlight"
      BY <1>5
    <2>3. ASSUME pos'[p].reduce = "inFlight"
          PROVE  \E e \in Call : call'[e].kind = "reduce" /\ call'[e].pos = p /\ Probing(e)'
      <3>1. PICK e \in Call : call[e].kind = "reduce" /\ call[e].pos = p /\ Probing(e)
        BY <1>2, <2>2, <2>3 DEF Rest, MarkInv
      <3>2. call'[e] = call[e]
        BY <1>3, <3>1
      <3> QED BY <3>1, <3>2 DEF Probing
    <2> QED BY <1>6, <2>1, <2>3 DEF MarkInv
  <1>13. \A e \in Call :
             \/ call'[e] = call[e]
             \/ /\ call[e].kind = "idle" \/ call[e].pos = p
                /\ call'[e] = IdleCall \/ (call'[e].kind # "idle" /\ call'[e].pos = p)
    BY <1>0, <1>3
  <1>14. \A m \in Mint : EntryInv(m)'
    <2>1. \A m \in Mint :
              \/ entry'[m] = entry[m] /\ ~(entry[m].pc = "exit" /\ entry[m].call = c)
              \/ entry'[m] = NoEntry
      BY <1>3 DEF EntryAfter
    <2>2. \A e \in Call :
              \/ call[e].kind # "close" \/ call'[e].kind = "close"
              \/ \A m \in Mint : ~(entry'[m].pc = "exit" /\ entry'[m].call = e)
      BY <1>3, <2>1 DEF NoEntry
    <2>3. \A n \in Mint : entry'[n] = entry[n] \/ entry'[n] = NoEntry
      BY <2>1
    <2> QED BY <1>2, <1>4, <1>5, <1>13, <2>2, <2>3, EntryFrame
  <1> QED BY <1>2, <1>4, <1>9, <1>10, <1>11, <1>12, <1>13, <1>14, Frame

LEMMA CallKeeps ==
  ASSUME TypeOK, Rest, NEW c \in Call, CallStep(c)
  PROVE  Rest'
  <1>1. CASE \/ PartProbed(c) \/ CloseProbed(c) \/ CloseSold(c) \/ ZeroConfirmed(c)
             \/ \E b \in BOOLEAN : CloseThrows(c, b)
    BY <1>1, AdvanceKeeps
  <1>2. CASE PartAppended(c) \/ FallsBackToClose(c)
    BY <1>2, SettleKeeps
  <1>3. CASE PartSold(c)
    BY <1>3, PartKeeps
  <1>4. CASE \E b \in BOOLEAN : PartThrows(c, b)
    <2>1. call[c].kind \in {"take", "reduce"}
      BY <1>4 DEF PartThrows, At
    <2> QED BY <1>4, <2>1, SettleKeeps, PartKeeps
  <1>5. CASE CloseFails(c) \/ \E b \in BOOLEAN : CloseFinishes(c, b)
    <2>1. call[c].kind = "close"
      BY <1>5 DEF CloseFails, CloseFinishes, At
    <2> QED BY <1>5, <2>1, CloseEnds
  <1> QED BY <1>1, <1>2, <1>3, <1>4, <1>5 DEF CallStep

\* Entries that do not touch a position
LEMMA EntryAdvances ==
  ASSUME TypeOK, Rest, NEW m \in Mint,
         UNCHANGED <<pos, active, call, row>>,
         \A n \in Mint :
             \/ entry'[n] = entry[n]
             \/ entry'[n].pc \in {"none", "quote", "buy"}
  PROVE  Rest'
  <1>1. \A n \in Mint : EntryInv(n)'
    BY DEF Rest, EntryInv, Busy
  <1>2. \A c, d \in Call : (CallShape(c) /\ CloseInv(c) /\ TakeInv(c) /\ Apart(c, d))'
    BY DEF Rest, CallShape, CloseInv, TakeInv, Apart, Busy, Probing
  <1>3. \A p \in Position : (PosInv(p) /\ MarkInv(p))'
    BY DEF Rest, PosInv, MarkInv, Probing
  <1> QED BY <1>1, <1>2, <1>3 DEF Rest

LEMMA BuyKeeps ==
  ASSUME TypeOK, Rest, NEW m \in Mint, BuySucceeds(m)
  PROVE  Rest'
  <1>1. PICK p \in Position : p = Fresh /\ pos[p].state = "none"
    BY FreshIsFresh DEF BuySucceeds
  <1>2. /\ \A c \in Call : Busy(c) => call[c].pos # p
        /\ p \notin active
        /\ \A n \in Mint : entry[n].pc \in {"persist", "exit"} => entry[n].pos # p
    BY <1>1 DEF Rest, CallShape, PosInv, EntryInv, Busy
  <1>3. pos' = [pos EXCEPT ![p] = NewPosition("CLOSED", m, entry[m].lane)]
    BY <1>1 DEF BuySucceeds
  <1>4. /\ pos'[p].state = "CLOSED" /\ pos'[p].take = "no" /\ pos'[p].reduce = "no"
        /\ ~pos'[p].deferred /\ pos'[p].mint = m
        /\ \A r \in Position \ {p} : pos'[r] = pos[r]
    BY <1>1, <1>3 DEF NewPosition, TypeOK
  <1>5. /\ UNCHANGED <<active, call, row>>
        /\ \A n \in Mint \ {m} : entry'[n] = entry[n]
    BY DEF BuySucceeds, TypeOK
  <1>6. entry'[m].pc = "persist" /\ entry'[m].pos = p
    BY <1>1 DEF BuySucceeds, TypeOK, EntryState
  <1>7. \A c \in Call : call'[c] = call[c] /\ (call'[c].kind # "idle" => call'[c].pos # p)
    BY <1>2, <1>5 DEF Busy
  <1>8. \A n \in Mint : EntryInv(n)'
    <2>1. EntryInv(m)'
      BY <1>1, <1>2, <1>4, <1>5, <1>6 DEF EntryInv, Busy
    <2>2. \A n \in Mint \ {m} : EntryInv(n)'
      BY <1>2, <1>4, <1>5 DEF Rest, EntryInv, Busy
    <2> QED BY <2>1, <2>2
  <1>9. (PosInv(p) /\ MarkInv(p))'
    BY <1>2, <1>4, <1>5 DEF PosInv, MarkInv
  <1> QED BY <1>1, <1>4, <1>5, <1>7, <1>8, <1>9, Frame

LEMMA OpenKeeps ==
  ASSUME TypeOK, Rest, NEW m \in Mint, NEW b \in BOOLEAN,
         EntryOpens(m, b) \/ EntryOpensAndExits(m, b)
  PROVE  Rest'
  <1>1. EntryInv(m) /\ entry[m].pc = "persist"
    BY DEF Rest, EntryOpens, EntryOpensAndExits, Opens
  <1>0. PICK p \in Position : p = entry[m].pos
    BY <1>1 DEF EntryInv
  <1>2. /\ p \in Position \ active /\ pos[p].state = "CLOSED" /\ pos[p].mint = m
        /\ \A c \in Call : Busy(c) => call[c].pos # p
    BY <1>0, <1>1 DEF EntryInv
  <1>3. PICK state \in {"PROBE", "CLOSED"} :
            /\ pos' = [pos EXCEPT ![p] = NewPosition(state, m, entry[m].lane)]
            /\ active' = active \cup {p}
            /\ row' = [row EXCEPT ![p] = IF b THEN "OPEN" ELSE @]
            /\ IF state = "PROBE"
               THEN UNCHANGED call /\ entry' = [entry EXCEPT ![m] = NoEntry]
               ELSE EntryOpensAndExits(m, b)
    BY <1>0 DEF EntryOpens, EntryOpensAndExits, Opens
  <1>4. /\ pos'[p].state = state /\ pos'[p].take = "no" /\ pos'[p].reduce = "no"
        /\ pos'[p].mint = m
        /\ \A r \in Position \ {p} : pos'[r] = pos[r] /\ row'[r] = row[r]
                                     /\ (r \in active' <=> r \in active)
        /\ p \in active'
    BY <1>2, <1>3 DEF NewPosition, TypeOK
  <1>5. PosInv(p)'
    BY <1>4 DEF PosInv
  <1>6. \A n \in Mint : entry[n].pc \in {"persist", "exit"} /\ n # m => entry[n].pos # p
    BY <1>2 DEF Rest, EntryInv
  <1>7. CASE state = "PROBE"
    <2>1. \A n \in Mint : EntryInv(n)'
      <3>1. EntryInv(m)'
        BY <1>3, <1>7 DEF TypeOK, NoEntry, EntryInv
      <3>2. ASSUME NEW n \in Mint \ {m}
            PROVE  EntryInv(n)'
        <4>1. entry'[n] = entry[n] /\ call' = call
          BY <1>3, <1>7 DEF TypeOK
        <4> QED BY <1>4, <1>6, <4>1 DEF Rest, EntryInv, Busy
      <3> QED BY <3>1, <3>2
    <2>2. MarkInv(p)'
      BY <1>4, <1>7 DEF MarkInv
    <2>3. \A c \in Call : call'[c] = call[c] /\ (call'[c].kind # "idle" => call'[c].pos # p)
      BY <1>2, <1>3, <1>7 DEF Busy
    <2> QED BY <1>2, <1>4, <1>5, <2>1, <2>2, <2>3, Frame
  <1>8. CASE state = "CLOSED"
    <2>0. PICK e \in Call : e = FreeCall /\ call[e].kind = "idle"
      BY <1>3, <1>8, FreeCallIsIdle DEF EntryOpensAndExits
    <2> DEFINE d == [IdleCall EXCEPT !.kind = "close", !.pc = "probe", !.pos = p,
                                     !.prev = "PROBE"]
    <2>1. /\ e \in Call /\ call[e].kind = "idle"
          /\ call' = [call EXCEPT ![e] = d]
          /\ entry' = [entry EXCEPT ![m].pc = "exit", ![m].call = e]
      BY <1>0, <1>3, <1>8, <2>0 DEF EntryOpensAndExits
    <2>2. d.kind = "close" /\ d.pc = "probe" /\ d.pos = p /\ d.prev = "PROBE" /\ ~d.retain
      BY DEF IdleCall
    <2> HIDE DEF d
    <2>3. call'[e] = d /\ \A c \in Call \ {e} : call'[c] = call[c]
      BY <2>1 DEF TypeOK
    <2>4. \A c \in Call : (call'[c].kind # "idle" /\ call'[c].pos = p) => c = e
      BY <1>2, <2>3 DEF Busy
    <2>5. (CallShape(e) /\ CloseInv(e) /\ TakeInv(e))'
      BY <1>2, <1>4, <1>8, <2>1, <2>2, <2>3 DEF CallShape, CloseInv, TakeInv, KindPc, LaneTState
    <2>6. \A c, f \in Call :
              (/\ call'[c].kind # "idle" /\ call'[c].pos = p
               /\ call'[f].kind # "idle" /\ call'[f].pos = p) => Apart(c, f)'
      BY <2>4 DEF Apart
    <2>7. MarkInv(p)'
      BY <1>4, <2>1, <2>2, <2>3 DEF MarkInv
    <2>8. \A n \in Mint : EntryInv(n)'
      <3>1. EntryInv(m)'
        <4>1. entry'[m].pc = "exit" /\ entry'[m].call = e /\ entry'[m].pos = p
          BY <1>0, <2>1 DEF TypeOK, EntryState
        <4> QED BY <1>2, <1>4, <2>1, <2>2, <2>3, <4>1 DEF EntryInv
      <3>2. ASSUME NEW n \in Mint \ {m}
            PROVE  EntryInv(n)'
        <4>1. entry'[n] = entry[n] /\ EntryInv(n)
          BY <2>1 DEF TypeOK, Rest
        <4>2. CASE entry[n].pc = "persist"
          BY <1>4, <1>6, <2>2, <2>3, <4>1, <4>2 DEF EntryInv, Busy
        <4>3. CASE entry[n].pc = "exit"
          BY <1>4, <1>6, <2>1, <2>3, <4>1, <4>3 DEF EntryInv
        <4> QED BY <4>1, <4>2, <4>3 DEF EntryInv
      <3> QED BY <3>1, <3>2
    <2>9. \A c \in Call :
              \/ call'[c] = call[c]
              \/ /\ call[c].kind = "idle" \/ call[c].pos = p
                 /\ call'[c] = IdleCall \/ (call'[c].kind # "idle" /\ call'[c].pos = p)
      BY <2>1, <2>2, <2>3
    <2> QED BY <1>2, <1>4, <1>5, <2>4, <2>5, <2>6, <2>7, <2>8, <2>9, Frame
  <1> QED BY <1>7, <1>8

LEMMA RestartKeeps ==
  ASSUME TypeOK, Rest, NEW loaded \in SUBSET Position, NEW closed \in SUBSET Position,
         Restart(loaded, closed)
  PROVE  Rest'
  <1>1. /\ \A c \in Call : call'[c] = IdleCall
        /\ \A m \in Mint : entry'[m] = NoEntry
        /\ active' = loaded
    BY DEF Restart
  <1>2. ASSUME NEW p \in Position
        PROVE  (PosInv(p) /\ MarkInv(p))'
    <2>1. PosInv(p) /\ (p \in loaded => row[p] = "OPEN") /\ (p \in closed => row[p] = "OPEN")
      BY DEF Rest, Restart, OpenRows
    <2>2. row'[p] = IF p \in closed THEN "CLOSED" ELSE row[p]
      BY DEF Restart
    <2>3. CASE p \in loaded
      <3>1. pos'[p] = NewPosition("PROBE", MintOf(p), "kol_hunter")
        BY <2>3 DEF Restart
      <3>2. pos'[p].state = "PROBE" /\ pos'[p].take = "no" /\ pos'[p].reduce = "no"
        BY <3>1 DEF NewPosition
      <3> QED BY <1>1, <2>3, <3>2 DEF PosInv, MarkInv
    <2>4. CASE p \notin loaded /\ pos[p].state = "none"
      <3>1. pos'[p] = pos[p] /\ row'[p] = "none" /\ p \notin active
        BY <2>1, <2>2, <2>4 DEF Restart, PosInv
      <3> QED BY <1>1, <2>1, <2>4, <3>1 DEF PosInv, MarkInv
    <2>5. CASE p \notin loaded /\ pos[p].state # "none"
      <3>1. pos'[p] = NewPosition("CLOSED", MintOf(p), "kol_hunter")
        BY <2>5 DEF Restart
      <3>2. /\ pos'[p].state = "CLOSED" /\ pos'[p].take = "no" /\ pos'[p].reduce = "no"
            /\ ~pos'[p].deferred
        BY <3>1 DEF NewPosition
      <3> QED BY <1>1, <2>5, <3>2 DEF PosInv, MarkInv
    <2> QED BY <2>3, <2>4, <2>5
  <1>3. \A c, d \in Call : (CallShape(c) /\ CloseInv(c) /\ TakeInv(c) /\ Apart(c, d))'
    BY <1>1 DEF CallShape, CloseInv, TakeInv, Apart, IdleCall, KindPc, Busy, Probing
  <1>4. \A m \in Mint : EntryInv(m)'
    BY <1>1 DEF EntryInv, NoEntry
  <1> QED BY <1>2, <1>3, <1>4 DEF Rest

LEMMA EntryKeeps ==
  ASSUME TypeOK, Rest, NEW m \in Mint, Trigger(m) \/ EntryStep(m)
  PROVE  Rest'
  <1>1. CASE \/ TriggerLive(m) \/ AdmissionRefused(m) \/ Enter(m) \/ EntryRejected(m)
             \/ AcquireSlot(m) \/ \E b \in BOOLEAN : BuyThrows(m, b)
    <2>1. UNCHANGED <<pos, active, call, row>>
      BY <1>1 DEF TriggerLive, AdmissionRefused, Enter, EntryRejected, AcquireSlot, BuyThrows
    <2>2. \A n \in Mint : entry'[n] = entry[n] \/ entry'[n].pc \in {"none", "quote", "buy"}
      <3>1. CASE TriggerLive(m) \/ AdmissionRefused(m)
        BY <3>1 DEF TriggerLive, AdmissionRefused
      <3>2. CASE Enter(m)
        <4>1. \A l \in Sublane : [NoEntry EXCEPT !.pc = "quote", !.lane = l].pc = "quote"
          BY DEF NoEntry
        <4> QED BY <3>2, <4>1 DEF Enter, TypeOK
      <3>3. CASE EntryRejected(m) \/ \E b \in BOOLEAN : BuyThrows(m, b)
        BY <3>3 DEF EntryRejected, BuyThrows, TypeOK, NoEntry
      <3>4. CASE AcquireSlot(m)
        BY <3>4 DEF AcquireSlot, TypeOK, EntryState
      <3> QED BY <1>1, <3>1, <3>2, <3>3, <3>4
    <2> QED BY <2>1, <2>2, EntryAdvances
  <1>2. CASE BuySucceeds(m)
    BY <1>2, BuyKeeps
  <1>3. CASE \E b \in BOOLEAN : EntryOpens(m, b) \/ EntryOpensAndExits(m, b)
    BY <1>3, OpenKeeps
  <1> QED BY <1>1, <1>2, <1>3 DEF Trigger, EntryStep

LEMMA RestInit == Init => Rest
  <1> SUFFICES ASSUME Init
               PROVE  Rest
    OBVIOUS
  <1>1. \A c \in Call : call[c] = IdleCall
    BY DEF Init
  <1>2. \A m \in Mint : entry[m] = NoEntry
    BY DEF Init
  <1>3. \A p \in Position : /\ pos[p].state = "none" /\ pos[p].take = "no"
                            /\ pos[p].reduce = "no" /\ ~pos[p].deferred
                            /\ row[p] = "none" /\ p \notin active
    BY DEF Init, NewPosition
  <1>4. \A c, d \in Call : CallShape(c) /\ CloseInv(c) /\ TakeInv(c) /\ Apart(c, d)
    BY <1>1 DEF CallShape, CloseInv, TakeInv, Apart, IdleCall, KindPc, Busy, Probing
  <1>5. \A p \in Position : PosInv(p) /\ MarkInv(p)
    BY <1>3 DEF PosInv, MarkInv
  <1>6. \A m \in Mint : EntryInv(m)
    BY <1>2 DEF EntryInv, NoEntry
  <1> QED BY <1>4, <1>5, <1>6 DEF Rest

LEMMA RestStep == TypeOK /\ Rest /\ [Next]_vars => Rest'
  <1> SUFFICES ASSUME TypeOK, Rest, [Next]_vars
               PROVE  Rest'
    OBVIOUS
  <1>1. CASE UNCHANGED vars
    <2>1. \A n \in Mint : entry'[n] = entry[n]
      BY <1>1 DEF vars
    <2> QED BY <1>1 DEF vars, Rest, CallShape, CloseInv, TakeInv, Apart, PosInv, MarkInv,
                        EntryInv, Busy, Probing
  <1>2. CASE Next
    BY <1>2, EntryKeeps, PositionKeeps, CallKeeps, RestartKeeps DEF Next
  <1> QED BY <1>1, <1>2

-----------------------------------------------------------------------------
(* Tokens *)

LEMMA ResponsibleFrame ==
  ASSUME TypeOK, NEW p \in Position, Responsible(p),
         pos'[p].mint = pos[p].mint, wallet' \in [Mint -> Nat],
         wallet'[pos[p].mint] <= wallet[pos[p].mint],
         \A e \in Call :
             \/ call'[e] = call[e]
             \/ call'[e].kind # "close" \/ call'[e].pos # p
             \/ call'[e].retain \/ call'[e].pc \in {"probe", "confirm"}
             \/ call'[e].pc = "sell" /\ call'[e].seen >= wallet'[pos[p].mint]
  PROVE  Responsible(p)'
  <1> SUFFICES ASSUME NEW e \in Call, call'[e].kind = "close", call'[e].pos = p,
                      ~call'[e].retain, call'[e].pc \notin {"probe", "confirm"}
               PROVE  call'[e].pc = "sell" /\ call'[e].seen >= wallet'[pos'[call'[e].pos].mint]
    BY DEF Responsible, CallsOn, Of, Held
  <1>0. CASE call'[e].pc = "sell" /\ call'[e].seen >= wallet'[pos[p].mint]
    BY <1>0
  <1> SUFFICES ASSUME call'[e] = call[e]
               PROVE  call'[e].pc = "sell" /\ call'[e].seen >= wallet'[pos'[call'[e].pos].mint]
    BY <1>0
  <1>1. call'[e] = call[e]
    OBVIOUS
  <1>2. call[e].pc = "sell" /\ call[e].seen >= wallet[pos[p].mint]
    BY <1>1 DEF Responsible, CallsOn, Of, Held
  <1>3. /\ pos[p].mint \in Mint /\ call[e].seen \in Nat
        /\ wallet[pos[p].mint] \in Nat /\ wallet'[pos[p].mint] \in Nat
    BY DEF TypeOK, KolPosition, CallState
  <1> QED BY <1>1, <1>2, <1>3

\* What knows of a mint's tokens keeps knowing of them
LEMMA KnownFrame ==
  ASSUME TypeOK, NEW m \in Mint, Known(m),
         m \in lost => m \in lost',
         entry[m].pc = "persist" => entry'[m].pc = "persist",
         \A p \in active : (pos[p].mint = m /\ Responsible(p)) =>
             p \in active' /\ pos'[p].mint = m /\ Responsible(p)',
         \A p \in Position \ active : (pos[p].mint = m /\ row[p] = "OPEN") =>
             p \notin active' /\ pos'[p].mint = m /\ row'[p] = "OPEN"
  PROVE  Known(m)'
  <1>1. CASE m \in lost \/ entry[m].pc = "persist"
    BY <1>1 DEF Known
  <1>2. CASE \E p \in ActiveOf(m) : Responsible(p)
    <2>1. PICK p \in active : pos[p].mint = m /\ Responsible(p)
      BY <1>2 DEF ActiveOf
    <2>2. p \in active' /\ pos'[p].mint = m /\ Responsible(p)'
      BY <2>1
    <2> QED BY <2>2 DEF Known, ActiveOf
  <1>3. CASE \E p \in OpenRows \ active : MintOf(p) = m
    <2>1. PICK p \in Position \ active : pos[p].mint = m /\ row[p] = "OPEN"
      BY <1>3 DEF OpenRows, MintOf
    <2>2. p \in Position /\ p \notin active' /\ pos'[p].mint = m /\ row'[p] = "OPEN"
      BY <2>1
    <2> QED BY <2>2 DEF Known, OpenRows, MintOf
  <1> QED BY <1>1, <1>2, <1>3 DEF Known

\* A step of calls that leave every position its mint
LEMMA HeldFrame ==
  ASSUME TypeOK, HeldInv, wallet' \in [Mint -> Nat],
         \A m \in Mint : wallet'[m] <= wallet[m],
         UNCHANGED <<active, row, lost>>,
         \A m \in Mint : entry[m].pc = "persist" => entry'[m].pc = "persist",
         \A p \in Position : pos'[p].mint = pos[p].mint,
         \A e \in Call, p \in Position :
             (call'[e].kind = "close" /\ call'[e].pos = p) =>
             \/ call'[e] = call[e]
             \/ call'[e].retain \/ call'[e].pc \in {"probe", "confirm"}
             \/ call'[e].pc = "sell" /\ call'[e].seen >= wallet'[pos[p].mint]
             \/ wallet'[pos[p].mint] = 0
             \/ ~Responsible(p)
  PROVE  HeldInv'
  <1> SUFFICES ASSUME NEW m \in Mint, wallet'[m] > 0
               PROVE  Known(m)'
    BY DEF HeldInv
  <1>1. wallet'[m] <= wallet[m] /\ wallet[m] \in Nat /\ wallet'[m] \in Nat
    BY DEF TypeOK
  <1>2. Known(m)
    BY <1>1 DEF HeldInv
  <1>3. ASSUME NEW p \in active, pos[p].mint = m, Responsible(p)
        PROVE  Responsible(p)'
    <2>1. p \in Position /\ wallet'[pos[p].mint] # 0
      BY <1>1, <1>3 DEF TypeOK
    <2>2. \A e \in Call :
              \/ call'[e] = call[e]
              \/ call'[e].kind # "close" \/ call'[e].pos # p
              \/ call'[e].retain \/ call'[e].pc \in {"probe", "confirm"}
              \/ call'[e].pc = "sell" /\ call'[e].seen >= wallet'[pos[p].mint]
      BY <1>3, <2>1
    <2> QED BY <1>1, <1>3, <2>1, <2>2, ResponsibleFrame
  <1>4. active \subseteq Position
    BY DEF TypeOK
  <1>5. \A p \in active : (pos[p].mint = m /\ Responsible(p)) =>
            p \in active' /\ pos'[p].mint = m /\ Responsible(p)'
    BY <1>3, <1>4
  <1>6. \A p \in Position \ active : (pos[p].mint = m /\ row[p] = "OPEN") =>
            p \notin active' /\ pos'[p].mint = m /\ row'[p] = "OPEN"
    OBVIOUS
  <1> QED BY <1>2, <1>5, <1>6, KnownFrame

LEMMA PositionHeld ==
  ASSUME TypeOK, HeldInv, NEW p \in Position, PositionStep(p)
  PROVE  HeldInv'
  <1>1. UNCHANGED <<wallet, entry, active, row, lost>>
    BY DEF PositionStep, RequestClose, Promote, StartReduce, entryVars
  <1>2. \A r \in Position : pos'[r].mint = pos[r].mint
    <2>1. /\ Requested(pos[p]).mint = pos[p].mint
          /\ [pos[p] EXCEPT !.state = NextTier[@], !.take = "inFlight"].mint = pos[p].mint
          /\ [pos[p] EXCEPT !.state = NextTier[@]].mint = pos[p].mint
          /\ [pos[p] EXCEPT !.reduce = "inFlight"].mint = pos[p].mint
      BY DEF Requested, TypeOK, KolPosition
    <2> QED BY <2>1 DEF PositionStep, RequestClose, Promote, StartReduce, TypeOK
  <1>3. \A e \in Call :
            call'[e] = call[e] \/ call'[e].kind # "close" \/ call'[e].pc = "probe"
    <2>1. \A b \in BOOLEAN : CloseCall(p, pos[p], b) = IdleCall
                             \/ CloseCall(p, pos[p], b).pc = "probe"
      BY DEF CloseCall, IdleCall
    <2>2. /\ IdleCall.kind # "close"
          /\ [IdleCall EXCEPT !.kind = "take", !.pc = "probe", !.pos = p].kind # "close"
          /\ [IdleCall EXCEPT !.kind = "reduce", !.pc = "probe", !.pos = p].kind # "close"
      BY DEF IdleCall
    <2>3. CASE \E b \in BOOLEAN : RequestClose(p, b)
      BY <2>1, <2>2, <2>3 DEF RequestClose, TypeOK
    <2>4. CASE Promote(p) \/ StartReduce(p)
      BY <2>2, <2>4 DEF Promote, StartReduce, TypeOK
    <2> QED BY <2>3, <2>4 DEF PositionStep
  <1>4. wallet' \in [Mint -> Nat] /\ \A m \in Mint : wallet'[m] <= wallet[m]
    BY <1>1 DEF TypeOK
  <1> QED BY <1>1, <1>2, <1>3, <1>4, HeldFrame

LEMMA CallHeld ==
  ASSUME TypeOK, Rest, HeldInv, TypeOK', NEW c \in Call, CallStep(c),
         ~\E b \in BOOLEAN : CloseFinishes(c, b)
  PROVE  HeldInv'
  <1>0. CallShape(c) /\ call[c] \in CallState /\ call[c].kind # "idle"
    BY DEF Rest, TypeOK, CallStep, PartProbed, PartSold, PartAppended, FallsBackToClose,
           CloseProbed, CloseSold, ZeroConfirmed, CloseFails, PartThrows, CloseThrows, At
  <1>1. PICK p \in Position : p = call[c].pos
    BY <1>0 DEF CallShape, Busy
  <1>2. pos[p] \in KolPosition /\ pos[p].mint \in Mint /\ Held(c) = wallet[pos[p].mint]
    BY <1>1 DEF TypeOK, KolPosition, Held
  <1>3. \A n \in Nat :
            /\ \A m \in Mint : Sold(c, n)[m] <= wallet[m]
            /\ n >= wallet[pos[p].mint] => Sold(c, n)[pos[p].mint] = 0
    <2> TAKE n \in Nat
    <2>1. /\ \A m \in Mint \ {pos[p].mint} : Sold(c, n)[m] = wallet[m]
          /\ Sold(c, n)[pos[p].mint] <= wallet[pos[p].mint]
          /\ n >= wallet[pos[p].mint] => Sold(c, n)[pos[p].mint] = 0
      BY <1>1, <1>2, SpentType DEF Sold, TypeOK
    <2>2. \A m \in Mint : wallet[m] <= wallet[m]
      BY DEF TypeOK
    <2> QED BY <2>1, <2>2
  <1>4. CloseAmount(c) \in Nat /\ Part(call[c].seen) \in Nat
    BY <1>1, SoldType
  <1>5. wallet' \in [Mint -> Nat] /\ \A m \in Mint : wallet'[m] <= wallet[m]
    <2>1. wallet' \in {wallet, Sold(c, CloseAmount(c)), Sold(c, Part(call[c].seen))}
      BY DEF CallStep, PartProbed, PartSold, PartAppended, FallsBackToClose, CloseProbed,
             CloseSold, ZeroConfirmed, CloseFails, PartThrows, CloseThrows
    <2> QED BY <1>3, <1>4, <2>1 DEF TypeOK
  <1>6. /\ UNCHANGED <<active, row, lost>>
        /\ \A m \in Mint : entry[m].pc = "persist" => entry'[m].pc = "persist"
    BY DEF CallStep, PartProbed, PartSold, PartAppended, FallsBackToClose, CloseProbed,
           CloseSold, ZeroConfirmed, CloseFails, PartThrows, CloseThrows, entryVars, EntryAfter
  <1>7. \A q \in KolPosition : Requested(q).mint = q.mint
                               /\ [q EXCEPT !.deferred = FALSE] \in KolPosition
                               /\ [q EXCEPT !.deferred = FALSE].mint = q.mint
    BY DEF Requested, KolPosition
  <1>8. \A mark \in Mark : Marked(c, mark) \in KolPosition /\ Marked(c, mark).mint = pos[p].mint
    BY <1>1, <1>2 DEF Marked, KolPosition
  <1>9. \A q \in KolPosition, b \in BOOLEAN :
            \/ CloseCall(p, q, b).kind # "close"
            \/ CloseCall(p, q, b).pc = "probe" /\ CloseCall(p, q, b).pos = p
    BY DEF CloseCall, IdleCall
  <1>10. ASSUME NEW q \in KolPosition, Drain(c, q), q.mint = pos[p].mint
         PROVE  /\ \A r \in Position : pos'[r].mint = pos[r].mint
                /\ call'[c].kind # "close" \/ (call'[c].pc = "probe" /\ call'[c].pos = p)
                /\ \A e \in Call \ {c} : call'[e] = call[e]
    <2>1. CASE Drains(q)
      <3> DEFINE d == [q EXCEPT !.deferred = FALSE]
      <3>1. d \in KolPosition /\ Requested(d).mint = pos[p].mint
        BY <1>7, <1>10
      <3>2. /\ pos' = [pos EXCEPT ![p] = Requested(d)]
            /\ call' = [call EXCEPT ![c] = CloseCall(p, d, FALSE)]
        BY <1>1, <1>10, <2>1 DEF Drain
      <3> HIDE DEF d
      <3> QED BY <1>9, <3>1, <3>2 DEF TypeOK
    <2>2. CASE ~Drains(q)
      BY <1>1, <1>10, <2>2 DEF Drain, TypeOK, IdleCall
    <2> QED BY <2>1, <2>2
  <1>11. \A r \in Position : pos'[r].mint = pos[r].mint
    <2>1. CASE \E b \in BOOLEAN : PartThrows(c, b)
      BY <1>1, <1>8, <1>10, <2>1 DEF PartThrows, TypeOK, Mark
    <2>2. CASE PartAppended(c)
      BY <1>1, <1>2, <1>10, <2>2 DEF PartAppended
    <2>3. CASE PartSold(c)
      BY <1>1, <1>8, <2>3 DEF PartSold, TypeOK, Mark
    <2>4. CASE FallsBackToClose(c)
      BY <1>1, <1>2, <1>7, <2>4 DEF FallsBackToClose, TypeOK
    <2>5. CASE CloseFails(c)
      BY <1>1, <1>2, <2>5 DEF CloseFails, TypeOK, KolPosition
    <2>6. CASE \/ PartProbed(c) \/ CloseProbed(c) \/ CloseSold(c) \/ ZeroConfirmed(c)
               \/ \E b \in BOOLEAN : CloseThrows(c, b)
      BY <2>6 DEF PartProbed, CloseProbed, CloseSold, ZeroConfirmed, CloseThrows
    <2> QED BY <2>1, <2>2, <2>3, <2>4, <2>5, <2>6 DEF CallStep
  <1>12. \A e \in Call \ {c} : call'[e] = call[e]
    <2>1. CASE \E b \in BOOLEAN : PartThrows(c, b)
      BY <1>8, <1>10, <2>1 DEF PartThrows, TypeOK, Mark
    <2>2. CASE PartAppended(c)
      BY <1>1, <1>2, <1>10, <2>2 DEF PartAppended, TypeOK
    <2> QED
      BY <2>1, <2>2 DEF CallStep, PartProbed, PartSold, FallsBackToClose, CloseProbed,
             CloseSold, ZeroConfirmed, CloseFails, CloseThrows, TypeOK
  <1>13. call'[c].kind = "close" =>
             \/ call'[c].retain \/ call'[c].pc \in {"probe", "confirm"}
             \/ call'[c].pc = "sell" /\ call'[c].seen >= wallet'[pos[p].mint]
             \/ wallet'[pos[p].mint] = 0
             \/ ~Responsible(p)
    <2>1. CASE \E b \in BOOLEAN : PartThrows(c, b)
      <3>1. CASE call[c].kind = "take"
        BY <1>8, <1>10, <2>1, <3>1 DEF PartThrows, TypeOK, Mark
      <3>2. CASE call[c].kind # "take"
        BY <1>0, <2>1, <3>2 DEF PartThrows, At, TypeOK, CallState
      <3> QED BY <3>1, <3>2
    <2>2. CASE PartAppended(c)
      BY <1>1, <1>2, <1>10, <2>2 DEF PartAppended, TypeOK, IdleCall
    <2>3. CASE PartProbed(c) \/ PartSold(c)
      BY <1>0, <2>3 DEF PartProbed, PartSold, At, TypeOK, CallState
    <2>4. CASE FallsBackToClose(c)
      BY <1>1, <1>2, <1>9, <2>4 DEF FallsBackToClose, TypeOK
    <2>5. CASE CloseProbed(c)
      <3>1. wallet' = wallet /\ Held(c) \in Nat
        BY <1>2, <2>5 DEF CloseProbed, TypeOK
      <3>2. CASE Held(c) > 0
        <4>1. call'[c].pc = "sell" /\ call'[c].seen = Held(c)
          BY <1>0, <2>5, <3>2 DEF CloseProbed, TypeOK, CallState
        <4> QED BY <1>2, <3>1, <4>1
      <3>3. CASE ~(Held(c) > 0)
        BY <1>2, <3>1, <3>3
      <3> QED BY <3>2, <3>3
    <2>6. CASE CloseSold(c)
      <3>1. call'[c].retain = call[c].retain /\ wallet' = Sold(c, CloseAmount(c))
        BY <1>0, <2>6 DEF CloseSold, TypeOK, CallState
      <3>2. CASE call[c].retain
        BY <3>1, <3>2
      <3>3. CASE ~call[c].retain
        <4>1. CloseAmount(c) = call[c].seen
          BY <3>3 DEF CloseAmount
        <4>2. Responsible(p) => call[c].seen >= Held(c)
          BY <1>1, <2>6, <3>3 DEF Responsible, CallsOn, Of, CloseSold, At
        <4>3. call[c].seen \in Nat
          BY <1>0 DEF CallState
        <4> QED BY <1>2, <1>3, <3>1, <4>1, <4>2, <4>3
      <3> QED BY <3>2, <3>3
    <2>7. CASE \E b \in BOOLEAN : CloseThrows(c, b)
      <3>1. call'[c].pc = "confirm"
        BY <1>0, <2>7 DEF CloseThrows, TypeOK, CallState
      <3> QED BY <3>1
    <2>8. CASE ZeroConfirmed(c)
      BY <1>2, <2>8 DEF ZeroConfirmed
    <2>9. CASE CloseFails(c)
      BY <2>9 DEF CloseFails, TypeOK, IdleCall
    <2> QED BY <2>1, <2>2, <2>3, <2>4, <2>5, <2>6, <2>7, <2>8, <2>9 DEF CallStep
  <1>14. call'[c].kind = "close" => call'[c].pos = p
    <2>1. CASE \E b \in BOOLEAN : PartThrows(c, b) \/ CloseThrows(c, b)
      <3>1. CASE call[c].kind = "take"
        BY <1>8, <1>10, <2>1, <3>1 DEF PartThrows, CloseThrows, At, Mark
      <3>2. CASE call[c].kind # "take"
        BY <1>0, <1>1, <2>1, <3>2 DEF PartThrows, CloseThrows, At, TypeOK, CallState
      <3> QED BY <3>1, <3>2
    <2>2. CASE PartAppended(c)
      BY <1>1, <1>2, <1>10, <2>2 DEF PartAppended, TypeOK, IdleCall
    <2>3. CASE \/ PartProbed(c) \/ PartSold(c) \/ CloseProbed(c) \/ CloseSold(c)
               \/ ZeroConfirmed(c)
      BY <1>0, <1>1, <2>3 DEF PartProbed, PartSold, CloseProbed, CloseSold, ZeroConfirmed,
                              TypeOK, CallState
    <2>4. CASE FallsBackToClose(c)
      BY <1>1, <1>2, <1>9, <2>4 DEF FallsBackToClose, TypeOK
    <2>5. CASE CloseFails(c)
      BY <2>5 DEF CloseFails, TypeOK, IdleCall
    <2> QED BY <2>1, <2>2, <2>3, <2>4, <2>5 DEF CallStep
  <1>15. \A e \in Call, r \in Position :
             (call'[e].kind = "close" /\ call'[e].pos = r) =>
             \/ call'[e] = call[e]
             \/ call'[e].retain \/ call'[e].pc \in {"probe", "confirm"}
             \/ call'[e].pc = "sell" /\ call'[e].seen >= wallet'[pos[r].mint]
             \/ wallet'[pos[r].mint] = 0
             \/ ~Responsible(r)
    BY <1>12, <1>13, <1>14
  <1> QED BY <1>5, <1>6, <1>11, <1>15, HeldFrame

LEMMA FinishHeld ==
  ASSUME TypeOK, Rest, HeldInv, NEW c \in Call, NEW ok \in BOOLEAN, CloseFinishes(c, ok)
  PROVE  HeldInv'
  <1> SUFFICES ASSUME NEW m \in Mint, wallet'[m] > 0
               PROVE  Known(m)'
    BY DEF HeldInv
  <1>1. UNCHANGED <<wallet, lost>> /\ call[c].kind = "close" /\ call[c].pc = "persist"
    BY DEF CloseFinishes, At
  <1>2. PICK p \in Position : p = call[c].pos /\ p \in active
    BY <1>1 DEF Rest, CallShape, CloseInv, Busy
  <1>3. Known(m)
    BY <1>1 DEF HeldInv
  <1>4. entry[m].pc = "persist" => entry'[m].pc = "persist"
    BY DEF CloseFinishes, EntryAfter
  <1>5. \A r \in Position : pos'[r].mint = pos[r].mint
    BY <1>2 DEF CloseFinishes, TypeOK, NewPosition
  <1>6. \A r \in Position \ {p} : row'[r] = row[r] /\ (r \in active' <=> r \in active)
    BY <1>2 DEF CloseFinishes, TypeOK
  <1>7. ~call[c].retain => ~Responsible(p)
    BY <1>1, <1>2 DEF Responsible, CallsOn, Of
  <1>8. call[c].retain => active' = active
    BY DEF CloseFinishes
  <1>9. active \subseteq Position /\ wallet' \in [Mint -> Nat]
        /\ \A n \in Mint : wallet'[n] <= wallet[n]
    BY <1>1 DEF TypeOK
  <1>10. ASSUME NEW r \in active, pos[r].mint = m, Responsible(r)
         PROVE  r \in active' /\ pos'[r].mint = m /\ Responsible(r)'
    <2>1. r \in Position /\ r \in active'
      BY <1>6, <1>7, <1>8, <1>9, <1>10
    <2>2. \A e \in Call : call'[e] = call[e] \/ call'[e].kind # "close"
      BY DEF CloseFinishes, TypeOK, IdleCall
    <2>3. Responsible(r)'
      BY <1>5, <1>9, <1>10, <2>1, <2>2, ResponsibleFrame
    <2> QED BY <1>5, <1>10, <2>1, <2>3
  <1>11. \A r \in Position \ active : (pos[r].mint = m /\ row[r] = "OPEN") =>
             r \notin active' /\ pos'[r].mint = m /\ row'[r] = "OPEN"
    BY <1>2, <1>5, <1>6
  <1> QED BY <1>1, <1>3, <1>4, <1>10, <1>11, KnownFrame

LEMMA EntryHeld ==
  ASSUME TypeOK, Rest, HeldInv, TypeOK', NEW m \in Mint, Trigger(m) \/ EntryStep(m)
  PROVE  HeldInv'
  <1>1. CASE \/ TriggerLive(m) \/ AdmissionRefused(m) \/ Enter(m) \/ EntryRejected(m)
             \/ AcquireSlot(m)
    <2>1. UNCHANGED <<pos, active, call, wallet, row, lost>>
      BY <1>1 DEF TriggerLive, AdmissionRefused, Enter, EntryRejected, AcquireSlot
    <2>2. \A n \in Mint : entry[n].pc = "persist" => entry'[n].pc = "persist"
      BY <1>1 DEF TriggerLive, AdmissionRefused, Enter, EntryRejected, AcquireSlot, TypeOK
    <2>3. wallet' \in [Mint -> Nat] /\ \A n \in Mint : wallet'[n] <= wallet[n]
      BY <2>1 DEF TypeOK
    <2> QED BY <2>1, <2>2, <2>3, HeldFrame
  <1> SUFFICES ASSUME BuySucceeds(m) \/ (\E b \in BOOLEAN : \/ BuyThrows(m, b)
                                         \/ EntryOpens(m, b) \/ EntryOpensAndExits(m, b)),
                      NEW n \in Mint, wallet'[n] > 0
               PROVE  Known(n)'
    BY <1>1 DEF Trigger, EntryStep, HeldInv
  <1>2. active \subseteq Position /\ wallet \in [Mint -> Nat] /\ wallet' \in [Mint -> Nat]
    BY DEF TypeOK
  <1>3. CASE BuySucceeds(m)
    <2>1. CASE n = m
      BY <1>3, <2>1 DEF BuySucceeds, Known, TypeOK, EntryState
    <2>2. CASE n # m
      <3>1. wallet'[n] = wallet[n] /\ entry'[n] = entry[n] /\ lost' = lost /\ call' = call
            /\ active' = active /\ row' = row
        BY <1>3, <2>2 DEF BuySucceeds, TypeOK
      <3>2. PICK f \in Position : f = Fresh /\ pos[f].state = "none"
        BY <1>3, FreshIsFresh DEF BuySucceeds
      <3>3. f \notin active /\ row[f] # "OPEN" /\ \A r \in Position \ {f} : pos'[r] = pos[r]
        BY <1>3, <3>2 DEF Rest, PosInv, BuySucceeds, TypeOK
      <3>4. Known(n)
        BY <1>2, <3>1 DEF HeldInv
      <3>5. ASSUME NEW r \in active, pos[r].mint = n, Responsible(r)
            PROVE  r \in active' /\ pos'[r].mint = n /\ Responsible(r)'
        <4>1. r \in Position /\ r \in active' /\ pos'[r] = pos[r]
          BY <1>2, <3>1, <3>3
        <4>2. wallet'[pos[r].mint] <= wallet[pos[r].mint]
          BY <1>2, <3>1, <3>5
        <4> QED BY <1>2, <3>1, <3>5, <4>1, <4>2, ResponsibleFrame
      <3>6. \A r \in Position \ active : (pos[r].mint = n /\ row[r] = "OPEN") =>
                r \notin active' /\ pos'[r].mint = n /\ row'[r] = "OPEN"
        BY <3>1, <3>3
      <3> QED BY <3>1, <3>4, <3>5, <3>6, KnownFrame
    <2> QED BY <2>1, <2>2
  <1>4. CASE \E b \in BOOLEAN : BuyThrows(m, b)
    <2>1. UNCHANGED <<pos, active, call, row>> /\ lost \subseteq lost'
      BY <1>4 DEF BuyThrows
    <2>2. CASE n \in lost'
      BY <2>2 DEF Known
    <2>3. CASE n \notin lost'
      <3>1. wallet'[n] = wallet[n] /\ (entry[n].pc = "persist" => entry'[n].pc = "persist")
        BY <1>4, <2>3 DEF BuyThrows, TypeOK
      <3>2. Known(n)
        BY <1>2, <3>1 DEF HeldInv
      <3>3. ASSUME NEW r \in active, pos[r].mint = n, Responsible(r)
            PROVE  r \in active' /\ pos'[r].mint = n /\ Responsible(r)'
        <4>1. r \in Position /\ wallet'[pos[r].mint] <= wallet[pos[r].mint]
          BY <1>2, <3>1, <3>3
        <4> QED BY <1>2, <2>1, <3>3, <4>1, ResponsibleFrame
      <3> QED BY <2>1, <3>1, <3>2, <3>3, KnownFrame
    <2> QED BY <2>2, <2>3
  <1>5. CASE \E b \in BOOLEAN : EntryOpens(m, b) \/ EntryOpensAndExits(m, b)
    <2>1. PICK b \in BOOLEAN : EntryOpens(m, b) \/ EntryOpensAndExits(m, b)
      BY <1>5
    <2>2. EntryInv(m) /\ entry[m].pc = "persist"
      BY <2>1 DEF Rest, EntryOpens, EntryOpensAndExits, Opens
    <2>3. PICK p \in Position :
              /\ p = entry[m].pos /\ p \notin active /\ pos[p].mint = m
              /\ \A c \in Call : Busy(c) => call[c].pos # p
      BY <2>2 DEF EntryInv
    <2>4. /\ wallet' = wallet /\ lost' = lost /\ active' = active \cup {p}
          /\ \A r \in Position \ {p} : pos'[r] = pos[r] /\ row'[r] = row[r]
          /\ pos'[p].mint = m
          /\ \A k \in Mint \ {m} : entry'[k] = entry[k]
      BY <2>1, <2>3 DEF EntryOpens, EntryOpensAndExits, Opens, NewPosition, TypeOK
    <2>5. \A e \in Call : call'[e] = call[e] \/ (call'[e].pc = "probe" /\ call'[e].kind = "close")
      <3>1. CASE EntryOpens(m, b)
        BY <3>1 DEF EntryOpens
      <3>2. CASE EntryOpensAndExits(m, b)
        <4> DEFINE d == [IdleCall EXCEPT !.kind = "close", !.pc = "probe",
                                         !.pos = entry[m].pos, !.prev = "PROBE"]
        <4>1. d.kind = "close" /\ d.pc = "probe"
          BY DEF IdleCall
        <4>2. call' = [call EXCEPT ![FreeCall] = d]
          BY <3>2 DEF EntryOpensAndExits
        <4> HIDE DEF d
        <4> QED BY <4>1, <4>2 DEF TypeOK
      <3> QED BY <2>1, <3>1, <3>2
    <2>6. CASE n = m
      <3>1. ASSUME NEW e \in Call, call'[e].kind = "close", call'[e].pos = p
            PROVE  call'[e].pc = "probe"
        BY <2>3, <2>5, <3>1 DEF Busy
      <3>2. Responsible(p)'
        BY <3>1 DEF Responsible, CallsOn, Of
      <3> QED BY <2>4, <2>6, <3>2 DEF Known, ActiveOf
    <2>7. CASE n # m
      <3>1. Known(n)
        BY <2>4 DEF HeldInv
      <3>2. ASSUME NEW r \in active, pos[r].mint = n, Responsible(r)
            PROVE  r \in active' /\ pos'[r].mint = n /\ Responsible(r)'
        <4>1. r \in Position /\ r # p /\ pos'[r] = pos[r]
          BY <1>2, <2>3, <2>4, <3>2
        <4>2. wallet'[pos[r].mint] <= wallet[pos[r].mint]
          BY <1>2, <2>4, <3>2
        <4> QED BY <1>2, <2>4, <2>5, <3>2, <4>1, <4>2, ResponsibleFrame
      <3>3. \A r \in Position \ active : (pos[r].mint = n /\ row[r] = "OPEN") =>
                r \notin active' /\ pos'[r].mint = n /\ row'[r] = "OPEN"
        BY <2>3, <2>4, <2>7
      <3> QED BY <2>4, <2>7, <3>1, <3>2, <3>3, KnownFrame
    <2> QED BY <2>6, <2>7
  <1> QED BY <1>3, <1>4, <1>5

LEMMA RestartHeld ==
  ASSUME TypeOK, NEW loaded \in SUBSET Position, NEW closed \in SUBSET Position,
         Restart(loaded, closed)
  PROVE  HeldInv'
  <1> SUFFICES ASSUME NEW m \in Mint, wallet'[m] > 0
               PROVE  Known(m)'
    BY DEF HeldInv
  <1>1. wallet' = wallet /\ \A c \in Call : call'[c].kind = "idle"
    BY DEF Restart, IdleCall
  <1>2. CASE \A p \in OpenRows : MintOf(p) # m
    BY <1>1, <1>2 DEF Restart, Known
  <1>3. CASE \E p \in OpenRows : MintOf(p) = m
    <2>1. PICK p \in Position : p \in OpenRows /\ MintOf(p) = m
      BY <1>3 DEF OpenRows
    <2>2. p \in loaded /\ p \in active'
      BY <1>1, <2>1 DEF Restart, HeldRows
    <2>3. pos'[p].mint = m
      BY <2>1, <2>2 DEF Restart, NewPosition
    <2>4. Responsible(p)'
      BY <1>1 DEF Responsible, CallsOn, Of
    <2> QED BY <2>2, <2>3, <2>4 DEF Known, ActiveOf
  <1> QED BY <1>2, <1>3

-----------------------------------------------------------------------------
(* Slots *)

Buying(l) == {m \in Mint : entry[m].pc \in {"buy", "persist"} /\ entry[m].lane = l}
Living(l) == {p \in active : pos[p].lane = l}

LEMMA Counts ==
  ASSUME TypeOK, NEW l \in EntryLane
  PROVE  /\ IsFiniteSet(Buying(l)) /\ Cardinality(Buying(l)) \in Nat
         /\ IsFiniteSet(Living(l)) /\ Cardinality(Living(l)) \in Nat
  <1>1. Buying(l) \in SUBSET Mint /\ Living(l) \in SUBSET Position
    BY DEF Buying, Living, TypeOK
  <1>2. IsFiniteSet(Buying(l)) /\ IsFiniteSet(Living(l))
    BY <1>1, FS_Subset, KolAssumption
  <1> QED BY <1>2, FS_CardinalityType

\* A lane whose counts do not shrink and whose slots do not grow
LEMMA SlotFrame ==
  ASSUME TypeOK, NoSlotLeak, TypeOK', NEW l \in EntryLane,
         canary'[l] <= canary[l], Buying(l)' = Buying(l), Living(l)' = Living(l)
  PROVE  canary'[l] <= Cardinality(Buying(l)') + Cardinality(Living(l)')
  <1>1. canary[l] <= Cardinality(Buying(l)) + Cardinality(Living(l))
    BY DEF NoSlotLeak, Buying, Living
  <1>2. /\ canary[l] \in Nat /\ canary'[l] \in Nat
        /\ Cardinality(Buying(l)) \in Nat /\ Cardinality(Living(l)) \in Nat
    BY Counts DEF TypeOK
  <1> QED BY <1>1, <1>2

LEMMA EntrySlots ==
  ASSUME TypeOK, Rest, NoSlotLeak, TypeOK', NEW m \in Mint, Trigger(m) \/ EntryStep(m)
  PROVE  NoSlotLeak'
  <1> SUFFICES ASSUME NEW l \in EntryLane
               PROVE  canary'[l] <= Cardinality(Buying(l)') + Cardinality(Living(l)')
    BY DEF NoSlotLeak, Buying, Living
  <1>0. /\ canary[l] \in Nat /\ canary'[l] \in Nat
        /\ canary[l] <= Cardinality(Buying(l)) + Cardinality(Living(l))
        /\ IsFiniteSet(Buying(l)) /\ Cardinality(Buying(l)) \in Nat
        /\ IsFiniteSet(Living(l)) /\ Cardinality(Living(l)) \in Nat
    BY Counts DEF TypeOK, NoSlotLeak, Buying, Living
  <1>1. CASE TriggerLive(m) \/ AdmissionRefused(m) \/ Enter(m) \/ EntryRejected(m)
    <2>1. UNCHANGED <<canary, pos, active>>
      BY <1>1 DEF TriggerLive, AdmissionRefused, Enter, EntryRejected
    <2>2. /\ \A n \in Mint \ {m} : entry'[n] = entry[n]
          /\ \/ entry'[m] = entry[m]
             \/ entry'[m].pc \in {"none", "quote"} /\ entry[m].pc \in {"none", "quote"}
      <3>1. \A k \in Sublane : [NoEntry EXCEPT !.pc = "quote", !.lane = k].pc = "quote"
        BY DEF NoEntry
      <3>2. CASE Enter(m)
        BY <3>1, <3>2 DEF Enter, TypeOK
      <3>3. CASE EntryRejected(m)
        BY <3>3 DEF EntryRejected, TypeOK, NoEntry
      <3>4. CASE TriggerLive(m) \/ AdmissionRefused(m)
        BY <3>4 DEF TriggerLive, AdmissionRefused
      <3> QED BY <1>1, <3>2, <3>3, <3>4
    <2>3. Buying(l)' = Buying(l)
      BY <2>2 DEF Buying
    <2>4. Living(l)' = Living(l)
      BY <2>1 DEF Living
    <2> QED BY <1>0, <2>1, <2>3, <2>4, SlotFrame
  <1>2. CASE AcquireSlot(m)
    <2>1. /\ UNCHANGED <<pos, active>> /\ canary' = Acquired(entry[m].lane)
          /\ entry' = [entry EXCEPT ![m].pc = "buy"] /\ entry[m].pc = "quote"
      BY <1>2 DEF AcquireSlot
    <2>2. /\ \A n \in Mint \ {m} : entry'[n] = entry[n]
          /\ entry'[m].pc = "buy" /\ entry'[m].lane = entry[m].lane
      BY <2>1 DEF TypeOK, EntryState
    <2>3. Living(l)' = Living(l)
      BY <2>1 DEF Living
    <2>4. CASE entry[m].lane = l
      <3>1. Buying(l)' = Buying(l) \cup {m} /\ m \notin Buying(l)
        BY <2>1, <2>2, <2>4 DEF Buying
      <3>2. canary'[l] = canary[l] + 1
        BY <2>1, <2>4 DEF Acquired, TypeOK
      <3>3. Cardinality(Buying(l)') = Cardinality(Buying(l)) + 1
        BY <1>0, <3>1, FS_AddElement
      <3> QED BY <1>0, <2>3, <3>2, <3>3
    <2>5. CASE entry[m].lane # l
      <3>1. Buying(l)' = Buying(l)
        BY <2>2, <2>5 DEF Buying
      <3>2. canary'[l] = canary[l]
        BY <2>1, <2>5 DEF Acquired, TypeOK
      <3> QED BY <1>0, <2>3, <3>1, <3>2, SlotFrame
    <2> QED BY <2>4, <2>5
  <1>3. CASE BuySucceeds(m)
    <2>1. PICK p \in Position : p = Fresh /\ pos[p].state = "none"
      BY <1>3, FreshIsFresh DEF BuySucceeds
    <2>2. /\ UNCHANGED <<active, canary>> /\ p \notin active
          /\ \A r \in Position \ {p} : pos'[r] = pos[r]
      BY <1>3, <2>1 DEF BuySucceeds, Rest, PosInv, TypeOK
    <2>3. /\ \A n \in Mint \ {m} : entry'[n] = entry[n]
          /\ entry'[m].pc = "persist" /\ entry'[m].lane = entry[m].lane
          /\ entry[m].pc = "buy"
      BY <1>3 DEF BuySucceeds, TypeOK, EntryState
    <2>4. Buying(l)' = Buying(l)
      BY <2>3 DEF Buying
    <2>5. Living(l)' = Living(l)
      BY <2>2 DEF Living, TypeOK
    <2> QED BY <1>0, <2>2, <2>4, <2>5, SlotFrame
  <1>4. CASE \E b \in BOOLEAN : BuyThrows(m, b)
    <2>1. /\ UNCHANGED <<pos, active>> /\ canary' = Released(entry[m].lane)
          /\ entry' = [entry EXCEPT ![m] = NoEntry] /\ entry[m].pc = "buy"
      BY <1>4 DEF BuyThrows
    <2>2. /\ \A n \in Mint \ {m} : entry'[n] = entry[n]
          /\ entry'[m].pc = "none"
      BY <2>1 DEF TypeOK, NoEntry
    <2>3. Living(l)' = Living(l)
      BY <2>1 DEF Living
    <2>4. CASE entry[m].lane = l
      <3>1. Buying(l)' = Buying(l) \ {m} /\ m \in Buying(l)
        BY <2>1, <2>2, <2>4 DEF Buying
      <3>2. canary'[l] = IF canary[l] > 0 THEN canary[l] - 1 ELSE 0
        BY <2>1, <2>4 DEF Released, TypeOK
      <3>3. /\ Cardinality(Buying(l)') = Cardinality(Buying(l)) - 1
            /\ Cardinality(Buying(l)') \in Nat
        BY <1>0, <3>1, FS_RemoveElement, FS_CardinalityType
      <3> QED BY <1>0, <2>3, <3>2, <3>3
    <2>5. CASE entry[m].lane # l
      <3>1. Buying(l)' = Buying(l)
        BY <2>2, <2>5 DEF Buying
      <3>2. canary'[l] = canary[l]
        BY <2>1, <2>5 DEF Released, TypeOK
      <3> QED BY <1>0, <2>3, <3>1, <3>2, SlotFrame
    <2> QED BY <2>4, <2>5
  <1>5. CASE \E b \in BOOLEAN : EntryOpens(m, b) \/ EntryOpensAndExits(m, b)
    <2>1. PICK b \in BOOLEAN : EntryOpens(m, b) \/ EntryOpensAndExits(m, b)
      BY <1>5
    <2>2. EntryInv(m) /\ entry[m].pc = "persist"
      BY <2>1 DEF Rest, EntryOpens, EntryOpensAndExits, Opens
    <2>3. PICK p \in Position : p = entry[m].pos /\ p \notin active
      BY <2>2 DEF EntryInv
    <2>4. /\ canary' = canary /\ active' = active \cup {p}
          /\ \A r \in Position \ {p} : pos'[r] = pos[r]
          /\ pos'[p].lane = entry[m].lane
          /\ \A k \in Mint \ {m} : entry'[k] = entry[k]
          /\ entry'[m].pc \in {"none", "exit"}
      <3>1. /\ canary' = canary /\ active' = active \cup {p}
            /\ \A r \in Position \ {p} : pos'[r] = pos[r]
            /\ pos'[p].lane = entry[m].lane
        BY <2>1, <2>3 DEF EntryOpens, EntryOpensAndExits, Opens, NewPosition, TypeOK
      <3>2. CASE EntryOpens(m, b)
        BY <3>1, <3>2 DEF EntryOpens, TypeOK, NoEntry
      <3>3. CASE EntryOpensAndExits(m, b)
        <4> DEFINE e == [entry[m] EXCEPT !.pc = "exit", !.call = FreeCall]
        <4>1. e.pc = "exit"
          BY DEF TypeOK, EntryState
        <4>2. entry' = [entry EXCEPT ![m] = e]
          BY <3>3 DEF EntryOpensAndExits, TypeOK
        <4> HIDE DEF e
        <4> QED BY <3>1, <4>1, <4>2 DEF TypeOK
      <3> QED BY <2>1, <3>2, <3>3
    <2>5. CASE entry[m].lane = l
      <3>1. Buying(l)' = Buying(l) \ {m} /\ m \in Buying(l)
        BY <2>2, <2>4, <2>5 DEF Buying
      <3>2. Living(l)' = Living(l) \cup {p} /\ p \notin Living(l)
        BY <2>3, <2>4, <2>5 DEF Living, TypeOK
      <3>3. Cardinality(Buying(l)') = Cardinality(Buying(l)) - 1
        BY <1>0, <3>1, FS_RemoveElement
      <3>4. Cardinality(Living(l)') = Cardinality(Living(l)) + 1
        BY <1>0, <3>2, FS_AddElement
      <3> QED BY <1>0, <2>4, <3>3, <3>4
    <2>6. CASE entry[m].lane # l
      <3>1. Buying(l)' = Buying(l)
        BY <2>4, <2>6 DEF Buying
      <3>2. Living(l)' = Living(l)
        BY <2>3, <2>4, <2>6 DEF Living, TypeOK
      <3> QED BY <1>0, <2>4, <3>1, <3>2, SlotFrame
    <2> QED BY <2>5, <2>6
  <1> QED BY <1>1, <1>2, <1>3, <1>4, <1>5 DEF Trigger, EntryStep

LEMMA LaneKept ==
  ASSUME TypeOK, Rest, NEW p \in Position,
         \/ PositionStep(p)
         \/ \E c \in Call : CallStep(c) /\ ~\E b \in BOOLEAN : CloseFinishes(c, b)
  PROVE  /\ UNCHANGED <<active, canary>>
         /\ \A r \in Position : pos'[r].lane = pos[r].lane
  <1>1. UNCHANGED <<active, canary>>
    BY DEF PositionStep, RequestClose, Promote, StartReduce, CallStep, PartProbed, PartSold,
           PartAppended, FallsBackToClose, CloseProbed, CloseSold, ZeroConfirmed, CloseFails,
           PartThrows, CloseThrows, entryVars
  <1>2. ASSUME NEW q \in KolPosition
        PROVE  /\ Requested(q).lane = q.lane
               /\ [q EXCEPT !.deferred = FALSE] \in KolPosition
               /\ [q EXCEPT !.deferred = FALSE].lane = q.lane
               /\ [q EXCEPT !.state = NextTier[@], !.take = "inFlight"].lane = q.lane
               /\ [q EXCEPT !.state = NextTier[@]].lane = q.lane
               /\ [q EXCEPT !.reduce = "inFlight"].lane = q.lane
               /\ \A v : [q EXCEPT !.state = v].lane = q.lane
    BY DEF Requested, KolPosition
  <1>3. CASE PositionStep(p)
    <2>1. pos[p] \in KolPosition
      BY DEF TypeOK
    <2> QED BY <1>1, <1>2, <1>3, <2>1 DEF PositionStep, RequestClose, Promote, StartReduce, TypeOK
  <1>4. ASSUME NEW c \in Call, CallStep(c), ~\E b \in BOOLEAN : CloseFinishes(c, b)
        PROVE  \A r \in Position : pos'[r].lane = pos[r].lane
    <2>0. CallShape(c) /\ call[c].kind # "idle"
      BY <1>4 DEF Rest, CallStep, PartProbed, PartSold, PartAppended, FallsBackToClose,
           CloseProbed, CloseSold, ZeroConfirmed, CloseFails, PartThrows, CloseThrows, At
    <2>1. PICK q \in Position : q = call[c].pos /\ pos[q] \in KolPosition
      BY <2>0 DEF CallShape, Busy, TypeOK
    <2>2. \A mark \in Mark : Marked(c, mark) \in KolPosition /\ Marked(c, mark).lane = pos[q].lane
      BY <2>1 DEF Marked, KolPosition
    <2>3. ASSUME NEW k \in KolPosition, Drain(c, k), k.lane = pos[q].lane
          PROVE  \A r \in Position : pos'[r].lane = pos[r].lane
      <3>1. Requested([k EXCEPT !.deferred = FALSE]).lane = k.lane
        BY <1>2
      <3> QED BY <2>1, <2>3, <3>1 DEF Drain, TypeOK
    <2>4. CASE \E b \in BOOLEAN : PartThrows(c, b)
      BY <2>1, <2>2, <2>3, <2>4 DEF PartThrows, TypeOK, Mark
    <2>5. CASE PartAppended(c)
      BY <2>1, <2>3, <2>5 DEF PartAppended
    <2>6. CASE PartSold(c)
      BY <2>1, <2>2, <2>6 DEF PartSold, TypeOK, Mark
    <2>7. CASE FallsBackToClose(c)
      BY <1>2, <2>1, <2>7 DEF FallsBackToClose, TypeOK
    <2>8. CASE CloseFails(c)
      BY <1>2, <2>1, <2>8 DEF CloseFails, TypeOK
    <2>9. CASE \/ PartProbed(c) \/ CloseProbed(c) \/ CloseSold(c) \/ ZeroConfirmed(c)
               \/ \E b \in BOOLEAN : CloseThrows(c, b)
      BY <2>9 DEF PartProbed, CloseProbed, CloseSold, ZeroConfirmed, CloseThrows
    <2> QED BY <1>4, <2>4, <2>5, <2>6, <2>7, <2>8, <2>9 DEF CallStep
  <1> QED BY <1>1, <1>3, <1>4

LEMMA OtherSlots ==
  ASSUME TypeOK, Rest, NoSlotLeak, TypeOK', NEW p \in Position,
         PositionStep(p) \/ \E c \in Call : CallStep(c)
  PROVE  NoSlotLeak'
  <1> SUFFICES ASSUME NEW l \in EntryLane
               PROVE  canary'[l] <= Cardinality(Buying(l)') + Cardinality(Living(l)')
    BY DEF NoSlotLeak, Buying, Living
  <1>0. /\ canary[l] \in Nat /\ canary'[l] \in Nat
        /\ canary[l] <= Cardinality(Buying(l)) + Cardinality(Living(l))
        /\ IsFiniteSet(Buying(l)) /\ Cardinality(Buying(l)) \in Nat
        /\ IsFiniteSet(Living(l)) /\ Cardinality(Living(l)) \in Nat
    BY Counts DEF TypeOK, NoSlotLeak, Buying, Living
  <1>1. Buying(l)' = Buying(l)
    <2>1. \A m \in Mint : \/ entry'[m] = entry[m]
                          \/ entry[m].pc = "exit" /\ entry'[m] = NoEntry
      BY DEF PositionStep, RequestClose, Promote, StartReduce, CallStep, PartProbed, PartSold,
             PartAppended, FallsBackToClose, CloseProbed, CloseSold, ZeroConfirmed, CloseFails,
             PartThrows, CloseThrows, CloseFinishes, EntryAfter, entryVars
    <2> QED BY <2>1 DEF Buying, NoEntry
  <1>2. CASE \/ PositionStep(p)
             \/ \E c \in Call : CallStep(c) /\ ~\E b \in BOOLEAN : CloseFinishes(c, b)
    <2>1. /\ UNCHANGED <<active, canary>>
          /\ \A r \in Position : pos'[r].lane = pos[r].lane
      BY <1>2, LaneKept
    <2>2. Living(l)' = Living(l)
      BY <2>1 DEF Living, TypeOK
    <2> QED BY <1>0, <1>1, <2>1, <2>2, SlotFrame
  <1>3. ASSUME NEW c \in Call, NEW b \in BOOLEAN, CloseFinishes(c, b)
        PROVE  canary'[l] <= Cardinality(Buying(l)') + Cardinality(Living(l)')
    <2>1. call[c].kind = "close"
      BY <1>3 DEF CloseFinishes, At
    <2>2. PICK q \in Position : q = call[c].pos /\ q \in active
      BY <2>1 DEF Rest, CallShape, CloseInv, Busy
    <2>3. /\ canary' = Released(pos[q].lane)
          /\ \A r \in Position \ {q} : pos'[r] = pos[r]
          /\ \/ active' = active /\ pos'[q].lane = pos[q].lane
             \/ active' = active \ {q}
      BY <1>3, <2>2 DEF CloseFinishes, NewPosition, TypeOK
    <2>4. pos[q].lane \in EntryLane
      BY DEF TypeOK, KolPosition
    <2>5. canary'[l] <= canary[l]
      BY <1>0, <2>3, <2>4 DEF Released, TypeOK
    <2>6. CASE active' = active /\ pos'[q].lane = pos[q].lane
      <3>1. Living(l)' = Living(l)
        BY <2>3, <2>6 DEF Living, TypeOK
      <3> QED BY <1>0, <1>1, <2>5, <3>1, SlotFrame
    <2>7. CASE active' = active \ {q}
      <3>1. CASE pos[q].lane = l
        <4>1. Living(l)' = Living(l) \ {q} /\ q \in Living(l)
          BY <2>2, <2>3, <2>7, <3>1 DEF Living, TypeOK
        <4>2. /\ Cardinality(Living(l)') = Cardinality(Living(l)) - 1
              /\ Cardinality(Living(l)') \in Nat
          BY <1>0, <4>1, FS_RemoveElement, FS_CardinalityType
        <4>3. canary'[l] = IF canary[l] > 0 THEN canary[l] - 1 ELSE 0
          BY <2>3, <3>1 DEF Released, TypeOK
        <4> QED BY <1>0, <1>1, <4>2, <4>3
      <3>2. CASE pos[q].lane # l
        <4>1. Living(l)' = Living(l)
          BY <2>3, <2>7, <3>2 DEF Living, TypeOK
        <4> QED BY <1>0, <1>1, <2>5, <4>1, SlotFrame
      <3> QED BY <3>1, <3>2
    <2> QED BY <2>3, <2>6, <2>7
  <1> QED BY <1>2, <1>3 DEF CallStep

LEMMA StartSlots == ASSUME TypeOK, canary' = [l \in EntryLane |-> 0], TypeOK'
                    PROVE  NoSlotLeak'
  <1> SUFFICES ASSUME NEW l \in EntryLane
               PROVE  0 <= Cardinality(Buying(l)') + Cardinality(Living(l)')
    BY DEF NoSlotLeak, Buying, Living
  <1>1. Buying(l)' \in SUBSET Mint /\ Living(l)' \in SUBSET Position
    BY DEF Buying, Living, TypeOK
  <1>2. IsFiniteSet(Buying(l)') /\ IsFiniteSet(Living(l)')
    BY <1>1, FS_Subset, KolAssumption
  <1> QED BY <1>2, FS_CardinalityType

-----------------------------------------------------------------------------
(* The invariant *)

LEMMA InitInv == Init => IInv
  <1> SUFFICES ASSUME Init
               PROVE  IInv
    OBVIOUS
  <1>1. TypeOK /\ Rest
    BY TypeInit, RestInit
  <1>2. HeldInv
    BY DEF Init, HeldInv
  <1>3. NoSlotLeak
    <2> SUFFICES ASSUME NEW l \in EntryLane
                 PROVE  canary[l] <= Cardinality(Buying(l)) + Cardinality(Living(l))
      BY DEF NoSlotLeak, Buying, Living
    <2>1. canary[l] = 0
      BY DEF Init
    <2> QED BY <1>1, <2>1, Counts
  <1> QED BY <1>1, <1>2, <1>3 DEF IInv

LEMMA NextInv == IInv /\ [Next]_vars => IInv'
  <1> SUFFICES ASSUME IInv, [Next]_vars
               PROVE  IInv'
    OBVIOUS
  <1>1. TypeOK /\ Rest /\ HeldInv /\ NoSlotLeak
    BY DEF IInv
  <1>2. TypeOK'
    BY <1>1, TypeStep DEF Rest
  <1>3. Rest'
    BY <1>1, RestStep
  <1>4. CASE UNCHANGED vars
    <2>1. HeldInv'
      <3>1. \A e \in Call : call'[e] = call[e]
        BY <1>4 DEF vars
      <3>2. \A m \in Mint : wallet'[m] <= wallet[m]
        BY <1>1, <1>4 DEF vars, TypeOK
      <3> QED BY <1>1, <1>2, <1>4, <3>1, <3>2, HeldFrame DEF vars, TypeOK, entryVars
    <2>2. NoSlotLeak'
      <3> SUFFICES ASSUME NEW l \in EntryLane
                   PROVE  canary'[l] <= Cardinality(Buying(l)') + Cardinality(Living(l)')
        BY DEF NoSlotLeak, Buying, Living
      <3>1. canary'[l] <= canary[l]
        BY <1>1, <1>4 DEF vars, TypeOK
      <3>2. Buying(l)' = Buying(l) /\ Living(l)' = Living(l)
        BY <1>4 DEF vars, Buying, Living, entryVars
      <3> QED BY <1>1, <1>2, <3>1, <3>2, SlotFrame
    <2> QED BY <1>2, <1>3, <2>1, <2>2 DEF IInv
  <1>5. CASE \E m \in Mint : Trigger(m) \/ EntryStep(m)
    BY <1>1, <1>2, <1>3, <1>5, EntryHeld, EntrySlots DEF IInv
  <1>6. CASE \E p \in Position : PositionStep(p)
    BY <1>1, <1>2, <1>3, <1>6, PositionHeld, OtherSlots DEF IInv
  <1>7. CASE \E c \in Call : CallStep(c)
    <2>1. PICK c \in Call : CallStep(c)
      BY <1>7
    <2>2. HeldInv'
      BY <1>1, <1>2, <2>1, CallHeld, FinishHeld
    <2>3. PICK p \in Position : TRUE
      BY <1>1, <2>1 DEF CallStep, PartProbed, PartSold, PartAppended, FallsBackToClose,
           CloseProbed, CloseSold, ZeroConfirmed, CloseFails, PartThrows, CloseThrows,
           CloseFinishes, At, Rest, CallShape, Busy
    <2>4. NoSlotLeak'
      BY <1>1, <1>2, <2>1, OtherSlots
    <2> QED BY <1>2, <1>3, <2>2, <2>4 DEF IInv
  <1>8. CASE \E loaded, closed \in SUBSET Position : Restart(loaded, closed)
    <2>1. canary' = [l \in EntryLane |-> 0]
      BY <1>8 DEF Restart
    <2> QED BY <1>1, <1>2, <1>3, <1>8, <2>1, RestartHeld, StartSlots DEF IInv
  <1> QED BY <1>4, <1>5, <1>6, <1>7, <1>8 DEF Next

LEMMA Invariant == Spec => []IInv
  <1>1. Init => IInv
    BY InitInv
  <1>2. IInv /\ [Next]_vars => IInv'
    BY NextInv
  <1> QED BY <1>1, <1>2, PTL DEF Spec

-----------------------------------------------------------------------------
(* Theorems *)

\* Every variable keeps its type, for any mints, positions, calls and bounds: the code
\* needs no bound on the calls that are suspended at one time.
THEOREM Typed == Spec => []TypeOK
  <1>1. IInv => TypeOK
    BY DEF IInv
  <1> QED BY <1>1, Invariant, PTL

\* A live position of the active map is CLOSED exactly while one closeLivePosition works
\* on it, whatever takes, reduces, failed closes and restarts went before.
THEOREM OneCloseAtWork == Spec => []ClosedWhileClosing
  <1>1. IInv => ClosedWhileClosing
    <2> SUFFICES ASSUME IInv, NEW p \in active
                 PROVE  /\ pos[p].state = "CLOSED" => CallsOn(p, "close") # {}
                        /\ \A c, d \in CallsOn(p, "close") : c = d /\ pos[p].state = "CLOSED"
      BY DEF ClosedWhileClosing
    <2>1. p \in Position /\ MarkInv(p)
      BY DEF IInv, TypeOK, Rest
    <2>2. pos[p].state = "CLOSED" => CallsOn(p, "close") # {}
      BY <2>1 DEF MarkInv, CallsOn, Of
    <2>3. \A c, d \in CallsOn(p, "close") : c = d /\ pos[p].state = "CLOSED"
      BY DEF IInv, Rest, CallsOn, Of, Apart, CloseInv
    <2> QED BY <2>2, <2>3
  <1> QED BY <1>1, Invariant, PTL

\* No close sells while the T1 take of its position does, in any interleaving.
THEOREM CloseWaitsForTake == Spec => []NoCloseDuringTake
  <1>1. IInv => NoCloseDuringTake
    BY DEF IInv, Rest, NoCloseDuringTake, CallsOn, Of, CloseInv
  <1> QED BY <1>1, Invariant, PTL

\* What is marked in flight has the suspended call that clears the mark.
THEOREM MarksAreCleared == Spec => []NothingStuckInFlight
  <1>1. IInv => NothingStuckInFlight
    <2> SUFFICES ASSUME IInv
                 PROVE  NothingStuckInFlight
      OBVIOUS
    <2>1. active \subseteq Position
      BY DEF IInv, TypeOK
    <2>2. \A p \in active : pos[p].take = "inFlight" => CallsOn(p, "take") # {}
      BY <2>1 DEF IInv, Rest, MarkInv, CallsOn, Of
    <2>3. \A p \in active : pos[p].reduce = "inFlight" => CallsOn(p, "reduce") # {}
      BY <2>1 DEF IInv, Rest, MarkInv, CallsOn, Of
    <2>4. \A m \in Mint :
              entry[m].pc = "exit" => /\ entry[m].call \in CallsOn(entry[m].pos, "close")
                                      /\ MintOf(entry[m].pos) = m
      BY DEF IInv, Rest, EntryInv, CallsOn, Of, MintOf
    <2> QED BY <2>2, <2>3, <2>4 DEF NothingStuckInFlight
  <1> QED BY <1>1, Invariant, PTL

\* Tokens in the wallet are those of a position, an entry or an OPEN row, or of a mint
\* that lost records.
THEOREM TokensAreKnown == Spec => []HeldIsKnown
  <1>1. IInv => HeldIsKnown
    <2> SUFFICES ASSUME IInv, NEW m \in Mint, wallet[m] > 0
                 PROVE  \/ m \in lost \/ ActiveOf(m) # {} \/ entry[m].pc = "persist"
                        \/ \E p \in OpenRows : MintOf(p) = m
      BY DEF HeldIsKnown
    <2> QED BY DEF IInv, HeldInv, Known
  <1> QED BY <1>1, Invariant, PTL

\* The canary guard counts no more slots of a lane than it has buys and live positions.
THEOREM SlotsComeBack == Spec => []NoSlotLeak
  <1>1. IInv => NoSlotLeak
    BY DEF IInv
  <1> QED BY <1>1, Invariant, PTL

\* A close that the T1 take put off is at work as soon as the take returns.
THEOREM DeferredCloseIsMade == Spec => DeferredCloseStarts
  <1>1. ASSUME IInv, [Next]_vars, restarts' = restarts, NEW p \in Position,
               NEW c \in CallsOn(p, "take"), pos[p].deferred, call'[c].kind # "take"
        PROVE  CallsOn(p, "close")' # {}
    <2>1. /\ c \in Call /\ call[c].kind = "take" /\ call[c].pos = p
          /\ TypeOK /\ Rest /\ CallShape(c) /\ TakeInv(c) /\ PosInv(p) /\ MarkInv(p)
      BY <1>1 DEF CallsOn, Of, IInv, Rest
    <2>2. p \in active
      BY <1>1, <2>1 DEF PosInv
    <2>3. \/ \E b \in BOOLEAN : PartThrows(c, b)
          \/ PartAppended(c)
      <3>1. CASE UNCHANGED vars
        BY <1>1, <2>1, <3>1 DEF vars
      <3>2. CASE \E m \in Mint : Trigger(m) \/ EntryStep(m)
        BY <1>1, <2>1, <3>2, FreeCallIsIdle DEF Trigger, EntryStep, TriggerLive,
           AdmissionRefused, Enter, EntryRejected, AcquireSlot, BuySucceeds, BuyThrows,
           EntryOpens, EntryOpensAndExits, TypeOK
      <3>3. CASE \E r \in Position : PositionStep(r)
        BY <1>1, <2>1, <3>3, FreeCallIsIdle DEF PositionStep, RequestClose, Promote,
           StartReduce, TypeOK
      <3>4. ASSUME NEW d \in Call, CallStep(d)
            PROVE  \/ \E b \in BOOLEAN : PartThrows(c, b)
                   \/ PartAppended(c)
        <4>1. \A e \in Call \ {d} : call'[e] = call[e]
          BY <2>1, <3>4 DEF CallStep, PartProbed, PartSold, PartAppended, FallsBackToClose,
             CloseProbed, CloseSold, ZeroConfirmed, CloseFails, PartThrows, CloseThrows,
             CloseFinishes, Drain, TypeOK
        <4>2. d = c
          BY <1>1, <2>1, <4>1
        <4>3. ~PartProbed(c) /\ ~PartSold(c)
          BY <1>1, <2>1 DEF PartProbed, PartSold, TypeOK, CallState
        <4> QED BY <2>1, <3>4, <4>2, <4>3 DEF CallStep, FallsBackToClose, CloseProbed,
                CloseSold, ZeroConfirmed, CloseFails, CloseThrows, CloseFinishes, At
      <3>5. CASE \E loaded, closed \in SUBSET Position : Restart(loaded, closed)
        <4>1. restarts \in Nat /\ restarts' = restarts + 1
          BY <2>1, <3>5 DEF Restart, TypeOK
        <4> QED BY <1>1, <4>1
      <3> QED BY <1>1, <3>1, <3>2, <3>3, <3>4, <3>5 DEF Next
    <2>4. PICK q \in KolPosition :
              /\ Drain(c, q) /\ q.state = pos[p].state /\ q.deferred /\ q.take # "inFlight"
      <3>1. pos[p] \in KolPosition
        BY <2>1 DEF TypeOK
      <3>2. CASE \E b \in BOOLEAN : PartThrows(c, b)
        <4>1. Drain(c, Marked(c, "no"))
          BY <2>1, <3>2 DEF PartThrows
        <4>2. /\ Marked(c, "no") \in KolPosition /\ Marked(c, "no").state = pos[p].state
              /\ Marked(c, "no").take = "no"
          BY <2>1, <3>1 DEF Marked, KolPosition, Mark
        <4>3. Marked(c, "no").deferred
          BY <1>1, <2>1, <3>1 DEF Marked, KolPosition
        <4> QED BY <4>1, <4>2, <4>3
      <3>3. CASE PartAppended(c)
        <4>1. pos[p].take = "done" /\ Drain(c, pos[p])
          BY <2>1, <2>2, <3>3 DEF PartAppended, At, TakeInv, Probing
        <4> QED BY <1>1, <3>1, <4>1
      <3> QED BY <2>3, <3>2, <3>3
    <2>5. CASE pos[p].state = "CLOSED"
      <3>1. PICK e \in Call : call[e].kind = "close" /\ call[e].pos = p
        BY <2>1, <2>2, <2>5 DEF MarkInv
      <3>2. call'[e] = call[e]
        BY <2>1, <2>4, <3>1 DEF Drain, TypeOK
      <3> QED BY <3>1, <3>2 DEF CallsOn, Of
    <2>6. CASE pos[p].state # "CLOSED"
      <3> DEFINE d == [q EXCEPT !.deferred = FALSE]
      <3>1. d.take = q.take /\ d.state = q.state
        BY DEF KolPosition
      <3>2. Drains(q) /\ StartsClose(d)
        BY <2>4, <2>6, <3>1 DEF Drains, StartsClose
      <3>3. call' = [call EXCEPT ![c] = CloseCall(p, d, FALSE)]
        BY <2>1, <2>4, <3>2 DEF Drain
      <3> HIDE DEF d
      <3>4. CloseCall(p, d, FALSE).kind = "close" /\ CloseCall(p, d, FALSE).pos = p
        BY <3>2 DEF CloseCall, IdleCall
      <3>5. call'[c].kind = "close" /\ call'[c].pos = p
        BY <2>1, <3>3, <3>4 DEF TypeOK
      <3> QED BY <2>1, <3>5 DEF CallsOn, Of
    <2> QED BY <2>5, <2>6
  <1>2. IInv /\ [Next]_vars =>
            [restarts' = restarts =>
                \A p \in Position : \A c \in CallsOn(p, "take") :
                    (pos[p].deferred /\ call'[c].kind # "take") => CallsOn(p, "close")' # {}]_vars
    BY <1>1
  <1> QED BY <1>2, Invariant, PTL DEF Spec, DeferredCloseStarts

-----------------------------------------------------------------------------
(* Tiers *)

Closes(c, p) == call[c].kind = "close" /\ call[c].pos = p

LEMMA TierOf ==
  Rest => /\ \A p \in Position : pos[p].state # "CLOSED" => Tier(p) = pos[p].state
          /\ \A p \in Position, c \in Call :
                 (Closes(c, p) /\ pos[p].state = "CLOSED") => Tier(p) = call[c].prev
  <1> SUFFICES ASSUME Rest, NEW p \in Position, NEW c \in Call, Closes(c, p),
                      pos[p].state = "CLOSED"
               PROVE  Tier(p) = call[c].prev
    BY DEF Tier
  <1>1. c \in CallsOn(p, "close") /\ \A d \in CallsOn(p, "close") : d = c
    BY DEF CallsOn, Of, Closes, Rest, Apart
  <1>2. (CHOOSE d \in CallsOn(p, "close") : TRUE) = c
    BY <1>1
  <1> QED BY <1>2 DEF Tier

\* The ways in which a step may change the tier of p
SameTier(p) ==
    \/ pos'[p].state = pos[p].state /\ pos[p].state # "CLOSED"
    \/ /\ pos[p].state # "CLOSED" /\ pos'[p].state = "CLOSED"
       /\ \E c \in Call : Closes(c, p)' /\ call'[c].prev = pos[p].state
    \/ /\ pos[p].state = "CLOSED" /\ pos'[p].state = "CLOSED"
       /\ \E c \in Call : Closes(c, p) /\ Closes(c, p)' /\ call'[c].prev = call[c].prev
Reopened(p) ==
    /\ pos[p].state = "CLOSED" /\ pos'[p].state # "CLOSED"
    /\ \E c \in Call : Closes(c, p) /\ pos'[p].state \in {call[c].prev, "TAIL"}
Raised(p) ==
    /\ pos[p].state \in {"PROBE", "RUNNER_T1", "RUNNER_T2"}
    /\ pos'[p].state = NextTier[pos[p].state]

\* A step that leaves p and its closes alone
LEMMA TierFrame ==
  ASSUME Rest, NEW p \in active, active \subseteq Position,
         pos'[p].state = pos[p].state,
         \A c \in Call : Closes(c, p) => Closes(c, p)' /\ call'[c].prev = call[c].prev
  PROVE  SameTier(p)
  <1>1. MarkInv(p)
    BY DEF Rest
  <1> QED BY <1>1 DEF SameTier, MarkInv, Closes

\* A call that settles at p, by a close if it is to be closed
LEMMA TierSettles ==
  ASSUME TypeOK, Rest, NEW p \in active, NEW c \in Call, NEW q \in KolPosition, NEW b \in BOOLEAN,
         call[c].kind # "close", q.state = pos[p].state,
         \/ /\ pos' = [pos EXCEPT ![p] = Requested(q)]
            /\ call' = [call EXCEPT ![c] = CloseCall(p, q, b)]
         \/ /\ pos' = [pos EXCEPT ![p] = q]
            /\ call' = [call EXCEPT ![c] = IdleCall]
  PROVE  SameTier(p)
  <1>1. p \in Position /\ \A e \in Call \ {c} : call'[e] = call[e]
    BY DEF TypeOK
  <1>2. \A e \in Call : Closes(e, p) => Closes(e, p)' /\ call'[e].prev = call[e].prev
    BY <1>1 DEF Closes
  <1>3. CASE pos' = [pos EXCEPT ![p] = Requested(q)]
             /\ call' = [call EXCEPT ![c] = CloseCall(p, q, b)] /\ StartsClose(q)
    <2>1. pos'[p].state = "CLOSED" /\ pos[p].state # "CLOSED"
      BY <1>1, <1>3 DEF StartsClose, Requested, KolPosition, TypeOK
    <2>2. call'[c].kind = "close" /\ call'[c].pos = p /\ call'[c].prev = q.state
      BY <1>3 DEF CloseCall, IdleCall, TypeOK
    <2> QED BY <2>1, <2>2 DEF SameTier, Closes
  <1>4. CASE pos'[p] \in {q, Requested(q)} /\ (pos'[p] = Requested(q) => ~StartsClose(q))
    <2>1. Requested(q).state = q.state \/ StartsClose(q)
      BY DEF Requested, StartsClose, KolPosition
    <2>2. pos'[p].state = pos[p].state
      BY <1>4, <2>1
    <2> QED BY <1>1, <1>2, <2>2, TierFrame DEF TypeOK
  <1>5. CASE pos' = [pos EXCEPT ![p] = Requested(q)] /\ ~StartsClose(q)
    <2>1. pos'[p] = Requested(q)
      BY <1>1, <1>5 DEF TypeOK
    <2> QED BY <1>4, <1>5, <2>1
  <1>6. CASE pos' = [pos EXCEPT ![p] = q] /\ call' = [call EXCEPT ![c] = IdleCall]
    <2>1. pos'[p] = q
      BY <1>1, <1>6 DEF TypeOK
    <2>2. CASE q = Requested(q) /\ StartsClose(q)
      <3>1. q.state = "CLOSED"
        BY <2>2 DEF Requested, StartsClose, KolPosition
      <3> QED BY <2>2, <3>1 DEF StartsClose
    <2> QED BY <1>4, <2>1, <2>2
  <1> QED BY <1>3, <1>5, <1>6

LEMMA TierEntry ==
  ASSUME TypeOK, Rest, NEW m \in Mint, Trigger(m) \/ EntryStep(m), NEW p \in active
  PROVE  SameTier(p)
  <1>1. active \subseteq Position
    BY DEF TypeOK
  <1>2. pos'[p] = pos[p]
    <2>1. CASE BuySucceeds(m)
      <3>1. Fresh \in Position /\ pos[Fresh].state = "none"
        BY <2>1, FreshIsFresh DEF BuySucceeds
      <3>2. p # Fresh
        BY <1>1, <3>1 DEF Rest, PosInv
      <3> QED BY <1>1, <2>1, <3>1, <3>2 DEF BuySucceeds, TypeOK
    <2>2. CASE \E b \in BOOLEAN : EntryOpens(m, b) \/ EntryOpensAndExits(m, b)
      <3>1. p # entry[m].pos
        BY <2>2 DEF Rest, EntryInv, EntryOpens, EntryOpensAndExits, Opens
      <3> QED BY <1>1, <2>2, <3>1 DEF EntryOpens, EntryOpensAndExits, Opens, TypeOK
    <2>3. CASE \/ TriggerLive(m) \/ AdmissionRefused(m) \/ Enter(m) \/ EntryRejected(m)
               \/ AcquireSlot(m) \/ \E b \in BOOLEAN : BuyThrows(m, b)
      BY <2>3 DEF TriggerLive, AdmissionRefused, Enter, EntryRejected, AcquireSlot, BuyThrows
    <2> QED BY <2>1, <2>2, <2>3 DEF Trigger, EntryStep
  <1>3. \A c \in Call : call[c].kind # "idle" => call'[c] = call[c]
    BY FreeCallIsIdle DEF Trigger, EntryStep, TriggerLive, AdmissionRefused, Enter,
       EntryRejected, AcquireSlot, BuySucceeds, BuyThrows, EntryOpens, EntryOpensAndExits, TypeOK
  <1> QED BY <1>1, <1>2, <1>3, TierFrame DEF Closes

LEMMA TierPosition ==
  ASSUME TypeOK, Rest, NEW r \in Position, PositionStep(r), NEW p \in active
  PROVE  SameTier(p) \/ Raised(p)
  <1>1. active \subseteq Position
    BY DEF TypeOK
  <1>2. \A c \in Call : call[c].kind # "idle" => call'[c] = call[c]
    BY FreeCallIsIdle DEF PositionStep, RequestClose, Promote, StartReduce, TypeOK
  <1>3. CASE p # r
    <2>1. pos'[p] = pos[p]
      BY <1>1, <1>3 DEF PositionStep, RequestClose, Promote, StartReduce, TypeOK
    <2> QED BY <1>1, <1>2, <2>1, TierFrame DEF Closes
  <1>4. CASE p = r /\ \E b \in BOOLEAN : RequestClose(p, b)
    <2>1. PICK b \in BOOLEAN : RequestClose(p, b)
      BY <1>4
    <2>2. FreeCall \in Call /\ call[FreeCall].kind = "idle" /\ pos[p] \in KolPosition
      BY <1>1, <2>1, FreeCallIsIdle DEF RequestClose, TypeOK
    <2> QED BY <2>1, <2>2, TierSettles DEF RequestClose
  <1>5. CASE p = r /\ Promote(p)
    <2>1. pos[p].state \in {"PROBE", "RUNNER_T1", "RUNNER_T2"} /\ pos[p] \in KolPosition
      BY <1>1, <1>5, KolAssumption DEF Promote, TypeOK
    <2>2. pos'[p].state = NextTier[pos[p].state]
      BY <1>1, <1>5, <2>1 DEF Promote, TypeOK, KolPosition
    <2> QED BY <2>1, <2>2 DEF Raised
  <1>6. CASE p = r /\ StartReduce(p)
    <2>1. pos'[p].state = pos[p].state
      BY <1>1, <1>6 DEF StartReduce, TypeOK, KolPosition
    <2> QED BY <1>1, <1>2, <2>1, TierFrame DEF Closes
  <1> QED BY <1>3, <1>4, <1>5, <1>6 DEF PositionStep

LEMMA TierCall ==
  ASSUME TypeOK, Rest, NEW c \in Call, CallStep(c), NEW p \in active, p \in active'
  PROVE  SameTier(p) \/ Reopened(p)
  <1>1. active \subseteq Position /\ p \in Position
    BY DEF TypeOK
  <1>2. CallShape(c) /\ call[c].kind # "idle" /\ CloseInv(c)
    BY DEF Rest, CallStep, PartProbed, PartSold, PartAppended, FallsBackToClose, CloseProbed,
           CloseSold, ZeroConfirmed, CloseFails, PartThrows, CloseThrows, CloseFinishes, At
  <1>3. PICK r \in Position : r = call[c].pos /\ pos[r] \in KolPosition
    BY <1>2 DEF CallShape, Busy, TypeOK
  <1>4. /\ \A s \in Position \ {r} : pos'[s] = pos[s]
        /\ \A e \in Call \ {c} : call'[e] = call[e]
    BY <1>3 DEF CallStep, PartProbed, PartSold, PartAppended, FallsBackToClose, CloseProbed,
           CloseSold, ZeroConfirmed, CloseFails, PartThrows, CloseThrows, CloseFinishes,
           Drain, TypeOK
  <1>5. CASE p # r
    <2>1. \A e \in Call : Closes(e, p) => e # c
      BY <1>3, <1>5 DEF Closes
    <2> QED BY <1>1, <1>4, <1>5, <2>1, TierFrame DEF Closes
  <1>6. ASSUME p = r, NEW q \in KolPosition, Drain(c, q), q.state = pos[p].state,
               call[c].kind # "close"
        PROVE  SameTier(p)
    <2>1. [q EXCEPT !.deferred = FALSE] \in KolPosition
          /\ [q EXCEPT !.deferred = FALSE].state = pos[p].state
      BY <1>6 DEF KolPosition
    <2>2. CASE Drains(q)
      <3> DEFINE d == [q EXCEPT !.deferred = FALSE]
      <3>1. /\ pos' = [pos EXCEPT ![p] = Requested(d)]
            /\ call' = [call EXCEPT ![c] = CloseCall(p, d, FALSE)]
        BY <1>3, <1>6, <2>2 DEF Drain
      <3> HIDE DEF d
      <3>2. d \in KolPosition /\ d.state = pos[p].state
        BY <2>1 DEF d
      <3> QED BY <1>6, <3>1, <3>2, TierSettles
    <2>3. CASE ~Drains(q)
      <3>1. pos' = [pos EXCEPT ![p] = q] /\ call' = [call EXCEPT ![c] = IdleCall]
        BY <1>3, <1>6, <2>3 DEF Drain
      <3> QED BY <1>6, <3>1, TierSettles
    <2> QED BY <2>2, <2>3
  <1>7. \A mark \in Mark : Marked(c, mark) \in KolPosition /\ Marked(c, mark).state = pos[r].state
    BY <1>3 DEF Marked, KolPosition
  <1>8. CASE p = r /\ \E b \in BOOLEAN : PartThrows(c, b)
    <2>1. call[c].kind \in {"take", "reduce"}
      BY <1>8 DEF PartThrows, At
    <2>2. CASE call[c].kind = "take"
      BY <1>6, <1>7, <1>8, <2>2 DEF PartThrows, Mark
    <2>3. CASE call[c].kind = "reduce"
      <3>1. pos'[p] = Marked(c, "no")
        BY <1>3, <1>8, <2>3 DEF PartThrows, TypeOK
      <3>2. pos'[p].state = pos[p].state
        BY <1>7, <1>8, <3>1 DEF Mark
      <3> QED BY <1>1, <1>4, <2>3, <3>2, TierFrame DEF Closes
    <2> QED BY <2>1, <2>2, <2>3
  <1>9. CASE p = r /\ PartAppended(c)
    <2>1. call[c].kind \in {"take", "reduce"}
      BY <1>9 DEF PartAppended, At
    <2>2. CASE call[c].kind = "take"
      BY <1>3, <1>6, <1>9, <2>2 DEF PartAppended
    <2>3. CASE call[c].kind = "reduce"
      <3>1. pos' = pos
        BY <1>9, <2>3 DEF PartAppended
      <3> QED BY <1>1, <1>4, <2>3, <3>1, TierFrame DEF Closes
    <2> QED BY <2>1, <2>2, <2>3
  <1>10. CASE p = r /\ (PartProbed(c) \/ PartSold(c))
    <2>1. call[c].kind \in {"take", "reduce"}
      BY <1>10 DEF PartProbed, PartSold, At
    <2>2. pos'[p].state = pos[p].state
      BY <1>3, <1>7, <1>10 DEF PartProbed, PartSold, TypeOK, Mark
    <2> QED BY <1>1, <1>4, <2>1, <2>2, TierFrame DEF Closes
  <1>11. CASE p = r /\ FallsBackToClose(c)
    <2>1. call[c].kind = "reduce"
      BY <1>11 DEF FallsBackToClose, At
    <2>2. /\ pos' = [pos EXCEPT ![p] = Requested(pos[p])]
          /\ call' = [call EXCEPT ![c] = CloseCall(p, pos[p], FALSE)]
      BY <1>3, <1>11 DEF FallsBackToClose
    <2> QED BY <1>3, <1>11, <2>1, <2>2, TierSettles
  <1>12. CASE p = r /\ (\/ CloseProbed(c) \/ CloseSold(c) \/ ZeroConfirmed(c)
                        \/ \E b \in BOOLEAN : CloseThrows(c, b))
    <2>1. pos' = pos
      BY <1>12 DEF CloseProbed, CloseSold, ZeroConfirmed, CloseThrows
    <2>2. /\ call'[c].kind = call[c].kind /\ call'[c].pos = call[c].pos
          /\ call'[c].prev = call[c].prev
      BY <1>12 DEF CloseProbed, CloseSold, ZeroConfirmed, CloseThrows, TypeOK, CallState
    <2> QED BY <1>1, <1>4, <2>1, <2>2, TierFrame DEF Closes
  <1>13. CASE p = r /\ (CloseFails(c) \/ \E b \in BOOLEAN : CloseFinishes(c, b))
    <2>1. Closes(c, p) /\ pos[p].state = "CLOSED" /\ call[c].prev # "CLOSED"
      BY <1>2, <1>3, <1>13 DEF CloseFails, CloseFinishes, At, Closes, CloseInv
    <2>2. pos'[p].state \in {call[c].prev, "TAIL"}
      <3>1. CASE CloseFails(c)
        BY <1>3, <1>13, <3>1 DEF CloseFails, TypeOK, KolPosition
      <3>2. CASE \E b \in BOOLEAN : CloseFinishes(c, b)
        <4>1. call[c].retain
          BY <1>3, <1>13, <3>2 DEF CloseFinishes
        <4> QED BY <1>3, <1>13, <3>2, <4>1 DEF CloseFinishes, NewPosition, TypeOK
      <3> QED BY <1>13, <3>1, <3>2
    <2> QED BY <2>1, <2>2 DEF Reopened
  <1> QED BY <1>5, <1>8, <1>9, <1>10, <1>11, <1>12, <1>13 DEF CallStep

\* Between restarts no step takes a live position to a lower tier: the tier selects its
\* trailing stop, and a close that fails gives it back.
THEOREM TierIsKept == Spec => TierKept
  <1>1. ASSUME IInv, IInv', [Next]_vars, restarts' = restarts,
               NEW p \in active \cap active',
               SameTier(p) \/ Reopened(p) \/ Raised(p),
               Rest' => /\ pos'[p].state # "CLOSED" => Tier(p)' = pos'[p].state
                        /\ \A c \in Call : (Closes(c, p)' /\ pos'[p].state = "CLOSED") =>
                                               Tier(p)' = call'[c].prev
        PROVE  Rank[Tier(p)] <= Rank[Tier(p)']
    <2>1. p \in Position /\ Rest /\ Rest' /\ TypeOK
      BY <1>1 DEF IInv, TypeOK
    <2>2. /\ pos[p].state # "CLOSED" => Tier(p) = pos[p].state
          /\ \A c \in Call : (Closes(c, p) /\ pos[p].state = "CLOSED") => Tier(p) = call[c].prev
      BY <2>1, TierOf
    <2>3. /\ pos[p].state \in LaneTState
          /\ \A c \in Call : Closes(c, p) =>
                 /\ call[c].prev \in LaneTState \ {"CLOSED"} /\ pos[p].state = "CLOSED"
      BY <1>1, <2>1 DEF Rest, PosInv, CloseInv, Closes, TypeOK, KolPosition
    <2>4. \A t \in LaneTState \ {"CLOSED"} : Rank[t] \in 0 .. 4
      BY DEF Rank, LaneTState
    <2>5. CASE SameTier(p)
      <3>1. Tier(p)' = Tier(p) /\ Tier(p) \in LaneTState \ {"CLOSED"}
        BY <1>1, <2>1, <2>2, <2>3, <2>5 DEF SameTier
      <3> QED BY <2>4, <3>1
    <2>6. CASE Reopened(p)
      <3>1. Tier(p) \in LaneTState \ {"CLOSED"} /\ Tier(p)' \in {Tier(p), "TAIL"}
        BY <1>1, <2>1, <2>2, <2>3, <2>6 DEF Reopened
      <3>2. Rank["TAIL"] = 4
        BY DEF Rank
      <3> QED BY <2>4, <3>1, <3>2
    <2>7. CASE Raised(p)
      <3>1. Tier(p) \in {"PROBE", "RUNNER_T1", "RUNNER_T2"} /\ Tier(p)' = NextTier[Tier(p)]
        BY <1>1, <2>1, <2>2, <2>7 DEF Raised, NextTier
      <3> QED BY <3>1 DEF Rank, NextTier
    <2> QED BY <1>1, <2>5, <2>6, <2>7
  <1>2. ASSUME IInv, [Next]_vars, restarts' = restarts, NEW p \in active \cap active'
        PROVE  SameTier(p) \/ Reopened(p) \/ Raised(p)
    <2>1. TypeOK /\ Rest /\ active \subseteq Position
      BY <1>2 DEF IInv, TypeOK
    <2>2. CASE UNCHANGED vars
      BY <1>2, <2>1, <2>2, TierFrame DEF vars, Closes
    <2>3. CASE \E loaded, closed \in SUBSET Position : Restart(loaded, closed)
      <3>1. restarts \in Nat /\ restarts' = restarts + 1
        BY <2>1, <2>3 DEF Restart, TypeOK
      <3> QED BY <1>2, <3>1
    <2> QED BY <1>2, <2>1, <2>2, <2>3, TierEntry, TierPosition, TierCall DEF Next
  <1>3. (Rest => /\ \A p \in Position : pos[p].state # "CLOSED" => Tier(p) = pos[p].state
                 /\ \A p \in Position, c \in Call :
                        (Closes(c, p) /\ pos[p].state = "CLOSED") => Tier(p) = call[c].prev)'
    BY TierOf, PTL
  <1>4. IInv /\ IInv' /\ [Next]_vars =>
            [restarts' = restarts =>
                \A p \in active \cap active' : Rank[Tier(p)] <= Rank[Tier(p)']]_vars
    <2> SUFFICES ASSUME IInv, IInv', [Next]_vars, restarts' = restarts,
                        NEW p \in active \cap active'
                 PROVE  Rank[Tier(p)] <= Rank[Tier(p)']
      OBVIOUS
    <2>1. p \in Position
      BY DEF IInv, TypeOK
    <2>2. Rest' => /\ pos'[p].state # "CLOSED" => Tier(p)' = pos'[p].state
                   /\ \A c \in Call : (Closes(c, p)' /\ pos'[p].state = "CLOSED") =>
                                          Tier(p)' = call'[c].prev
      BY <1>3, <2>1
    <2> QED BY <1>1, <1>2, <2>2
  <1> QED BY <1>4, Invariant, PTL DEF Spec, TierKept

=============================================================================
