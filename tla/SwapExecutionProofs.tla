------------------------- MODULE SwapExecutionProofs -------------------------
(***************************************************************************)
(* Proofs about SwapExecution: every order keeps the promise of SwapOrder. *)
(* The invariant counts transactions: those that landed or may still land  *)
(* are no more than the attempts begun.  A variant bounds the calls that   *)
(* an order may still await, over every kind of retry.                     *)
(***************************************************************************)
EXTENDS SwapExecution, TLAPS

UltraTries == IF UseUltra THEN 1 ELSE 0

\* attempts of r that are over
TriesOver(r) ==
    IF r.pc \in UltraPc \cup {"idle"} THEN 0
    ELSE UltraTries + r.retry429Count + (IF r.pc = "failed" THEN r.attempt ELSE r.attempt - 1)

TriesBegun(r) == TriesOver(r) + (IF r.tx = "none" THEN 0 ELSE 1)

MayLand(r) == r.adrift + (IF r.tx = "pending" THEN 1 ELSE 0)

CountersInv(r) ==
    /\ r.attempt \in 1 .. MaxRetries
    /\ r.retry429Count \in 0 .. Max429Retries
    /\ r.pc \in UltraPc => UseUltra
    /\ r.fills + MayLand(r) <= TriesBegun(r)

TxInv(r) ==
    /\ r.pc \in {"idle", "ultraOrder", "quote", "failed"} => r.tx = "none"
    /\ r.pc \in {"ultraMeasure", "measure", "swapped"} => r.tx = "landed"
    /\ r.tx = "landed" => r.fills > 0

TipInv(r) ==
    /\ r.viaJito => r.tipPaid
    /\ r.tx = "landed" /\ r.pc = "bundle" => r.tipPaid
    /\ r.tipPaid => r.tx = "landed"
    /\ r.viaJito => r.pc \in {"measure", "swapped"}

RecordInv(r) == CountersInv(r) /\ TxInv(r) /\ TipInv(r)

OrderInv == OrderTypeOK /\ \A o \in Order : RecordInv(order[o])

-----------------------------------------------------------------------------
(* The invariant *)

LEMMA InitInv == OrderInit => OrderInv
  BY ExecutionAssumption
     DEF OrderInit, OrderInv, OrderTypeOK, OrderState, OrderPc, UltraPc, AttemptPc, NoOrder,
         RecordInv, CountersInv, TxInv, TipInv, MayLand, TriesBegun, TriesOver

\* a step that replaces one record by a good one
LEMMA OneRecord ==
  ASSUME OrderInv, NEW o \in Order, NEW r \in OrderState, RecordInv(r),
         order' = [order EXCEPT ![o] = r]
  PROVE  OrderInv'
  BY DEF OrderInv, OrderTypeOK

LEMMA AbandonedRecord ==
  ASSUME NEW r \in OrderState, RecordInv(r)
  PROVE  /\ Abandoned(r) \in OrderState
         /\ Abandoned(r).tx = "none" /\ ~Abandoned(r).viaJito /\ ~Abandoned(r).tipPaid
         /\ Abandoned(r).pc = r.pc /\ Abandoned(r).attempt = r.attempt
         /\ Abandoned(r).retry429Count = r.retry429Count /\ Abandoned(r).fills = r.fills
         /\ Abandoned(r).fills + Abandoned(r).adrift
              <= TriesOver(r) + (IF r.tx = "none" THEN 0 ELSE 1)
<1> DEFINE a == Abandoned(r)
<1>1. /\ a \in OrderState /\ a.tx = "none" /\ ~a.viaJito /\ ~a.tipPaid
      /\ a.pc = r.pc /\ a.attempt = r.attempt
      /\ a.retry429Count = r.retry429Count /\ a.fills = r.fills
  <2> DEFINE d == IF r.tx = "pending" THEN r.adrift + 1 ELSE r.adrift
  <2>1. d \in Nat
    BY DEF OrderState
  <2>2. a = [r EXCEPT !.tx = "none", !.bundled = FALSE, !.tipPaid = FALSE,
                      !.viaJito = FALSE, !.adrift = d]
    BY DEF Abandoned
  <2> HIDE DEF a, d
  <2> QED BY <2>1, <2>2 DEF OrderState
<1>2. a.adrift = MayLand(r)
  <2>1. a.adrift = IF r.tx = "pending" THEN r.adrift + 1 ELSE r.adrift
    BY DEF OrderState, Abandoned
  <2>2. r.adrift \in Nat
    BY DEF OrderState
  <2> HIDE DEF a
  <2> QED BY <2>1, <2>2 DEF MayLand
<1>3. r.fills + MayLand(r) <= TriesOver(r) + (IF r.tx = "none" THEN 0 ELSE 1)
  BY DEF RecordInv, CountersInv, TriesBegun
<1> QED BY <1>1, <1>2, <1>3

LEMMA StepInv ==
  ASSUME OrderInv, NEW o \in Order, OrderStep(o)
  PROVE  OrderInv'
<1> DEFINE r == order[o]
<1>r. r \in OrderState /\ RecordInv(r)
  BY DEF OrderInv, OrderTypeOK
<1>f. order \in [Order -> OrderState]
  BY DEF OrderInv, OrderTypeOK
<1> USE ExecutionAssumption
<1>1. CASE PlaceOrder(o)
  <2> DEFINE q == [r EXCEPT !.pc = IF UseUltra THEN "ultraOrder" ELSE "quote"]
  <2>1. order' = [order EXCEPT ![o] = q]
    BY <1>1 DEF PlaceOrder, Goto
  <2>2. q \in OrderState /\ RecordInv(q)
    BY <1>1, <1>r DEF PlaceOrder, At, OrderState, OrderPc, UltraPc, AttemptPc, RecordInv,
         CountersInv, TxInv, TipInv, MayLand, TriesBegun, TriesOver, UltraTries
  <2> QED BY <2>1, <2>2, OneRecord
<1>2. CASE UltraSigned(o) \/ Quoted(o)
  <2> DEFINE b == Quoted(o) /\ UseJito
             s == Signed(r)
  <2>1. /\ s \in OrderState /\ s.pc = r.pc /\ s.tx = "pending" /\ ~s.tipPaid
        /\ s.attempt = r.attempt /\ s.retry429Count = r.retry429Count
        /\ s.fills = r.fills /\ s.adrift = r.adrift /\ s.viaJito = r.viaJito
    BY <1>r DEF Signed, OrderState
  <2>2. ~r.viaJito /\ r.tx = "none"
    BY <1>2, <1>r DEF UltraSigned, Quoted, At, RecordInv, TipInv, TxInv
  <2>3. CASE UltraSigned(o)
    <3> DEFINE q == [s EXCEPT !.pc = "ultraExecute"]
    <3>1. order' = [order EXCEPT ![o] = q]
      BY <2>3 DEF UltraSigned
    <3>2. q \in OrderState /\ RecordInv(q)
      <4> HIDE DEF s
      <4> QED
        BY <2>1, <2>2, <2>3, <1>r DEF UltraSigned, At, OrderState, OrderPc, UltraPc, AttemptPc,
             RecordInv, CountersInv, TxInv, TipInv, MayLand, TriesBegun, TriesOver, UltraTries
    <3> QED BY <3>1, <3>2, OneRecord
  <2>4. CASE Quoted(o)
    <3> DEFINE q == [s EXCEPT !.pc = IF UseJito THEN "bundle" ELSE "rpcSend",
                              !.bundled = UseJito]
    <3>1. order' = [order EXCEPT ![o] = q]
      BY <2>4 DEF Quoted
    <3> HIDE DEF s
    <3>2. /\ q \in OrderState /\ q.pc \in {"bundle", "rpcSend"} /\ q.tx = "pending"
          /\ q.attempt = r.attempt /\ q.retry429Count = r.retry429Count
          /\ q.fills = r.fills /\ q.adrift = r.adrift /\ ~q.viaJito /\ ~q.tipPaid
      BY <2>1, <2>2 DEF OrderState, OrderPc, AttemptPc
    <3>3. r.pc = "quote"
      BY <2>4 DEF Quoted, At
    <3> HIDE DEF q
    <3>4. RecordInv(q)
      BY <2>2, <3>2, <3>3, <1>r DEF OrderState, UltraPc, RecordInv, CountersInv, TxInv, TipInv,
           MayLand, TriesBegun, TriesOver, UltraTries
    <3> QED BY <3>1, <3>2, <3>4, OneRecord DEF q
  <2> QED BY <1>2, <2>3, <2>4
<1>3. CASE UltraExecuted(o) \/ UltraConfirmed(o) \/ UltraMeasured(o)
  <2> DEFINE q == [r EXCEPT !.pc = IF UltraExecuted(o) THEN "ultraConfirm"
                                   ELSE IF UltraConfirmed(o) THEN "ultraMeasure" ELSE "swapped"]
  <2>1. order' = [order EXCEPT ![o] = q]
    BY <1>3 DEF UltraExecuted, UltraConfirmed, UltraMeasured, Goto
  <2>2. q \in OrderState /\ RecordInv(q)
    BY <1>3, <1>r DEF UltraExecuted, UltraConfirmed, UltraMeasured, Confirmed, At, OrderState,
         OrderPc, UltraPc, AttemptPc, RecordInv, CountersInv, TxInv, TipInv, MayLand,
         TriesBegun, TriesOver, UltraTries
  <2> QED BY <2>1, <2>2, OneRecord
<1>4. CASE UltraThrows(o)
  <2> DEFINE a == Abandoned(r)
             q == [a EXCEPT !.pc = "quote"]
  <2>1. order' = [order EXCEPT ![o] = q]
    BY <1>4 DEF UltraThrows
  <2>2. q \in OrderState /\ q.pc = "quote" /\ RecordInv(q)
    <3>1. r.pc \in UltraPc
      BY <1>4 DEF UltraThrows
    <3>2. a \in OrderState /\ a.tx = "none" /\ ~a.viaJito /\ ~a.tipPaid
          /\ a.attempt = r.attempt /\ a.retry429Count = r.retry429Count /\ a.fills = r.fills
          /\ a.fills + a.adrift <= TriesOver(r) + (IF r.tx = "none" THEN 0 ELSE 1)
      BY <1>r, AbandonedRecord
    <3> HIDE DEF a
    <3> QED
      BY <1>r, <3>1, <3>2 DEF OrderState, OrderPc, UltraPc, AttemptPc, RecordInv, CountersInv,
           TxInv, TipInv, MayLand, TriesBegun, TriesOver, UltraTries
  <2> QED BY <2>1, <2>2, OneRecord
<1>5. CASE BundleConfirmed(o) \/ RpcConfirmed(o)
  <2> DEFINE q == [r EXCEPT !.pc = "measure", !.viaJito = BundleConfirmed(o)]
  <2>1. order' = [order EXCEPT ![o] = q]
    BY <1>5, <1>f DEF BundleConfirmed, RpcConfirmed, ViaJito, At
  <2>2. q \in OrderState /\ RecordInv(q)
    BY <1>5, <1>r DEF BundleConfirmed, RpcConfirmed, Confirmed, At, OrderState, OrderPc, UltraPc,
         AttemptPc, RecordInv, CountersInv, TxInv, TipInv, MayLand, TriesBegun, TriesOver,
         UltraTries
  <2> QED BY <2>1, <2>2, OneRecord
<1>6. CASE BundleThrows(o) \/ RpcSent(o) \/ Measured(o)
  <2> DEFINE q == [r EXCEPT !.pc = IF BundleThrows(o) THEN "rpcSend"
                                   ELSE IF RpcSent(o) THEN "rpcConfirm" ELSE "swapped"]
  <2>1. order' = [order EXCEPT ![o] = q]
    BY <1>6 DEF BundleThrows, RpcSent, Measured, FallbackTx, Goto
  <2>2. q \in OrderState /\ RecordInv(q)
    BY <1>6, <1>r DEF BundleThrows, RpcSent, Measured, At, OrderState, OrderPc, UltraPc,
         AttemptPc, RecordInv, CountersInv, TxInv, TipInv, MayLand, TriesBegun, TriesOver,
         UltraTries
  <2> QED BY <2>1, <2>2, OneRecord
<1>7. ASSUME NEW rateLimited \in BOOLEAN, AttemptThrows(o, rateLimited)
      PROVE  OrderInv'
  <2> DEFINE a == Abandoned(r)
             q == AfterThrow(a, rateLimited)
  <2>1. order' = [order EXCEPT ![o] = q]
    BY <1>7 DEF AttemptThrows
  <2>2. q \in OrderState /\ RecordInv(q)
    <3>1. r.pc \in AttemptPc
      BY <1>7 DEF AttemptThrows
    <3>2. a \in OrderState /\ a.tx = "none" /\ ~a.viaJito /\ ~a.tipPaid
          /\ a.attempt = r.attempt /\ a.retry429Count = r.retry429Count /\ a.fills = r.fills
          /\ a.fills + a.adrift <= TriesOver(r) + (IF r.tx = "none" THEN 0 ELSE 1)
      BY <1>r, AbandonedRecord
    <3>3. a.pc = r.pc /\ a.adrift \in Nat /\ a.fills \in Nat
          /\ a.attempt \in 1 .. MaxRetries /\ a.retry429Count \in 0 .. Max429Retries
      BY <1>r, <3>2, AbandonedRecord DEF OrderState, RecordInv, CountersInv
    <3>4. a.fills + a.adrift <= UltraTries + a.retry429Count + a.attempt
      BY <1>r, <3>1, <3>2, <3>3 DEF TriesOver, AttemptPc, UltraPc, UltraTries
    <3> HIDE DEF a
    <3>5. q \in OrderState
      <4>1. {"quote", "failed"} \subseteq OrderPc
        BY DEF OrderPc, AttemptPc
      <4>2. a.attempt + 1 \in Nat /\ a.retry429Count + 1 \in Nat
        BY <3>3
      <4>4. CASE rateLimited /\ a.retry429Count < Max429Retries
        <5> DEFINE k == a.retry429Count + 1
        <5>1. q = [a EXCEPT !.pc = "quote", !.retry429Count = k]
          BY <4>4 DEF AfterThrow
        <5>2. k \in Nat /\ "quote" \in OrderPc
          BY <4>1, <4>2
        <5> HIDE DEF k, q
        <5> QED BY <3>2, <5>1, <5>2 DEF OrderState
      <4>5. CASE ~(rateLimited /\ a.retry429Count < Max429Retries) /\ a.attempt < MaxRetries
        <5> DEFINE k == a.attempt + 1
        <5>1. q = [a EXCEPT !.pc = "quote", !.attempt = k]
          BY <4>5 DEF AfterThrow
        <5>2. k \in Nat /\ "quote" \in OrderPc
          BY <4>1, <4>2
        <5> HIDE DEF k, q
        <5> QED BY <3>2, <5>1, <5>2 DEF OrderState
      <4>6. CASE ~(rateLimited /\ a.retry429Count < Max429Retries) /\ ~(a.attempt < MaxRetries)
        <5>1. q = [a EXCEPT !.pc = "failed"]
          BY <4>6 DEF AfterThrow
        <5>2. "failed" \in OrderPc
          BY <4>1
        <5> HIDE DEF q
        <5> QED BY <3>2, <5>1, <5>2 DEF OrderState
      <4> QED BY <4>4, <4>5, <4>6
    <3>6. /\ q.pc \in {"quote", "failed"} /\ q.tx = "none" /\ q.fills = a.fills
          /\ q.adrift = a.adrift /\ ~q.viaJito /\ ~q.tipPaid
      BY <3>2, <3>3 DEF AfterThrow, OrderState
    <3>7. /\ q.attempt \in 1 .. MaxRetries /\ q.retry429Count \in 0 .. Max429Retries
          /\ TriesOver(q) = UltraTries + a.retry429Count + a.attempt
      <4>1. UltraTries \in Nat
        BY DEF UltraTries
      <4>2. CASE rateLimited /\ a.retry429Count < Max429Retries
        <5>1. /\ q.pc = "quote" /\ q.attempt = a.attempt
              /\ q.retry429Count = a.retry429Count + 1
          BY <3>2, <4>2 DEF AfterThrow, OrderState
        <5> HIDE DEF q
        <5> QED BY <3>3, <4>1, <4>2, <5>1 DEF TriesOver, UltraPc
      <4>3. CASE ~(rateLimited /\ a.retry429Count < Max429Retries) /\ a.attempt < MaxRetries
        <5>1. /\ q.pc = "quote" /\ q.attempt = a.attempt + 1
              /\ q.retry429Count = a.retry429Count
          BY <3>2, <4>3 DEF AfterThrow, OrderState
        <5> HIDE DEF q
        <5> QED BY <3>3, <4>1, <4>3, <5>1 DEF TriesOver, UltraPc
      <4>4. CASE ~(rateLimited /\ a.retry429Count < Max429Retries) /\ ~(a.attempt < MaxRetries)
        <5>1. /\ q.pc = "failed" /\ q.attempt = a.attempt
              /\ q.retry429Count = a.retry429Count
          BY <3>2, <4>4 DEF AfterThrow, OrderState
        <5> HIDE DEF q
        <5> QED BY <3>3, <4>1, <5>1 DEF TriesOver, UltraPc
      <4> QED BY <4>2, <4>3, <4>4
    <3> HIDE DEF q
    <3>8. RecordInv(q)
      BY <3>3, <3>4, <3>6, <3>7 DEF RecordInv, CountersInv, TxInv, TipInv, MayLand,
         TriesBegun, UltraPc, UltraTries
    <3> QED BY <3>5, <3>8
  <2> QED BY <2>1, <2>2, OneRecord
<1>8. ASSUME NEW asBundle \in BOOLEAN, TxLands(o, asBundle)
      PROVE  OrderInv'
  <2> DEFINE q == [r EXCEPT !.tx = "landed", !.fills = @ + 1, !.tipPaid = asBundle]
  <2>1. order' = [order EXCEPT ![o] = q]
    BY <1>8, <1>f DEF TxLands
  <2>2. r.tx = "pending" /\ (r.pc = "bundle" => asBundle)
    BY <1>8 DEF TxLands, At
  <2>3. /\ q \in OrderState /\ q.tx = "landed" /\ q.fills = r.fills + 1
        /\ q.adrift = r.adrift /\ q.pc = r.pc /\ q.attempt = r.attempt
        /\ q.retry429Count = r.retry429Count /\ q.viaJito = r.viaJito /\ q.tipPaid = asBundle
    <3>1. r.fills + 1 \in Nat
      BY <1>r DEF OrderState
    <3> DEFINE n == r.fills + 1
    <3> HIDE DEF n
    <3>2. [r EXCEPT !.tx = "landed", !.fills = n, !.tipPaid = asBundle] \in OrderState
      BY <1>r, <3>1, Zenon DEF OrderState, n
    <3> QED BY <1>r, <3>2 DEF OrderState, n
  <2>4. RecordInv(q)
    <3> HIDE DEF q
    <3>1. CountersInv(q)
      BY <1>r, <2>2, <2>3 DEF RecordInv, CountersInv, MayLand, TriesBegun, TriesOver, OrderState
    <3>2. TxInv(q) /\ TipInv(q)
      BY <1>r, <2>2, <2>3 DEF RecordInv, TxInv, TipInv, OrderState
    <3> QED BY <3>1, <3>2 DEF RecordInv
  <2> QED BY <2>1, <2>3, <2>4, OneRecord
<1>9. CASE TxReverts(o)
  <2> DEFINE q == [r EXCEPT !.tx = "reverted"]
  <2>1. order' = [order EXCEPT ![o] = q]
    BY <1>9, <1>f DEF TxReverts
  <2>2. q \in OrderState /\ RecordInv(q)
    BY <1>9, <1>r DEF TxReverts, OrderState, OrderPc, UltraPc,
         AttemptPc, RecordInv, CountersInv, TxInv, TipInv, MayLand, TriesBegun, TriesOver,
         UltraTries
  <2> QED BY <2>1, <2>2, OneRecord
<1>10. CASE AdriftLands(o) \/ AdriftExpires(o)
  <2> DEFINE n == IF AdriftLands(o) THEN r.fills + 1 ELSE r.fills
             q == [r EXCEPT !.adrift = @ - 1, !.fills = n]
  <2>1. order' = [order EXCEPT ![o] = q]
    BY <1>10, <1>f, <1>r DEF AdriftLands, AdriftExpires, OrderState
  <2>2. r.adrift > 0 /\ n \in {r.fills, r.fills + 1} /\ n \in Nat
    BY <1>10, <1>r DEF AdriftLands, AdriftExpires, OrderState
  <2>3. q \in OrderState /\ RecordInv(q)
    <3> HIDE DEF n
    <3>1. /\ q \in OrderState /\ q.pc = r.pc /\ q.tx = r.tx /\ q.tipPaid = r.tipPaid
          /\ q.attempt = r.attempt /\ q.retry429Count = r.retry429Count
          /\ q.viaJito = r.viaJito /\ q.adrift = r.adrift - 1 /\ q.fills = n
      <4> DEFINE d == r.adrift - 1
      <4>1. d \in Nat
        BY <2>2, <1>r DEF OrderState
      <4> HIDE DEF d
      <4>2. [r EXCEPT !.adrift = d, !.fills = n] \in OrderState
        BY <2>2, <4>1, <1>r DEF OrderState
      <4> QED BY <1>r, <4>2 DEF OrderState, d
    <3> HIDE DEF q
    <3>2. n + q.adrift <= r.fills + r.adrift
      BY <2>2, <3>1, <1>r DEF OrderState
    <3>3. TriesBegun(q) = TriesBegun(r)
      BY <3>1 DEF TriesBegun, TriesOver
    <3>4. TriesBegun(r) \in Int
      BY <1>r DEF TriesBegun, TriesOver, UltraTries, OrderState
    <3>5. n + MayLand(q) <= r.fills + MayLand(r)
      BY <2>2, <3>1, <3>2, <1>r DEF MayLand, OrderState
    <3>6. r.fills + MayLand(r) \in Nat /\ n + MayLand(q) \in Int
      BY <2>2, <3>1, <1>r DEF MayLand, OrderState
    <3>7. CountersInv(q)
      BY <3>1, <3>3, <3>4, <3>5, <3>6, <1>r DEF RecordInv, CountersInv
    <3>8. TxInv(q) /\ TipInv(q)
      BY <2>2, <3>1, <1>r DEF RecordInv, TxInv, TipInv, OrderState
    <3> QED BY <3>1, <3>7, <3>8 DEF RecordInv
  <2> QED BY <2>1, <2>3, OneRecord
<1> QED
  BY <1>1, <1>2, <1>3, <1>4, <1>5, <1>6, <1>7, <1>8, <1>9, <1>10
     DEF OrderStep, ExecutorStep, FillStep, DropStep

LEMMA NextInv == OrderInv /\ [\E o \in Order : OrderStep(o)]_order => OrderInv'
  BY StepInv DEF OrderInv, OrderTypeOK

LEMMA OrderInvariant == OrderSpec => []OrderInv
  BY InitInv, NextInv, PTL DEF OrderSpec

-----------------------------------------------------------------------------
(* Theorems of the executor by itself *)

LEMMA FillsWithinTries ==
  ASSUME NEW r \in OrderState, RecordInv(r)
  PROVE  TriesBegun(r) <= MaxOrderFills /\ TriesBegun(r) \in Int
<1>1. UltraTries \in Nat /\ MaxOrderFills = UltraTries + MaxRetries + Max429Retries
  BY DEF UltraTries, MaxOrderFills
<1>2. r.attempt \in 1 .. MaxRetries /\ r.retry429Count \in 0 .. Max429Retries
  BY DEF RecordInv, CountersInv
<1>3. CASE r.pc \in UltraPc \cup {"idle"}
  BY <1>1, <1>3, ExecutionAssumption
     DEF TriesBegun, TriesOver, RecordInv, CountersInv, TxInv, MaxOrderFills
<1>4. CASE r.pc \notin UltraPc \cup {"idle"}
  BY <1>1, <1>2, <1>4, ExecutionAssumption DEF TriesBegun, TriesOver, RecordInv, TxInv
<1> QED BY <1>3, <1>4

\* what a step changes of the orders that the model of a sale looks at
LEMMA StepFrame ==
  ASSUME OrderInv, NEW o \in Order, OrderStep(o)
  PROVE  /\ \A p \in Order : p # o => order'[p] = order[p]
         /\ FillStep(o) => /\ order'[o].fills = order[o].fills + 1
                           /\ order'[o].pc = order[o].pc
                           /\ order[o].tx = "pending" \/ order[o].adrift > 0
         /\ ExecutorStep(o) => /\ order'[o].fills = order[o].fills
                               /\ order[o].pc \notin {"idle", "swapped", "failed"}
                               /\ order'[o].pc # "idle"
         /\ DropStep(o) => /\ order'[o].fills = order[o].fills
                           /\ order'[o].pc = order[o].pc
<1> DEFINE r == order[o]
           s == order'[o]
<1>r. r \in OrderState /\ RecordInv(r)
  BY DEF OrderInv, OrderTypeOK
<1>f. order \in [Order -> OrderState]
  BY DEF OrderInv, OrderTypeOK
<1>1. \A p \in Order : p # o => order'[p] = order[p]
  BY <1>f DEF OrderStep, PlaceOrder, ExecutorStep, UltraSigned, UltraExecuted, UltraConfirmed,
       UltraMeasured, UltraThrows, Quoted, BundleConfirmed, BundleThrows, RpcSent, RpcConfirmed,
       Measured, AttemptThrows, FillStep, DropStep, TxLands, TxReverts, AdriftLands,
       AdriftExpires, Goto
<1>2. ASSUME ExecutorStep(o)
      PROVE  s.fills = r.fills /\ s.pc # "idle"
  <2>1. CASE UltraExecuted(o) \/ UltraConfirmed(o) \/ UltraMeasured(o) \/ RpcSent(o) \/ Measured(o)
    BY <2>1, <1>f, <1>r DEF UltraExecuted, UltraConfirmed, UltraMeasured, RpcSent, Measured,
         Goto, OrderState
  <2>2. CASE BundleConfirmed(o) \/ RpcConfirmed(o) \/ BundleThrows(o)
    BY <2>2, <1>f, <1>r DEF BundleConfirmed, RpcConfirmed, BundleThrows, FallbackTx, OrderState
  <2>3. CASE UltraSigned(o)
    BY <2>3, <1>f, <1>r DEF UltraSigned, Signed, OrderState
  <2>4. CASE Quoted(o)
    BY <2>4, <1>f, <1>r DEF Quoted, Signed, OrderState
  <2>5. Abandoned(r) \in OrderState /\ Abandoned(r).fills = r.fills
    BY <1>r, AbandonedRecord
  <2>6. CASE UltraThrows(o)
    BY <2>5, <2>6, <1>f DEF UltraThrows, OrderState
  <2>7. ASSUME NEW rateLimited \in BOOLEAN, AttemptThrows(o, rateLimited)
        PROVE  s.fills = r.fills /\ s.pc # "idle"
    <3> DEFINE a == Abandoned(r)
    <3>1. s = AfterThrow(a, rateLimited)
      BY <2>7, <1>f DEF AttemptThrows
    <3> HIDE DEF a
    <3>2. a \in OrderState /\ a.fills = r.fills
      BY <2>5 DEF a
    <3> QED BY <3>1, <3>2 DEF AfterThrow, OrderState
  <2> QED BY <1>2, <2>1, <2>2, <2>3, <2>4, <2>6, <2>7 DEF ExecutorStep
<1>3. ExecutorStep(o) => r.pc \notin {"idle", "swapped", "failed"}
  BY DEF ExecutorStep, UltraSigned, UltraExecuted, UltraConfirmed,
       UltraMeasured, UltraThrows, Quoted, BundleConfirmed, BundleThrows, RpcSent,
       RpcConfirmed, Measured, AttemptThrows, At, UltraPc, AttemptPc
<1>4. FillStep(o) => /\ s.fills = r.fills + 1 /\ s.pc = r.pc
                     /\ r.tx = "pending" \/ r.adrift > 0
  BY <1>f, <1>r DEF FillStep, TxLands, AdriftLands, OrderState
<1>5. DropStep(o) => s.fills = r.fills /\ s.pc = r.pc
  BY <1>f, <1>r DEF DropStep, TxReverts, AdriftExpires, OrderState
<1> QED BY <1>1, <1>2, <1>3, <1>4, <1>5

\* one step of an order is one step, or none, of the promise
LEMMA StepRefines ==
  ASSUME OrderInv, NEW o \in Order, OrderStep(o)
  PROVE  [Promise!Next]_(Promise!vars)
<1> DEFINE r == order[o]
           s == order'[o]
           st == [p \in Order |-> StatusOf(order[p])]
           fl == [p \in Order |-> order[p].fills]
<1>r. r \in OrderState /\ RecordInv(r)
  BY DEF OrderInv, OrderTypeOK
<1>f. order \in [Order -> OrderState]
  BY DEF OrderInv, OrderTypeOK
<1>s. OrderInv' /\ s \in OrderState /\ RecordInv(s)
  BY StepInv DEF OrderInv, OrderTypeOK
<1>o. \A p \in Order : p # o => order'[p] = order[p]
  BY StepFrame
<1>1. st' = [st EXCEPT ![o] = StatusOf(s)]
  BY <1>o DEF StatusOf
<1>2. fl' = [fl EXCEPT ![o] = s.fills]
  BY <1>o
<1>3. st[o] = StatusOf(r) /\ fl[o] = r.fills
  OBVIOUS
<1>4. CASE PlaceOrder(o)
  <2>1. r.pc = "idle" /\ s.pc \in {"ultraOrder", "quote"} /\ s.fills = r.fills
    BY <1>4, <1>f, <1>r DEF PlaceOrder, At, Goto, OrderState
  <2>2. StatusOf(r) = "idle" /\ StatusOf(s) = "working"
    BY <2>1 DEF StatusOf
  <2>3. fl' = fl
    BY <1>2, <1>3, <2>1
  <2>4. Promise!Place(o)
    BY <1>1, <1>3, <2>2, <2>3 DEF Promise!Place, Promise!Moves
  <2> QED BY <2>4 DEF Promise!Next
<1>5. CASE FillStep(o)
  <2>1. /\ s.fills = r.fills + 1 /\ s.pc = r.pc
        /\ r.tx = "pending" \/ r.adrift > 0
    BY <1>5, StepFrame
  <2>2. r.fills < MaxOrderFills
    <3>1. s.fills \in Nat /\ MayLand(s) \in Nat /\ s.fills + MayLand(s) <= TriesBegun(s)
      BY <1>s DEF RecordInv, CountersInv, OrderState, MayLand
    <3>2. TriesBegun(s) <= MaxOrderFills /\ TriesBegun(s) \in Int
      BY <1>s, FillsWithinTries
    <3>3. MaxOrderFills \in Nat /\ r.fills \in Nat
      BY <1>r, ExecutionAssumption DEF MaxOrderFills, OrderState
    <3> QED BY <2>1, <3>1, <3>2, <3>3
  <2>3. StatusOf(r) # "idle"
    <3>1. r.pc # "idle"
      BY <2>1, <1>r DEF RecordInv, CountersInv, TxInv, TriesBegun, TriesOver, MayLand, OrderState
    <3> QED BY <3>1 DEF StatusOf
  <2>4. StatusOf(s) = StatusOf(r)
    BY <2>1 DEF StatusOf
  <2>5. st' = st
    BY <1>1, <1>3, <2>4
  <2>6. Promise!Fill(o)
    BY <1>2, <1>3, <2>1, <2>2, <2>3, <2>5 DEF Promise!Fill
  <2> QED BY <2>6 DEF Promise!Next
<1>6. CASE ExecutorStep(o)
  <2>1. s.fills = r.fills /\ s.pc # "idle"
    BY <1>6, StepFrame
  <2>2. fl' = fl
    BY <1>2, <1>3, <2>1
  <2>3. r.pc \notin {"idle", "swapped", "failed"}
    BY <1>6, StepFrame
  <2>4. StatusOf(r) = "working"
    BY <2>3 DEF StatusOf
  <2>6. CASE s.pc = "swapped"
    <3>1. StatusOf(s) = "swapped" /\ r.fills > 0
      BY <2>1, <2>6, <1>s DEF StatusOf, RecordInv, TxInv
    <3>2. Promise!ReportSwapped(o)
      BY <1>1, <1>3, <2>2, <2>4, <3>1 DEF Promise!ReportSwapped, Promise!Moves
    <3> QED BY <3>2 DEF Promise!Next
  <2>7. CASE s.pc = "failed"
    <3>1. StatusOf(s) = "failed"
      BY <2>7 DEF StatusOf
    <3>2. Promise!ReportFailed(o)
      BY <1>1, <1>3, <2>2, <2>4, <3>1 DEF Promise!ReportFailed, Promise!Moves
    <3> QED BY <3>2 DEF Promise!Next
  <2>8. CASE s.pc \notin {"swapped", "failed"}
    <3>1. StatusOf(s) = "working"
      BY <2>1, <2>8 DEF StatusOf
    <3>2. st' = st
      BY <1>1, <1>3, <2>4, <3>1
    <3> QED BY <2>2, <3>2 DEF Promise!vars
  <2> QED BY <2>6, <2>7, <2>8
<1>7. CASE DropStep(o)
  <2>1. s.fills = r.fills /\ s.pc = r.pc
    BY <1>7, StepFrame
  <2>2. StatusOf(s) = StatusOf(r)
    BY <2>1 DEF StatusOf
  <2>3. st' = st /\ fl' = fl
    BY <1>1, <1>2, <1>3, <2>1, <2>2
  <2> QED BY <2>3 DEF Promise!vars
<1> QED BY <1>4, <1>5, <1>6, <1>7 DEF OrderStep

LEMMA InitRefines == OrderInit => Promise!Init
  BY DEF OrderInit, NoOrder, StatusOf, Promise!Init

\* The executor of any number of orders, with any settings and any number of
\* retries, implements SwapOrder.
THEOREM ExecutorKeepsPromise == OrderSpec => OrdersKeepPromise
<1>1. OrderInv /\ [\E o \in Order : OrderStep(o)]_order => [Promise!Next]_(Promise!vars)
  <2>1. ASSUME OrderInv, UNCHANGED order
        PROVE  UNCHANGED Promise!vars
    BY <2>1 DEF Promise!vars, StatusOf
  <2> QED BY StepRefines, <2>1
<1> QED BY InitRefines, OrderInvariant, <1>1, PTL DEF OrderSpec, OrdersKeepPromise, Promise!Spec

-----------------------------------------------------------------------------
(* How long an order may take *)

\* calls that an order awaits until it is reported, if none of them throws into a retry;
\* a retry of v6 starts again at its quote
PcRank(pc) ==
    CASE pc = "measure" -> 1
      [] pc = "rpcConfirm" -> 2
      [] pc = "rpcSend" -> 3
      [] pc = "bundle" -> 4
      [] pc = "quote" -> 5
      [] pc = "ultraMeasure" -> 6
      [] pc = "ultraConfirm" -> 7
      [] pc = "ultraExecute" -> 8
      [] pc = "ultraOrder" -> 9
      [] pc = "idle" -> 10
      [] OTHER -> 0

RetriesLeft(r) == (MaxRetries - r.attempt) + (Max429Retries - r.retry429Count)
CallsLeft(r) == PcRank(r.pc) + 5 * RetriesLeft(r)

MaxCalls == 4 + 5 * (MaxRetries + Max429Retries)

\* An order that was placed awaits at most MaxCalls calls.
CallsBounded ==
    \A o \in Order : /\ CallsLeft(order[o]) \in Nat
                     /\ order[o].pc # "idle" => CallsLeft(order[o]) <= MaxCalls

\* Every call that settles, by a result or a throw, leaves an order fewer of them, and
\* nothing gives it more: neither the counter of its own that a rate limit uses, nor the
\* two fall-backs, nor what becomes of its transactions.
OrderWindsDown ==
    [][\A o \in Order :
         /\ ExecutorStep(o) => CallsLeft(order'[o]) < CallsLeft(order[o])
         /\ CallsLeft(order'[o]) <= CallsLeft(order[o])]_order

\* A retry moves a counter that its guard keeps below the limit.
LEMMA ThrowUsesRetry ==
  ASSUME NEW r \in OrderState, NEW rateLimited \in BOOLEAN,
         r.attempt \in 1 .. MaxRetries, r.retry429Count \in 0 .. Max429Retries,
         r.pc \in AttemptPc
  PROVE  CallsLeft(AfterThrow(r, rateLimited)) < CallsLeft(r)
<1> DEFINE s == AfterThrow(r, rateLimited)
<1>0. MaxRetries \in Nat /\ Max429Retries \in Nat
  BY ExecutionAssumption
<1>1. PcRank(r.pc) \in 1 .. 5
  BY DEF PcRank, AttemptPc
<1>2. \/ s.pc = "quote" /\ RetriesLeft(s) = RetriesLeft(r) - 1
      \/ s.pc = "failed" /\ RetriesLeft(s) = RetriesLeft(r)
  BY <1>0 DEF AfterThrow, OrderState, RetriesLeft
<1>3. PcRank("quote") = 5 /\ PcRank("failed") = 0
  BY DEF PcRank
<1>4. RetriesLeft(r) \in Int
  BY <1>0 DEF RetriesLeft
<1>5. CallsLeft(s) < CallsLeft(r)
  <2> HIDE DEF s
  <2> QED BY <1>1, <1>2, <1>3, <1>4 DEF CallsLeft
<1> QED BY <1>5

LEMMA StepWindsDown ==
  ASSUME OrderInv, NEW o \in Order, OrderStep(o)
  PROVE  /\ ExecutorStep(o) => CallsLeft(order'[o]) < CallsLeft(order[o])
         /\ CallsLeft(order'[o]) <= CallsLeft(order[o])
<1> DEFINE r == order[o]
           s == order'[o]
<1>f. order \in [Order -> OrderState]
  BY DEF OrderInv, OrderTypeOK
<1>r. r \in OrderState /\ RecordInv(r) /\ r.attempt \in 1 .. MaxRetries
      /\ r.retry429Count \in 0 .. Max429Retries
  BY DEF OrderInv, OrderTypeOK, RecordInv, CountersInv
<1>0. MaxRetries \in Nat /\ Max429Retries \in Nat /\ RetriesLeft(r) \in Int
  BY <1>r, ExecutionAssumption DEF RetriesLeft
\* what keeps the counters
<1>k. ASSUME s.attempt = r.attempt, s.retry429Count = r.retry429Count
      PROVE  /\ PcRank(s.pc) < PcRank(r.pc) => CallsLeft(s) < CallsLeft(r)
             /\ s.pc = r.pc => CallsLeft(s) = CallsLeft(r)
  <2>1. RetriesLeft(s) = RetriesLeft(r)
    BY <1>k DEF RetriesLeft
  <2>2. \A pc : PcRank(pc) \in Int
    BY DEF PcRank
  <2> QED BY <1>0, <2>1, <2>2 DEF CallsLeft
<1>1. CASE PlaceOrder(o)
  <2>1. s = [r EXCEPT !.pc = IF UseUltra THEN "ultraOrder" ELSE "quote"] /\ r.pc = "idle"
    BY <1>1, <1>f DEF PlaceOrder, Goto, At
  <2>2. s.pc \in {"ultraOrder", "quote"} /\ s.attempt = r.attempt
        /\ s.retry429Count = r.retry429Count
    BY <2>1, <1>r DEF OrderState
  <2>3. PcRank(s.pc) < PcRank(r.pc) /\ r.pc \notin UltraPc /\ r.pc \notin AttemptPc
    BY <2>1, <2>2 DEF PcRank, UltraPc, AttemptPc
  <2>4. CallsLeft(s) < CallsLeft(r) /\ CallsLeft(s) \in Int /\ CallsLeft(r) \in Int
    BY <1>k, <1>0, <2>2, <2>3 DEF CallsLeft, PcRank, RetriesLeft
  <2> QED BY <2>4
<1>2. ASSUME ExecutorStep(o)
      PROVE  CallsLeft(s) < CallsLeft(r)
  <2>1. CASE UltraExecuted(o) \/ UltraConfirmed(o) \/ UltraMeasured(o) \/ RpcSent(o) \/ Measured(o)
    <3>1. /\ s.attempt = r.attempt /\ s.retry429Count = r.retry429Count
          /\ \/ r.pc = "ultraExecute" /\ s.pc = "ultraConfirm"
             \/ r.pc = "ultraConfirm" /\ s.pc = "ultraMeasure"
             \/ r.pc = "ultraMeasure" /\ s.pc = "swapped"
             \/ r.pc = "rpcSend" /\ s.pc = "rpcConfirm"
             \/ r.pc = "measure" /\ s.pc = "swapped"
      BY <2>1, <1>f, <1>r DEF UltraExecuted, UltraConfirmed, UltraMeasured, RpcSent, Measured,
           Goto, At, OrderState
    <3> QED BY <1>k, <3>1 DEF PcRank
  <2>2. CASE BundleConfirmed(o) \/ RpcConfirmed(o) \/ BundleThrows(o)
    <3>1. /\ s.attempt = r.attempt /\ s.retry429Count = r.retry429Count
          /\ \/ r.pc = "bundle" /\ s.pc \in {"measure", "rpcSend"}
             \/ r.pc = "rpcConfirm" /\ s.pc = "measure"
      BY <2>2, <1>f, <1>r DEF BundleConfirmed, RpcConfirmed, BundleThrows, FallbackTx, At,
           OrderState
    <3> QED BY <1>k, <3>1 DEF PcRank
  <2>3. CASE UltraSigned(o)
    <3>1. /\ s.attempt = r.attempt /\ s.retry429Count = r.retry429Count
          /\ r.pc = "ultraOrder" /\ s.pc = "ultraExecute"
      BY <2>3, <1>f, <1>r DEF UltraSigned, Signed, At, OrderState
    <3> QED BY <1>k, <3>1 DEF PcRank
  <2>4. CASE Quoted(o)
    <3>1. /\ s.attempt = r.attempt /\ s.retry429Count = r.retry429Count
          /\ r.pc = "quote" /\ s.pc \in {"bundle", "rpcSend"}
      BY <2>4, <1>f, <1>r DEF Quoted, Signed, At, OrderState
    <3> QED BY <1>k, <3>1 DEF PcRank
  <2>5. /\ Abandoned(r) \in OrderState /\ Abandoned(r).pc = r.pc
        /\ Abandoned(r).attempt = r.attempt /\ Abandoned(r).retry429Count = r.retry429Count
    BY <1>r, AbandonedRecord DEF Abandoned, OrderState
  <2>6. CASE UltraThrows(o)
    <3>1. /\ s.attempt = r.attempt /\ s.retry429Count = r.retry429Count
          /\ r.pc \in UltraPc /\ s.pc = "quote"
      BY <2>5, <2>6, <1>f DEF UltraThrows, OrderState
    <3> QED BY <1>k, <3>1 DEF PcRank, UltraPc
  <2>7. ASSUME NEW rateLimited \in BOOLEAN, AttemptThrows(o, rateLimited)
        PROVE  CallsLeft(s) < CallsLeft(r)
    <3> DEFINE a == Abandoned(r)
    <3>1. s = AfterThrow(a, rateLimited) /\ r.pc \in AttemptPc
      BY <2>7, <1>f DEF AttemptThrows
    <3>2. CallsLeft(a) = CallsLeft(r)
      BY <2>5 DEF CallsLeft, RetriesLeft
    <3>3. a \in OrderState /\ a.pc \in AttemptPc /\ a.attempt \in 1 .. MaxRetries
          /\ a.retry429Count \in 0 .. Max429Retries
      BY <2>5, <3>1, <1>r
    <3> HIDE DEF a
    <3> QED BY <3>1, <3>2, <3>3, ThrowUsesRetry
  <2> QED BY <1>2, <2>1, <2>2, <2>3, <2>4, <2>6, <2>7 DEF ExecutorStep
<1>3. ASSUME FillStep(o) \/ DropStep(o)
      PROVE  CallsLeft(s) = CallsLeft(r)
  <2>1. s.attempt = r.attempt /\ s.retry429Count = r.retry429Count /\ s.pc = r.pc
    BY <1>3, <1>f, <1>r DEF FillStep, DropStep, TxLands, TxReverts, AdriftLands, AdriftExpires,
       OrderState
  <2> QED BY <1>k, <2>1
<1>4. CallsLeft(r) \in Int
  BY <1>0 DEF CallsLeft, PcRank
<1>5. CallsLeft(s) \in Int
  <2>1. s \in OrderState
    BY StepInv DEF OrderInv, OrderTypeOK
  <2> QED BY <1>0, <2>1 DEF CallsLeft, PcRank, RetriesLeft, OrderState
<1>6. PlaceOrder(o) => ~ExecutorStep(o)
  BY StepFrame DEF PlaceOrder, At
<1>7. FillStep(o) \/ DropStep(o) => CallsLeft(s) <= CallsLeft(r)
  BY <1>3, <1>4
<1> QED BY <1>1, <1>2, <1>4, <1>5, <1>6, <1>7 DEF OrderStep


LEMMA CallsAreFew == OrderInv => CallsBounded
<1> SUFFICES ASSUME OrderInv, NEW o \in Order
             PROVE  /\ CallsLeft(order[o]) \in Nat
                    /\ order[o].pc # "idle" => CallsLeft(order[o]) <= MaxCalls
  BY DEF CallsBounded
<1> DEFINE r == order[o]
<1>1. r.attempt \in 1 .. MaxRetries /\ r.retry429Count \in 0 .. Max429Retries
  BY DEF OrderInv, RecordInv, CountersInv
<1>2. /\ MaxRetries \in Nat /\ Max429Retries \in Nat
      /\ RetriesLeft(r) \in 0 .. MaxRetries - 1 + Max429Retries
  BY <1>1, ExecutionAssumption DEF RetriesLeft
<1>3. PcRank(r.pc) \in 0 .. 10 /\ (r.pc # "idle" => PcRank(r.pc) <= 9)
  BY DEF PcRank
<1> QED BY <1>2, <1>3 DEF CallsLeft, MaxCalls

\* For any number of orders, any limits of the retries and with or without Ultra and Jito:
\* no order awaits more than MaxCalls calls once it was placed (executor.ts
\* executeSwapWithRetry, executeSwapV6).
THEOREM CallsAreBounded == OrderSpec => []CallsBounded
  BY OrderInvariant, CallsAreFew, PTL

\* Every awaited call that settles brings the report of its order nearer, and no step of any
\* order takes it away again.
THEOREM OrdersWindDown == OrderSpec => OrderWindsDown
<1> DEFINE WindsDown ==
      \A o \in Order :
         /\ ExecutorStep(o) => CallsLeft(order'[o]) < CallsLeft(order[o])
         /\ CallsLeft(order'[o]) <= CallsLeft(order[o])
<1>1. ASSUME OrderInv, NEW p \in Order, OrderStep(p)
      PROVE  WindsDown
  <2> SUFFICES ASSUME NEW o \in Order
               PROVE  /\ ExecutorStep(o) => CallsLeft(order'[o]) < CallsLeft(order[o])
                      /\ CallsLeft(order'[o]) <= CallsLeft(order[o])
    OBVIOUS
  <2>1. CASE o = p
    BY <1>1, <2>1, StepWindsDown
  <2>2. CASE o # p
    <3>1. order'[o] = order[o]
      BY <1>1, <2>2, StepFrame
    <3>2. CallsLeft(order[o]) \in Nat
      BY <1>1, CallsAreFew DEF CallsBounded
    <3>3. ExecutorStep(o) => CallsLeft(order'[o]) < CallsLeft(order[o])
      BY <1>1, StepWindsDown DEF OrderStep
    <3> QED BY <3>1, <3>2, <3>3
  <2> QED BY <2>1, <2>2
<1>2. OrderInv /\ [\E o \in Order : OrderStep(o)]_order => [WindsDown]_order
  BY <1>1
<1> QED BY <1>2, OrderInvariant, PTL DEF OrderSpec, OrderWindsDown
=============================================================================
