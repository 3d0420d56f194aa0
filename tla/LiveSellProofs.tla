--------------------------- MODULE LiveSellProofs ---------------------------
(***************************************************************************)
(* Proofs about LiveSell: a sale drives the executor as SwapExecution says *)
(* an executor is driven, what it reports as sold has left the wallet, and *)
(* it takes no more than a known number of steps, none of which is barred. *)
(***************************************************************************)
EXTENDS LiveSell, SwapExecutionProofs, FiniteSetTheorems

\* orders are placed one after the other
OrdersInv ==
    /\ sale.used \in 0 .. Cardinality(Order)
    /\ \A o \in Order : o > sale.used => order[o].pc = "idle"

\* the wallet never holds more than the sale believes: what it found at first, and,
\* while a try runs, what it found before that try, less the amount once it is filled
HoldingInv ==
    /\ sale.pc \in {"held", "sell", "read", "returned"} => wallet <= sale.initial
    /\ SaleAt("sell") =>
         /\ sale.used \in Order
         /\ asked[sale.used] <= sale.pre
         /\ order[sale.used].fills = 0 => wallet <= sale.pre
         /\ order[sale.used].fills > 0 => wallet <= sale.pre - asked[sale.used]

\* recovery from a balance is allowed only once RPC nodes show the tokens
SeenInv ==
    sale.pc \in {"held", "sell", "read"} /\ sale.allowBalanceRecovered => age # "unseen"

SaleInv == OrderInv /\ TypeOK /\ SeenInv /\ OrdersInv /\ HoldingInv /\ SoldIsNotOverstated

-----------------------------------------------------------------------------
(* A sale is a use of the executor *)

LEMMA NextIsOrderStep == [Next]_vars => [\E o \in Order : OrderStep(o)]_order
  BY DEF Next, vars, StartSale, SaleStep, ProbeStep, SellStep, ProbeBalance, ProbeEntryTx,
       ProbeEnds, ProbeZero, ProbeThrows, FirstTry, Ordered, TrySucceeds, TryThrows,
       RetryFindsSold, RetrySells, RetryReadThrows, OrderAdvances, OrderFilled, OrderDrops,
       Ages, OrderStep

LEMMA UsesExecutor == Spec => OrderSpec
<1>1. Init => OrderInit
  BY DEF Init
<1> QED BY <1>1, NextIsOrderStep, PTL DEF Spec, OrderSpec

\* The promise of SwapOrder is kept for the orders of every sale.
THEOREM PromiseKept == Spec => OrdersKeepPromise
  BY UsesExecutor, ExecutorKeepsPromise

\* A Jito tip is deducted only if it was paid.
THEOREM TipDeducted == Spec => []TipDeductedWasPaid
<1>1. OrderInv => TipDeductedWasPaid
  BY DEF OrderInv, RecordInv, TipInv, TipDeductedWasPaid
<1> QED BY <1>1, UsesExecutor, OrderInvariant, PTL

-----------------------------------------------------------------------------
(* The invariant of sales *)

LEMMA OrdersAreFinite ==
    /\ Cardinality(Order) = MaxSales * (RetryCount + 1)
    /\ Cardinality(Order) \in Nat
    /\ Order = 1 .. Cardinality(Order)
<1>1. MaxSales * (RetryCount + 1) \in Nat
  BY SaleAssumption
<1>2. Cardinality(1 .. MaxSales * (RetryCount + 1)) = MaxSales * (RetryCount + 1)
  BY <1>1, FS_Interval
<1> QED BY <1>1, <1>2, SaleAssumption

LEMMA SaleInit == Init => SaleInv
<1> SUFFICES ASSUME Init PROVE SaleInv
  OBVIOUS
<1>1. OrderInv
  BY InitInv DEF Init
<1>2. NoSale \in Sale
  BY SaleAssumption DEF NoSale, Sale, SalePc, Amount
<1>3. TypeOK
  BY <1>1, <1>2, SaleAssumption DEF Init, TypeOK, OrderInv, Amount
<1>4. SeenInv /\ OrdersInv /\ HoldingInv /\ SoldIsNotOverstated
  BY OrdersAreFinite DEF Init, OrderInit, NoOrder, NoSale, SeenInv, OrdersInv, HoldingInv,
     SoldIsNotOverstated, SaleAt
<1> QED BY <1>1, <1>3, <1>4 DEF SaleInv

\* orders that were not placed are not filled
LEMMA IdleUnfilled ==
  ASSUME OrderInv, NEW o \in Order, order[o].pc = "idle"
  PROVE  order[o].fills = 0 /\ order[o].tx = "none" /\ order[o].adrift = 0
  BY DEF OrderInv, OrderTypeOK, OrderState, RecordInv, CountersInv, TxInv, MayLand,
     TriesBegun, TriesOver

LEMMA ProbePreserves ==
  ASSUME SaleInv, StartSale \/ ProbeStep
  PROVE  SaleInv'
<1> USE DEF SaleAt
<1>1. OrderInv' /\ OrderTypeOK
  BY DEF SaleInv, OrderInv, OrderTypeOK, StartSale, ProbeStep, ProbeBalance, ProbeEntryTx,
     ProbeEnds, ProbeZero, ProbeThrows
<1>2. TypeOK
  BY DEF SaleInv
<1>3. CASE StartSale
  <2>1. sale' \in Sale
    <3> DEFINE u == sale.used
               n == sale.sales + 1
    <3>1. u \in Nat /\ n \in Nat
      BY <1>2 DEF TypeOK, Sale
    <3>2. 0 \in Amount
      BY SaleAssumption DEF Amount
    <3>3. sale' = [NoSale EXCEPT !.pc = "probe", !.used = u, !.sales = n]
      BY <1>3 DEF StartSale
    <3> HIDE DEF u, n
    <3> QED BY <3>1, <3>2, <3>3 DEF NoSale, Sale, SalePc
  <2>2. sale'.pc = "probe" /\ sale'.used = sale.used
    BY <1>3 DEF StartSale, NoSale
  <2>3. TypeOK'
    BY <1>2, <1>3, <2>1 DEF StartSale, TypeOK, OrderTypeOK
  <2>4. SeenInv' /\ OrdersInv' /\ HoldingInv' /\ SoldIsNotOverstated'
    BY <1>3, <2>2 DEF SaleInv, StartSale, SeenInv, OrdersInv, HoldingInv, SoldIsNotOverstated
  <2> QED BY <1>1, <2>3, <2>4 DEF SaleInv
<1>4. ASSUME NEW initial \in Amount, NEW fromEntryTx \in BOOLEAN, ProbeEnds(initial, fromEntryTx),
             wallet <= initial, ~fromEntryTx => age # "unseen"
      PROVE  SaleInv'
  <2> DEFINE b == MayRecover(fromEntryTx)
  <2>0. b \in BOOLEAN /\ (b => age # "unseen")
    BY <1>4 DEF MayRecover
  <2>1. /\ sale' = [sale EXCEPT !.pc = "held", !.initial = initial, !.allowBalanceRecovered = b]
        /\ UNCHANGED <<order, wallet, age, asked>>
    BY <1>4 DEF ProbeEnds
  <2> HIDE DEF b
  <2>2. sale' \in Sale
    BY <1>2, <2>0, <2>1 DEF TypeOK, Sale, SalePc
  <2>3. /\ sale'.pc = "held" /\ sale'.used = sale.used /\ sale'.initial = initial
        /\ sale'.allowBalanceRecovered = b
    BY <1>2, <2>0, <2>1 DEF TypeOK, Sale
  <2>4. TypeOK'
    BY <1>2, <2>1, <2>2 DEF TypeOK, OrderTypeOK
  <2>5. SeenInv' /\ OrdersInv' /\ HoldingInv' /\ SoldIsNotOverstated'
    BY <1>4, <2>0, <2>1, <2>3 DEF SaleInv, SeenInv, OrdersInv, HoldingInv, SoldIsNotOverstated
  <2> QED BY <1>1, <2>4, <2>5 DEF SaleInv
<1>5. CASE ProbeBalance
  <2>1. Balance = wallet /\ age # "unseen" /\ wallet \in Amount /\ wallet <= wallet
    BY <1>2, <1>5 DEF ProbeBalance, Balance, TypeOK, Amount
  <2> QED BY <1>4, <1>5, <2>1 DEF ProbeBalance
<1>6. CASE ProbeEntryTx
  <2>1. Bought \in Amount /\ wallet <= Bought
    BY <1>2, SaleAssumption DEF TypeOK, Amount
  <2> QED BY <1>4, <1>6, <2>1 DEF ProbeEntryTx
<1>7. CASE ProbeZero \/ ProbeThrows
  <2>1. /\ sale' = [sale EXCEPT !.pc = IF ProbeZero THEN "zero" ELSE "thrown"]
        /\ UNCHANGED <<order, wallet, age, asked>>
    BY <1>7 DEF ProbeZero, ProbeThrows
  <2>2. sale' \in Sale /\ sale'.pc \in {"zero", "thrown"} /\ sale'.used = sale.used
    BY <1>2, <2>1 DEF TypeOK, Sale, SalePc
  <2>3. TypeOK'
    BY <1>2, <2>1, <2>2 DEF TypeOK, OrderTypeOK
  <2>4. SeenInv' /\ OrdersInv' /\ HoldingInv' /\ SoldIsNotOverstated'
    BY <2>1, <2>2 DEF SaleInv, SeenInv, OrdersInv, HoldingInv, SoldIsNotOverstated
  <2> QED BY <1>1, <2>3, <2>4 DEF SaleInv
<1> QED BY <1>3, <1>5, <1>6, <1>7 DEF ProbeStep

\* a try begins: the next order is placed for no more than what is believed held
LEMMA OrderedPreserves ==
  ASSUME SaleInv, NEW amount \in Amount, NEW pre \in Amount, NEW rest \in Amount,
         Ordered(amount), amount <= pre, wallet <= pre, wallet <= sale.initial,
         sale.allowBalanceRecovered => age # "unseen",
         sale' = [sale EXCEPT !.pc = "sell", !.remaining = rest, !.pre = pre, !.used = @ + 1],
         UNCHANGED <<wallet, age>>
  PROVE  SaleInv'
<1> DEFINE o == sale.used + 1
<1> USE DEF SaleAt
<1>1. TypeOK /\ OrderInv /\ OrdersInv
  BY DEF SaleInv
<1>2. o \in Order /\ OrderStep(o) /\ asked' = [asked EXCEPT ![o] = amount] /\ At(o, "idle")
  BY DEF Ordered, OrderStep, PlaceOrder
<1>3. OrderInv' /\ order[o].fills = 0
  BY <1>1, <1>2, StepInv, IdleUnfilled DEF At
<1>4. order'[o].fills = 0 /\ \A p \in Order : p # o => order'[p] = order[p]
  BY <1>1, <1>2, <1>3, StepFrame
     DEF Ordered, PlaceOrder, Goto, OrderInv, OrderTypeOK, OrderState
<1>5. /\ sale' \in Sale /\ sale'.pc = "sell" /\ sale'.used = o /\ sale'.pre = pre
      /\ sale'.initial = sale.initial
      /\ sale'.allowBalanceRecovered = sale.allowBalanceRecovered
  <2> DEFINE n == sale.used + 1
  <2>1. n \in Nat
    BY <1>1 DEF TypeOK, Sale
  <2> HIDE DEF n
  <2>2. sale' = [sale EXCEPT !.pc = "sell", !.remaining = rest, !.pre = pre, !.used = n]
    BY DEF n
  <2>3. sale' \in Sale /\ sale'.used = n
    BY <1>1, <2>1, <2>2 DEF TypeOK, Sale, SalePc
  <2> QED BY <1>1, <2>2, <2>3 DEF TypeOK, Sale, n
<1>6. asked' \in [Order -> Amount] /\ asked'[o] = amount
  BY <1>1, <1>2 DEF TypeOK
<1>7. TypeOK'
  BY <1>1, <1>3, <1>5, <1>6 DEF TypeOK, OrderInv
<1>8. OrdersInv'
  <2>1. o \in 0 .. Cardinality(Order)
    BY <1>2, OrdersAreFinite
  <2>2. ASSUME NEW p \in Order, p > o  PROVE order'[p].pc = "idle"
    <3>1. p > sale.used /\ p # o
      BY <1>1, <2>2, OrdersAreFinite DEF TypeOK, Sale
    <3> QED BY <1>1, <1>4, <3>1 DEF OrdersInv
  <2> QED BY <1>5, <2>1, <2>2 DEF OrdersInv
<1>9. SeenInv' /\ HoldingInv' /\ SoldIsNotOverstated'
  BY <1>2, <1>4, <1>5, <1>6 DEF SeenInv, HoldingInv, SoldIsNotOverstated
<1> QED BY <1>3, <1>7, <1>8, <1>9 DEF SaleInv

LEMMA SoldBound ==
  ASSUME NEW i \in Nat, NEW a \in Nat
  PROVE  /\ Minus(i, a) \in 0 .. i
         /\ a <= i => i - Minus(i, a) = a
         /\ a > i => Minus(i, a) = 0
  BY DEF Minus

LEMMA SellPreserves ==
  ASSUME SaleInv, SellStep
  PROVE  SaleInv'
<1> USE DEF SaleAt
<1>t. TypeOK /\ OrderInv /\ OrdersInv /\ HoldingInv /\ SeenInv
  BY DEF SaleInv
<1>a. /\ wallet \in 0 .. Bought /\ sale.initial \in 0 .. Bought /\ sale.remaining \in 0 .. Bought
      /\ sale.pre \in 0 .. Bought /\ Bought \in Nat /\ sale \in Sale
      /\ asked \in [Order -> 0 .. Bought]
  BY <1>t, SaleAssumption DEF TypeOK, Sale, Amount
\* steps that only change sale
<1>q. ASSUME NEW q \in Sale, sale' = q, UNCHANGED <<order, wallet, age, asked>>,
             q.used = sale.used, q.pc \in {"read", "thrown", "returned"},
             q.initial = sale.initial, q.allowBalanceRecovered = sale.allowBalanceRecovered,
             sale.pc \in {"sell", "read"},
             q.pc = "returned" => wallet <= q.initial - q.soldRaw
      PROVE  SaleInv'
  <2>1. OrderInv' /\ TypeOK'
    BY <1>t, <1>q DEF TypeOK, OrderInv, OrderTypeOK
  <2>2. SeenInv' /\ OrdersInv' /\ HoldingInv' /\ SoldIsNotOverstated'
    BY <1>t, <1>q DEF SeenInv, OrdersInv, HoldingInv, SoldIsNotOverstated
  <2> QED BY <2>1, <2>2 DEF SaleInv
<1>n. ASSUME sale' = NextAttempt, UNCHANGED <<order, wallet, age, asked>>,
             sale.pc \in {"sell", "read"}
      PROVE  SaleInv'
  <2> DEFINE k == sale.attempt + 1
  <2>1. k \in Nat
    BY <1>a DEF Sale
  <2> HIDE DEF k
  <2>2. sale' = IF sale.attempt < RetryCount + 1 THEN [sale EXCEPT !.pc = "read", !.attempt = k]
                ELSE [sale EXCEPT !.pc = "thrown"]
    BY <1>n DEF NextAttempt, k
  <2>3. /\ sale' \in Sale /\ sale'.used = sale.used /\ sale'.pc \in {"read", "thrown"}
        /\ sale'.initial = sale.initial
        /\ sale'.allowBalanceRecovered = sale.allowBalanceRecovered
    <3>1. CASE sale' = [sale EXCEPT !.pc = "read", !.attempt = k]
      BY <1>a, <2>1, <3>1 DEF Sale, SalePc
    <3>2. CASE sale' = [sale EXCEPT !.pc = "thrown"]
      BY <1>a, <3>2 DEF Sale, SalePc
    <3> QED BY <2>2, <3>1, <3>2
  <2> QED BY <1>n, <1>q, <2>3
<1>1. ASSUME NEW requested \in 1 .. sale.initial, FirstTry(requested)
      PROVE  SaleInv'
  <2>1. Minus(sale.initial, requested) \in Amount /\ requested \in Amount
    BY <1>a DEF Minus, Amount
  <2>2. wallet <= sale.initial /\ requested <= sale.initial /\ sale.initial \in Amount
        /\ (sale.allowBalanceRecovered => age # "unseen")
    BY <1>1, <1>a, <1>t DEF FirstTry, HoldingInv, SeenInv, Amount
  <2> QED BY <1>1, <2>1, <2>2, OrderedPreserves DEF FirstTry
<1>2. CASE TrySucceeds
  <2> DEFINE after == Minus(sale.pre, asked[sale.used])
             s == SoldRaw(after)
             q == [sale EXCEPT !.pc = "returned", !.soldRaw = s]
  <2>1. sale.used \in Order /\ order[sale.used].pc = "swapped"
    BY <1>2, <1>t DEF TrySucceeds, HoldingInv, At
  <2>2. order[sale.used].fills > 0
    BY <1>t, <2>1 DEF OrderInv, RecordInv, TxInv
  <2>3. /\ asked[sale.used] \in 0 .. Bought /\ asked[sale.used] <= sale.pre
        /\ wallet <= sale.pre - asked[sale.used] /\ wallet <= sale.initial
    BY <1>2, <1>t, <1>a, <2>1, <2>2 DEF TrySucceeds, HoldingInv
  <2>4. after \in 0 .. Bought /\ wallet <= after
    BY <1>a, <2>3 DEF Minus
  <2> HIDE DEF after
  <2>5. s \in Amount /\ wallet <= sale.initial - s
    BY <1>a, <2>3, <2>4 DEF SoldRaw, Minus, Amount
  <2> HIDE DEF s
  <2>6. /\ q \in Sale /\ q.pc = "returned" /\ q.soldRaw = s /\ q.used = sale.used
        /\ q.initial = sale.initial /\ q.allowBalanceRecovered = sale.allowBalanceRecovered
    BY <1>a, <2>5 DEF Sale, SalePc
  <2>7. sale' = q /\ UNCHANGED <<order, wallet, age, asked>> /\ sale.pc = "sell"
    BY <1>2 DEF TrySucceeds, s, after
  <2> HIDE DEF q
  <2> QED BY <1>q, <2>5, <2>6, <2>7 DEF SalePc
<1>3. CASE TryThrows
  BY <1>3, <1>n DEF TryThrows
<1>4. CASE RetryFindsSold
  <2>1. CASE sale.allowBalanceRecovered
    <3> DEFINE s == SoldRaw(Balance)
               q == [sale EXCEPT !.pc = "returned", !.recovered = TRUE, !.soldRaw = s]
    <3>1. Balance = wallet
      BY <1>4, <2>1, <1>t DEF RetryFindsSold, SeenInv, Balance
    <3>2. wallet <= sale.initial
      BY <1>4, <1>t DEF RetryFindsSold, HoldingInv
    <3>3. s \in Amount /\ wallet <= sale.initial - s
      BY <1>a, <3>1, <3>2 DEF SoldRaw, Minus, Amount
    <3> HIDE DEF s
    <3>4. /\ q \in Sale /\ q.pc = "returned" /\ q.soldRaw = s /\ q.used = sale.used
          /\ q.initial = sale.initial /\ q.allowBalanceRecovered = sale.allowBalanceRecovered
      BY <1>a, <3>3 DEF Sale, SalePc
    <3>5. sale' = q /\ UNCHANGED <<order, wallet, age, asked>> /\ sale.pc = "read"
      BY <1>4, <2>1 DEF RetryFindsSold, s
    <3> HIDE DEF q
    <3> QED BY <1>q, <3>3, <3>4, <3>5 DEF SalePc
  <2>2. CASE ~sale.allowBalanceRecovered
    BY <1>4, <2>2, <1>n DEF RetryFindsSold
  <2> QED BY <2>1, <2>2
<1>5. CASE RetrySells
  <2>1. Balance = wallet /\ Balance > sale.remaining
    BY <1>5, <1>a DEF RetrySells, Balance
  <2>2. RetryAmount \in Amount /\ RetryAmount <= wallet /\ wallet \in Amount
        /\ sale.remaining \in Amount
    BY <1>a, <2>1 DEF RetryAmount, Amount
  <2>3. wallet <= sale.initial /\ wallet <= wallet
        /\ (sale.allowBalanceRecovered => age # "unseen")
    BY <1>5, <1>a, <1>t DEF RetrySells, HoldingInv, SeenInv
  <2>4. sale' = [sale EXCEPT !.pc = "sell", !.remaining = sale.remaining, !.pre = wallet,
                             !.used = @ + 1]
    BY <1>5, <1>a, <2>1 DEF RetrySells, Sale
  <2> QED BY <1>5, <2>2, <2>3, <2>4, OrderedPreserves DEF RetrySells
<1>6. CASE RetryReadThrows
  <2> DEFINE q == [sale EXCEPT !.pc = "thrown"]
  <2>1. /\ q \in Sale /\ q.pc = "thrown" /\ q.used = sale.used /\ q.initial = sale.initial
        /\ q.allowBalanceRecovered = sale.allowBalanceRecovered
    BY <1>a DEF Sale, SalePc
  <2>2. sale' = q /\ UNCHANGED <<order, wallet, age, asked>> /\ sale.pc = "read"
    BY <1>6 DEF RetryReadThrows
  <2> HIDE DEF q
  <2> QED BY <1>q, <2>1, <2>2 DEF SalePc
<1> QED BY <1>1, <1>2, <1>3, <1>4, <1>5, <1>6 DEF SellStep

LEMMA WorldPreserves ==
  ASSUME SaleInv,
         Ages \/ \E o \in Order : OrderAdvances(o) \/ OrderFilled(o) \/ OrderDrops(o)
  PROVE  SaleInv'
<1> USE DEF SaleAt
<1>t. TypeOK /\ OrderInv /\ OrdersInv /\ HoldingInv /\ SeenInv
  BY DEF SaleInv
<1>1. CASE Ages
  BY <1>1, <1>t DEF Ages, SaleInv, TypeOK, Age, OrderInv, OrderTypeOK, OrdersInv, HoldingInv,
     SeenInv, SoldIsNotOverstated
<1>2. ASSUME NEW o \in Order, OrderAdvances(o) \/ OrderFilled(o) \/ OrderDrops(o)
      PROVE  SaleInv'
  <2>1. OrderStep(o) /\ UNCHANGED <<age, asked, sale>>
    BY <1>2 DEF OrderAdvances, OrderFilled, OrderDrops, OrderStep, saleVars
  <2>2. OrderInv'
    BY <1>t, <2>1, StepInv
  <2>3. /\ wallet' \in Amount /\ wallet' <= wallet
        /\ wallet \in Nat /\ wallet' \in Nat
        /\ \/ wallet' = wallet /\ order'[o].fills = order[o].fills
           \/ wallet' = wallet - asked[o] /\ order'[o].fills = order[o].fills + 1
    BY <1>2, <1>t, <2>1, StepFrame, SaleAssumption
       DEF OrderAdvances, OrderFilled, OrderDrops, TypeOK, Amount, saleVars
  <2>4. TypeOK'
    BY <1>t, <2>1, <2>2, <2>3 DEF TypeOK, OrderInv
  <2>5. order[o].pc # "idle" /\ \A p \in Order : p # o => order'[p] = order[p]
    BY <1>2, <1>t, <2>1, StepFrame, IdleUnfilled DEF OrderAdvances, OrderFilled, OrderDrops,
       DropStep, TxReverts, AdriftExpires
  <2>6. OrdersInv'
    BY <1>t, <2>1, <2>5 DEF OrdersInv
  <2>7. SeenInv'
    BY <1>t, <2>1 DEF SeenInv
  <2>8. SoldIsNotOverstated'
    BY <2>1, <2>3, <1>t DEF SaleInv, SoldIsNotOverstated, TypeOK, Sale, Amount
  <2>9. HoldingInv'
    <3>1. sale.pc \in {"held", "sell", "read", "returned"} => wallet' <= sale.initial
      BY <1>t, <2>3 DEF HoldingInv, TypeOK, Sale, Amount
    <3>2. ASSUME SaleAt("sell"), sale.used = o
          PROVE  /\ order'[o].fills = 0 => wallet' <= sale.pre
                 /\ order'[o].fills > 0 => wallet' <= sale.pre - asked[o]
      <4>1. order[o].fills \in Nat /\ asked[o] \in Nat /\ sale.pre \in Nat
        BY <1>t, SaleAssumption DEF OrderInv, OrderTypeOK, OrderState, TypeOK, Sale, Amount
      <4> QED BY <1>t, <2>3, <3>2, <4>1 DEF HoldingInv
    <3>3. ASSUME SaleAt("sell"), sale.used # o
          PROVE  /\ order'[sale.used].fills = 0 => wallet' <= sale.pre
                 /\ order'[sale.used].fills > 0 => wallet' <= sale.pre - asked[sale.used]
      <4>1. sale.used \in Order /\ order'[sale.used] = order[sale.used]
        BY <1>t, <2>5, <3>3 DEF HoldingInv
      <4>2. asked[sale.used] \in Nat /\ sale.pre \in Nat
        BY <1>t, <4>1, SaleAssumption DEF TypeOK, Sale, Amount
      <4> QED BY <1>t, <2>3, <3>3, <4>1, <4>2 DEF HoldingInv
    <3> QED BY <1>t, <2>1, <3>1, <3>2, <3>3 DEF HoldingInv
  <2> QED BY <2>2, <2>4, <2>6, <2>7, <2>8, <2>9 DEF SaleInv
<1> QED BY <1>1, <1>2

LEMMA SaleInvariant == Spec => []SaleInv
<1>1. SaleInv /\ [Next]_vars => SaleInv'
  <2>1. SaleInv /\ UNCHANGED vars => SaleInv'
    BY DEF vars, SaleInv, OrderInv, OrderTypeOK, TypeOK, SeenInv, OrdersInv, HoldingInv,
       SoldIsNotOverstated, SaleAt
  <2> QED BY <2>1, ProbePreserves, SellPreserves, WorldPreserves DEF Next, SaleStep
<1> QED BY SaleInit, <1>1, PTL DEF Spec

\* The values of LiveSell are what its declarations say.
THEOREM TypeCorrect == Spec => []TypeOK
<1>1. SaleInv => TypeOK
  BY DEF SaleInv
<1> QED BY <1>1, SaleInvariant, PTL

\* What a sale reports as sold has left the wallet.
THEOREM NotOverstated == Spec => []SoldIsNotOverstated
<1>1. SaleInv => SoldIsNotOverstated
  BY DEF SaleInv
<1> QED BY <1>1, SaleInvariant, PTL

-----------------------------------------------------------------------------
(* The orders of a sale are worked off one by one, and they are enough *)

Over == {"none", "returned", "thrown", "zero"}
Done == {"swapped", "failed"}

\* only the order of the try under way is at work
TurnInv ==
    /\ \A o \in Order : ~(SaleAt("sell") /\ o = sale.used) => order[o].pc \in Done \cup {"idle"}
    /\ SaleAt("sell") => order[sale.used].pc # "idle"

\* each sale may place as many orders as it has tries
Budget == sale.sales * (RetryCount + 1)

BudgetInv ==
    /\ sale.attempt \in 1 .. RetryCount + 1
    /\ sale.sales \in 0 .. MaxSales
    /\ sale.used <= Budget
    /\ sale.pc \notin Over => sale.sales > 0
    /\ sale.pc \in {"probe", "held"} => sale.attempt = 1
    /\ sale.pc \in {"probe", "held", "read"} => sale.used + (RetryCount + 1 - sale.attempt) < Budget
    /\ SaleAt("sell") => sale.used + (RetryCount + 1 - sale.attempt) <= Budget
    /\ SaleAt("held") => sale.initial > 0

WorkInv == TurnInv /\ BudgetInv

LEMMA WorkInit == Init => WorkInv
<1> SUFFICES ASSUME Init PROVE WorkInv
  OBVIOUS
<1>1. RetryCount + 1 \in Nat /\ 0 * (RetryCount + 1) = 0 /\ MaxSales \in Nat
  BY SaleAssumption
<1>2. sale.pc = "none" /\ sale.sales = 0 /\ sale.used = 0 /\ sale.attempt = 1
  BY DEF Init, NoSale
<1>3. Budget = 0
  BY <1>1, <1>2 DEF Budget
<1>4. 1 \in 1 .. RetryCount + 1 /\ 0 \in 0 .. MaxSales
  BY SaleAssumption
<1>5. BudgetInv
  BY <1>2, <1>3, <1>4 DEF BudgetInv, SaleAt, Over
<1>6. TurnInv
  BY <1>2 DEF Init, OrderInit, NoOrder, TurnInv, SaleAt
<1> QED BY <1>5, <1>6 DEF WorkInv

LEMMA NextTry ==
  ASSUME NEW n \in Nat, NEW m \in Nat, NEW k \in Nat
  PROVE  /\ n * k \in Nat
         /\ (n + 1) * k = n * k + k
         /\ n <= m => n * k <= m * k
<1>1. n * k \in Nat /\ (n + 1) * k = n * k + k
  OBVIOUS
<1>2. ASSUME n <= m PROVE n * k <= m * k
  <2> DEFINE d == m - n
  <2>1. d \in Nat /\ m = n + d
    BY <1>2
  <2> HIDE DEF d
  <2>2. m * k = n * k + d * k
    BY <2>1
  <2>3. d * k \in Nat
    BY <2>1
  <2> QED BY <1>1, <2>2, <2>3
<1> QED BY <1>1, <1>2

\* steps of the sale that place no order
LEMMA TurnKept ==
  ASSUME WorkInv, UNCHANGED order, sale'.used = sale.used,
         SaleAt("sell") => sale.used \in Order /\ order[sale.used].pc \in Done,
         sale'.pc # "sell"
  PROVE  TurnInv'
  BY DEF WorkInv, TurnInv, SaleAt

\* a step that places one
LEMMA TurnPassed ==
  ASSUME SaleInv, WorkInv, ~SaleAt("sell"), NEW amount, Ordered(amount),
         sale'.pc = "sell", sale'.used = sale.used + 1
  PROVE  TurnInv'
<1> DEFINE n == sale.used + 1
<1>1. OrderInv /\ n \in Order /\ OrderStep(n) /\ PlaceOrder(n)
  BY DEF SaleInv, Ordered, OrderStep
<1>2. order'[n].pc \in {"ultraOrder", "quote"}
  BY <1>1 DEF PlaceOrder, Goto, OrderInv, OrderTypeOK, OrderState
<1>3. \A o \in Order : o # n => order'[o] = order[o]
  BY <1>1, StepFrame
<1> HIDE DEF n
<1>4. sale'.used = n
  BY DEF n
<1> QED BY <1>2, <1>3, <1>4 DEF WorkInv, TurnInv, SaleAt

LEMMA WorkStep ==
  ASSUME SaleInv, WorkInv, [Next]_vars
  PROVE  WorkInv'
<1> USE DEF SaleAt
<1>t. /\ sale \in Sale /\ OrderInv /\ OrdersInv /\ HoldingInv /\ TurnInv /\ BudgetInv
      /\ sale.used \in Nat /\ sale.sales \in Nat /\ sale.attempt \in Nat
  BY DEF SaleInv, TypeOK, Sale, WorkInv
<1>k. /\ RetryCount \in Nat /\ MaxSales \in Nat
      /\ sale.sales * (RetryCount + 1) \in Nat /\ Budget \in Nat
      /\ (sale.sales + 1) * (RetryCount + 1) = sale.sales * (RetryCount + 1) + (RetryCount + 1)
  BY <1>t, SaleAssumption, NextTry DEF Budget
<1>1. CASE StartSale
  <2> DEFINE u == sale.used
             n == sale.sales + 1
  <2>1. sale' = [NoSale EXCEPT !.pc = "probe", !.used = u, !.sales = n] /\ UNCHANGED order
        /\ sale.pc \in Over /\ sale.sales < MaxSales
    BY <1>1 DEF StartSale, Over
  <2>2. /\ sale'.pc = "probe" /\ sale'.used = sale.used /\ sale'.sales = n
        /\ sale'.attempt = 1
    BY <2>1 DEF NoSale
  <2>3. TurnInv'
    BY <2>1, <2>2, TurnKept DEF Over
  <2>4. Budget' = Budget + (RetryCount + 1)
    BY <1>k, <2>2 DEF Budget
  <2>5. n \in 1 .. MaxSales /\ sale.used <= Budget
    BY <1>k, <1>t, <2>1 DEF BudgetInv
  <2>6. /\ sale.used <= Budget' /\ sale.used + (RetryCount + 1 - 1) < Budget'
        /\ 1 \in 1 .. RetryCount + 1
    BY <1>k, <1>t, <2>4, <2>5
  <2>7. BudgetInv'
    BY <1>k, <2>2, <2>5, <2>6 DEF BudgetInv
  <2> QED BY <2>3, <2>7 DEF WorkInv
\* steps that change only the pc of the sale, and its attempt
<1>q. ASSUME NEW pc \in SalePc, NEW attempt \in 1 .. RetryCount + 1,
             UNCHANGED order, sale'.pc = pc, sale'.attempt = attempt,
             sale'.used = sale.used, sale'.sales = sale.sales,
             sale.pc = "sell" => sale.used \in Order /\ order[sale.used].pc \in Done,
             \/ pc \in Over
             \/ pc = "read" /\ attempt = sale.attempt + 1 /\ sale.pc \in {"sell", "read"}
             \/ pc = "held" /\ attempt = sale.attempt /\ sale.pc = "probe" /\ sale'.initial > 0
      PROVE  WorkInv'
  <2>1. TurnInv'
    BY <1>q, TurnKept DEF Over
  <2>2. Budget' = Budget
    BY <1>q DEF Budget
  <2>3. ASSUME pc \in Over PROVE BudgetInv'
    BY <1>q, <1>t, <2>2, <2>3 DEF BudgetInv, Over
  <2>4. ASSUME pc = "read" PROVE BudgetInv'
    <3>0. attempt = sale.attempt + 1 /\ sale.pc \in {"sell", "read"}
      BY <1>q, <2>4 DEF Over
    <3>1. sale.used + (RetryCount + 1 - sale.attempt) <= Budget /\ sale.sales > 0
      <4>1. sale.sales > 0
        BY <1>t, <3>0 DEF BudgetInv, Over
      <4>2. /\ sale.pc = "sell" => sale.used + (RetryCount + 1 - sale.attempt) <= Budget
            /\ sale.pc = "read" => sale.used + (RetryCount + 1 - sale.attempt) < Budget
        BY <1>t DEF BudgetInv
      <4>3. sale.used + (RetryCount + 1 - sale.attempt) \in Int
        BY <1>t, <1>k
      <4> QED BY <1>k, <3>0, <4>1, <4>2, <4>3
    <3>2. sale.used + (RetryCount + 1 - attempt) < Budget /\ attempt \in Nat
      BY <1>t, <1>k, <3>0, <3>1
    <3>3. /\ sale'.attempt \in 1 .. RetryCount + 1 /\ sale'.sales \in 0 .. MaxSales
          /\ sale'.used <= Budget' /\ sale'.sales > 0 /\ sale'.pc = "read"
          /\ sale'.used + (RetryCount + 1 - sale'.attempt) < Budget'
      <4>1. sale.sales \in 0 .. MaxSales /\ sale.used <= Budget
        BY <1>t DEF BudgetInv
      <4> QED BY <1>q, <2>2, <2>4, <3>1, <3>2, <4>1
    <3>4. sale'.used \in Nat /\ Budget' \in Nat
      BY <1>q, <1>t, <1>k, <2>2
    <3> QED BY <1>k, <3>3, <3>4 DEF BudgetInv
  <2>5. ASSUME pc = "held" PROVE BudgetInv'
    BY <1>q, <1>t, <2>2, <2>5 DEF BudgetInv, Over
  <2>6. pc \in Over \/ pc = "read" \/ pc = "held"
    BY <1>q
  <2>7. BudgetInv'
    BY <2>3, <2>4, <2>5, <2>6
  <2> QED BY <2>1, <2>7 DEF WorkInv
<1>2. ASSUME NEW initial, NEW fromEntryTx, ProbeEnds(initial, fromEntryTx), initial > 0
      PROVE  WorkInv'
  <2> DEFINE b == MayRecover(fromEntryTx)
  <2>1. /\ sale' = [sale EXCEPT !.pc = "held", !.initial = initial, !.allowBalanceRecovered = b]
        /\ UNCHANGED order /\ sale.pc = "probe"
    BY <1>2 DEF ProbeEnds
  <2> HIDE DEF b
  <2>2. /\ sale'.pc = "held" /\ sale'.attempt = sale.attempt /\ sale'.used = sale.used
        /\ sale'.sales = sale.sales /\ sale'.initial = initial
    BY <1>t, <2>1 DEF Sale
  <2> QED BY <1>2, <1>q, <1>t, <2>1, <2>2 DEF SalePc, BudgetInv
<1>3. CASE ProbeStep
  <2>1. CASE ProbeBalance
    BY <1>2, <2>1 DEF ProbeBalance
  <2>2. CASE ProbeEntryTx
    <3>1. Bought > 0
      BY SaleAssumption
    <3>2. ProbeEnds(Bought, TRUE)
      BY <2>2 DEF ProbeEntryTx
    <3> QED BY <1>2, <3>1, <3>2
  <2>3. CASE ProbeZero \/ ProbeThrows
    <3>1. /\ sale' = [sale EXCEPT !.pc = IF ProbeZero THEN "zero" ELSE "thrown"]
          /\ UNCHANGED order /\ sale.pc = "probe"
      BY <2>3 DEF ProbeZero, ProbeThrows
    <3>2. /\ sale'.pc \in {"zero", "thrown"} /\ sale'.attempt = sale.attempt
          /\ sale'.used = sale.used /\ sale'.sales = sale.sales
      BY <1>t, <3>1 DEF Sale
    <3> QED BY <1>q, <1>t, <3>1, <3>2 DEF SalePc, BudgetInv, Over
  <2> QED BY <1>3, <2>1, <2>2, <2>3 DEF ProbeStep
\* a try begins
<1>p. ASSUME NEW amount, Ordered(amount), sale.pc \in {"held", "read"},
             sale'.pc = "sell", sale'.used = sale.used + 1, sale'.attempt = sale.attempt,
             sale'.sales = sale.sales
      PROVE  WorkInv'
  <2>1. TurnInv'
    BY <1>p, TurnPassed
  <2>2. Budget' = Budget
    BY <1>p DEF Budget
  <2>3. /\ sale.used + (RetryCount + 1 - sale.attempt) < Budget /\ sale.sales > 0
        /\ sale.sales \in 0 .. MaxSales /\ sale.attempt \in 1 .. RetryCount + 1
    BY <1>p, <1>t DEF BudgetInv, Over
  <2>4. sale'.used + (RetryCount + 1 - sale'.attempt) <= Budget /\ sale'.used <= Budget
    BY <1>p, <1>t, <1>k, <2>3
  <2>5. BudgetInv'
    BY <1>p, <2>2, <2>3, <2>4 DEF BudgetInv, Over
  <2> QED BY <2>1, <2>5 DEF WorkInv
<1>n. ASSUME sale' = NextAttempt, UNCHANGED order,
             \/ sale.pc = "sell" /\ sale.used \in Order /\ order[sale.used].pc \in Done
             \/ sale.pc = "read"
      PROVE  WorkInv'
  <2> DEFINE k == sale.attempt + 1
  <2>1. sale' = IF sale.attempt < RetryCount + 1 THEN [sale EXCEPT !.pc = "read", !.attempt = k]
                ELSE [sale EXCEPT !.pc = "thrown"]
    BY <1>n DEF NextAttempt
  <2>2. sale.attempt \in 1 .. RetryCount + 1
    BY <1>t DEF BudgetInv
  <2>3. CASE sale.attempt < RetryCount + 1
    <3>1. k \in 1 .. RetryCount + 1
      BY <2>2, <2>3, <1>k
    <3> HIDE DEF k
    <3>2. sale'.pc = "read" /\ sale'.attempt = k /\ sale'.used = sale.used
          /\ sale'.sales = sale.sales
      BY <1>t, <2>1, <2>3, <3>1 DEF Sale
    <3> QED BY <1>n, <1>q, <3>1, <3>2 DEF SalePc, k
  <2>4. CASE ~(sale.attempt < RetryCount + 1)
    <3>1. sale'.pc = "thrown" /\ sale'.attempt = sale.attempt /\ sale'.used = sale.used
          /\ sale'.sales = sale.sales
      BY <1>t, <2>1, <2>4 DEF Sale
    <3> QED BY <1>n, <1>q, <2>2, <3>1 DEF SalePc, Over
  <2> QED BY <2>3, <2>4
<1>4. CASE SellStep
  <2>1. ASSUME NEW requested \in 1 .. sale.initial, FirstTry(requested)
        PROVE  WorkInv'
    <3> DEFINE u == sale.used + 1
               m == Minus(sale.initial, requested)
    <3>1. sale' = [sale EXCEPT !.pc = "sell", !.remaining = m, !.pre = sale.initial, !.used = u]
          /\ Ordered(requested) /\ sale.pc = "held"
      BY <1>t, <2>1 DEF FirstTry, Sale
    <3> HIDE DEF u, m
    <3>2. /\ sale'.pc = "sell" /\ sale'.used = u /\ sale'.attempt = sale.attempt
          /\ sale'.sales = sale.sales
      BY <1>t, <3>1 DEF Sale
    <3> QED BY <1>p, <3>1, <3>2 DEF u
  <2>2. CASE TrySucceeds
    <3> DEFINE s == SoldRaw(Minus(sale.pre, asked[sale.used]))
    <3>1. sale' = [sale EXCEPT !.pc = "returned", !.soldRaw = s] /\ UNCHANGED order
          /\ sale.pc = "sell" /\ sale.used \in Order /\ order[sale.used].pc \in Done
      BY <1>t, <2>2 DEF TrySucceeds, At, Done, HoldingInv
    <3> HIDE DEF s
    <3>2. /\ sale'.pc = "returned" /\ sale'.used = sale.used /\ sale'.attempt = sale.attempt
          /\ sale'.sales = sale.sales
      BY <1>t, <3>1 DEF Sale
    <3> QED BY <1>q, <1>t, <3>1, <3>2 DEF SalePc, Over, BudgetInv
  <2>3. CASE TryThrows
    BY <1>n, <1>t, <2>3 DEF TryThrows, At, Done, HoldingInv
  <2>4. CASE RetryFindsSold
    <3>1. CASE sale.allowBalanceRecovered
      <4> DEFINE s == SoldRaw(Balance)
      <4>1. sale' = [sale EXCEPT !.pc = "returned", !.recovered = TRUE, !.soldRaw = s]
            /\ UNCHANGED order /\ sale.pc = "read"
        BY <2>4, <3>1 DEF RetryFindsSold
      <4> HIDE DEF s
      <4>2. /\ sale'.pc = "returned" /\ sale'.used = sale.used /\ sale'.attempt = sale.attempt
            /\ sale'.sales = sale.sales
        BY <1>t, <4>1 DEF Sale
      <4> QED BY <1>q, <1>t, <4>1, <4>2 DEF SalePc, Over, BudgetInv
    <3>2. CASE ~sale.allowBalanceRecovered
      BY <1>n, <2>4, <3>2 DEF RetryFindsSold
    <3> QED BY <3>1, <3>2
  <2>5. CASE RetrySells
    <3> DEFINE u == sale.used + 1
               b == Balance
    <3>1. sale' = [sale EXCEPT !.pc = "sell", !.pre = b, !.used = u]
          /\ Ordered(RetryAmount) /\ sale.pc = "read"
      BY <1>t, <2>5 DEF RetrySells, Sale
    <3> HIDE DEF u, b
    <3>2. /\ sale'.pc = "sell" /\ sale'.used = u /\ sale'.attempt = sale.attempt
          /\ sale'.sales = sale.sales
      BY <1>t, <3>1 DEF Sale
    <3> QED BY <1>p, <3>1, <3>2 DEF u
  <2>6. CASE RetryReadThrows
    <3>1. /\ sale'.pc = "thrown" /\ sale'.used = sale.used /\ sale'.attempt = sale.attempt
          /\ sale'.sales = sale.sales /\ UNCHANGED order /\ sale.pc = "read"
      BY <1>t, <2>6 DEF RetryReadThrows, Sale
    <3> QED BY <1>q, <1>t, <3>1 DEF SalePc, Over, BudgetInv
  <2> QED BY <1>4, <2>1, <2>2, <2>3, <2>4, <2>5, <2>6 DEF SellStep
<1>5. ASSUME NEW o \in Order, OrderAdvances(o) \/ OrderFilled(o) \/ OrderDrops(o)
      PROVE  WorkInv'
  <2>1. OrderStep(o) /\ UNCHANGED sale
    BY <1>5 DEF OrderAdvances, OrderFilled, OrderDrops, OrderStep, saleVars
  <2>2. \A p \in Order : p # o => order'[p] = order[p]
    BY <1>t, <2>1, StepFrame
  <2>3. CASE OrderFilled(o) \/ OrderDrops(o)
    <3>1. order'[o].pc = order[o].pc
      BY <1>t, <2>1, <2>3, StepFrame DEF OrderFilled, OrderDrops
    <3> QED BY <1>t, <2>1, <2>2, <3>1 DEF WorkInv, TurnInv, BudgetInv, Budget, HoldingInv
  <2>4. CASE OrderAdvances(o)
    <3>1. order[o].pc \notin Done \cup {"idle"} /\ order'[o].pc # "idle"
      BY <1>t, <2>1, <2>4, StepFrame DEF OrderAdvances, Done
    <3>2. sale.pc = "sell" /\ o = sale.used
      BY <1>t, <3>1 DEF TurnInv
    <3> QED BY <1>t, <2>1, <2>2, <3>1, <3>2 DEF WorkInv, TurnInv, BudgetInv, Budget
  <2> QED BY <1>5, <2>3, <2>4
<1>6. CASE Ages \/ UNCHANGED vars
  <2>1. UNCHANGED <<order, sale>>
    BY <1>6 DEF Ages, vars
  <2>2. TurnInv'
    BY <1>t, <2>1 DEF TurnInv
  <2>3. BudgetInv'
    BY <1>t, <2>1 DEF BudgetInv, Budget
  <2> QED BY <2>2, <2>3 DEF WorkInv
<1> QED BY <1>1, <1>3, <1>4, <1>5, <1>6 DEF Next, SaleStep

LEMMA WorkInvariant == Spec => [](SaleInv /\ WorkInv)
<1>1. Init => SaleInv /\ WorkInv
  BY SaleInit, WorkInit
<1> QED BY <1>1, WorkStep, SaleInvariant, PTL DEF Spec

\* No try of a sale is barred: there is an order for it, an amount to ask for, and the
\* order of a try under way was placed, so that one of its calls is awaited until it ends.
NotBarred ==
    /\ sale.pc \in {"held", "read"} => sale.used + 1 \in Order
    /\ SaleAt("held") => sale.initial > 0
    /\ SaleAt("sell") => sale.used \in Order /\ order[sale.used].pc # "idle"
    /\ \A o \in Order : order[o].pc \notin Done \cup {"idle"} => SaleAt("sell") /\ o = sale.used

\* For any amount, any number of sales and of tries: the bound on orders cuts no try off, and
\* a sale never waits for an order that nobody works on (liveSellRetry.ts
\* executeLiveSellWithImmediateRetries).
THEOREM NoTryBarred == Spec => []NotBarred
<1>1. ASSUME SaleInv, WorkInv PROVE NotBarred
  <2>1. ASSUME sale.pc \in {"held", "read"} PROVE sale.used + 1 \in Order
    <3> DEFINE most == MaxSales * (RetryCount + 1)
    <3>1. /\ sale.used \in Nat /\ sale.sales \in Nat /\ sale.attempt \in Nat
          /\ sale.sales <= MaxSales /\ sale.attempt <= RetryCount + 1
          /\ RetryCount \in Nat /\ MaxSales \in Nat
      BY <1>1, SaleAssumption DEF SaleInv, TypeOK, Sale, WorkInv, BudgetInv
    <3>2. Budget \in Nat /\ most \in Nat /\ Budget <= most
      BY <3>1, NextTry DEF Budget
    <3>3. sale.used + (RetryCount + 1 - sale.attempt) < Budget
      BY <1>1, <2>1 DEF WorkInv, BudgetInv
    <3> HIDE DEF most
    <3>4. sale.used + 1 \in 1 .. most
      BY <3>1, <3>2, <3>3
    <3> QED BY <3>4, SaleAssumption DEF most
  <2>2. SaleAt("held") => sale.initial > 0
    BY <1>1 DEF WorkInv, BudgetInv
  <2>3. SaleAt("sell") => sale.used \in Order /\ order[sale.used].pc # "idle"
    BY <1>1 DEF WorkInv, TurnInv, SaleInv, HoldingInv
  <2>4. \A o \in Order : order[o].pc \notin Done \cup {"idle"} => SaleAt("sell") /\ o = sale.used
    BY <1>1 DEF WorkInv, TurnInv
  <2> QED BY <2>1, <2>2, <2>3, <2>4 DEF NotBarred
<1> QED BY <1>1, WorkInvariant, PTL

-----------------------------------------------------------------------------
(* How long a sale may take *)

\* a try at its longest: the balance is read, the order placed, its calls awaited, its end noticed
TrySteps == MaxCalls + 2

StageSteps ==
    CASE sale.pc = "probe" -> TrySteps + 1
      [] sale.pc = "sell" -> 1 + CallsLeft(order[sale.used])
      [] OTHER -> TrySteps

StepsLeft ==
    IF sale.pc \in Over THEN 0 ELSE (RetryCount + 1 - sale.attempt) * TrySteps + StageSteps

MaxSteps == (RetryCount + 1) * TrySteps + 1

\* A sale takes at most MaxSteps steps of its own and of its orders.
StepsBounded == StepsLeft \in 0 .. MaxSteps

\* Every step of a sale or of its order leaves fewer of them; only a new sale begins anew.
SaleWindsDown ==
    [][/\ SaleStep => StepsLeft' < StepsLeft
       /\ \A o \in Order : OrderAdvances(o) => StepsLeft' < StepsLeft
       /\ ~StartSale => StepsLeft' <= StepsLeft]_vars

LEMMA TryStepsNat == MaxCalls \in Nat /\ TrySteps \in Nat /\ TrySteps = MaxCalls + 2
  BY ExecutionAssumption DEF MaxCalls, TrySteps

\* the steps left are those of the tries to come and of the stage of this one
StageInv ==
    sale.pc \notin Over =>
        /\ RetryCount + 1 - sale.attempt \in 0 .. RetryCount
        /\ (RetryCount + 1 - sale.attempt) * TrySteps \in Nat
        /\ StageSteps \in 1 .. TrySteps + 1
        /\ SaleAt("sell") => StageSteps = 1 + CallsLeft(order[sale.used]) /\ StageSteps < TrySteps
        /\ sale.pc \in {"held", "read"} => StageSteps = TrySteps
        /\ SaleAt("probe") => StageSteps = TrySteps + 1
        /\ StepsLeft = (RetryCount + 1 - sale.attempt) * TrySteps + StageSteps

LEMMA StepsOf == SaleInv /\ WorkInv => StageInv
<1> SUFFICES ASSUME SaleInv, WorkInv, sale.pc \notin Over
             PROVE  /\ RetryCount + 1 - sale.attempt \in 0 .. RetryCount
                    /\ (RetryCount + 1 - sale.attempt) * TrySteps \in Nat
                    /\ StageSteps \in 1 .. TrySteps + 1
                    /\ SaleAt("sell") => /\ StageSteps = 1 + CallsLeft(order[sale.used])
                                         /\ StageSteps < TrySteps
                    /\ sale.pc \in {"held", "read"} => StageSteps = TrySteps
                    /\ SaleAt("probe") => StageSteps = TrySteps + 1
                    /\ StepsLeft = (RetryCount + 1 - sale.attempt) * TrySteps + StageSteps
  BY DEF StageInv
<1>1. sale.attempt \in 1 .. RetryCount + 1 /\ RetryCount \in Nat
  BY SaleAssumption DEF WorkInv, BudgetInv
<1>2. RetryCount + 1 - sale.attempt \in 0 .. RetryCount
  BY <1>1
<1>3. (RetryCount + 1 - sale.attempt) * TrySteps \in Nat
  <2> DEFINE d == RetryCount + 1 - sale.attempt
  <2>1. d \in Nat
    BY <1>2, <1>1
  <2> HIDE DEF d
  <2>2. d * TrySteps \in Nat
    BY <2>1, TryStepsNat
  <2> QED BY <2>2 DEF d
<1>4. ASSUME SaleAt("sell")
      PROVE  CallsLeft(order[sale.used]) \in 0 .. MaxCalls
  <2>1. sale.used \in Order /\ order[sale.used].pc # "idle" /\ OrderInv
    BY <1>4 DEF SaleInv, HoldingInv, WorkInv, TurnInv
  <2>2. CallsLeft(order[sale.used]) \in Nat /\ CallsLeft(order[sale.used]) <= MaxCalls
    BY <2>1, CallsAreFew DEF CallsBounded
  <2> QED BY <2>2, TryStepsNat
<1>5. /\ StageSteps \in 1 .. TrySteps + 1
      /\ SaleAt("sell") => StageSteps = 1 + CallsLeft(order[sale.used]) /\ StageSteps < TrySteps
      /\ sale.pc \in {"held", "read"} => StageSteps = TrySteps
      /\ SaleAt("probe") => StageSteps = TrySteps + 1
  <2>1. CASE SaleAt("sell")
    <3>1. StageSteps = 1 + CallsLeft(order[sale.used]) /\ sale.pc = "sell"
      BY <2>1 DEF StageSteps, SaleAt
    <3> QED BY <1>4, <2>1, <3>1, TryStepsNat DEF SaleAt
  <2>2. CASE SaleAt("probe")
    BY <2>2, TryStepsNat DEF StageSteps, SaleAt
  <2>3. CASE ~SaleAt("sell") /\ ~SaleAt("probe")
    BY <2>3, TryStepsNat DEF StageSteps, SaleAt
  <2> QED BY <2>1, <2>2, <2>3
<1>6. StepsLeft = (RetryCount + 1 - sale.attempt) * TrySteps + StageSteps
  BY DEF StepsLeft
<1> QED BY <1>2, <1>3, <1>5, <1>6

LEMMA StepsAreFew ==
  ASSUME SaleInv, WorkInv
  PROVE  StepsBounded
<1>0. RetryCount \in Nat /\ TrySteps \in Nat
  BY SaleAssumption, TryStepsNat
<1>1. MaxSteps \in Nat /\ MaxSteps = RetryCount * TrySteps + TrySteps + 1
  BY <1>0, NextTry DEF MaxSteps
<1>2. CASE sale.pc \in Over
  BY <1>1, <1>2 DEF StepsBounded, StepsLeft
<1>3. CASE sale.pc \notin Over
  <2> DEFINE d == RetryCount + 1 - sale.attempt
             t == d * TrySteps
             m == RetryCount * TrySteps
  <2>1. d \in 0 .. RetryCount /\ t \in Nat /\ StageSteps \in 1 .. TrySteps + 1
        /\ StepsLeft = t + StageSteps
    BY <1>3, StepsOf DEF StageInv
  <2>2. d \in Nat /\ d <= RetryCount
    BY <1>0, <2>1
  <2> HIDE DEF d
  <2>3. t <= m /\ m \in Nat
    BY <1>0, <2>2, NextTry
  <2>4. MaxSteps = m + TrySteps + 1
    BY <1>1
  <2> HIDE DEF t, m
  <2> QED BY <1>0, <2>1, <2>3, <2>4 DEF StepsBounded
<1> QED BY <1>2, <1>3

\* where a step of the sale leads
LEMMA SaleMoves ==
  ASSUME SaleInv, WorkInv, SaleStep
  PROVE  /\ sale.pc \notin Over
         /\ \/ sale'.pc \in Over
            \/ SaleAt("probe") /\ sale'.pc = "held" /\ sale'.attempt = sale.attempt
            \/ /\ sale.pc \in {"sell", "read"}
               /\ sale'.pc = "read" /\ sale'.attempt = sale.attempt + 1
            \/ /\ sale.pc \in {"held", "read"}
               /\ sale'.pc = "sell" /\ sale'.attempt = sale.attempt
<1> USE DEF SaleAt, Over
<1>t. sale \in Sale /\ sale.attempt \in Nat
  BY DEF SaleInv, TypeOK, Sale
<1>1. CASE ProbeStep
  <2>1. ASSUME NEW initial, NEW fromEntryTx, ProbeEnds(initial, fromEntryTx)
        PROVE  sale.pc = "probe" /\ sale'.pc = "held" /\ sale'.attempt = sale.attempt
    BY <1>t, <2>1 DEF ProbeEnds, Sale
  <2>2. CASE ProbeBalance \/ ProbeEntryTx
    BY <2>1, <2>2 DEF ProbeBalance, ProbeEntryTx
  <2>3. CASE ProbeZero \/ ProbeThrows
    BY <1>t, <2>3 DEF ProbeZero, ProbeThrows, Sale
  <2> QED BY <1>1, <2>2, <2>3 DEF ProbeStep
<1>n. ASSUME sale' = NextAttempt, sale.pc \in {"sell", "read"}
      PROVE  \/ sale'.pc = "thrown"
             \/ sale'.pc = "read" /\ sale'.attempt = sale.attempt + 1
  <2> DEFINE k == sale.attempt + 1
  <2>1. sale' = IF sale.attempt < RetryCount + 1 THEN [sale EXCEPT !.pc = "read", !.attempt = k]
                ELSE [sale EXCEPT !.pc = "thrown"]
    BY <1>n DEF NextAttempt
  <2> HIDE DEF k
  <2>2. sale'.pc = "thrown" \/ (sale'.pc = "read" /\ sale'.attempt = k)
    BY <1>t, <2>1 DEF Sale
  <2> QED BY <2>2 DEF k
<1>2. CASE SellStep
  <2>1. ASSUME NEW requested \in 1 .. sale.initial, FirstTry(requested)
        PROVE  sale.pc = "held" /\ sale'.pc = "sell" /\ sale'.attempt = sale.attempt
    BY <1>t, <2>1 DEF FirstTry, Sale
  <2>2. CASE TrySucceeds
    BY <1>t, <2>2 DEF TrySucceeds, Sale
  <2>3. CASE TryThrows
    BY <1>n, <2>3 DEF TryThrows
  <2>4. CASE RetryFindsSold
    <3>1. CASE sale.allowBalanceRecovered
      BY <1>t, <2>4, <3>1 DEF RetryFindsSold, Sale
    <3>2. CASE ~sale.allowBalanceRecovered
      BY <1>n, <2>4, <3>2 DEF RetryFindsSold
    <3> QED BY <3>1, <3>2
  <2>5. CASE RetrySells
    BY <1>t, <2>5 DEF RetrySells, Sale
  <2>6. CASE RetryReadThrows
    BY <1>t, <2>6 DEF RetryReadThrows, Sale
  <2> QED BY <1>2, <2>1, <2>2, <2>3, <2>4, <2>5, <2>6 DEF SellStep
<1> QED BY <1>1, <1>2 DEF SaleStep

LEMMA SaleStepWinds ==
  ASSUME SaleInv, WorkInv, StageInv', sale'.attempt \in Nat, SaleStep
  PROVE  StepsLeft' < StepsLeft
<1>0. /\ RetryCount \in Nat /\ sale.attempt \in Nat /\ TrySteps \in Nat
  BY SaleAssumption, TryStepsNat DEF SaleInv, TypeOK, Sale
<1> DEFINE d == RetryCount + 1 - sale.attempt
           t == d * TrySteps
<1>1. sale.pc \notin Over
  BY SaleMoves
<1>2. /\ d \in Nat /\ t \in Nat /\ StageSteps \in Nat /\ StageSteps > 0 /\ StepsLeft = t + StageSteps
      /\ SaleAt("probe") => StageSteps = TrySteps + 1
      /\ sale.pc \in {"held", "read"} => StageSteps = TrySteps
  BY <1>0, <1>1, StepsOf DEF StageInv
<1>3. ASSUME sale'.pc \notin Over
      PROVE  /\ StageSteps' \in Nat
             /\ StepsLeft' = (RetryCount + 1 - sale'.attempt) * TrySteps + StageSteps'
             /\ sale'.pc = "sell" => StageSteps' < TrySteps
             /\ sale'.pc \in {"held", "read"} => StageSteps' = TrySteps
  <2>1. /\ StageSteps' \in 1 .. TrySteps + 1
        /\ StepsLeft' = (RetryCount + 1 - sale'.attempt) * TrySteps + StageSteps'
        /\ sale'.pc = "sell" => StageSteps' < TrySteps
        /\ sale'.pc \in {"held", "read"} => StageSteps' = TrySteps
    BY <1>3 DEF StageInv, SaleAt
  <2> QED BY <1>0, <2>1
<1>4. CASE sale'.pc \in Over
  <2>1. StepsLeft' = 0
    BY <1>4 DEF StepsLeft
  <2> HIDE DEF t
  <2> QED BY <1>2, <2>1
<1>5. CASE sale'.attempt = sale.attempt /\ sale'.pc \notin Over
  <2>1. \/ SaleAt("probe") /\ sale'.pc = "held"
        \/ sale.pc \in {"held", "read"} /\ sale'.pc = "sell"
    BY <1>0, <1>5, SaleMoves
  <2>2. StageSteps' < StageSteps
    BY <1>0, <1>2, <1>3, <1>5, <2>1
  <2>3. StepsLeft' = t + StageSteps'
    BY <1>3, <1>5
  <2> HIDE DEF t
  <2> QED BY <1>2, <1>3, <1>5, <2>2, <2>3
<1>6. CASE sale'.pc = "read" /\ sale'.attempt = sale.attempt + 1
  <2> DEFINE e == RetryCount + 1 - sale'.attempt
  <2>1. sale'.pc \notin Over /\ StepsLeft' = e * TrySteps + TrySteps
    BY <1>3, <1>6 DEF Over
  <2>2. d = e + 1
    BY <1>0, <1>6
  <2>3. e \in Nat
    BY <1>0, <2>1 DEF StageInv
  <2> HIDE DEF e
  <2>4. t = e * TrySteps + TrySteps
    BY <1>0, <2>2, <2>3, NextTry
  <2> HIDE DEF t
  <2> QED BY <1>2, <2>1, <2>4
<1> QED BY <1>4, <1>5, <1>6, SaleMoves DEF Over

LEMMA OrderStepWinds ==
  ASSUME SaleInv, WorkInv, StageInv', NEW o \in Order, OrderStep(o), UNCHANGED sale
  PROVE  /\ ExecutorStep(o) => StepsLeft' < StepsLeft
         /\ FillStep(o) \/ DropStep(o) => StepsLeft' <= StepsLeft
<1>0. OrderInv /\ TrySteps \in Nat /\ StageInv
  BY TryStepsNat, StepsOf DEF SaleInv
<1> DEFINE t == (RetryCount + 1 - sale.attempt) * TrySteps
<1>1. /\ ExecutorStep(o) => CallsLeft(order'[o]) < CallsLeft(order[o])
      /\ CallsLeft(order'[o]) <= CallsLeft(order[o])
      /\ \A p \in Order : p # o => order'[p] = order[p]
  BY <1>0, StepWindsDown, StepFrame
<1>2. ASSUME sale.pc \notin Over
      PROVE  /\ t \in Nat /\ StageSteps \in Nat /\ StageSteps' \in Nat
             /\ StepsLeft = t + StageSteps /\ StepsLeft' = t + StageSteps'
  BY <1>0, <1>2 DEF StageInv
<1> HIDE DEF t
<1>3. CASE sale.pc = "sell" /\ sale.used = o
  <2>1. StageSteps = 1 + CallsLeft(order[o]) /\ StageSteps' = 1 + CallsLeft(order'[o])
    BY <1>3 DEF StageSteps
  <2>2. CallsLeft(order[o]) \in Int /\ CallsLeft(order'[o]) \in Int
    <3>1. order[o] \in OrderState /\ order'[o] \in OrderState
      BY <1>0, StepInv DEF OrderInv, OrderTypeOK
    <3>2. \A r \in OrderState : PcRank(r.pc) \in Int /\ RetriesLeft(r) \in Int
      BY ExecutionAssumption DEF PcRank, RetriesLeft, OrderState
    <3> QED BY <3>1, <3>2 DEF CallsLeft
  <2>3. sale.pc \notin Over
    BY <1>3 DEF Over
  <2> QED BY <1>1, <1>2, <2>1, <2>2, <2>3
<1>4. CASE ~(sale.pc = "sell" /\ sale.used = o)
  <2>1. ~ExecutorStep(o)
    BY <1>0, <1>4, StepFrame DEF WorkInv, TurnInv, SaleAt, Done
  <2>2. sale.pc = "sell" => order'[sale.used] = order[sale.used]
    BY <1>1, <1>4 DEF SaleInv, HoldingInv, SaleAt
  <2>3. StageSteps' = StageSteps
    BY <2>2 DEF StageSteps
  <2>4. CASE sale.pc \in Over
    <3>1. StepsLeft' = 0 /\ StepsLeft = 0
      BY <2>4 DEF StepsLeft
    <3> QED BY <2>1, <3>1
  <2>5. CASE sale.pc \notin Over
    BY <1>2, <2>1, <2>3, <2>5
  <2> QED BY <2>4, <2>5
<1> QED BY <1>3, <1>4

\* For any limits of the executor's retries, any number of tries, and with or without Ultra
\* and Jito: a sale takes at most MaxSteps steps (liveSellRetry.ts, executor.ts).
THEOREM StepsAreBounded == Spec => []StepsBounded
  BY WorkInvariant, StepsAreFew, PTL

\* Each settled call and each step of the retry loop brings the end of the sale nearer, and
\* neither the chain nor the age of the position takes that back: with NoTryBarred and
\* the settling of every awaited call, every sale ends.
THEOREM SalesWindDown == Spec => SaleWindsDown
<1> DEFINE Winds ==
      /\ SaleStep => StepsLeft' < StepsLeft
      /\ \A o \in Order : OrderAdvances(o) => StepsLeft' < StepsLeft
      /\ ~StartSale => StepsLeft' <= StepsLeft
<1>1. ASSUME SaleInv, WorkInv, StageInv', TypeOK', StepsBounded, StepsBounded', Next
      PROVE  Winds
  <2>0. StepsLeft \in Int /\ StepsLeft' \in Int
    <3>1. RetryCount \in Nat /\ TrySteps \in Nat
      BY SaleAssumption, TryStepsNat
    <3>2. MaxSteps \in Nat
      BY <3>1, NextTry DEF MaxSteps
    <3> QED BY <1>1, <3>2 DEF StepsBounded
  <2>1. SaleStep => StepsLeft' < StepsLeft
    BY <1>1, SaleStepWinds DEF TypeOK, Sale
  <2>2. ASSUME NEW o \in Order, OrderAdvances(o) \/ OrderFilled(o) \/ OrderDrops(o)
        PROVE  /\ OrderAdvances(o) => StepsLeft' < StepsLeft
               /\ StepsLeft' <= StepsLeft
    <3>1. OrderStep(o) /\ UNCHANGED sale
      BY <2>2 DEF OrderAdvances, OrderFilled, OrderDrops, OrderStep, saleVars
    <3>2. /\ ExecutorStep(o) => StepsLeft' < StepsLeft
          /\ FillStep(o) \/ DropStep(o) => StepsLeft' <= StepsLeft
      BY <1>1, <3>1, OrderStepWinds
    <3>3. StepsLeft' < StepsLeft => StepsLeft' <= StepsLeft
      BY <2>0
    <3> QED BY <2>2, <3>2, <3>3 DEF OrderAdvances, OrderFilled, OrderDrops
  <2>3. ASSUME Ages
        PROVE  StepsLeft' = StepsLeft
    BY <2>3 DEF Ages, StepsLeft, StageSteps
  <2>4. ~StartSale => StepsLeft' <= StepsLeft
    BY <1>1, <2>0, <2>1, <2>2, <2>3 DEF Next
  <2> QED BY <2>1, <2>2, <2>4
<1>2. SaleInv /\ WorkInv /\ StageInv' /\ TypeOK' /\ StepsBounded /\ StepsBounded' /\ [Next]_vars
        => [Winds]_vars
  BY <1>1
<1>3. SaleInv => TypeOK
  BY DEF SaleInv
<1> HIDE DEF Winds
<1>4. Spec => [][Winds]_vars
  BY <1>2, <1>3, StepsOf, WorkInvariant, StepsAreBounded, PTL DEF Spec
<1> QED BY <1>4 DEF SaleWindsDown, Winds
=============================================================================
