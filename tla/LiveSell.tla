------------------------------ MODULE LiveSell ------------------------------
(***************************************************************************)
(* How a lane sells the tokens of a live position                          *)
(* (executor/liveSellRetry.ts): it finds out what it holds, sells it all   *)
(* or a part, and tries again at once when the executor throws, for what   *)
(* the wallet still has too much of.  Each try is an order of              *)
(* SwapExecution, whose transactions may land later than the try's end.    *)
(*                                                                         *)
(* Shortly after the buy an RPC node may not show its tokens yet.  What    *)
(* the entry transaction left in the wallet is used instead, for a young   *)
(* position only: tokens show before a position stops being young.         *)
(***************************************************************************)
EXTENDS SwapExecution, FiniteSets

CONSTANTS
    Bought,         \* tokens that the buy left in the wallet
    RetryCount,     \* LIVE_SELL_IMMEDIATE_RETRY_COUNT
    MaxSales        \* bound: sales of the position, one after the other

ASSUME SaleAssumption ==
    /\ Order = 1 .. MaxSales * (RetryCount + 1)
    /\ Bought \in Nat \ {0} /\ RetryCount \in Nat /\ MaxSales \in Nat \ {0}

VARIABLES
    wallet,      \* tokens held on chain
    age,         \* of the position, as the entry transaction fallback sees it
    asked,       \* the amount of each order
    sale         \* the sale under way

saleVars == <<wallet, age, asked, sale>>
vars == <<order, wallet, age, asked, sale>>

-----------------------------------------------------------------------------
(* Values *)

Age == {"unseen", "young", "old"}   \* unseen: the RPC node shows no tokens yet
Amount == 0 .. Bought
SalePc == {"none", "probe", "held", "read", "sell", "returned", "thrown", "zero"}

\* ordered: the order of the current try; used: orders placed so far
Sale ==
    [pc : SalePc, attempt : Nat, initial : Amount, remaining : Amount,
     allowBalanceRecovered : BOOLEAN, recovered : BOOLEAN, soldRaw : Amount,
     pre : Amount, used : Nat, sales : Nat]

NoSale == [pc |-> "none", attempt |-> 1, initial |-> 0, remaining |-> 0,
           allowBalanceRecovered |-> TRUE, recovered |-> FALSE, soldRaw |-> 0,
           pre |-> 0, used |-> 0, sales |-> 0]

TypeOK ==
    /\ OrderTypeOK
    /\ wallet \in Amount
    /\ age \in Age
    /\ asked \in [Order -> Amount]
    /\ sale \in Sale

Init ==
    /\ OrderInit
    /\ wallet = Bought
    /\ age \in Age
    /\ asked = [o \in Order |-> 0]
    /\ sale = NoSale

SaleAt(pc) == sale.pc = pc
Minus(a, b) == IF a > b THEN a - b ELSE 0

\* getTokenBalance
Balance == IF age = "unseen" THEN 0 ELSE wallet

\* executeSell of the amount, as the next order
Ordered(amount) ==
    LET o == sale.used + 1 IN
    /\ o \in Order
    /\ PlaceOrder(o)
    /\ asked' = [asked EXCEPT ![o] = amount]

-----------------------------------------------------------------------------
(* resolveLiveSellInitialTokenBalance *)

\* a stop of the position fires, for the first time or after a sale that threw or
\* that left tokens
StartSale ==
    /\ sale.pc \in {"none", "returned", "thrown"}
    /\ sale.sales < MaxSales
    /\ sale' = [NoSale EXCEPT !.pc = "probe", !.used = sale.used, !.sales = sale.sales + 1]
    /\ UNCHANGED <<order, wallet, age, asked>>

MayRecover_Always(fromEntryTx) == TRUE
MayRecover(fromEntryTx) == ~fromEntryTx

ProbeEnds(initial, fromEntryTx) ==
    /\ SaleAt("probe")
    /\ sale' = [sale EXCEPT !.pc = "held", !.initial = initial,
                            !.allowBalanceRecovered = MayRecover(fromEntryTx)]
    /\ UNCHANGED <<order, wallet, age, asked>>

ProbeBalance == Balance > 0 /\ ProbeEnds(Balance, FALSE)

ProbeEntryTx == Balance = 0 /\ age # "old" /\ ProbeEnds(Bought, TRUE)

\* every attempt found nothing
ProbeZero ==
    /\ SaleAt("probe") /\ Balance = 0
    /\ sale' = [sale EXCEPT !.pc = "zero"]
    /\ UNCHANGED <<order, wallet, age, asked>>

ProbeThrows ==
    /\ SaleAt("probe")
    /\ sale' = [sale EXCEPT !.pc = "thrown"]
    /\ UNCHANGED <<order, wallet, age, asked>>

-----------------------------------------------------------------------------
(* executeLiveSellWithImmediateRetries *)

FirstTry(requested) ==
    /\ SaleAt("held")
    /\ Ordered(requested)
    /\ sale' = [sale EXCEPT !.pc = "sell", !.remaining = Minus(sale.initial, requested),
                            !.pre = sale.initial, !.used = @ + 1]
    /\ UNCHANGED <<wallet, age>>

SoldRaw(after) == Minus(sale.initial, after)

TrySucceeds ==
    /\ SaleAt("sell") /\ At(sale.used, "swapped")
    /\ sale' = [sale EXCEPT !.pc = "returned",
                            !.soldRaw = SoldRaw(Minus(sale.pre, asked[sale.used]))]
    /\ UNCHANGED <<order, wallet, age, asked>>

\* the next attempt, or the last error is thrown
NextAttempt ==
    IF sale.attempt < RetryCount + 1
    THEN [sale EXCEPT !.pc = "read", !.attempt = @ + 1]
    ELSE [sale EXCEPT !.pc = "thrown"]

TryThrows ==
    /\ SaleAt("sell") /\ At(sale.used, "failed")
    /\ sale' = NextAttempt
    /\ UNCHANGED <<order, wallet, age, asked>>

\* the balance read before a retry shows that nothing is left to sell
RetryFindsSold ==
    /\ SaleAt("read") /\ Balance <= sale.remaining
    /\ sale' = IF sale.allowBalanceRecovered
               THEN [sale EXCEPT !.pc = "returned", !.recovered = TRUE,
                                 !.soldRaw = SoldRaw(Balance)]
               ELSE NextAttempt
    /\ UNCHANGED <<order, wallet, age, asked>>

RetryAmount_Swapped == sale.remaining - Balance
RetryAmount == Balance - sale.remaining

RetrySells ==
    /\ SaleAt("read") /\ Balance > sale.remaining
    /\ Ordered(RetryAmount)
    /\ sale' = [sale EXCEPT !.pc = "sell", !.pre = Balance, !.used = @ + 1]
    /\ UNCHANGED <<wallet, age>>

RetryReadThrows ==
    /\ SaleAt("read")
    /\ sale' = [sale EXCEPT !.pc = "thrown"]
    /\ UNCHANGED <<order, wallet, age, asked>>

-----------------------------------------------------------------------------
(* The executor and the chain *)

OrderAdvances(o) == ExecutorStep(o) /\ UNCHANGED saleVars

OrderDrops(o) == DropStep(o) /\ UNCHANGED saleVars

\* a transaction that sells more than there is does not land
OrderFilled(o) ==
    /\ FillStep(o)
    /\ wallet >= asked[o]
    /\ wallet' = wallet - asked[o]
    /\ UNCHANGED <<age, asked, sale>>

Ages ==
    /\ age # "old"
    /\ age' = IF age = "unseen" THEN "young" ELSE "old"
    /\ UNCHANGED <<order, wallet, asked, sale>>

-----------------------------------------------------------------------------
(* Specification *)

ProbeStep == ProbeBalance \/ ProbeEntryTx \/ ProbeZero \/ ProbeThrows

\* the caller asks for everything, or for a part
SellStep ==
    \/ \E requested \in 1 .. sale.initial : FirstTry(requested)
    \/ TrySucceeds
    \/ TryThrows
    \/ RetryFindsSold
    \/ RetrySells
    \/ RetryReadThrows

SaleStep == ProbeStep \/ SellStep

Next ==
    \/ StartSale
    \/ SaleStep
    \/ \E o \in Order : OrderAdvances(o) \/ OrderFilled(o) \/ OrderDrops(o)
    \/ Ages

Spec == Init /\ [][Next]_vars

\* every awaited call of the sale and of its orders settles
FairSpec ==
    /\ Spec
    /\ WF_vars(SaleStep)
    /\ \A o \in Order : WF_vars(OrderAdvances(o))

-----------------------------------------------------------------------------
(* Properties *)

\* What a sale reports as sold has left the wallet: also when the report is inferred
\* from a balance that an RPC node shows too low, or when a try that threw landed.
SoldIsNotOverstated ==
    SaleAt("returned") => wallet <= sale.initial - sale.soldRaw

\* A sale of a part leaves the rest in the wallet, however often its tries threw.
SellsOnlyRequested == sale.pc \in {"sell", "returned"} => wallet >= sale.remaining

\* Every sale returns or throws: the tries end, although a rate limit does not use
\* up an attempt and each try may place orders of its own.
SaleEnds == SaleAt("probe") ~> sale.pc \in {"returned", "thrown", "zero"}
=============================================================================
