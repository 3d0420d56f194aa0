---------------------------- MODULE SwapExecution ----------------------------
(***************************************************************************)
(* The executor (executor/executor.ts, executor/jitoClient.ts): an order   *)
(* goes to Ultra once, then to v6 in a loop of attempts; a v6 attempt      *)
(* sends its transaction as a Jito bundle and, when that fails, by RPC.    *)
(*                                                                         *)
(* An action is what one awaited call settles to.  Every call may throw,   *)
(* whatever became of the transaction on chain: a time-out says nothing of *)
(* it.  A transaction is the one signed in an attempt; the chain executes  *)
(* a signature once, by whichever route it arrives.  Delays are left out.  *)
(***************************************************************************)
EXTENDS Integers

CONSTANTS
    Order,          \* calls of executeBuy and executeSell
    UseUltra,       \* config.useJupiterUltra with an API key
    UseJito,        \* config.useJitoBundles
    MaxRetries,     \* config.maxRetries
    Max429Retries   \* JUPITER_429_MAX_RETRIES

ASSUME ExecutionAssumption ==
    /\ UseUltra \in BOOLEAN /\ UseJito \in BOOLEAN
    /\ MaxRetries \in Nat \ {0} /\ Max429Retries \in Nat

VARIABLE order

-----------------------------------------------------------------------------
(* Values *)

UltraPc == {"ultraOrder", "ultraExecute", "ultraConfirm", "ultraMeasure"}
AttemptPc == {"quote", "rpcSend", "rpcConfirm", "measure"}   \* where the v6 catch is reached from
OrderPc == {"idle", "bundle", "swapped", "failed"} \cup UltraPc \cup AttemptPc

\* tx: the transaction of the attempt under way; adrift: transactions that were
\* given up and may still land; bundled: tx was given to Jito; tipPaid: tx landed
\* as a bundle, with its tip; viaJito: what sendTransaction returned
OrderState ==
    [pc : OrderPc, attempt : Nat, retry429Count : Nat,
     tx : {"none", "pending", "landed", "reverted"}, adrift : Nat, fills : Nat,
     bundled : BOOLEAN, tipPaid : BOOLEAN, viaJito : BOOLEAN]

NoOrder == [pc |-> "idle", attempt |-> 1, retry429Count |-> 0, tx |-> "none",
            adrift |-> 0, fills |-> 0, bundled |-> FALSE, tipPaid |-> FALSE,
            viaJito |-> FALSE]

OrderTypeOK == order \in [Order -> OrderState]

OrderInit == order = [o \in Order |-> NoOrder]

At(o, pc) == order[o].pc = pc
Goto(o, pc) == order' = [order EXCEPT ![o].pc = pc]

\* the transaction of an attempt, signed and handed over
Signed(r) == [r EXCEPT !.tx = "pending", !.tipPaid = FALSE]

\* an attempt is given up; nobody withdraws its transaction
Abandoned(r) ==
    [r EXCEPT !.tx = "none", !.bundled = FALSE, !.tipPaid = FALSE, !.viaJito = FALSE,
              !.adrift = IF r.tx = "pending" THEN @ + 1 ELSE @]

-----------------------------------------------------------------------------
(* executeSwapWithRetry and executeSwapUltra *)

PlaceOrder(o) ==
    /\ At(o, "idle")
    /\ Goto(o, IF UseUltra THEN "ultraOrder" ELSE "quote")

UltraSigned(o) ==
    /\ At(o, "ultraOrder")
    /\ order' = [order EXCEPT ![o] = [Signed(@) EXCEPT !.pc = "ultraExecute"]]

UltraExecuted(o) == At(o, "ultraExecute") /\ Goto(o, "ultraConfirm")

\* confirmTransaction resolves without an error in its value
Confirmed_ErrIgnored(o) == order[o].tx \in {"landed", "reverted"}
Confirmed(o) == order[o].tx = "landed"

UltraConfirmed(o) ==
    /\ At(o, "ultraConfirm") /\ Confirmed(o)
    /\ Goto(o, "ultraMeasure")

UltraMeasured(o) == At(o, "ultraMeasure") /\ Goto(o, "swapped")

UltraThrows(o) ==
    /\ order[o].pc \in UltraPc
    /\ order' = [order EXCEPT ![o] = [Abandoned(@) EXCEPT !.pc = "quote"]]

-----------------------------------------------------------------------------
(* executeSwapV6 and sendTransaction *)

\* quote, balances, swap transaction: signed, and submitted by the first route
Quoted(o) ==
    /\ At(o, "quote")
    /\ order' = [order EXCEPT ![o] =
                   [Signed(@) EXCEPT !.pc = IF UseJito THEN "bundle" ELSE "rpcSend",
                                     !.bundled = UseJito]]

BundleConfirmed(o) ==
    /\ At(o, "bundle") /\ order[o].tx = "landed"
    /\ order' = [order EXCEPT ![o].pc = "measure", ![o].viaJito = TRUE]

\* what goes by RPC after a failed bundle: the same message, signed again
FallbackTx_Requoted(r) == [Signed(Abandoned(r)) EXCEPT !.pc = "rpcSend"]
FallbackTx(r) == [r EXCEPT !.pc = "rpcSend"]

BundleThrows(o) ==
    /\ At(o, "bundle")
    /\ order' = [order EXCEPT ![o] = FallbackTx(@)]

RpcSent(o) == At(o, "rpcSend") /\ Goto(o, "rpcConfirm")

ViaJito_Configured(r) == UseJito
ViaJito(r) == FALSE

RpcConfirmed(o) ==
    /\ At(o, "rpcConfirm") /\ Confirmed(o)
    /\ order' = [order EXCEPT ![o].pc = "measure", ![o].viaJito = ViaJito(order[o])]

Measured(o) == At(o, "measure") /\ Goto(o, "swapped")

\* the catch of an attempt: a rate limit is retried on a counter of its own
AfterThrow_429Free(r, rateLimited) ==
    IF rateLimited THEN [r EXCEPT !.pc = "quote"]
    ELSE IF r.attempt < MaxRetries THEN [r EXCEPT !.pc = "quote", !.attempt = @ + 1]
    ELSE [r EXCEPT !.pc = "failed"]
AfterThrow(r, rateLimited) ==
    IF rateLimited /\ r.retry429Count < Max429Retries
    THEN [r EXCEPT !.pc = "quote", !.retry429Count = @ + 1]
    ELSE IF r.attempt < MaxRetries THEN [r EXCEPT !.pc = "quote", !.attempt = @ + 1]
    ELSE [r EXCEPT !.pc = "failed"]

AttemptThrows(o, rateLimited) ==
    /\ order[o].pc \in AttemptPc
    /\ order' = [order EXCEPT ![o] = AfterThrow(Abandoned(@), rateLimited)]

-----------------------------------------------------------------------------
(* The chain *)

TxLands(o, asBundle) ==
    /\ order[o].tx = "pending"
    /\ IF asBundle THEN order[o].bundled ELSE ~At(o, "bundle")
    /\ order' = [order EXCEPT ![o].tx = "landed", ![o].fills = @ + 1,
                              ![o].tipPaid = asBundle]

TxReverts(o) ==
    /\ order[o].tx = "pending"
    /\ order' = [order EXCEPT ![o].tx = "reverted"]

AdriftLands(o) ==
    /\ order[o].adrift > 0
    /\ order' = [order EXCEPT ![o].adrift = @ - 1, ![o].fills = @ + 1]

\* its blockhash expires
AdriftExpires(o) ==
    /\ order[o].adrift > 0
    /\ order' = [order EXCEPT ![o].adrift = @ - 1]

-----------------------------------------------------------------------------
(* Specification *)

\* what the call that order o awaits settles to
ExecutorStep(o) ==
    \/ UltraSigned(o)
    \/ UltraExecuted(o)
    \/ UltraConfirmed(o)
    \/ UltraMeasured(o)
    \/ UltraThrows(o)
    \/ Quoted(o)
    \/ BundleConfirmed(o)
    \/ BundleThrows(o)
    \/ RpcSent(o)
    \/ RpcConfirmed(o)
    \/ Measured(o)
    \/ \E rateLimited \in BOOLEAN : AttemptThrows(o, rateLimited)

FillStep(o) == AdriftLands(o) \/ \E asBundle \in BOOLEAN : TxLands(o, asBundle)

DropStep(o) == TxReverts(o) \/ AdriftExpires(o)

OrderStep(o) == PlaceOrder(o) \/ ExecutorStep(o) \/ FillStep(o) \/ DropStep(o)

OrderSpec == OrderInit /\ [][\E o \in Order : OrderStep(o)]_order

-----------------------------------------------------------------------------
(* Properties *)

MaxOrderFills == (IF UseUltra THEN 1 ELSE 0) + MaxRetries + Max429Retries

StatusOf(r) == IF r.pc \in {"idle", "swapped", "failed"} THEN r.pc ELSE "working"

Promise == INSTANCE SwapOrder WITH
    MaxFills <- MaxOrderFills,
    status <- [o \in Order |-> StatusOf(order[o])],
    fills <- [o \in Order |-> order[o].fills]

\* Every order keeps the promise: it is reported as swapped only after a fill, and
\* neither the fall-back from Ultra to v6, nor that from Jito to RPC, nor the two
\* kinds of retries fill it more often than there are attempts.
OrdersKeepPromise == Promise!Spec

\* A Jito tip is deducted from the price of an entry only if the bundle with that
\* tip landed: not after a fall-back to RPC that found the transaction on chain.
TipDeductedWasPaid ==
    \A o \in Order : order[o].viaJito => order[o].tipPaid
=============================================================================
