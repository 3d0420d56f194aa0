------------------------------ MODULE KolFeed ------------------------------
(***************************************************************************)
(* The price feed of the KOL hunter lane (orchestration/kolSignalHandler.ts*)
(* and kol/paperPriceFeed.ts).  The stops of a position are evaluated by   *)
(* the price ticks of its mint and by nothing else.  A mint has one        *)
(* subscription and one listener, which its observation, its entries and   *)
(* its paper and live arms share without a count: whoever ends looks       *)
(* whether an arm or an observation is left and unsubscribes.              *)
(*                                                                         *)
(* A mint has some paper arms or none.  A live entry is the whole          *)
(* enterLivePosition, from its subscription to the position it opens.      *)
(***************************************************************************)
EXTENDS Naturals

CONSTANT Mint

VARIABLES
    pending,      \* map: mints under observation
    subscribed,   \* PaperPriceFeed.subscriptions: mints that are polled
    listening,    \* priceListeners: mints whose ticks the lane handles
    inflight,     \* inflightLiveEntry, by mint: "live", or "paper" once it fell back
    papering,     \* mints that enterPaperPosition is about to open, or to reject
    arms          \* activeByMint: paper and live arms of the mint

vars == <<pending, subscribed, listening, inflight, papering, arms>>

TypeOK ==
    /\ pending \subseteq Mint /\ subscribed \subseteq Mint /\ listening \subseteq Mint
    /\ papering \subseteq Mint
    /\ inflight \in [Mint -> {"no", "live", "paper"}]
    /\ arms \in [Mint -> SUBSET {"paper", "live"}]

Init ==
    /\ pending = {} /\ subscribed = {} /\ listening = {}
    /\ papering = {}
    /\ inflight = [m \in Mint |-> "no"]
    /\ arms = [m \in Mint |-> {}]

\* unsubscribePriceIfIdle, once the maps hold observed and open; the entries in
\* flight are in none of them
UnsubscribeIfIdle(m, observed, open) ==
    LET idle == m \notin observed /\ open[m] = {} IN
    /\ subscribed' = IF idle THEN subscribed \ {m} ELSE subscribed
    /\ listening' = IF idle THEN listening \ {m} ELSE listening

-----------------------------------------------------------------------------
(* Observation *)

\* a KOL buys a mint that is neither observed nor held
Observe(m) ==
    /\ m \notin pending /\ arms[m] = {}
    /\ pending' = pending \cup {m}
    /\ UNCHANGED <<subscribed, listening, inflight, papering, arms>>

\* the survival check has passed
ObserveSubscribes(m) ==
    /\ m \in pending
    /\ subscribed' = subscribed \cup {m}
    /\ UNCHANGED <<pending, listening, inflight, papering, arms>>

\* the first tick has come
ObserveListens(m) ==
    /\ m \in pending /\ m \in subscribed
    /\ listening' = listening \cup {m}
    /\ UNCHANGED <<pending, subscribed, inflight, papering, arms>>

\* rejected by the survival check, timed out, not triggered, or cancelled by a sell
PendingEnds(m) ==
    /\ m \in pending
    /\ pending' = pending \ {m}
    /\ UnsubscribeIfIdle(m, pending', arms)
    /\ UNCHANGED <<inflight, papering, arms>>

\* a smart-v3 trigger ends the observation, other triggers keep it
Triggered(m) == m \in pending /\ m \in listening /\ pending' \in {pending, pending \ {m}}

-----------------------------------------------------------------------------
(* Entries and arms *)

LiveEntry(m) ==
    /\ Triggered(m)
    /\ "live" \notin arms[m] /\ inflight[m] = "no"
    /\ inflight' = [inflight EXCEPT ![m] = "live"]
    /\ subscribed' = subscribed \cup {m}
    /\ UNCHANGED <<listening, papering, arms>>

PaperEntry(m) ==
    /\ Triggered(m)
    /\ papering' = papering \cup {m}
    /\ subscribed' = subscribed \cup {m}
    /\ UNCHANGED <<listening, inflight, arms>>

\* no price, no slot, a refused quote or a buy that throws
LiveRejected(m) ==
    /\ inflight[m] = "live"
    /\ inflight' = [inflight EXCEPT ![m] = "no"]
    /\ UnsubscribeIfIdle(m, pending, arms)
    /\ UNCHANGED <<pending, papering, arms>>

\* a guard turns the live entry into a paper entry
LiveFallsBack(m) ==
    /\ inflight[m] = "live"
    /\ inflight' = [inflight EXCEPT ![m] = "paper"]
    /\ subscribed' = subscribed \cup {m}
    /\ UNCHANGED <<pending, listening, papering, arms>>

\* the paper entry of the mint returns: one of its own, or one that a live entry
\* fell back to and that keeps it in flight
PaperReturns(m) ==
    \/ m \in papering /\ papering' = papering \ {m} /\ UNCHANGED inflight
    \/ /\ inflight[m] = "paper"
       /\ inflight' = [inflight EXCEPT ![m] = "no"]
       /\ UNCHANGED papering

PaperRejected(m) ==
    /\ PaperReturns(m)
    /\ UnsubscribeIfIdle(m, pending, arms)
    /\ UNCHANGED <<pending, arms>>

PaperOpens(m) ==
    /\ PaperReturns(m)
    /\ arms' = [arms EXCEPT ![m] = @ \cup {"paper"}]
    /\ listening' = listening \cup {m}
    /\ UNCHANGED <<pending, subscribed>>

\* bought and persisted: setActivePosition and ensurePriceListener
LiveOpens(m) ==
    /\ inflight[m] = "live"
    /\ inflight' = [inflight EXCEPT ![m] = "no"]
    /\ arms' = [arms EXCEPT ![m] = @ \cup {"live"}]
    /\ listening' = listening \cup {m}
    /\ UNCHANGED <<pending, subscribed, papering>>

\* the last arm of a kind closes
ArmCloses(m, arm) ==
    /\ arm \in arms[m]
    /\ arms' = [arms EXCEPT ![m] = @ \ {arm}]
    /\ UnsubscribeIfIdle(m, pending, arms')
    /\ UNCHANGED <<pending, inflight, papering>>

Next ==
    \E m \in Mint :
        \/ Observe(m) \/ ObserveSubscribes(m) \/ ObserveListens(m) \/ PendingEnds(m)
        \/ LiveEntry(m) \/ PaperEntry(m) \/ LiveRejected(m) \/ LiveFallsBack(m)
        \/ PaperRejected(m) \/ PaperOpens(m) \/ LiveOpens(m)
        \/ \E arm \in arms[m] : ArmCloses(m, arm)

Spec == Init /\ [][Next]_vars

-----------------------------------------------------------------------------
(* Properties *)

\* A mint with an open live position is polled and its ticks are handled: the feed
\* is given up after the last arm only (kolSignalHandler.ts:9893).
LivePositionWatched ==
    \A m \in Mint : "live" \in arms[m] => m \in subscribed /\ m \in listening

=============================================================================
