--------------------------- MODULE HP2Settlement ---------------------------
(***************************************************************************)
(* The app's HP2 payment path (app/src: payments/hp2/create, the sandbox   *)
(* gateway, webhooks/hp2, lib/server/hp2/store.ts, lib/server/onchain.ts): *)
(* a borrower creates a payment link, a customer pays it, the gateway      *)
(* calls the webhook until it gets a 2xx, and the webhook settles the      *)
(* borrower's debt on chain.                                               *)
(*                                                                         *)
(* Each webhook call that gets as far as settling runs as a handler whose  *)
(* awaits interleave with the others; everything before its first await is *)
(* one step. The app's maps live in memory: entries age, are dropped past  *)
(* their TTL, and all go with the process. An event is one payment of a    *)
(* cart, with its own request_id. answer records what happened, for the   *)
(* properties.                                                             *)
(***************************************************************************)
EXTENDS SettlementChain, FiniteSets

CONSTANTS
  Cart,           \* cart mandates
  BorrowerOf, AmountOf,   \* whose a cart is, and for how much, in HKDm units
  Event,          \* payments, each with a request_id of its own
  CartOf,         \* the cart an event pays
  MaxDeliveries,  \* the first webhook call and the gateway's retries
  MaxRestarts,    \* bound: how often the app process restarts
  NoEvent,
  Config,         \* the configurations the process may run with
  STORE_TTL,      \* TTL_MS of store.ts
  DEDUP_TTL       \* DEDUP_TTL_MS of the webhook

Handler == Waiter

(* The HP2 client wants every HP2 variable; the webhook's secret may be    *)
(* set on its own (config.ts); the relayer's key is settled apart.         *)
WithClient == {"full", "no_key"}
WithSecret == WithClient \union {"no_client"}

ASSUME HP2Assumption ==
  /\ {MaxDeliveries, MaxRestarts, STORE_TTL, DEDUP_TTL} \subseteq Nat
  /\ STORE_TTL <= DEDUP_TTL   \* 4 and 48 hours
  /\ BorrowerOf \in [Cart -> Debtor] /\ AmountOf \in [Cart -> Nat]
  /\ Config \subseteq WithSecret \union {"no_secret"}
  /\ CartOf \in [Event -> Cart]
  /\ Payment = Event /\ NoEvent \notin Event

VARIABLES
  config,        \* what the process is configured with
  remembered,    \* the carts rememberCartMandate was called for
  autoRepay,     \* autoRepay[c]: the flag c was created with
  storeAge,      \* storeAge[c]: age of c in the store, past STORE_TTL if it is not there
  seenAge,       \* seenAge[e]: age of e in seenRequestIds, past DEDUP_TTL if not there
  hpc, hevent, hamount, \* each handler's place, its event and applyAmount
  cartStatus,    \* cartStatus[c]: the gateway's record
  sent,          \* sent[e]: the status payment e ended with, "none" before
  delivered,     \* delivered[e]: webhook calls made for e
  acked,         \* the events whose call the gateway saw answered 2xx
  restarts,
  answer         \* answer[e]: the last answer about e that went out, "none" before

appVars == <<config, remembered, autoRepay, storeAge, seenAge>>
handlerVars == <<hpc, hevent, hamount>>
gatewayVars == <<cartStatus, sent, delivered>>
hp2Vars == <<appVars, handlerVars, gatewayVars, acked, restarts, answer, chainVars>>

TwoHundred == {"hp2_not_configured", "deduped", "unknown_cart_mandate", "failed",
               "auto_repay_disabled", "settlement_not_configured", "no_outstanding_debt", "routed"}
Answer == TwoHundred \union {"refused", "settlement_failed"}

NotStored == STORE_TTL + 1
NotSeen == DEDUP_TTL + 1

HP2TypeOK ==
  /\ ChainTypeOK
  /\ config \in Config
  /\ remembered \subseteq Cart
  /\ autoRepay \in [Cart -> BOOLEAN]
  /\ storeAge \in [Cart -> 0 .. NotStored]
  /\ seenAge \in [Event -> 0 .. NotSeen]
  /\ hpc \in [Handler -> {"idle", "read", "send", "wait"}]
  /\ hevent \in [Handler -> Event \union {NoEvent}]
  /\ hamount \in [Handler -> Nat]
  /\ cartStatus \in [Cart -> {"none", "gone", "payment-required", "payment-successful", "payment-failed"}]
  /\ sent \in [Event -> {"none", "payment-successful", "payment-failed"}]
  /\ delivered \in [Event -> 0 .. MaxDeliveries]
  /\ acked \subseteq Event
  /\ restarts \in 0 .. MaxRestarts
  /\ answer \in [Event -> Answer \union {"none"}]

HP2Init ==
  /\ ChainInit
  /\ config \in Config
  /\ remembered = {}
  /\ autoRepay = [c \in Cart |-> FALSE]
  /\ storeAge = [c \in Cart |-> NotStored]
  /\ seenAge = [e \in Event |-> NotSeen]
  /\ hpc = [h \in Handler |-> "idle"]
  /\ hevent = [h \in Handler |-> NoEvent]
  /\ hamount = [h \in Handler |-> 0]
  /\ cartStatus = [c \in Cart |-> "none"]
  /\ sent = [e \in Event |-> "none"]
  /\ delivered = [e \in Event |-> 0]
  /\ acked = {}
  /\ restarts = 0
  /\ answer = [e \in Event |-> "none"]

---------------------------------------------------------------------------
(* POST /api/payments/hp2/create: the gateway stores the cart; the app     *)
(* remembers it once the gateway has answered.                             *)
StoreCart(c) ==
  /\ config \in WithClient
  /\ cartStatus[c] = "none"
  /\ cartStatus' = [cartStatus EXCEPT ![c] = "payment-required"]
  /\ UNCHANGED <<appVars, handlerVars, sent, delivered, acked, restarts, answer, chainVars>>

RememberCart(c, auto) ==
  /\ cartStatus[c] # "none" /\ c \notin remembered
  /\ remembered' = remembered \union {c}
  /\ autoRepay' = [autoRepay EXCEPT ![c] = auto]
  /\ storeAge' = [storeAge EXCEPT ![c] = 0]
  /\ UNCHANGED <<config, seenAge, handlerVars, gatewayVars, acked, restarts, answer, chainVars>>

(* simulate-pay: the gateway settles a payment one way or the other and    *)
(* has an event to deliver. Nothing looks at the status the cart has.      *)
Pay(c, status) ==
  /\ config \in WithSecret
  /\ cartStatus[c] \notin {"none", "gone"}
  /\ \E e \in Event :
       /\ CartOf[e] = c /\ sent[e] = "none"
       /\ sent' = [sent EXCEPT ![e] = status]
  /\ cartStatus' = [cartStatus EXCEPT ![c] = status]
  /\ UNCHANGED <<appVars, handlerVars, delivered, acked, restarts, answer, chainVars>>

---------------------------------------------------------------------------
(* POST /api/webhooks/hp2, up to the first await. *)

Call(e) ==
  /\ sent[e] # "none" /\ e \notin acked /\ delivered[e] < MaxDeliveries
  /\ delivered' = [delivered EXCEPT ![e] = @ + 1]

(* The answer leaves; the gateway stops calling if it gets a 2xx. *)
Reply(e, a) ==
  /\ answer' = [answer EXCEPT ![e] = a]
  /\ acked' \in IF a \in TwoHundred THEN {acked, acked \union {e}} ELSE {acked}

IsSeen(e) == seenAge[e] <= DEDUP_TTL
(* Faulty variant: the event is looked up but never marked. *)
MarkNothing(e) == UNCHANGED seenAge
MarkSeen(e) == seenAge' = [seenAge EXCEPT ![e] = 0]

IsStored(c) == storeAge[c] <= STORE_TTL

AnswerWithoutSecret(e) ==
  /\ config = "no_secret"
  /\ Call(e) /\ Reply(e, "hp2_not_configured")
  /\ UNCHANGED <<appVars, handlerVars, cartStatus, sent, restarts, chainVars>>

(* 401, for a signature older than five minutes, say, or 400, for a        *)
(* payload that is no event.                                               *)
RefuseCall(e) ==
  /\ config \in WithSecret
  /\ Call(e) /\ Reply(e, "refused")
  /\ UNCHANGED <<appVars, handlerVars, cartStatus, sent, restarts, chainVars>>

Deduplicate(e) ==
  /\ config \in WithSecret
  /\ IsSeen(e)
  /\ Call(e) /\ Reply(e, "deduped")
  /\ UNCHANGED <<appVars, handlerVars, cartStatus, sent, restarts, chainVars>>

(* Faulty variant: the status of the payment is not looked at. *)
NotToSettleBlind(e) ==
  IF ~IsStored(CartOf[e]) THEN "unknown_cart_mandate"
  ELSE IF ~autoRepay[CartOf[e]] THEN "auto_repay_disabled"
  ELSE IF config = "no_key" THEN "settlement_not_configured"
  ELSE "settle"

(* The answers that need no settlement; whether the payment failed and     *)
(* whether the borrower asked for it are looked at before the key is.      *)
NotToSettle(e) ==
  IF ~IsStored(CartOf[e]) THEN "unknown_cart_mandate"
  ELSE IF sent[e] = "payment-failed" THEN "failed"
  ELSE IF ~autoRepay[CartOf[e]] THEN "auto_repay_disabled"
  ELSE IF config = "no_key" THEN "settlement_not_configured"
  ELSE "settle"

AnswerAtOnce(e) ==
  /\ config \in WithSecret
  /\ ~IsSeen(e)
  /\ NotToSettle(e) # "settle"
  /\ Call(e) /\ MarkSeen(e) /\ Reply(e, NotToSettle(e))
  /\ UNCHANGED <<config, remembered, autoRepay, storeAge, handlerVars, cartStatus, sent, restarts, chainVars>>

StartSettling(e, h) ==
  /\ config \in WithSecret
  /\ ~IsSeen(e)
  /\ NotToSettle(e) = "settle"
  /\ hpc[h] = "idle"
  /\ Call(e) /\ MarkSeen(e)
  /\ hpc' = [hpc EXCEPT ![h] = "read"]
  /\ hevent' = [hevent EXCEPT ![h] = e]
  /\ UNCHANGED <<config, remembered, autoRepay, storeAge, hamount, cartStatus, sent, acked, restarts,
                 answer, chainVars>>

---------------------------------------------------------------------------
(* settleOnChain, one step per await. *)

Finish(h, a) ==
  /\ hpc' = [hpc EXCEPT ![h] = "idle"]
  /\ hamount' = [hamount EXCEPT ![h] = 0]
  /\ hevent' = [hevent EXCEPT ![h] = NoEvent]
  /\ Reply(hevent[h], a)
  /\ UNCHANGED <<appVars, gatewayVars, restarts>>

NoReceipt(h) == receipt' = [receipt EXCEPT ![h] = "none"]

ReadNoDebt(h) ==
  /\ hpc[h] = "read"
  /\ debt[BorrowerOf[CartOf[hevent[h]]]] = 0
  /\ Finish(h, "no_outstanding_debt")
  /\ UNCHANGED chainVars

ReadDebt(h) ==
  /\ hpc[h] = "read"
  /\ debt[BorrowerOf[CartOf[hevent[h]]]] > 0
  /\ hamount' = [hamount EXCEPT ![h] = ApplyAmount(BorrowerOf[CartOf[hevent[h]]], AmountOf[CartOf[hevent[h]]])]
  /\ hpc' = [hpc EXCEPT ![h] = "send"]
  /\ UNCHANGED <<hevent, appVars, gatewayVars, acked, restarts, answer, chainVars>>

FailBeforeSending(h) ==
  /\ hpc[h] \in {"read", "send"}
  /\ Finish(h, "settlement_failed")
  /\ UNCHANGED chainVars

Submit(h, w) ==
  /\ hpc[h] = "send"
  /\ hamount[h] > 0 /\ WouldAccept(BorrowerOf[CartOf[hevent[h]]])
  /\ mempool' = Submitted(hevent[h], BorrowerOf[CartOf[hevent[h]]], hamount[h], w)
  /\ UNCHANGED <<debt, lineOpen, receipt, taken>>

SendOnSaleReceived(h) ==
  /\ Submit(h, h)
  /\ hpc' = [hpc EXCEPT ![h] = "wait"]
  /\ UNCHANGED <<hevent, hamount, appVars, gatewayVars, acked, restarts, answer>>

LoseHash(h) == Submit(h, NoWaiter) /\ Finish(h, "settlement_failed")

TimeOut(h) ==
  /\ hpc[h] = "wait"
  /\ receipt[h] # "reverted"
  /\ mempool' = Abandoned(h)
  /\ NoReceipt(h)
  /\ Finish(h, "settlement_failed")
  /\ UNCHANGED <<debt, lineOpen, taken>>

(* Faulty variant: the receipt's status is not looked at. *)
SettledAnyhow(h) ==
  /\ hpc[h] = "wait"
  /\ receipt[h] # "none"
  /\ NoReceipt(h)
  /\ Finish(h, "routed")
  /\ UNCHANGED <<debt, lineOpen, mempool, taken>>

Settled(h) ==
  /\ hpc[h] = "wait"
  /\ receipt[h] # "none"
  /\ NoReceipt(h)
  /\ Finish(h, IF receipt[h] = "success" THEN "routed" ELSE "settlement_failed")
  /\ UNCHANGED <<debt, lineOpen, mempool, taken>>

---------------------------------------------------------------------------
(* Time, in steps of an hour or more: entries age, and those past their    *)
(* TTL are not there for the next lookup. Faulty variant: no pruning.      *)
AgeUnpruned ==
  /\ storeAge' = [c \in Cart |-> storeAge[c] + 1]
  /\ seenAge' = [e \in Event |-> IF IsSeen(e) THEN seenAge[e] + 1 ELSE NotSeen]
  /\ UNCHANGED <<config, remembered, autoRepay, handlerVars, gatewayVars, acked, restarts, answer, chainVars>>
Age ==
  /\ storeAge' = [c \in Cart |-> IF IsStored(c) THEN storeAge[c] + 1 ELSE NotStored]
  /\ seenAge' = [e \in Event |-> IF IsSeen(e) THEN seenAge[e] + 1 ELSE NotSeen]
  /\ <<storeAge, seenAge>>' # <<storeAge, seenAge>>
  /\ UNCHANGED <<config, remembered, autoRepay, handlerVars, gatewayVars, acked, restarts, answer, chainVars>>

(* The process restarts, perhaps configured otherwise, and loses the store *)
(* and the marks together; the sandbox gateway lives in it and forgets its *)
(* carts, HP2 itself does not. Calls it was handling get no answer.        *)
Restart ==
  /\ restarts < MaxRestarts
  /\ restarts' = restarts + 1
  /\ config' \in Config
  /\ storeAge' = [c \in Cart |-> NotStored]
  /\ seenAge' = [e \in Event |-> NotSeen]
  /\ hpc' = [h \in Handler |-> "idle"]
  /\ hevent' = [h \in Handler |-> NoEvent] /\ hamount' = [h \in Handler |-> 0]
  /\ receipt' = [h \in Handler |-> "none"]
  /\ mempool' = AllAbandoned
  /\ cartStatus' \in {cartStatus, [c \in Cart |-> IF cartStatus[c] = "none" THEN "none" ELSE "gone"]}
  /\ UNCHANGED <<remembered, autoRepay, sent, delivered, acked, answer, debt, lineOpen, taken>>

---------------------------------------------------------------------------
WebhookNext(e) ==
  \/ AnswerWithoutSecret(e) \/ RefuseCall(e) \/ Deduplicate(e) \/ AnswerAtOnce(e)
  \/ \E h \in Handler : StartSettling(e, h)

HandlerNext(h) ==
  \/ ReadNoDebt(h) \/ ReadDebt(h) \/ FailBeforeSending(h) \/ SendOnSaleReceived(h)
  \/ LoseHash(h) \/ TimeOut(h) \/ Settled(h)

HP2Next ==
  \/ \E c \in Cart : StoreCart(c) \/ \E auto \in BOOLEAN : RememberCart(c, auto)
  \/ \E c \in Cart, s \in {"payment-successful", "payment-failed"} : Pay(c, s)
  \/ \E e \in Event : WebhookNext(e)
  \/ \E h \in Handler : HandlerNext(h)
  \/ Age
  \/ Restart
  \/ ChainNext /\ UNCHANGED <<appVars, handlerVars, gatewayVars, acked, restarts, answer>>

HP2Spec == HP2Init /\ [][HP2Next]_hp2Vars

---------------------------------------------------------------------------
(* However often the gateway calls, with retries while the first call is   *)
(* still settling, after timeouts, restarts and expired entries, the chain *)
(* takes at most the cart's amount for one event: whatever makes the app   *)
(* forget that it saw the event made it forget the cart before.            *)
EventTakenOnce == \A e \in Event : taken[e] <= AmountOf[CartOf[e]]

(* The borrower's tokens are taken only for a payment that succeeded, of a *)
(* cart it created with autoRepayFromCreditLine.                           *)
OnlyConsentedPaymentsSettle ==
  \A e \in Event : taken[e] > 0 => sent[e] = "payment-successful" /\ autoRepay[CartOf[e]]

(* A payment the webhook answers as routed was taken by the chain, though  *)
(* a settlement simulated with success may revert once it is mined.        *)
RoutedPaymentIsTaken ==
  \A e \in Event : answer[e] = "routed" => taken[e] > 0

(* webhooks/hp2/route.ts:138 answers a failed settlement with a 500 so     *)
(* that HP2 retries, "which is what we want for transient on-chain         *)
(* failures": a retry of a settlement that failed and took nothing is not  *)
(* turned away. The request_id was marked before the settlement, so it is. *)
FailedSettlementIsRetried ==
  [][\A e \in Event :
       answer[e] = "settlement_failed" /\ taken[e] = 0 => answer'[e] # "deduped"]_hp2Vars
============================================================================
