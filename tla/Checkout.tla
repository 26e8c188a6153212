------------------------------ MODULE Checkout ------------------------------
(***************************************************************************)
(* A payment link from the click to the receipt: PaymentRequestPanel.tsx   *)
(* in the borrower's browser, the create and status routes, the sandbox    *)
(* gateway with its checkout page, and behind them the webhook and the     *)
(* settlement of HP2Settlement.                                            *)
(*                                                                         *)
(* The panel polls every three seconds while it shows an unpaid link; a    *)
(* tick is one poll in flight, asked for one cart, answered at one moment  *)
(* and heard at a later one. The effect's cleanup cancels the ticks of a   *)
(* link the panel no longer polls, not their requests.                     *)
(***************************************************************************)
EXTENDS HP2Settlement, HP2Wire

CONSTANTS
  NoCart,
  PriceOf,      \* the amount a cart was asked for
  Env,          \* the app key and secret the client and the sandbox read
  MaxTicks      \* bound: polls in flight

ASSUME CheckoutAssumption ==
  /\ NoCart \notin Cart /\ MaxTicks \in Nat
  /\ \A c \in Cart : IsPrice(PriceOf[c]) /\ AmountOf[c] = MinorUnits(PriceOf[c])

VARIABLES
  creating,      \* where the create request is
  wanted,        \* the cart the route makes for it
  link, poll,    \* what the panel shows; a final poll is the status it ended with
  ticks,
  shown          \* the carts whose link was ever shown

panelVars == <<creating, wanted, link, poll, ticks, shown>>
checkoutVars == <<panelVars, hp2Vars>>

Final == {"payment-successful", "payment-failed"}
Tick == [cart : Cart, live : BOOLEAN, status : Final \union {"none", "payment-required"}]

CheckoutTypeOK ==
  /\ HP2TypeOK
  /\ creating \in {"idle", "asked", "stored", "answered"}
  /\ wanted \in Cart \union {NoCart}
  /\ link \in Cart \union {NoCart}
  /\ poll \in {"idle", "polling"} \union Final
  /\ ticks \subseteq Tick
  /\ shown \subseteq Cart

CheckoutInit ==
  /\ HP2Init
  /\ creating = "idle" /\ wanted = NoCart
  /\ link = NoCart /\ poll = "idle"
  /\ ticks = {} /\ shown = {}

---------------------------------------------------------------------------
(* createLink, and the create route behind it. *)

Cancelled(ts) == {[t EXCEPT !.live = FALSE] : t \in ts}

(* The button is there again once the request has ended; the old link and  *)
(* its poll go at once.                                                    *)
ClickCreate ==
  /\ creating = "idle"
  /\ \E c \in Cart : cartStatus[c] = "none"
  /\ creating' = "asked"
  /\ link' = NoCart /\ poll' = "idle"
  /\ ticks' = Cancelled(ticks)
  /\ UNCHANGED <<wanted, shown, hp2Vars>>

(* Not configured, an amount or description the schema turns down, ten     *)
(* links in this minute, a request or an answer lost on either leg: the    *)
(* panel shows the error and nothing else.                                 *)
CreateFails ==
  /\ creating \in {"asked", "stored", "answered"}
  /\ creating' = "idle" /\ wanted' = NoCart
  /\ UNCHANGED <<link, poll, ticks, shown, hp2Vars>>

(* The route makes up a fresh id, and the gateway stores the cart. *)
GatewayStores(c) ==
  /\ creating = "asked"
  /\ GatewayAccepts(Env, createCartMandate(Env, [id |-> c, price |-> PriceOf[c]], 0), TOLERANCE)
  /\ StoreCart(c)
  /\ creating' = "stored" /\ wanted' = c
  /\ UNCHANGED <<link, poll, ticks, shown>>

(* Faulty variant: the answer goes out before the cart is remembered. *)
AnswersBeforeRemembering(auto) ==
  /\ creating = "stored"
  /\ creating' = "answered"
  /\ UNCHANGED <<wanted, link, poll, ticks, shown, hp2Vars>>

RouteRemembers(auto) ==
  /\ creating = "stored"
  /\ RememberCart(wanted, auto)
  /\ creating' = "answered"
  /\ UNCHANGED <<wanted, link, poll, ticks, shown>>

ShowLink ==
  /\ creating = "answered"
  /\ creating' = "idle"
  /\ link' = wanted /\ poll' = "polling"
  /\ shown' = shown \union {wanted}
  /\ wanted' = NoCart
  /\ UNCHANGED <<ticks, hp2Vars>>

---------------------------------------------------------------------------
(* The poll. *)

SendTick ==
  /\ poll = "polling"
  /\ Cardinality(ticks) < MaxTicks
  /\ ticks' = ticks \union {[cart |-> link, live |-> TRUE, status |-> "none"]}
  /\ UNCHANGED <<creating, wanted, link, poll, shown, hp2Vars>>

(* The record the gateway answers a query for c with, if it has c. *)
IsRecorded(c) == cartStatus[c] \notin {"none", "gone"}

(* Faulty variant: the answer is one kept from the first poll. *)
AnswerTickCached(t) ==
  /\ t.status = "none"
  /\ config \in WithClient
  /\ IsRecorded(t.cart)
  /\ ticks' = (ticks \ {t}) \union {[t EXCEPT !.status = "payment-required"]}
  /\ UNCHANGED <<creating, wanted, link, poll, shown, hp2Vars>>

(* The status route asks the gateway for the request's record.             *)
AnswerTick(t) ==
  /\ t.status = "none"
  /\ config \in WithClient
  /\ IsRecorded(t.cart)
  /\ ticks' = (ticks \ {t}) \union {[t EXCEPT !.status = cartStatus[t.cart]]}
  /\ UNCHANGED <<creating, wanted, link, poll, shown, hp2Vars>>

(* A 503, a 404 behind a 502, a lost request or answer: the tick is over.  *)
LoseTick(t) ==
  /\ ticks' = ticks \ {t}
  /\ UNCHANGED <<creating, wanted, link, poll, shown, hp2Vars>>

(* Faulty variant: the cancelled flag is not looked at. *)
HearTickAnyhow(t) ==
  /\ t.status # "none"
  /\ IF t.status \in Final
     THEN poll' = t.status /\ ticks' = Cancelled(ticks \ {t})
     ELSE poll' = poll /\ ticks' = ticks \ {t}
  /\ UNCHANGED <<creating, wanted, link, shown, hp2Vars>>

HearTick(t) ==
  /\ t.status # "none"
  /\ IF t.live /\ t.status \in Final
     THEN poll' = t.status /\ ticks' = Cancelled(ticks \ {t})
     ELSE poll' = poll /\ ticks' = ticks \ {t}
  /\ UNCHANGED <<creating, wanted, link, shown, hp2Vars>>

---------------------------------------------------------------------------
(* The customer has the link; the checkout page does not look at the       *)
(* status, and opens again after a payment.                                *)
CustomerPays(c, status) == c \in shown /\ Pay(c, status) /\ UNCHANGED panelVars

(* Requests the process was handling fail in the browser. *)
ProcessRestarts ==
  /\ Restart
  /\ IF creating \in {"asked", "stored"}
     THEN creating' = "idle" /\ wanted' = NoCart
     ELSE UNCHANGED <<creating, wanted>>
  /\ ticks' = {t \in ticks : t.status # "none"}
  /\ UNCHANGED <<link, poll, shown>>

ServerNext ==
  \/ \E e \in Event : WebhookNext(e)
  \/ \E h \in Handler : HandlerNext(h)
  \/ Age
  \/ ChainNext /\ UNCHANGED <<appVars, handlerVars, gatewayVars, acked, restarts, answer>>

CheckoutNext ==
  \/ ClickCreate \/ CreateFails \/ ShowLink
  \/ \E c \in Cart : GatewayStores(c)
  \/ \E auto \in BOOLEAN : RouteRemembers(auto)
  \/ SendTick
  \/ \E t \in ticks : AnswerTick(t) \/ LoseTick(t) \/ HearTick(t)
  \/ \E c \in Cart, s \in Final : CustomerPays(c, s)
  \/ ServerNext /\ UNCHANGED panelVars
  \/ ProcessRestarts

(* The interval keeps ticking and every poll ends, heard or lost; one that *)
(* is asked again and again is answered and heard now and then.            *)
PollFairness ==
  /\ WF_checkoutVars(SendTick)
  /\ WF_checkoutVars(\E t \in ticks : HearTick(t) \/ LoseTick(t))
  /\ SF_checkoutVars(\E t \in ticks : t.live /\ AnswerTick(t))
  /\ SF_checkoutVars(\E t \in ticks : t.live /\ t.status \in Final /\ HearTick(t))

CheckoutSpec == CheckoutInit /\ [][CheckoutNext]_checkoutVars /\ PollFairness

---------------------------------------------------------------------------
(* The panel says paid or failed only of the link it shows: a poll of an   *)
(* earlier link that is answered late does not end the poll of this one,   *)
(* and the status is one a payment of this cart really had.                *)
CompleteIsOfThisLink ==
  poll \in Final => \E e \in Event : CartOf[e] = link /\ sent[e] = poll

(* The webhook knows every cart that can be paid, unless it has lost it:   *)
(* the link is shown only after the cart is remembered, so an event is     *)
(* answered "unknown" only of a cart that aged past the store's four hours *)
(* or went with the process.                                               *)
UnknownWasRemembered ==
  \A e \in Event : answer[e] = "unknown_cart_mandate" => CartOf[e] \in remembered

(* However the polls are lost and reordered, the panel does not poll a     *)
(* paid link for ever, unless the gateway forgot the cart or the process   *)
(* runs without its client.                                                *)
StillPolling ==
  /\ poll = "polling" /\ cartStatus[link] \in Final
  /\ config \in WithClient
PaidLinkIsShown == StillPolling ~> ~StillPolling
============================================================================
