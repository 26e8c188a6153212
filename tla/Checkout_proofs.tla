-------------------------- MODULE Checkout_proofs --------------------------
(***************************************************************************)
(* HP2Settlement for any carts, payments, handlers, debts and bounds; then *)
(* Checkout, which implements it, for any number of links and polls.       *)
(***************************************************************************)
EXTENDS Checkout, SettlementChain_proofs

AppTypeOK ==
  /\ config \in Config
  /\ remembered \subseteq Cart
  /\ autoRepay \in [Cart -> BOOLEAN]
  /\ storeAge \in [Cart -> 0 .. NotStored]
  /\ seenAge \in [Event -> 0 .. NotSeen]

(* A busy handler has an event. *)
HandlersHoldEvents ==
  \A h \in Handler : hpc[h] # "idle" => hevent[h] \in Event

---------------------------------------------------------------------------
LEMMA ApplyAmountBounds ==
  ASSUME debt \in [Debtor -> 0 .. MaxDebt], NEW c \in Cart
  PROVE  /\ ApplyAmount(BorrowerOf[c], AmountOf[c]) \in Nat
         /\ ApplyAmount(BorrowerOf[c], AmountOf[c]) <= AmountOf[c]
<1>1. BorrowerOf[c] \in Debtor /\ AmountOf[c] \in Nat
  BY HP2Assumption
<1>2. debt[BorrowerOf[c]] \in 0 .. MaxDebt
  BY <1>1
<1>. QED  BY <1>1, <1>2, DebtAssumption DEF ApplyAmount

(* A handler that sends adds one transaction of its event. *)
LEMMA SubmitTypes ==
  ASSUME HP2TypeOK, NEW h \in Handler, NEW w \in Waiter \union {NoWaiter},
         hevent[h] \in Event, Submit(h, w)
  PROVE  /\ ChainTypeOK'
         /\ Len(mempool') = Len(mempool) + 1
         /\ \A i \in 1 .. Len(mempool) : mempool'[i] = mempool[i]
         /\ mempool'[Len(mempool) + 1].payment = hevent[h]
         /\ mempool'[Len(mempool) + 1].amount = hamount[h]
         /\ mempool'[Len(mempool) + 1].waiter = w
<1>. DEFINE tx == [payment |-> hevent[h], borrower |-> BorrowerOf[CartOf[hevent[h]]],
                   amount |-> hamount[h], waiter |-> w]
<1>1. tx \in Tx
  BY HP2Assumption DEF Tx, Submit, HP2TypeOK
<1>2. mempool' = Append(mempool, tx) /\ UNCHANGED <<debt, lineOpen, receipt, taken>>
  BY DEF Submit, Submitted
<1>3. tx.payment = hevent[h] /\ tx.amount = hamount[h] /\ tx.waiter = w
  OBVIOUS
<1>4. mempool \in Seq(Tx)
  BY DEF HP2TypeOK, ChainTypeOK
<1>. HIDE DEF tx
<1>5. mempool' \in Seq(Tx) /\ Len(mempool') = Len(mempool) + 1
      /\ mempool'[Len(mempool) + 1] = tx
      /\ \A i \in 1 .. Len(mempool) : mempool'[i] = mempool[i]
  BY <1>1, <1>2, <1>4
<1>. QED  BY <1>2, <1>3, <1>5 DEF HP2TypeOK, ChainTypeOK

TypeInv == HP2TypeOK /\ HandlersHoldEvents

LEMMA ReplyTypes ==
  ASSUME HP2TypeOK, NEW e \in Event, NEW a \in Answer, Reply(e, a)
  PROVE  answer' \in [Event -> Answer \union {"none"}] /\ acked' \subseteq Event
BY DEF HP2TypeOK, Reply

LEMMA CallTypes ==
  ASSUME HP2TypeOK, NEW e \in Event, Call(e)
  PROVE  delivered' \in [Event -> 0 .. MaxDeliveries]
BY HP2Assumption DEF HP2TypeOK, Call

(* Types survive every answer of the webhook. *)
LEMMA WebhookTypes ==
  ASSUME TypeInv, NEW e \in Event, WebhookNext(e)
  PROVE  TypeInv'
<1>. USE DEF TypeInv
<1>1. CASE AnswerWithoutSecret(e)
  <2>1. "hp2_not_configured" \in Answer
    BY DEF Answer, TwoHundred
  <2>. QED  BY <1>1, <2>1, ReplyTypes, CallTypes
       DEF AnswerWithoutSecret, HP2TypeOK, ChainTypeOK, HandlersHoldEvents, appVars, handlerVars, chainVars
<1>2. CASE RefuseCall(e)
  <2>1. "refused" \in Answer
    BY DEF Answer
  <2>. QED  BY <1>2, <2>1, ReplyTypes, CallTypes
       DEF RefuseCall, HP2TypeOK, ChainTypeOK, HandlersHoldEvents, appVars, handlerVars, chainVars
<1>3. CASE Deduplicate(e)
  <2>1. "deduped" \in Answer
    BY DEF Answer, TwoHundred
  <2>. QED  BY <1>3, <2>1, ReplyTypes, CallTypes
       DEF Deduplicate, HP2TypeOK, ChainTypeOK, HandlersHoldEvents, appVars, handlerVars, chainVars
<1>4. ASSUME MarkSeen(e) PROVE seenAge' \in [Event -> 0 .. NotSeen]
  BY <1>4, HP2Assumption DEF MarkSeen, HP2TypeOK, NotSeen
<1>5. CASE AnswerAtOnce(e)
  <2>1. NotToSettle(e) \in Answer
    BY <1>5 DEF AnswerAtOnce, NotToSettle, Answer, TwoHundred
  <2>. QED  BY <1>4, <1>5, <2>1, ReplyTypes, CallTypes
       DEF AnswerAtOnce, HP2TypeOK, ChainTypeOK, HandlersHoldEvents, handlerVars, chainVars
<1>6. ASSUME NEW h \in Handler, StartSettling(e, h) PROVE TypeInv'
  BY <1>4, <1>6, CallTypes
     DEF StartSettling, HP2TypeOK, ChainTypeOK, HandlersHoldEvents, Handler, chainVars
<1>. QED  BY <1>1, <1>2, <1>3, <1>5, <1>6 DEF WebhookNext

LEMMA FinishTypes ==
  ASSUME TypeInv, NEW h \in Handler, hpc[h] # "idle", NEW a \in Answer, Finish(h, a),
         ChainTypeOK'
  PROVE  TypeInv'
<1>1. hevent[h] \in Event
  BY DEF TypeInv, HandlersHoldEvents
<1>2. Reply(hevent[h], a)
  BY DEF Finish
<1>3. answer' \in [Event -> Answer \union {"none"}] /\ acked' \subseteq Event
  BY <1>1, <1>2, ReplyTypes DEF TypeInv
<1>. QED  BY <1>3 DEF TypeInv, HP2TypeOK, HandlersHoldEvents, Finish, Handler, appVars, gatewayVars

LEMMA HandlerTypes ==
  ASSUME TypeInv, NEW h \in Handler, HandlerNext(h)
  PROVE  TypeInv'
<1>1. hpc[h] # "idle"
  BY DEF HandlerNext, ReadNoDebt, ReadDebt, FailBeforeSending, SendOnSaleReceived, LoseHash,
         Submit, TimeOut, Settled
<1>2. hevent[h] \in Event
  BY <1>1 DEF TypeInv, HandlersHoldEvents
<1>3. "no_outstanding_debt" \in Answer /\ "routed" \in Answer /\ "settlement_failed" \in Answer
  BY DEF Answer, TwoHundred
<1>4. ASSUME NoReceipt(h) PROVE receipt' \in [Waiter -> {"none", "success", "reverted"}]
  BY <1>4 DEF NoReceipt, TypeInv, HP2TypeOK, ChainTypeOK
<1>5. CASE ReadNoDebt(h)
  BY <1>1, <1>3, <1>5, FinishTypes DEF ReadNoDebt, chainVars, TypeInv, HP2TypeOK, ChainTypeOK
<1>6. CASE ReadDebt(h)
  <2>1. CartOf[hevent[h]] \in Cart
    BY <1>2, HP2Assumption
  <2>2. ApplyAmount(BorrowerOf[CartOf[hevent[h]]], AmountOf[CartOf[hevent[h]]]) \in Nat
    BY <2>1, ApplyAmountBounds DEF TypeInv, HP2TypeOK, ChainTypeOK
  <2>. QED  BY <1>2, <1>6, <2>2
       DEF ReadDebt, TypeInv, HP2TypeOK, ChainTypeOK, HandlersHoldEvents, Handler,
           appVars, gatewayVars, chainVars
<1>7. CASE FailBeforeSending(h)
  BY <1>1, <1>3, <1>7, FinishTypes DEF FailBeforeSending, chainVars, TypeInv, HP2TypeOK, ChainTypeOK
<1>8. CASE SendOnSaleReceived(h)
  <2>1. h \in Waiter \union {NoWaiter}
    BY DEF Handler
  <2>2. ChainTypeOK'
    BY <1>2, <1>8, <2>1, SubmitTypes DEF SendOnSaleReceived, TypeInv
  <2>. QED  BY <1>2, <1>8, <2>2
       DEF SendOnSaleReceived, TypeInv, HP2TypeOK, HandlersHoldEvents, Handler, appVars, gatewayVars
<1>9. CASE LoseHash(h)
  <2>1. ChainTypeOK'
    BY <1>2, <1>9, SubmitTypes DEF LoseHash, TypeInv
  <2>. QED  BY <1>1, <1>3, <1>9, <2>1, FinishTypes DEF LoseHash
<1>10. CASE TimeOut(h)
  <2>1. mempool' \in Seq(Tx)
    BY <1>10, AbandonedRelabels DEF TimeOut, TypeInv, HP2TypeOK, ChainTypeOK, Relabelled, Handler
  <2>2. ChainTypeOK'
    BY <1>4, <1>10, <2>1 DEF TimeOut, TypeInv, HP2TypeOK, ChainTypeOK
  <2>. QED  BY <1>1, <1>3, <1>10, <2>2, FinishTypes DEF TimeOut
<1>11. CASE Settled(h)
  <2>1. ChainTypeOK'
    BY <1>4, <1>11 DEF Settled, TypeInv, HP2TypeOK, ChainTypeOK
  <2>. QED  BY <1>1, <1>3, <1>11, <2>1, FinishTypes DEF Settled
<1>. QED  BY <1>5, <1>6, <1>7, <1>8, <1>9, <1>10, <1>11 DEF HandlerNext

(* Every step keeps the types, and a busy handler keeps an event. *)
LEMMA TypeStep ==
  ASSUME TypeInv, [HP2Next]_hp2Vars
  PROVE  TypeInv'
<1>. USE DEF TypeInv
<1>1. ASSUME NEW c \in Cart, StoreCart(c) PROVE TypeInv'
  BY <1>1 DEF StoreCart, HP2TypeOK, ChainTypeOK, HandlersHoldEvents, appVars, handlerVars, chainVars
<1>2. ASSUME NEW c \in Cart, NEW auto \in BOOLEAN, RememberCart(c, auto) PROVE TypeInv'
  BY <1>2, HP2Assumption
     DEF RememberCart, HP2TypeOK, ChainTypeOK, HandlersHoldEvents, NotStored, handlerVars,
         gatewayVars, chainVars
<1>3. ASSUME NEW c \in Cart, NEW s \in {"payment-successful", "payment-failed"}, Pay(c, s)
      PROVE  TypeInv'
  BY <1>3 DEF Pay, HP2TypeOK, ChainTypeOK, HandlersHoldEvents, appVars, handlerVars, chainVars
<1>4. ASSUME NEW e \in Event, WebhookNext(e) PROVE TypeInv'
  BY <1>4, WebhookTypes
<1>5. ASSUME NEW h \in Handler, HandlerNext(h) PROVE TypeInv'
  BY <1>5, HandlerTypes
<1>6. CASE Age
  <2>1. storeAge' \in [Cart -> 0 .. NotStored] /\ seenAge' \in [Event -> 0 .. NotSeen]
    BY <1>6, HP2Assumption DEF Age, IsStored, IsSeen, NotStored, NotSeen, HP2TypeOK
  <2>. QED  BY <1>6, <2>1
       DEF Age, HP2TypeOK, ChainTypeOK, HandlersHoldEvents, handlerVars, gatewayVars, chainVars
<1>7. CASE Restart
  <2>1. mempool' \in Seq(Tx)
    BY <1>7, RestartRelabels DEF Restart, HP2TypeOK, ChainTypeOK, Relabelled
  <2>2. restarts' \in 0 .. MaxRestarts
    BY <1>7, HP2Assumption DEF Restart, HP2TypeOK
  <2>3. storeAge' \in [Cart -> 0 .. NotStored] /\ seenAge' \in [Event -> 0 .. NotSeen]
    BY <1>7, HP2Assumption DEF Restart, NotStored, NotSeen
  <2>4. cartStatus' \in [Cart -> {"none", "gone", "payment-required", "payment-successful",
                                  "payment-failed"}]
    BY <1>7 DEF Restart, HP2TypeOK
  <2>. QED  BY <1>7, <2>1, <2>2, <2>3, <2>4
       DEF Restart, HP2TypeOK, ChainTypeOK, HandlersHoldEvents, Handler
<1>8. CASE ChainNext /\ UNCHANGED <<appVars, handlerVars, gatewayVars, acked, restarts, answer>>
  BY <1>8, ChainStepTypes
     DEF HP2TypeOK, HandlersHoldEvents, appVars, handlerVars, gatewayVars
<1>9. CASE UNCHANGED hp2Vars
  BY <1>9 DEF hp2Vars, HP2TypeOK, ChainTypeOK, HandlersHoldEvents, appVars, handlerVars,
              gatewayVars, chainVars
<1>. QED  BY <1>1, <1>2, <1>3, <1>4, <1>5, <1>6, <1>7, <1>8, <1>9 DEF HP2Next

LEMMA TypeInit == HP2Init => TypeInv
BY HP2Assumption, DebtAssumption
   DEF HP2Init, ChainInit, TypeInv, HP2TypeOK, ChainTypeOK, HandlersHoldEvents, NotStored, NotSeen

(* Ages never leave their range, amounts stay natural numbers, and what a  *)
(* handler, the mempool and the gateway hold is of its kind: type          *)
(* correctness of the webhook, the store and the settlement.               *)
THEOREM HP2TypeCorrect == HP2Spec => []HP2TypeOK
<1>1. HP2Spec => []TypeInv
  BY TypeInit, TypeStep, PTL DEF HP2Spec
<1>2. TypeInv => HP2TypeOK
  BY DEF TypeInv
<1>. QED  BY <1>1, <1>2, PTL
---------------------------------------------------------------------------
(* The settlement invariant. An event is consented to when its payment     *)
(* succeeded and its cart was remembered with the borrower's flag.         *)
Consented(e) ==
  sent[e] = "payment-successful" /\ CartOf[e] \in remembered /\ autoRepay[CartOf[e]]

Places == 1 .. Len(mempool)
Busy(h) == hpc[h] # "idle"

(* Only consented events are settled, sent or taken. *)
ConsentInv ==
  /\ \A c \in Cart : IsStored(c) => c \in remembered
  /\ \A h \in Handler : Busy(h) => Consented(hevent[h])
  /\ \A i \in Places : Consented(mempool[i].payment)
  /\ \A e \in Event : taken[e] > 0 => Consented(e)

(* A receipt, or a transaction someone waits for, is of the event its      *)
(* waiting handler settles.                                                *)
WaitInv ==
  /\ \A h \in Handler : receipt[h] # "none" => hpc[h] = "wait"
  /\ \A h \in Handler : receipt[h] = "success" => taken[hevent[h]] > 0
  /\ \A i \in Places, h \in Handler :
       mempool[i].waiter = h =>
         hpc[h] = "wait" /\ receipt[h] = "none" /\ mempool[i].payment = hevent[h]
  /\ RoutedPaymentIsTaken

(* An event some handler, the mempool or the chain has got. *)
Claimed(e) ==
  \/ taken[e] > 0
  \/ \E h \in Handler : Busy(h) /\ hevent[h] = e
  \/ \E i \in Places : mempool[i].payment = e

(* As long as the app knows the cart of a claimed event, it remembers the  *)
(* event too: it saw the event after it stored the cart, and keeps events  *)
(* longer.                                                                 *)
ClaimedIsSeen ==
  \A e \in Event :
    Claimed(e) => /\ CartOf[e] \in remembered
                  /\ IsStored(CartOf[e]) => seenAge[e] <= storeAge[CartOf[e]]

(* An event is in one place at a time, for at most its cart's amount. *)
OnceInv ==
  /\ ClaimedIsSeen
  /\ \A h, g \in Handler : h # g /\ Busy(h) /\ Busy(g) => hevent[h] # hevent[g]
  /\ \A h \in Handler : hpc[h] \in {"read", "send"} =>
       taken[hevent[h]] = 0 /\ \A i \in Places : mempool[i].payment # hevent[h]
  /\ \A h \in Handler : hpc[h] = "send" => hamount[h] <= AmountOf[CartOf[hevent[h]]]
  /\ \A i, j \in Places : i # j => mempool[i].payment # mempool[j].payment
  /\ \A i \in Places : /\ taken[mempool[i].payment] = 0
                       /\ mempool[i].amount <= AmountOf[CartOf[mempool[i].payment]]
  /\ EventTakenOnce

SettleInv == TypeInv /\ ConsentInv /\ WaitInv /\ OnceInv

LEMMA PoolTypes ==
  ASSUME TypeInv
  PROVE  /\ Len(mempool) \in Nat
         /\ \A i \in Places : mempool[i] \in Tx /\ mempool[i].payment \in Event
<1>1. mempool \in Seq(Tx)
  BY DEF TypeInv, HP2TypeOK, ChainTypeOK
<1>2. Len(mempool) \in Nat /\ \A i \in Places : mempool[i] \in Tx
  BY <1>1 DEF Places
<1>3. \A tx \in Tx : tx.payment \in Event
  BY HP2Assumption DEF Tx
<1>. QED  BY <1>2, <1>3

(* A step that leaves handlers and chain alone, and lets no event grow     *)
(* older than its cart, keeps the invariant.                               *)
LEMMA QuietStep ==
  ASSUME SettleInv, TypeInv', UNCHANGED <<handlerVars, chainVars>>,
         \A e \in Event : Consented(e) => Consented(e)',
         \A c \in Cart : IsStored(c)' => c \in remembered',
         \A e \in Event : CartOf[e] \in remembered /\ IsStored(CartOf[e])'
            /\ (IsStored(CartOf[e]) => seenAge[e] <= storeAge[CartOf[e]])
            => seenAge'[e] <= storeAge'[CartOf[e]],
         remembered \subseteq remembered',
         \A e \in Event : answer'[e] = "routed" => answer[e] = "routed"
  PROVE  SettleInv'
<1>1. \A i \in Places : mempool[i].payment \in Event
  BY PoolTypes DEF SettleInv
<1>2. \A h \in Handler : Busy(h) => hevent[h] \in Event
  BY DEF SettleInv, TypeInv, HandlersHoldEvents, Busy
<1>3. Places' = Places /\ mempool' = mempool /\ taken' = taken /\ receipt' = receipt
      /\ hpc' = hpc /\ hevent' = hevent /\ hamount' = hamount
  BY DEF Places, chainVars, handlerVars
<1>4. \A h \in Handler : Busy(h)' = Busy(h)
  BY <1>3 DEF Busy
<1>5. ConsentInv'
  BY <1>1, <1>2, <1>3, <1>4 DEF SettleInv, ConsentInv
<1>6. WaitInv'
  BY <1>3 DEF SettleInv, WaitInv, RoutedPaymentIsTaken
<1>7. \A e \in Event : Claimed(e)' => Claimed(e)
  BY <1>3, <1>4 DEF Claimed
<1>8. ClaimedIsSeen'
  BY <1>7 DEF SettleInv, OnceInv, ClaimedIsSeen
<1>9. OnceInv'
  BY <1>3, <1>4, <1>8 DEF SettleInv, OnceInv, EventTakenOnce
<1>. QED  BY <1>5, <1>6, <1>9 DEF SettleInv
LEMMA WebhookQuiet ==
  ASSUME SettleInv, NEW e \in Event,
         \/ AnswerWithoutSecret(e) \/ RefuseCall(e) \/ Deduplicate(e) \/ AnswerAtOnce(e)
  PROVE  SettleInv'
<1>1. TypeInv /\ WebhookNext(e)
  BY DEF WebhookNext, SettleInv
<1>2. TypeInv'
  BY <1>1, WebhookTypes
<1>3. UNCHANGED <<handlerVars, chainVars, remembered, autoRepay, storeAge, sent>>
  BY DEF AnswerWithoutSecret, RefuseCall, Deduplicate, AnswerAtOnce, appVars
<1>4. seenAge' = seenAge \/ seenAge' = [seenAge EXCEPT ![e] = 0]
  BY DEF AnswerWithoutSecret, RefuseCall, Deduplicate, AnswerAtOnce, MarkSeen, appVars
<1>5. \E a \in Answer \ {"routed"} : Reply(e, a)
  BY DEF AnswerWithoutSecret, RefuseCall, Deduplicate, AnswerAtOnce, NotToSettle, Answer, TwoHundred
<1>6. \A f \in Event : answer'[f] = "routed" => answer[f] = "routed"
  BY <1>1, <1>5 DEF Reply, TypeInv, HP2TypeOK
<1>7. storeAge \in [Cart -> 0 .. NotStored] /\ seenAge \in [Event -> 0 .. NotSeen]
      /\ \A f \in Event : CartOf[f] \in Cart
  BY <1>1, HP2Assumption DEF TypeInv, HP2TypeOK
<1>8. STORE_TTL \in Nat /\ DEDUP_TTL \in Nat
  BY HP2Assumption
<1>9. \A f \in Event : IsStored(CartOf[f])' => IsStored(CartOf[f])
  BY <1>3 DEF IsStored
<1>10. \A f \in Event : (IsStored(CartOf[f]) => seenAge[f] <= storeAge[CartOf[f]])
                        /\ IsStored(CartOf[f])' => seenAge'[f] <= storeAge'[CartOf[f]]
  BY <1>3, <1>4, <1>7, <1>8, <1>9 DEF NotStored, NotSeen
<1>11. \A c \in Cart : IsStored(c)' => c \in remembered'
  BY <1>3 DEF IsStored, SettleInv, ConsentInv
<1>12. \A f \in Event : Consented(f) => Consented(f)'
  BY <1>3 DEF Consented
<1>. QED  BY <1>2, <1>3, <1>6, <1>10, <1>11, <1>12, QuietStep

LEMMA GatewayQuiet ==
  ASSUME SettleInv, TypeInv', NEW c \in Cart,
         \/ StoreCart(c)
         \/ \E auto \in BOOLEAN : RememberCart(c, auto)
         \/ \E s \in {"payment-successful", "payment-failed"} : Pay(c, s)
  PROVE  SettleInv'
<1>1. UNCHANGED <<handlerVars, chainVars, seenAge, answer>>
  BY DEF StoreCart, RememberCart, Pay, appVars
<1>2. TypeInv
  BY DEF SettleInv
<1>3. remembered \subseteq remembered' /\ \A d \in Cart : d \in remembered =>
        autoRepay'[d] = autoRepay[d] /\ storeAge'[d] = storeAge[d]
  BY <1>2 DEF StoreCart, RememberCart, Pay, appVars, TypeInv, HP2TypeOK
<1>4. \A d \in Cart : d \notin remembered' => storeAge'[d] = storeAge[d]
  BY <1>2 DEF StoreCart, RememberCart, Pay, appVars, TypeInv, HP2TypeOK
<1>5. \A e \in Event : sent[e] # "none" => sent'[e] = sent[e]
  BY <1>2 DEF StoreCart, RememberCart, Pay, gatewayVars, TypeInv, HP2TypeOK
<1>6. \A e \in Event : CartOf[e] \in Cart
  BY HP2Assumption
<1>7. \A e \in Event : Consented(e) => Consented(e)'
  BY <1>3, <1>5, <1>6 DEF Consented
<1>8. \A d \in Cart : IsStored(d)' => d \in remembered'
  BY <1>3, <1>4 DEF IsStored, SettleInv, ConsentInv
<1>9. \A e \in Event : CartOf[e] \in remembered /\ IsStored(CartOf[e])'
        /\ (IsStored(CartOf[e]) => seenAge[e] <= storeAge[CartOf[e]])
        => seenAge'[e] <= storeAge'[CartOf[e]]
  BY <1>1, <1>3, <1>6 DEF IsStored
<1>10. \A e \in Event : answer'[e] = "routed" => answer[e] = "routed"
  BY <1>1
<1>. QED  BY <1>1, <1>3, <1>7, <1>8, <1>9, <1>10, QuietStep

LEMMA AgeQuiet ==
  ASSUME SettleInv, TypeInv', Age
  PROVE  SettleInv'
<1>1. UNCHANGED <<handlerVars, chainVars, remembered, autoRepay, sent, answer>>
  BY DEF Age, gatewayVars
<1>2. storeAge \in [Cart -> 0 .. NotStored] /\ seenAge \in [Event -> 0 .. NotSeen]
      /\ STORE_TTL \in Nat /\ DEDUP_TTL \in Nat /\ STORE_TTL <= DEDUP_TTL
      /\ \A e \in Event : CartOf[e] \in Cart
  BY HP2Assumption DEF SettleInv, TypeInv, HP2TypeOK
<1>3. \A c \in Cart : storeAge'[c] = IF IsStored(c) THEN storeAge[c] + 1 ELSE NotStored
  BY DEF Age
<1>4. \A e \in Event : seenAge'[e] = IF IsSeen(e) THEN seenAge[e] + 1 ELSE NotSeen
  BY DEF Age
<1>5. \A c \in Cart : IsStored(c)' => IsStored(c) /\ storeAge'[c] = storeAge[c] + 1
  BY <1>2, <1>3 DEF IsStored, NotStored
<1>6. \A c \in Cart : IsStored(c)' => c \in remembered'
  BY <1>1, <1>5 DEF SettleInv, ConsentInv
<1>7. \A e \in Event : CartOf[e] \in remembered /\ IsStored(CartOf[e])'
        /\ (IsStored(CartOf[e]) => seenAge[e] <= storeAge[CartOf[e]])
        => seenAge'[e] <= storeAge'[CartOf[e]]
  <2>. SUFFICES ASSUME NEW e \in Event, IsStored(CartOf[e])',
                       IsStored(CartOf[e]) => seenAge[e] <= storeAge[CartOf[e]]
                PROVE  seenAge'[e] <= storeAge'[CartOf[e]]
    OBVIOUS
  <2>1. IsStored(CartOf[e]) /\ storeAge'[CartOf[e]] = storeAge[CartOf[e]] + 1
    BY <1>2, <1>5
  <2>2. seenAge[e] <= storeAge[CartOf[e]] /\ storeAge[CartOf[e]] <= STORE_TTL
    BY <2>1 DEF IsStored
  <2>3. seenAge[e] \in Int /\ storeAge[CartOf[e]] \in Int
    BY <1>2
  <2>4. IsSeen(e)
    BY <1>2, <2>2, <2>3 DEF IsSeen
  <2>. QED  BY <1>4, <2>1, <2>2, <2>3, <2>4
<1>8. \A e \in Event : Consented(e) => Consented(e)'
  BY <1>1 DEF Consented
<1>9. \A e \in Event : answer'[e] = "routed" => answer[e] = "routed"
  BY <1>1
<1>. QED  BY <1>1, <1>6, <1>7, <1>8, <1>9, QuietStep
(* A handler starts only on an event nobody has claimed: a claimed one is  *)
(* seen as long as its cart is stored.                                     *)
LEMMA StartKeeps ==
  ASSUME SettleInv, TypeInv', NEW e \in Event, NEW h \in Handler, StartSettling(e, h)
  PROVE  SettleInv'
<1>1. hpc[h] = "idle" /\ hpc' = [hpc EXCEPT ![h] = "read"] /\ hevent' = [hevent EXCEPT ![h] = e]
      /\ UNCHANGED <<chainVars, remembered, autoRepay, storeAge, sent, answer, hamount>>
      /\ seenAge' = [seenAge EXCEPT ![e] = 0]
  BY DEF StartSettling, MarkSeen
<1>2. ~IsSeen(e) /\ IsStored(CartOf[e]) /\ autoRepay[CartOf[e]] /\ sent[e] # "payment-failed"
  BY DEF StartSettling, NotToSettle
<1>3. sent[e] # "none" /\ sent[e] \in {"none", "payment-successful", "payment-failed"}
  BY DEF StartSettling, Call, SettleInv, TypeInv, HP2TypeOK
<1>4. hpc \in [Handler -> {"idle", "read", "send", "wait"}] /\ hevent \in [Handler -> Event \union {NoEvent}]
      /\ storeAge \in [Cart -> 0 .. NotStored] /\ seenAge \in [Event -> 0 .. NotSeen]
      /\ STORE_TTL \in Nat /\ DEDUP_TTL \in Nat /\ STORE_TTL <= DEDUP_TTL
      /\ \A f \in Event : CartOf[f] \in Cart
  BY HP2Assumption DEF SettleInv, TypeInv, HP2TypeOK
<1>5. CartOf[e] \in remembered
  BY <1>2, <1>4 DEF SettleInv, ConsentInv
<1>6. Consented(e)
  BY <1>2, <1>3, <1>5 DEF Consented
<1>7. ~Claimed(e)
  <2>1. ~(seenAge[e] <= storeAge[CartOf[e]])
    BY <1>2, <1>4 DEF IsSeen, IsStored
  <2>. QED  BY <1>2, <2>1 DEF SettleInv, OnceInv, ClaimedIsSeen
<1>8. Places' = Places /\ mempool' = mempool /\ taken' = taken /\ receipt' = receipt
  BY <1>1 DEF Places, chainVars
<1>9. \A g \in Handler : g # h => hpc'[g] = hpc[g] /\ hevent'[g] = hevent[g] /\ Busy(g)' = Busy(g)
  BY <1>1, <1>4 DEF Busy
<1>10. hpc'[h] = "read" /\ hevent'[h] = e /\ ~Busy(h)
  BY <1>1, <1>4 DEF Busy
<1>11. \A f \in Event : Consented(f)' = Consented(f)
  BY <1>1 DEF Consented
<1>12. \A c \in Cart : IsStored(c)' = IsStored(c)
  BY <1>1 DEF IsStored
<1>13. \A i \in Places : mempool[i].payment \in Event
  BY PoolTypes DEF SettleInv
<1>14. \A g \in Handler : Busy(g) => hevent[g] \in Event
  BY DEF SettleInv, TypeInv, HandlersHoldEvents, Busy
<1>15. ConsentInv'
  BY <1>1, <1>6, <1>8, <1>9, <1>10, <1>11, <1>12, <1>13, <1>14 DEF SettleInv, ConsentInv
<1>16. WaitInv'
  BY <1>1, <1>8, <1>9, <1>10 DEF SettleInv, WaitInv, RoutedPaymentIsTaken, Busy
<1>17. ClaimedIsSeen'
  <2>1. \A f \in Event : f # e /\ Claimed(f)' => Claimed(f)
    BY <1>8, <1>9, <1>10 DEF Claimed
  <2>2. \A f \in Event : f # e => seenAge'[f] = seenAge[f]
    BY <1>1, <1>4
  <2>3. seenAge'[e] = 0 /\ 0 <= storeAge'[CartOf[e]]
    BY <1>1, <1>4
  <2>. QED  BY <1>1, <1>5, <1>12, <1>4, <2>1, <2>2, <2>3 DEF SettleInv, OnceInv, ClaimedIsSeen
<1>18. taken[e] \in Nat
  BY HP2Assumption DEF SettleInv, TypeInv, HP2TypeOK, ChainTypeOK
<1>19. taken[e] = 0 /\ (\A i \in Places : mempool[i].payment # e)
       /\ \A g \in Handler : Busy(g) => hevent[g] # e
  BY <1>7, <1>18 DEF Claimed
<1>20. OnceInv'
  BY <1>1, <1>8, <1>9, <1>10, <1>17, <1>19 DEF SettleInv, OnceInv, EventTakenOnce, Busy
<1>. QED  BY <1>15, <1>16, <1>20 DEF SettleInv
(* A handler ends: nobody waits for it any more, and it answers "routed"   *)
(* only on a receipt of success.                                           *)
LEMMA FinishKeeps ==
  ASSUME SettleInv, TypeInv', NEW h \in Handler, Busy(h), NEW a \in Answer, Finish(h, a),
         taken' = taken, Relabelled(mempool'),
         \A i \in Places : mempool'[i].waiter # h,
         \A g \in Handler : receipt'[g] = IF g = h THEN "none" ELSE receipt[g],
         a = "routed" => receipt[h] = "success"
  PROVE  SettleInv'
<1>1. hpc' = [hpc EXCEPT ![h] = "idle"] /\ hevent' = [hevent EXCEPT ![h] = NoEvent]
      /\ hamount' = [hamount EXCEPT ![h] = 0] /\ answer' = [answer EXCEPT ![hevent[h]] = a]
      /\ UNCHANGED <<remembered, autoRepay, storeAge, seenAge, sent>>
  BY DEF Finish, Reply, appVars, gatewayVars
<1>2. hpc \in [Handler -> {"idle", "read", "send", "wait"}] /\ hevent \in [Handler -> Event \union {NoEvent}]
      /\ hamount \in [Handler -> Nat] /\ answer \in [Event -> Answer \union {"none"}]
  BY DEF SettleInv, TypeInv, HP2TypeOK
<1>3. Places' = Places
      /\ \A i \in Places : /\ mempool'[i].payment = mempool[i].payment
                           /\ mempool'[i].amount = mempool[i].amount
                           /\ mempool'[i].waiter \in {mempool[i].waiter, NoWaiter}
  BY DEF Relabelled, Places
<1>4. \A g \in Handler : g # h => /\ hpc'[g] = hpc[g] /\ hevent'[g] = hevent[g]
                                  /\ hamount'[g] = hamount[g] /\ Busy(g)' = Busy(g)
  BY <1>1, <1>2 DEF Busy
<1>5. hpc'[h] = "idle" /\ ~Busy(h)'
  BY <1>1, <1>2 DEF Busy
<1>6. \A e \in Event : Consented(e)' = Consented(e)
  BY <1>1 DEF Consented
<1>7. \A c \in Cart : IsStored(c)' = IsStored(c)
  BY <1>1 DEF IsStored
<1>8. \A i \in Places : mempool[i].payment \in Event
  BY PoolTypes DEF SettleInv
<1>9. \A g \in Handler : Busy(g) => hevent[g] \in Event
  BY DEF SettleInv, TypeInv, HandlersHoldEvents, Busy
<1>10. ConsentInv'
  BY <1>1, <1>3, <1>4, <1>5, <1>6, <1>7, <1>8, <1>9 DEF SettleInv, ConsentInv
<1>11. \A i \in Places, g \in Handler : mempool'[i].waiter = g => g # h /\ mempool[i].waiter = g
  BY <1>3, WaiterAssumption DEF Handler
<1>12. RoutedPaymentIsTaken'
  BY <1>1, <1>2 DEF SettleInv, WaitInv, RoutedPaymentIsTaken
<1>13. WaitInv'
  BY <1>3, <1>4, <1>5, <1>11, <1>12 DEF SettleInv, WaitInv
<1>14. \A e \in Event : Claimed(e)' => Claimed(e)
  BY <1>3, <1>4, <1>5 DEF Claimed
<1>15. ClaimedIsSeen'
  BY <1>1, <1>7, <1>14, HP2Assumption DEF SettleInv, OnceInv, ClaimedIsSeen
<1>16. OnceInv'
  BY <1>3, <1>4, <1>5, <1>15 DEF SettleInv, OnceInv, EventTakenOnce, Busy
<1>. QED  BY <1>10, <1>13, <1>16 DEF SettleInv

LEMMA SamePoolRelabels ==
  ASSUME TypeInv, mempool' = mempool
  PROVE  Relabelled(mempool')
BY PoolTypes DEF Relabelled, TypeInv, HP2TypeOK, ChainTypeOK, Places

LEMMA ReadDebtKeeps ==
  ASSUME SettleInv, TypeInv', NEW h \in Handler, ReadDebt(h)
  PROVE  SettleInv'
<1>1. hpc[h] = "read" /\ hpc' = [hpc EXCEPT ![h] = "send"]
      /\ hamount' = [hamount EXCEPT ![h] =
                       ApplyAmount(BorrowerOf[CartOf[hevent[h]]], AmountOf[CartOf[hevent[h]]])]
      /\ UNCHANGED <<hevent, remembered, autoRepay, storeAge, seenAge, sent, answer, chainVars>>
  BY DEF ReadDebt, appVars, gatewayVars
<1>2. hpc \in [Handler -> {"idle", "read", "send", "wait"}] /\ hamount \in [Handler -> Nat]
  BY DEF SettleInv, TypeInv, HP2TypeOK
<1>3. hevent[h] \in Event
  BY <1>1 DEF SettleInv, TypeInv, HandlersHoldEvents
<1>4. hamount'[h] <= AmountOf[CartOf[hevent[h]]]
  <2>1. CartOf[hevent[h]] \in Cart
    BY <1>3, HP2Assumption
  <2>. QED  BY <1>1, <1>2, <2>1, ApplyAmountBounds DEF SettleInv, TypeInv, HP2TypeOK, ChainTypeOK
<1>5. Places' = Places /\ mempool' = mempool /\ taken' = taken /\ receipt' = receipt
  BY <1>1 DEF Places, chainVars
<1>6. \A g \in Handler : Busy(g)' = Busy(g) /\ (g # h => hpc'[g] = hpc[g] /\ hamount'[g] = hamount[g])
  BY <1>1, <1>2 DEF Busy
<1>7. hpc'[h] = "send"
  BY <1>1, <1>2
<1>8. \A e \in Event : Consented(e)' = Consented(e)
  BY <1>1 DEF Consented
<1>9. \A c \in Cart : IsStored(c)' = IsStored(c)
  BY <1>1 DEF IsStored
<1>10. \A i \in Places : mempool[i].payment \in Event
  BY PoolTypes DEF SettleInv
<1>11. \A g \in Handler : Busy(g) => hevent[g] \in Event
  BY DEF SettleInv, TypeInv, HandlersHoldEvents, Busy
<1>12. ConsentInv'
  BY <1>1, <1>5, <1>6, <1>8, <1>9, <1>10, <1>11 DEF SettleInv, ConsentInv
<1>13. WaitInv'
  BY <1>1, <1>5, <1>6 DEF SettleInv, WaitInv, RoutedPaymentIsTaken
<1>14. \A e \in Event : Claimed(e)' => Claimed(e)
  BY <1>1, <1>5, <1>6 DEF Claimed
<1>15. ClaimedIsSeen'
  BY <1>1, <1>9, <1>14, HP2Assumption DEF SettleInv, OnceInv, ClaimedIsSeen
<1>16. OnceInv'
  BY <1>1, <1>4, <1>5, <1>6, <1>7, <1>15 DEF SettleInv, OnceInv, EventTakenOnce
<1>. QED  BY <1>12, <1>13, <1>16 DEF SettleInv
(* A handler sends: its event moves to the mempool, where it was not, and  *)
(* the handler waits for it or ends without its hash.                      *)
LEMMA SubmitKeeps ==
  ASSUME SettleInv, TypeInv', NEW h \in Handler, SendOnSaleReceived(h) \/ LoseHash(h)
  PROVE  SettleInv'
<1>1. PICK w \in {h, NoWaiter} : Submit(h, w) /\ (w = h <=> SendOnSaleReceived(h))
  <2>1. CASE SendOnSaleReceived(h)
    BY <2>1 DEF SendOnSaleReceived
  <2>2. CASE LoseHash(h) /\ ~SendOnSaleReceived(h)
    <3>1. NoWaiter # h
      BY WaiterAssumption DEF Handler
    <3>. QED  BY <2>2, <3>1 DEF LoseHash
  <2>. QED  BY <2>1, <2>2
<1>2. hpc[h] = "send" /\ UNCHANGED <<taken, receipt>>
  BY <1>1 DEF Submit
<1>3. PICK e \in Event : e = hevent[h]
  BY <1>2 DEF SettleInv, TypeInv, HandlersHoldEvents
<1>3a. PICK n \in Nat : n = Len(mempool) + 1
  BY PoolTypes DEF SettleInv
<1>4. hpc \in [Handler -> {"idle", "read", "send", "wait"}] /\ hevent \in [Handler -> Event \union {NoEvent}]
      /\ hamount \in [Handler -> Nat] /\ answer \in [Event -> Answer \union {"none"}]
  BY DEF SettleInv, TypeInv, HP2TypeOK
<1>5. Len(mempool') = n /\ (\A i \in Places : mempool'[i] = mempool[i])
      /\ mempool'[n].payment = e /\ mempool'[n].amount = hamount[h] /\ mempool'[n].waiter = w
  BY <1>1, <1>3, <1>3a, SubmitTypes DEF SettleInv, TypeInv, Places, Handler
<1>6. Places' = Places \union {n} /\ n \notin Places /\ Len(mempool) \in Nat
  BY <1>5, <1>3a, PoolTypes DEF SettleInv, Places
<1>7. UNCHANGED <<remembered, autoRepay, storeAge, seenAge, sent>>
  BY DEF SendOnSaleReceived, LoseHash, Finish, appVars, gatewayVars
<1>8. \A g \in Handler : g # h => /\ hpc'[g] = hpc[g] /\ hevent'[g] = hevent[g]
                                  /\ hamount'[g] = hamount[g] /\ Busy(g)' = Busy(g)
  BY <1>4 DEF SendOnSaleReceived, LoseHash, Finish, Busy
<1>9. hpc'[h] \in {"wait", "idle"} /\ (w = h => hpc'[h] = "wait" /\ hevent'[h] = e)
  BY <1>1, <1>3, <1>4 DEF SendOnSaleReceived, LoseHash, Finish
<1>10. Busy(h)' => hevent'[h] = e
  BY <1>3, <1>4 DEF Busy, SendOnSaleReceived, LoseHash, Finish
<1>11. \A f \in Event : answer'[f] = "routed" => answer[f] = "routed"
  BY <1>3, <1>4 DEF SendOnSaleReceived, LoseHash, Finish, Reply
<1>12. Consented(e) /\ \A f \in Event : Consented(f)' = Consented(f)
  BY <1>2, <1>3, <1>7 DEF Consented, SettleInv, ConsentInv, Busy
<1>13. \A c \in Cart : IsStored(c)' = IsStored(c)
  BY <1>7 DEF IsStored
<1>14. \A i \in Places : mempool[i].payment \in Event
  BY PoolTypes DEF SettleInv
<1>15. \A g \in Handler : Busy(g) => hevent[g] \in Event
  BY DEF SettleInv, TypeInv, HandlersHoldEvents, Busy
<1>16. taken[e] = 0 /\ (\A i \in Places : mempool[i].payment # e)
       /\ hamount[h] <= AmountOf[CartOf[e]] /\ receipt[h] = "none" /\ Busy(h)
  BY <1>2, <1>3 DEF SettleInv, OnceInv, WaitInv, Busy
<1>17. ConsentInv'
  <2>1. (\A g \in Handler : Busy(g) => Consented(hevent[g]))'
    BY <1>3, <1>8, <1>10, <1>12, <1>15 DEF SettleInv, ConsentInv
  <2>2. (\A i \in Places : Consented(mempool[i].payment))'
    BY <1>3, <1>5, <1>6, <1>12, <1>14 DEF SettleInv, ConsentInv
  <2>. QED  BY <1>2, <1>7, <1>12, <1>13, <2>1, <2>2 DEF SettleInv, ConsentInv
<1>18. WaitInv'
  <2>1. \A i \in Places, g \in Handler : mempool[i].waiter = g => g # h
    BY <1>2 DEF SettleInv, WaitInv
  <2>2. \A g \in Handler : w = g => g = h
    BY WaiterAssumption DEF Handler
  <2>3. \A i \in Places', g \in Handler : mempool'[i].waiter = g =>
          hpc'[g] = "wait" /\ receipt'[g] = "none" /\ mempool'[i].payment = hevent'[g]
    BY <1>2, <1>5, <1>6, <1>8, <1>9, <1>16, <2>1, <2>2 DEF SettleInv, WaitInv
  <2>4. RoutedPaymentIsTaken'
    BY <1>2, <1>11 DEF SettleInv, WaitInv, RoutedPaymentIsTaken
  <2>5. \A g \in Handler : receipt'[g] # "none" => g # h
    BY <1>2, <1>16
  <2>. QED  BY <1>2, <1>8, <2>3, <2>4, <2>5 DEF SettleInv, WaitInv
<1>19. \A f \in Event : Claimed(f)' => Claimed(f)
  BY <1>2, <1>3, <1>5, <1>6, <1>8, <1>10, <1>16 DEF Claimed
<1>20. ClaimedIsSeen'
  BY <1>7, <1>13, <1>19, HP2Assumption DEF SettleInv, OnceInv, ClaimedIsSeen
<1>21. \A g, k \in Handler : g # k /\ Busy(g)' /\ Busy(k)' => hevent'[g] # hevent'[k]
  BY <1>3, <1>8, <1>10, <1>16 DEF SettleInv, OnceInv
<1>22. \A g \in Handler : hpc'[g] \in {"read", "send"} =>
         /\ g # h /\ taken'[hevent'[g]] = 0
         /\ \A i \in Places' : mempool'[i].payment # hevent'[g]
  <2>1. \A g \in Handler : g # h /\ Busy(g) => hevent[g] # e
    BY <1>3, <1>16 DEF SettleInv, OnceInv
  <2>. QED  BY <1>2, <1>5, <1>6, <1>8, <1>9, <2>1 DEF SettleInv, OnceInv, Busy
<1>23. OnceInv'
  <2>1. \A i, j \in Places' : i # j => mempool'[i].payment # mempool'[j].payment
    BY <1>5, <1>6, <1>16 DEF SettleInv, OnceInv
  <2>2. \A i \in Places' : /\ taken'[mempool'[i].payment] = 0
                           /\ mempool'[i].amount <= AmountOf[CartOf[mempool'[i].payment]]
    BY <1>2, <1>5, <1>6, <1>16 DEF SettleInv, OnceInv
  <2>3. \A g \in Handler : hpc'[g] = "send" => hamount'[g] <= AmountOf[CartOf[hevent'[g]]]
    BY <1>8, <1>9 DEF SettleInv, OnceInv
  <2>. QED  BY <1>2, <1>20, <1>21, <1>22, <2>1, <2>2, <2>3 DEF SettleInv, OnceInv, EventTakenOnce
<1>. QED  BY <1>17, <1>18, <1>23 DEF SettleInv

(* After a restart no handler is busy and no cart is stored. *)
LEMMA RestartKeeps ==
  ASSUME SettleInv, TypeInv', Restart
  PROVE  SettleInv'
<1>1. UNCHANGED <<remembered, autoRepay, sent, answer, taken>> /\ mempool' = AllAbandoned
      /\ \A h \in Handler : hpc'[h] = "idle" /\ receipt'[h] = "none"
  BY DEF Restart
<1>2. \A c \in Cart : ~IsStored(c)'
  BY HP2Assumption DEF Restart, IsStored, NotStored
<1>3. mempool \in Seq(Tx)
  BY DEF SettleInv, TypeInv, HP2TypeOK, ChainTypeOK
<1>4. Places' = Places
      /\ \A i \in Places : /\ mempool'[i].payment = mempool[i].payment
                           /\ mempool'[i].amount = mempool[i].amount
                           /\ mempool'[i].waiter = NoWaiter
  BY <1>1, <1>3, RestartRelabels DEF Relabelled, Places
<1>5. \A e \in Event : Consented(e)' = Consented(e)
  BY <1>1 DEF Consented
<1>6. \A i \in Places : mempool[i].payment \in Event
  BY PoolTypes DEF SettleInv
<1>7. ConsentInv'
  BY <1>1, <1>2, <1>4, <1>5, <1>6 DEF SettleInv, ConsentInv, Busy
<1>8. WaitInv'
  BY <1>1, <1>4, WaiterAssumption DEF SettleInv, WaitInv, RoutedPaymentIsTaken, Handler
<1>9. \A e \in Event : Claimed(e)' => Claimed(e)
  BY <1>1, <1>4 DEF Claimed, Busy
<1>10. ClaimedIsSeen'
  BY <1>1, <1>2, <1>9, HP2Assumption DEF SettleInv, OnceInv, ClaimedIsSeen
<1>11. OnceInv'
  BY <1>1, <1>4, <1>10 DEF SettleInv, OnceInv, EventTakenOnce, Busy
<1>. QED  BY <1>7, <1>8, <1>11 DEF SettleInv
(* The oldest transaction is mined: its event, taken for nothing so far,   *)
(* is taken for at most its amount, and leaves the mempool for good.       *)
LEMMA MineKeeps ==
  ASSUME SettleInv, TypeInv', Mine,
         UNCHANGED <<appVars, handlerVars, gatewayVars, acked, restarts, answer>>
  PROVE  SettleInv'
<1>1. PICK tx \in Tx : tx = Head(mempool) /\ tx = mempool[1] /\ 1 \in Places
  <2>1. mempool # <<>> /\ mempool \in Seq(Tx)
    BY DEF Mine, SettleInv, TypeInv, HP2TypeOK, ChainTypeOK
  <2>. QED  BY <2>1 DEF Places
<1>2. mempool' = Tail(mempool) /\ taken' = [taken EXCEPT ![tx.payment] = @ + Applied(tx)]
      /\ receipt' = IF tx.waiter = NoWaiter THEN receipt
                    ELSE [receipt EXCEPT ![tx.waiter] =
                            IF WouldAccept(tx.borrower) THEN "success" ELSE "reverted"]
  BY <1>1 DEF Mine
<1>3. UNCHANGED <<hpc, hevent, hamount, remembered, autoRepay, storeAge, seenAge, sent, answer>>
  BY DEF appVars, handlerVars, gatewayVars
<1>4. PICK e \in Event : e = tx.payment
  BY <1>1, HP2Assumption DEF Tx
<1>5. PICK a \in Nat : a = Applied(tx) /\ a <= tx.amount /\ (WouldAccept(tx.borrower) => a > 0)
  BY AppliedBounds DEF SettleInv, TypeInv, HP2TypeOK, ChainTypeOK
<1>6. taken \in [Event -> Nat] /\ receipt \in [Handler -> {"none", "success", "reverted"}]
      /\ tx.amount \in Nat /\ AmountOf[CartOf[e]] \in Nat
  <2>1. tx.amount \in Nat
    BY <1>1 DEF Tx
  <2>2. AmountOf[CartOf[e]] \in Nat
    BY <1>4, HP2Assumption
  <2>3. ChainTypeOK
    BY DEF SettleInv, TypeInv, HP2TypeOK
  <2>4. taken \in [Event -> Nat]
    BY <2>3, HP2Assumption DEF ChainTypeOK
  <2>5. receipt \in [Handler -> {"none", "success", "reverted"}]
    BY <2>3 DEF ChainTypeOK, Handler
  <2>. QED  BY <2>1, <2>2, <2>4, <2>5
<1>7. taken'[e] = taken[e] + a /\ \A f \in Event : f # e => taken'[f] = taken[f]
  BY <1>2, <1>4, <1>5, <1>6
<1>8. \A i \in Places' : /\ i + 1 \in Places /\ i + 1 # 1 /\ i \in Nat
                         /\ mempool'[i] = mempool[i + 1]
  <2>1. mempool \in Seq(Tx) /\ mempool # <<>>
    BY DEF Mine, SettleInv, TypeInv, HP2TypeOK, ChainTypeOK
  <2>. QED  BY <1>2, <2>1 DEF Places
<1>9. \A i \in Places : mempool[i].payment \in Event
  BY PoolTypes DEF SettleInv
<1>10. \A g \in Handler : Busy(g)' = Busy(g) /\ (Busy(g) => hevent[g] \in Event)
  BY <1>3 DEF SettleInv, TypeInv, HandlersHoldEvents, Busy
<1>11. taken[e] = 0 /\ tx.amount <= AmountOf[CartOf[e]] /\ Consented(e)
       /\ \A i \in Places' : mempool'[i].payment # e
  BY <1>1, <1>4, <1>8 DEF SettleInv, OnceInv, ConsentInv
<1>12. \A f \in Event : Consented(f)' = Consented(f)
  BY <1>3 DEF Consented
<1>13. \A c \in Cart : IsStored(c)' = IsStored(c)
  BY <1>3 DEF IsStored
<1>14. ConsentInv'
  <2>1. (\A i \in Places : Consented(mempool[i].payment))'
    BY <1>8, <1>9, <1>12 DEF SettleInv, ConsentInv
  <2>2. \A f \in Event : taken'[f] > 0 => Consented(f)'
    BY <1>7, <1>11, <1>12 DEF SettleInv, ConsentInv
  <2>. QED  BY <1>3, <1>10, <1>12, <1>13, <2>1, <2>2 DEF SettleInv, ConsentInv
<1>15. \A g \in Handler : receipt'[g] # receipt[g] => g = tx.waiter
  BY <1>2, <1>6
<1>16. \A g \in Handler : g = tx.waiter => hpc[g] = "wait" /\ hevent[g] = e /\ receipt[g] = "none"
  BY <1>1, <1>4 DEF SettleInv, WaitInv
<1>17. \A g \in Handler : receipt'[g] = "success" /\ receipt[g] # "success" => a > 0
  BY <1>2, <1>5, <1>6
<1>18. \A f \in Event : taken[f] <= taken'[f]
  BY <1>6, <1>7
<1>19. WaitInv'
  <2>1. \A g \in Handler : receipt'[g] # "none" => hpc'[g] = "wait"
    BY <1>3, <1>15, <1>16 DEF SettleInv, WaitInv
  <2>2. \A g \in Handler : receipt'[g] = "success" => taken'[hevent'[g]] > 0
    <3>. SUFFICES ASSUME NEW g \in Handler, receipt'[g] = "success" PROVE taken'[hevent[g]] > 0
      BY <1>3
    <3>1. CASE receipt[g] = "success"
      <4>1. hevent[g] \in Event
        BY <1>10, <3>1 DEF SettleInv, WaitInv, Busy
      <4>2. taken[hevent[g]] > 0
        BY <3>1 DEF SettleInv, WaitInv
      <4>3. taken[hevent[g]] \in Nat /\ taken'[hevent[g]] \in Nat
        BY <1>5, <1>6, <1>7, <4>1
      <4>. QED  BY <1>18, <4>1, <4>2, <4>3
    <3>2. CASE receipt[g] # "success"
      BY <1>5, <1>6, <1>7, <1>15, <1>16, <1>17, <3>2
    <3>. QED  BY <3>1, <3>2
  <2>3. \A i \in Places', g \in Handler : mempool'[i].waiter = g => g # tx.waiter
    BY <1>8, <1>11, <1>16 DEF SettleInv, WaitInv
  <2>4. \A i \in Places', g \in Handler : mempool'[i].waiter = g =>
          hpc'[g] = "wait" /\ receipt'[g] = "none" /\ mempool'[i].payment = hevent'[g]
    BY <1>3, <1>8, <1>15, <2>3 DEF SettleInv, WaitInv
  <2>5. RoutedPaymentIsTaken'
    <3>. SUFFICES ASSUME NEW f \in Event, answer'[f] = "routed" PROVE taken'[f] > 0
      BY DEF RoutedPaymentIsTaken
    <3>1. taken[f] > 0 /\ taken[f] \in Nat /\ taken'[f] \in Nat
      BY <1>3, <1>5, <1>6, <1>7 DEF SettleInv, WaitInv, RoutedPaymentIsTaken
    <3>. QED  BY <1>18, <3>1
  <2>. QED  BY <2>1, <2>2, <2>4, <2>5 DEF WaitInv
<1>20. \A f \in Event : Claimed(f)' => Claimed(f)
  <2>1. Claimed(e)
    BY <1>1, <1>4 DEF Claimed
  <2>. QED  BY <1>3, <1>7, <1>8, <1>10, <2>1 DEF Claimed
<1>21. ClaimedIsSeen'
  BY <1>3, <1>13, <1>20, HP2Assumption DEF SettleInv, OnceInv, ClaimedIsSeen
<1>22. OnceInv'
  <2>1. \A g \in Handler : hpc[g] \in {"read", "send"} => hevent[g] # e
    BY <1>1, <1>4 DEF SettleInv, OnceInv
  <2>2. \A g \in Handler : hpc'[g] \in {"read", "send"} =>
          taken'[hevent'[g]] = 0 /\ \A i \in Places' : mempool'[i].payment # hevent'[g]
    BY <1>3, <1>7, <1>8, <1>10, <2>1 DEF SettleInv, OnceInv, Busy
  <2>3. \A i, j \in Places' : i # j => mempool'[i].payment # mempool'[j].payment
    BY <1>8 DEF SettleInv, OnceInv
  <2>4. \A i \in Places' : /\ taken'[mempool'[i].payment] = 0
                           /\ mempool'[i].amount <= AmountOf[CartOf[mempool'[i].payment]]
    BY <1>7, <1>8, <1>9, <1>11 DEF SettleInv, OnceInv
  <2>5. EventTakenOnce'
    <3>1. taken'[e] <= AmountOf[CartOf[e]]
      BY <1>5, <1>6, <1>7, <1>11
    <3>. QED  BY <1>7, <3>1 DEF SettleInv, OnceInv, EventTakenOnce
  <2>. QED  BY <1>3, <1>10, <1>21, <2>2, <2>3, <2>4, <2>5 DEF SettleInv, OnceInv
<1>. QED  BY <1>14, <1>19, <1>22 DEF SettleInv

(* Nothing in the invariant depends on the debts or on the line. *)
LEMMA ChainQuiet ==
  ASSUME SettleInv, TypeInv', LineTurns \/ \E m \in Debtor : DebtMoves(m),
         UNCHANGED <<appVars, handlerVars, gatewayVars, acked, restarts, answer>>
  PROVE  SettleInv'
<1>1. UNCHANGED <<hpc, hevent, hamount, remembered, autoRepay, storeAge, seenAge, sent, answer,
                  mempool, receipt, taken>>
  BY DEF LineTurns, DebtMoves, appVars, handlerVars, gatewayVars
<1>2. ConsentInv'
  BY <1>1 DEF SettleInv, ConsentInv, Consented, Busy, Places, IsStored
<1>3. WaitInv'
  BY <1>1 DEF SettleInv, WaitInv, RoutedPaymentIsTaken, Places
<1>4. OnceInv'
  BY <1>1 DEF SettleInv, OnceInv, ClaimedIsSeen, Claimed, EventTakenOnce, Busy, Places, IsStored
<1>. QED  BY <1>2, <1>3, <1>4 DEF SettleInv
(* A handler that ends before it sends had no receipt and no transaction. *)
LEMMA UnsentFinishKeeps ==
  ASSUME SettleInv, TypeInv', NEW h \in Handler, hpc[h] \in {"read", "send"},
         NEW a \in Answer \ {"routed"}, Finish(h, a), UNCHANGED chainVars
  PROVE  SettleInv'
<1>1. Busy(h) /\ UNCHANGED <<mempool, taken, receipt>>
  BY DEF Busy, chainVars
<1>2. receipt[h] = "none" /\ \A i \in Places : mempool[i].waiter # h
  BY DEF SettleInv, WaitInv
<1>3. Relabelled(mempool')
  BY <1>1, SamePoolRelabels DEF SettleInv
<1>4. \A i \in Places : mempool'[i].waiter # h
  BY <1>1, <1>2
<1>5. \A g \in Handler : receipt'[g] = IF g = h THEN "none" ELSE receipt[g]
  BY <1>1, <1>2
<1>. QED  BY <1>1, <1>3, <1>4, <1>5, FinishKeeps

(* A handler stops waiting, with a receipt or without one. *)
LEMMA WaitedFinishKeeps ==
  ASSUME SettleInv, TypeInv', NEW h \in Handler, TimeOut(h) \/ Settled(h)
  PROVE  SettleInv'
<1>1. Busy(h) /\ taken' = taken /\ NoReceipt(h)
  BY DEF Busy, TimeOut, Settled
<1>2. mempool \in Seq(Tx) /\ receipt \in [Handler -> {"none", "success", "reverted"}]
  BY DEF SettleInv, TypeInv, HP2TypeOK, ChainTypeOK, Handler
<1>3. \A g \in Handler : receipt'[g] = IF g = h THEN "none" ELSE receipt[g]
  BY <1>1, <1>2 DEF NoReceipt
<1>4. "routed" \in Answer /\ "settlement_failed" \in Answer
  BY DEF Answer, TwoHundred
<1>5. CASE TimeOut(h)
  <2>1. Relabelled(mempool') /\ \A i \in Places : mempool'[i].waiter # h
    BY <1>2, <1>5, AbandonedRelabels DEF TimeOut, Places, Handler
  <2>2. Finish(h, "settlement_failed")
    BY <1>5 DEF TimeOut
  <2>. QED  BY <1>1, <1>3, <1>4, <2>1, <2>2, FinishKeeps
<1>6. CASE Settled(h)
  <2>1. mempool' = mempool /\ receipt[h] # "none"
    BY <1>6 DEF Settled
  <2>2. Relabelled(mempool')
    BY <2>1, SamePoolRelabels DEF SettleInv
  <2>3. \A i \in Places : mempool'[i].waiter # h
    BY <2>1 DEF SettleInv, WaitInv
  <2>4. PICK a \in Answer : Finish(h, a) /\ (a = "routed" => receipt[h] = "success")
    BY <1>4, <1>6 DEF Settled
  <2>. QED  BY <1>1, <1>3, <2>2, <2>3, <2>4, FinishKeeps
<1>. QED  BY <1>5, <1>6

LEMMA HandlerKeeps ==
  ASSUME SettleInv, NEW h \in Handler, HandlerNext(h)
  PROVE  SettleInv'
<1>1. TypeInv'
  BY HandlerTypes DEF SettleInv
<1>2. "no_outstanding_debt" \in Answer \ {"routed"} /\ "settlement_failed" \in Answer \ {"routed"}
  BY DEF Answer, TwoHundred
<1>3. CASE ReadNoDebt(h)
  BY <1>1, <1>2, <1>3, UnsentFinishKeeps DEF ReadNoDebt
<1>4. CASE FailBeforeSending(h)
  BY <1>1, <1>2, <1>4, UnsentFinishKeeps DEF FailBeforeSending
<1>5. CASE ReadDebt(h)
  BY <1>1, <1>5, ReadDebtKeeps
<1>6. CASE SendOnSaleReceived(h) \/ LoseHash(h)
  BY <1>1, <1>6, SubmitKeeps
<1>7. CASE TimeOut(h) \/ Settled(h)
  BY <1>1, <1>7, WaitedFinishKeeps
<1>. QED  BY <1>3, <1>4, <1>5, <1>6, <1>7 DEF HandlerNext

LEMMA SettleStep ==
  ASSUME SettleInv, [HP2Next]_hp2Vars
  PROVE  SettleInv'
<1>1. TypeInv'
  BY TypeStep DEF SettleInv
<1>2. ASSUME NEW c \in Cart, \/ StoreCart(c)
                             \/ \E auto \in BOOLEAN : RememberCart(c, auto)
                             \/ \E s \in {"payment-successful", "payment-failed"} : Pay(c, s)
      PROVE  SettleInv'
  BY <1>1, <1>2, GatewayQuiet
<1>3. ASSUME NEW e \in Event, WebhookNext(e) PROVE SettleInv'
  <2>1. CASE \E h \in Handler : StartSettling(e, h)
    BY <1>1, <2>1, StartKeeps
  <2>2. CASE AnswerWithoutSecret(e) \/ RefuseCall(e) \/ Deduplicate(e) \/ AnswerAtOnce(e)
    BY <2>2, WebhookQuiet
  <2>. QED  BY <1>3, <2>1, <2>2 DEF WebhookNext
<1>4. ASSUME NEW h \in Handler, HandlerNext(h) PROVE SettleInv'
  BY <1>4, HandlerKeeps
<1>5. CASE Age
  BY <1>1, <1>5, AgeQuiet
<1>6. CASE Restart
  BY <1>1, <1>6, RestartKeeps
<1>7. CASE ChainNext /\ UNCHANGED <<appVars, handlerVars, gatewayVars, acked, restarts, answer>>
  BY <1>1, <1>7, MineKeeps, ChainQuiet DEF ChainNext
<1>8. CASE UNCHANGED hp2Vars
  <2>1. UNCHANGED <<handlerVars, chainVars, remembered, autoRepay, storeAge, seenAge, sent, answer>>
    BY <1>8 DEF hp2Vars, appVars, gatewayVars
  <2>2. \A e \in Event : Consented(e) => Consented(e)'
    BY <2>1 DEF Consented
  <2>3. \A c \in Cart : IsStored(c)' => c \in remembered'
    BY <2>1 DEF IsStored, SettleInv, ConsentInv
  <2>4. \A e \in Event : CartOf[e] \in remembered /\ IsStored(CartOf[e])'
          /\ (IsStored(CartOf[e]) => seenAge[e] <= storeAge[CartOf[e]])
          => seenAge'[e] <= storeAge'[CartOf[e]]
    BY <2>1 DEF IsStored
  <2>5. \A e \in Event : answer'[e] = "routed" => answer[e] = "routed"
    BY <2>1
  <2>. QED  BY <1>1, <2>1, <2>2, <2>3, <2>4, <2>5, QuietStep
<1>. QED  BY <1>2, <1>3, <1>4, <1>5, <1>6, <1>7, <1>8 DEF HP2Next

LEMMA SettleInit == HP2Init => SettleInv
<1>. SUFFICES ASSUME HP2Init PROVE SettleInv
  OBVIOUS
<1>1. TypeInv
  BY TypeInit
<1>2. /\ \A c \in Cart : ~IsStored(c)
      /\ \A h \in Handler : ~Busy(h) /\ hpc[h] = "idle" /\ receipt[h] = "none"
      /\ \A e \in Event : taken[e] = 0 /\ answer[e] = "none"
      /\ Places = {}
  BY HP2Assumption DEF HP2Init, ChainInit, IsStored, NotStored, Busy, Places, Handler
<1>3. \A e \in Event : AmountOf[CartOf[e]] \in Nat /\ ~Claimed(e)
  BY <1>2, HP2Assumption DEF Claimed
<1>. QED  BY <1>1, <1>2, <1>3
          DEF SettleInv, ConsentInv, WaitInv, OnceInv, ClaimedIsSeen, RoutedPaymentIsTaken,
              EventTakenOnce

(* However often the gateway calls and whatever restarts, timeouts and     *)
(* expired entries come between, one event costs the borrower at most its  *)
(* cart's amount: the webhook's dedupe, for any number of carts, events,   *)
(* handlers and retries, as long as DEDUP_TTL_MS is not below TTL_MS.      *)
THEOREM EventsTakenOnce == HP2Spec => []EventTakenOnce
<1>1. HP2Spec => []SettleInv
  BY SettleInit, SettleStep, PTL DEF HP2Spec
<1>2. SettleInv => EventTakenOnce
  BY DEF SettleInv, OnceInv
<1>. QED  BY <1>1, <1>2, PTL

(* The webhook routes to the chain only successful payments of carts whose *)
(* borrower asked for auto-repay when it created the link.                 *)
THEOREM ConsentIsKept == HP2Spec => []OnlyConsentedPaymentsSettle
<1>1. HP2Spec => []SettleInv
  BY SettleInit, SettleStep, PTL DEF HP2Spec
<1>2. SettleInv => OnlyConsentedPaymentsSettle
  BY DEF SettleInv, ConsentInv, Consented, OnlyConsentedPaymentsSettle
<1>. QED  BY <1>1, <1>2, PTL

(* The webhook's "routed" is about a transaction the chain took, whichever *)
(* of the sender's transactions were mined before it.                      *)
THEOREM RoutedWasTaken == HP2Spec => []RoutedPaymentIsTaken
<1>1. HP2Spec => []SettleInv
  BY SettleInit, SettleStep, PTL DEF HP2Spec
<1>2. SettleInv => RoutedPaymentIsTaken
  BY DEF SettleInv, WaitInv
<1>. QED  BY <1>1, <1>2, PTL

---------------------------------------------------------------------------
(* Checkout. *)

PanelTypeOK ==
  /\ creating \in {"idle", "asked", "stored", "answered"}
  /\ wanted \in Cart \union {NoCart}
  /\ link \in Cart \union {NoCart}
  /\ poll \in {"idle", "polling"} \union Final
  /\ ticks \subseteq Tick
  /\ shown \subseteq Cart

(* A status a payment of the cart had. *)
IsPaid(c, status) == \E e \in Event : CartOf[e] = c /\ sent[e] = status

(* While a link is being made, no other is polled; what is made was        *)
(* stored, and what is answered was remembered.                            *)
CreateInv ==
  /\ creating # "idle" => poll = "idle"
  /\ creating \in {"stored", "answered"} => wanted \in Cart
  /\ creating = "answered" => wanted \in remembered

(* The polls that count are of the link that is polled, and the statuses   *)
(* they bring are of payments.                                             *)
PollInv ==
  /\ poll = "polling" => link \in Cart
  /\ \A t \in ticks : t.live => poll = "polling" /\ t.cart = link
  /\ \A c \in Cart : cartStatus[c] \in Final => IsPaid(c, cartStatus[c])
  /\ \A t \in ticks : t.status \in Final => IsPaid(t.cart, t.status)
  /\ CompleteIsOfThisLink

(* What is paid was shown, and what was shown is known. *)
KnownInv ==
  /\ shown \subseteq remembered
  /\ \A e \in Event : sent[e] # "none" => CartOf[e] \in shown
  /\ UnknownWasRemembered

CheckoutInv == TypeInv /\ PanelTypeOK /\ CreateInv /\ PollInv /\ KnownInv

(* A step of Checkout is a step of HP2Settlement, or none of it. *)
LEMMA CheckoutStepIsHP2 ==
  ASSUME CreateInv, [CheckoutNext]_checkoutVars
  PROVE  [HP2Next]_hp2Vars
<1>1. CASE UNCHANGED hp2Vars
  BY <1>1
<1>2. CASE ClickCreate \/ CreateFails \/ ShowLink \/ SendTick
  BY <1>2 DEF ClickCreate, CreateFails, ShowLink, SendTick
<1>3. ASSUME NEW c \in Cart, GatewayStores(c) PROVE HP2Next
  BY <1>3 DEF GatewayStores, HP2Next
<1>4. ASSUME NEW auto \in BOOLEAN, RouteRemembers(auto) PROVE HP2Next
  BY <1>4 DEF RouteRemembers, CreateInv, HP2Next
<1>5. ASSUME NEW t \in ticks, AnswerTick(t) \/ LoseTick(t) \/ HearTick(t) PROVE UNCHANGED hp2Vars
  BY <1>5 DEF AnswerTick, LoseTick, HearTick
<1>6. ASSUME NEW c \in Cart, NEW s \in Final, CustomerPays(c, s) PROVE HP2Next
  BY <1>6 DEF CustomerPays, Final, HP2Next
<1>7. CASE ServerNext
  BY <1>7 DEF ServerNext, HP2Next
<1>8. CASE ProcessRestarts
  BY <1>8 DEF ProcessRestarts, HP2Next
<1>9. CASE UNCHANGED checkoutVars
  BY <1>9 DEF checkoutVars
<1>. QED  BY <1>2, <1>3, <1>4, <1>5, <1>6, <1>7, <1>8, <1>9 DEF CheckoutNext

LEMMA FinalStatuses ==
  /\ Final = {"payment-successful", "payment-failed"}
  /\ "payment-required" \notin Final /\ "none" \notin Final /\ "gone" \notin Final
  /\ "idle" \notin Final /\ "polling" \notin Final
  BY DEF Final

(* Cancelling changes nothing of a poll but that nobody waits for it.      *)
LEMMA CancelledTicks ==
  ASSUME NEW ts \in SUBSET Tick
  PROVE  /\ Cancelled(ts) \subseteq Tick
         /\ \A t \in Cancelled(ts) :
              ~t.live /\ \E u \in ts : t.cart = u.cart /\ t.status = u.status
<1>. SUFFICES ASSUME NEW t \in Cancelled(ts)
              PROVE  /\ t \in Tick /\ ~t.live
                     /\ \E u \in ts : t.cart = u.cart /\ t.status = u.status
  OBVIOUS
<1>1. PICK u \in ts : t = [u EXCEPT !.live = FALSE]
  BY DEF Cancelled
<1>2. u \in Tick
  OBVIOUS
<1>3. /\ t \in Tick /\ t.live = FALSE /\ t.cart = u.cart /\ t.status = u.status
  BY <1>1, <1>2 DEF Tick
<1>. QED  BY <1>3

(* A poll answered with a status. *)
LEMMA AnsweredTick ==
  ASSUME NEW t \in Tick, NEW s \in Final \union {"payment-required"}
  PROVE  LET u == [t EXCEPT !.status = s] IN
         u \in Tick /\ u.cart = t.cart /\ u.live = t.live /\ u.status = s
  BY DEF Tick

LEMMA PanelTypeStep ==
  ASSUME CheckoutInv, CheckoutNext
  PROVE  PanelTypeOK'
<1>. USE DEF PanelTypeOK
<1>1. PanelTypeOK /\ HP2TypeOK
  BY DEF CheckoutInv, TypeInv
<1>2. CASE ClickCreate
  <2>1. ticks' \subseteq Tick
    BY <1>1, <1>2, CancelledTicks DEF ClickCreate
  <2>. QED  BY <1>1, <1>2, <2>1 DEF ClickCreate
<1>3. CASE CreateFails
  BY <1>1, <1>3 DEF CreateFails
<1>4. CASE ShowLink
  BY <1>1, <1>4 DEF ShowLink, CheckoutInv, CreateInv
<1>5. ASSUME NEW c \in Cart, GatewayStores(c) PROVE PanelTypeOK'
  BY <1>1, <1>5 DEF GatewayStores
<1>6. ASSUME NEW auto \in BOOLEAN, RouteRemembers(auto) PROVE PanelTypeOK'
  BY <1>1, <1>6 DEF RouteRemembers
<1>7. CASE SendTick
  <2>1. link \in Cart
    BY <1>7 DEF SendTick, CheckoutInv, PollInv
  <2>2. [cart |-> link, live |-> TRUE, status |-> "none"] \in Tick
    BY <2>1 DEF Tick
  <2>. QED  BY <1>1, <1>7, <2>2 DEF SendTick
<1>8. ASSUME NEW t \in ticks, AnswerTick(t) PROVE PanelTypeOK'
  <2>1. t \in Tick
    BY <1>1
  <2>2. t.cart \in Cart
    BY <2>1 DEF Tick
  <2>3. cartStatus[t.cart] \in Final \union {"payment-required"}
    BY <1>1, <1>8, <2>2 DEF AnswerTick, IsRecorded, HP2TypeOK, Final
  <2>4. [t EXCEPT !.status = cartStatus[t.cart]] \in Tick
    BY <2>1, <2>3, AnsweredTick
  <2>. QED  BY <1>1, <1>8, <2>4 DEF AnswerTick
<1>9. ASSUME NEW t \in ticks, LoseTick(t) PROVE PanelTypeOK'
  BY <1>1, <1>9 DEF LoseTick
<1>10. ASSUME NEW t \in ticks, HearTick(t) PROVE PanelTypeOK'
  <2>1. ticks \ {t} \subseteq Tick
    BY <1>1
  <2>2. Cancelled(ticks \ {t}) \subseteq Tick
    BY <2>1, CancelledTicks
  <2>. QED  BY <1>1, <1>10, <2>1, <2>2 DEF HearTick
<1>11. ASSUME NEW c \in Cart, NEW s \in Final, CustomerPays(c, s) PROVE PanelTypeOK'
  BY <1>1, <1>11 DEF CustomerPays, panelVars
<1>12. CASE ServerNext /\ UNCHANGED panelVars
  BY <1>1, <1>12 DEF panelVars
<1>13. CASE ProcessRestarts
  BY <1>1, <1>13 DEF ProcessRestarts
<1>. QED  BY <1>2, <1>3, <1>4, <1>5, <1>6, <1>7, <1>8, <1>9, <1>10, <1>11, <1>12, <1>13
          DEF CheckoutNext

(* What the server does on its own leaves carts and payments as they are,  *)
(* and answers "unknown" only about a payment.                             *)
LEMMA ServerKeeps ==
  ASSUME CheckoutInv, ServerNext
  PROVE  /\ UNCHANGED <<remembered, cartStatus, sent>>
         /\ \A e \in Event : answer'[e] = "unknown_cart_mandate" =>
              answer[e] = "unknown_cart_mandate" \/ sent[e] # "none"
<1>1. answer \in [Event -> Answer \union {"none"}]
  BY DEF CheckoutInv, TypeInv, HP2TypeOK
<1>2. ASSUME NEW e \in Event, WebhookNext(e)
      PROVE  /\ UNCHANGED <<remembered, cartStatus, sent>>
             /\ sent[e] # "none"
             /\ \A d \in Event : d # e => answer'[d] = answer[d]
  BY <1>1, <1>2 DEF WebhookNext, AnswerWithoutSecret, RefuseCall, Deduplicate, AnswerAtOnce,
       StartSettling, Call, Reply, appVars
<1>3. ASSUME NEW h \in Handler, HandlerNext(h)
      PROVE  /\ UNCHANGED <<remembered, cartStatus, sent>>
             /\ \A d \in Event : answer'[d] = "unknown_cart_mandate" => answer[d] = "unknown_cart_mandate"
  <2>1. ASSUME NEW a \in {"no_outstanding_debt", "settlement_failed", "routed"}, Finish(h, a)
        PROVE  /\ UNCHANGED <<remembered, cartStatus, sent>>
               /\ \A d \in Event : answer'[d] = "unknown_cart_mandate" => answer[d] = "unknown_cart_mandate"
    BY <1>1, <2>1 DEF Finish, Reply, appVars, gatewayVars
  <2>2. CASE ReadDebt(h) \/ SendOnSaleReceived(h)
    BY <2>2 DEF ReadDebt, SendOnSaleReceived, appVars, gatewayVars
  <2>3. CASE ReadNoDebt(h) \/ FailBeforeSending(h) \/ LoseHash(h) \/ TimeOut(h)
    BY <2>1, <2>3 DEF ReadNoDebt, FailBeforeSending, LoseHash, TimeOut
  <2>4. CASE Settled(h)
    BY <2>1, <2>4 DEF Settled
  <2>. QED  BY <1>3, <2>2, <2>3, <2>4 DEF HandlerNext
<1>4. CASE Age
  BY <1>4 DEF Age, gatewayVars
<1>5. CASE ChainNext /\ UNCHANGED <<appVars, handlerVars, gatewayVars, acked, restarts, answer>>
  BY <1>5 DEF appVars, gatewayVars
<1>6. CASE \E e \in Event : WebhookNext(e)
  <2>1. PICK e \in Event : WebhookNext(e)
    BY <1>6
  <2>2. \A d \in Event : answer'[d] = "unknown_cart_mandate" =>
          answer[d] = "unknown_cart_mandate" \/ sent[d] # "none"
    BY <1>2, <2>1
  <2>. QED  BY <1>2, <2>1, <2>2
<1>. QED  BY <1>3, <1>4, <1>5, <1>6 DEF ServerNext

LEMMA KnownStep ==
  ASSUME CheckoutInv, CheckoutNext
  PROVE  KnownInv'
<1>. USE DEF KnownInv, UnknownWasRemembered
<1>1. KnownInv /\ CartOf \in [Event -> Cart]
  BY HP2Assumption DEF CheckoutInv
<1>2. CASE UNCHANGED <<shown, hp2Vars>>
  BY <1>1, <1>2 DEF hp2Vars, appVars, gatewayVars
<1>3. CASE ShowLink
  <2>1. wanted \in remembered
    BY <1>3 DEF ShowLink, CheckoutInv, CreateInv
  <2>. QED  BY <1>1, <1>3, <2>1 DEF ShowLink, hp2Vars, appVars, gatewayVars
<1>4. ASSUME NEW c \in Cart, GatewayStores(c) PROVE KnownInv'
  BY <1>1, <1>4 DEF GatewayStores, StoreCart, appVars
<1>5. ASSUME NEW auto \in BOOLEAN, RouteRemembers(auto) PROVE KnownInv'
  BY <1>1, <1>5 DEF RouteRemembers, RememberCart, gatewayVars
<1>6. ASSUME NEW c \in Cart, NEW s \in Final, CustomerPays(c, s) PROVE KnownInv'
  <2>1. c \in shown /\ UNCHANGED <<shown, remembered, answer>>
    BY <1>6 DEF CustomerPays, Pay, panelVars, appVars
  <2>2. PICK e \in Event : CartOf[e] = c /\ sent' = [sent EXCEPT ![e] = s]
    BY <1>6 DEF CustomerPays, Pay
  <2>3. \A d \in Event : sent'[d] # "none" => sent[d] # "none" \/ d = e
    BY <2>2 DEF CheckoutInv, TypeInv, HP2TypeOK
  <2>. QED  BY <1>1, <2>1, <2>2, <2>3
<1>7. CASE ServerNext /\ UNCHANGED panelVars
  BY <1>1, <1>7, ServerKeeps DEF panelVars
<1>8. CASE ProcessRestarts
  BY <1>1, <1>8 DEF ProcessRestarts, Restart
<1>9. CASE ClickCreate \/ CreateFails \/ SendTick \/ \E t \in ticks : AnswerTick(t) \/ LoseTick(t) \/ HearTick(t)
  BY <1>2, <1>9 DEF ClickCreate, CreateFails, SendTick, AnswerTick, LoseTick, HearTick
<1>. QED  BY <1>3, <1>4, <1>5, <1>6, <1>7, <1>8, <1>9 DEF CheckoutNext

LEMMA CreateStep ==
  ASSUME CheckoutInv, CheckoutNext
  PROVE  CreateInv'
<1>. USE DEF CreateInv
<1>1. CreateInv /\ remembered \subseteq Cart
  BY DEF CheckoutInv, TypeInv, HP2TypeOK
<1>2. CASE ClickCreate
  BY <1>2 DEF ClickCreate
<1>3. CASE CreateFails \/ ShowLink
  BY <1>3 DEF CreateFails, ShowLink
<1>4. ASSUME NEW c \in Cart, GatewayStores(c) PROVE CreateInv'
  BY <1>1, <1>4 DEF GatewayStores
<1>5. ASSUME NEW auto \in BOOLEAN, RouteRemembers(auto) PROVE CreateInv'
  BY <1>1, <1>5 DEF RouteRemembers, RememberCart
<1>6. CASE SendTick
  BY <1>1, <1>6 DEF SendTick, hp2Vars, appVars
<1>7. ASSUME NEW t \in ticks, AnswerTick(t) \/ LoseTick(t) PROVE CreateInv'
  BY <1>1, <1>7 DEF AnswerTick, LoseTick, hp2Vars, appVars
<1>8. ASSUME NEW t \in ticks, HearTick(t) PROVE CreateInv'
  <2>1. creating # "idle" => ~t.live
    BY <1>1 DEF CheckoutInv, PollInv
  <2>. QED  BY <1>1, <1>8, <2>1 DEF HearTick, hp2Vars, appVars
<1>9. ASSUME NEW c \in Cart, NEW s \in Final, CustomerPays(c, s) PROVE CreateInv'
  BY <1>1, <1>9 DEF CustomerPays, Pay, panelVars, appVars
<1>10. CASE ServerNext /\ UNCHANGED panelVars
  BY <1>1, <1>10, ServerKeeps DEF panelVars
<1>11. CASE ProcessRestarts
  BY <1>1, <1>11 DEF ProcessRestarts, Restart
<1>. QED  BY <1>2, <1>3, <1>4, <1>5, <1>6, <1>7, <1>8, <1>9, <1>10, <1>11 DEF CheckoutNext

(* Payments stay what they were. *)
LEMMA PaymentsLast ==
  ASSUME CheckoutInv, CheckoutNext, NEW c \in Cart, NEW s \in Final, IsPaid(c, s)
  PROVE  IsPaid(c, s)'
<1>. USE DEF IsPaid
<1>1. sent \in [Event -> Final \union {"none"}] /\ "none" \notin Final
  BY DEF CheckoutInv, TypeInv, HP2TypeOK, Final
<1>2. PICK e \in Event : CartOf[e] = c /\ sent[e] = s
  OBVIOUS
<1>3. CASE sent' = sent
  BY <1>2, <1>3
<1>4. ASSUME NEW d \in Cart, NEW r \in Final, CustomerPays(d, r) PROVE IsPaid(c, s)'
  <2>1. PICK f \in Event : sent[f] = "none" /\ sent' = [sent EXCEPT ![f] = r]
    BY <1>4 DEF CustomerPays, Pay
  <2>2. sent'[e] = s
    BY <1>1, <1>2, <2>1
  <2>. QED  BY <1>2, <2>2
<1>5. CASE ServerNext
  BY <1>3, <1>5, ServerKeeps
<1>6. CASE ProcessRestarts
  BY <1>3, <1>6 DEF ProcessRestarts, Restart
<1>7. CASE \/ ClickCreate \/ CreateFails \/ ShowLink \/ SendTick
           \/ \E t \in ticks : AnswerTick(t) \/ LoseTick(t) \/ HearTick(t)
  BY <1>3, <1>7 DEF ClickCreate, CreateFails, ShowLink, SendTick, AnswerTick, LoseTick, HearTick,
       hp2Vars, gatewayVars
<1>8. CASE \/ \E d \in Cart : GatewayStores(d)
           \/ \E auto \in BOOLEAN : RouteRemembers(auto)
  BY <1>3, <1>8 DEF GatewayStores, RouteRemembers, StoreCart, RememberCart, gatewayVars
<1>. QED  BY <1>4, <1>5, <1>6, <1>7, <1>8 DEF CheckoutNext

(* How a step may change the polls: some end, some are cancelled, a new    *)
(* one is sent, or one is answered.                                        *)
LEMMA TicksOfStep ==
  ASSUME CheckoutInv, CheckoutNext, NEW t \in ticks'
  PROVE  \/ \E u \in ticks : t.cart = u.cart /\ t.status = u.status /\ (t.live => u.live)
         \/ t.status = "none" /\ SendTick /\ t.cart = link
         \/ \E u \in ticks : /\ t.cart = u.cart /\ t.live = u.live
                             /\ t.status = cartStatus[t.cart] /\ AnswerTick(u)
<1>1. ticks \subseteq Tick
  BY DEF CheckoutInv, PanelTypeOK
<1>2. CASE ticks' \subseteq ticks
  BY <1>2
<1>3. CASE ClickCreate
  BY <1>1, <1>3, CancelledTicks DEF ClickCreate
<1>4. CASE SendTick
  BY <1>4 DEF SendTick
<1>5. ASSUME NEW u \in ticks, AnswerTick(u), t \notin ticks
      PROVE  \E v \in ticks : /\ t.cart = v.cart /\ t.live = v.live
                              /\ t.status = cartStatus[t.cart] /\ AnswerTick(v)
  <2>1. t = [u EXCEPT !.status = cartStatus[u.cart]]
    BY <1>5 DEF AnswerTick
  <2>2. u \in Tick
    BY <1>1
  <2>3. t.cart = u.cart /\ t.live = u.live /\ t.status = cartStatus[t.cart]
    BY <2>1, <2>2 DEF Tick
  <2>. QED  BY <1>5, <2>3
<1>6. ASSUME NEW u \in ticks, HearTick(u), t \notin ticks
      PROVE  \E v \in ticks : t.cart = v.cart /\ t.status = v.status /\ (t.live => v.live)
  <2>1. t \in Cancelled(ticks \ {u})
    BY <1>6 DEF HearTick
  <2>2. ticks \ {u} \in SUBSET Tick
    BY <1>1
  <2>. QED  BY <2>1, <2>2, CancelledTicks
<1>7. CASE \/ CreateFails \/ ShowLink \/ \E u \in ticks : LoseTick(u)
           \/ \E c \in Cart : GatewayStores(c)
           \/ \E auto \in BOOLEAN : RouteRemembers(auto)
  BY <1>2, <1>7 DEF CreateFails, ShowLink, LoseTick, GatewayStores, RouteRemembers
<1>8. CASE \/ \E c \in Cart, s \in Final : CustomerPays(c, s)
           \/ ServerNext /\ UNCHANGED panelVars
           \/ ProcessRestarts
  BY <1>2, <1>8 DEF CustomerPays, ProcessRestarts, panelVars
<1>9. CASE t \in ticks
  BY <1>9
<1>. QED  BY <1>3, <1>4, <1>5, <1>6, <1>7, <1>8, <1>9 DEF CheckoutNext

(* A cart's record becomes final only by a payment of it.                  *)
LEMMA CartStatusOfStep ==
  ASSUME CheckoutInv, CheckoutNext, NEW c \in Cart, cartStatus'[c] \in Final
  PROVE  IsPaid(c, cartStatus[c])' \/ cartStatus'[c] = cartStatus[c]
<1>1. /\ cartStatus \in [Cart -> {"none", "gone", "payment-required", "payment-successful", "payment-failed"}]
      /\ sent \in [Event -> {"none", "payment-successful", "payment-failed"}]
  BY DEF CheckoutInv, TypeInv, HP2TypeOK
<1>2. CASE cartStatus' = cartStatus
  BY <1>2
<1>3. ASSUME NEW d \in Cart, GatewayStores(d) PROVE cartStatus'[c] = cartStatus[c]
  BY <1>1, <1>3, FinalStatuses DEF GatewayStores, StoreCart
<1>4. ASSUME NEW d \in Cart, NEW s \in Final, CustomerPays(d, s)
      PROVE  IsPaid(c, cartStatus[c])' \/ cartStatus'[c] = cartStatus[c]
  <2>1. /\ cartStatus' = [cartStatus EXCEPT ![d] = s]
        /\ \E e \in Event : CartOf[e] = d /\ sent' = [sent EXCEPT ![e] = s]
    BY <1>4 DEF CustomerPays, Pay
  <2>2. CASE c # d
    BY <1>1, <2>1, <2>2
  <2>3. CASE c = d
    <3>1. cartStatus'[c] = s
      BY <1>1, <2>1, <2>3
    <3>2. \E e \in Event : CartOf[e] = c /\ sent'[e] = s
      BY <1>1, <2>1, <2>3
    <3>. QED  BY <3>1, <3>2 DEF IsPaid
  <2>. QED  BY <2>2, <2>3
<1>5. CASE ProcessRestarts
  BY <1>1, <1>5, FinalStatuses DEF ProcessRestarts, Restart
<1>6. CASE ServerNext
  BY <1>2, <1>6, ServerKeeps
<1>7. CASE \/ ClickCreate \/ CreateFails \/ ShowLink \/ SendTick
           \/ \E t \in ticks : AnswerTick(t) \/ LoseTick(t) \/ HearTick(t)
  BY <1>2, <1>7 DEF ClickCreate, CreateFails, ShowLink, SendTick, AnswerTick, LoseTick, HearTick,
       hp2Vars, gatewayVars
<1>8. CASE \E auto \in BOOLEAN : RouteRemembers(auto)
  BY <1>2, <1>8 DEF RouteRemembers, RememberCart, gatewayVars
<1>. QED  BY <1>3, <1>4, <1>5, <1>6, <1>7, <1>8 DEF CheckoutNext

(* The poll ends by a poll that counts.                                    *)
LEMMA PollOfStep ==
  ASSUME CheckoutInv, CheckoutNext
  PROVE  \/ poll' = poll /\ link' = link
         \/ poll' = "idle" /\ \A t \in ticks' : ~t.live
         \/ poll = "idle" /\ poll' = "polling" /\ link' \in Cart
         \/ /\ link' = link /\ poll' \in Final /\ \A t \in ticks' : ~t.live
            /\ \E t \in ticks : t.live /\ t.status = poll'
<1>1. ticks \subseteq Tick
  BY DEF CheckoutInv, PanelTypeOK
<1>2. CASE ClickCreate
  BY <1>1, <1>2, CancelledTicks DEF ClickCreate
<1>3. CASE ShowLink
  BY <1>3 DEF ShowLink, CheckoutInv, CreateInv
<1>4. ASSUME NEW t \in ticks, HearTick(t)
      PROVE  \/ poll' = poll /\ link' = link
             \/ /\ link' = link /\ poll' \in Final /\ \A u \in ticks' : ~u.live
                /\ \E u \in ticks : u.live /\ u.status = poll'
  <2>1. ticks \ {t} \in SUBSET Tick
    BY <1>1
  <2>2. \A u \in Cancelled(ticks \ {t}) : ~u.live
    BY <2>1, CancelledTicks
  <2>. QED  BY <1>4, <2>2 DEF HearTick
<1>5. CASE CreateFails \/ SendTick \/ \E t \in ticks : AnswerTick(t) \/ LoseTick(t)
  BY <1>5 DEF CreateFails, SendTick, AnswerTick, LoseTick
<1>6. CASE \/ \E c \in Cart : GatewayStores(c)
           \/ \E auto \in BOOLEAN : RouteRemembers(auto)
           \/ \E c \in Cart, s \in Final : CustomerPays(c, s)
           \/ ServerNext /\ UNCHANGED panelVars
           \/ ProcessRestarts
  BY <1>6 DEF GatewayStores, RouteRemembers, CustomerPays, ProcessRestarts, panelVars
<1>. QED  BY <1>2, <1>3, <1>4, <1>5, <1>6 DEF CheckoutNext

LEMMA PollStep ==
  ASSUME CheckoutInv, CheckoutNext
  PROVE  PollInv'
<1>1. /\ PollInv /\ ticks \subseteq Tick
      /\ link \in Cart \union {NoCart} /\ poll \in {"idle", "polling"} \union Final
  BY DEF CheckoutInv, PanelTypeOK
<1>2. (poll = "polling" => link \in Cart)'
  BY <1>1, PollOfStep, FinalStatuses DEF PollInv
<1>3. \A t \in ticks' : t.live => poll' = "polling" /\ t.cart = link'
  <2>. SUFFICES ASSUME NEW t \in ticks', t.live PROVE poll' = "polling" /\ t.cart = link'
    OBVIOUS
  <2>1. poll = "polling" /\ t.cart = link
    BY <1>1, TicksOfStep DEF PollInv, SendTick
  <2>. QED  BY <2>1, PollOfStep
<1>4. \A c \in Cart : cartStatus'[c] \in Final => IsPaid(c, cartStatus[c])'
  <2>. SUFFICES ASSUME NEW c \in Cart, cartStatus'[c] \in Final PROVE IsPaid(c, cartStatus[c])'
    OBVIOUS
  <2>1. CASE IsPaid(c, cartStatus[c])'
    BY <2>1
  <2>2. CASE cartStatus'[c] = cartStatus[c]
    <3>1. IsPaid(c, cartStatus[c])
      BY <1>1, <2>2 DEF PollInv
    <3>2. PICK s \in Final : s = cartStatus[c]
      BY <2>2
    <3>3. IsPaid(c, s)'
      BY <3>1, <3>2, PaymentsLast
    <3>. QED  BY <2>2, <3>2, <3>3 DEF IsPaid
  <2>. QED  BY <2>1, <2>2, CartStatusOfStep
<1>5. \A c \in Cart, s \in Final : IsPaid(c, s) => \E e \in Event : CartOf[e] = c /\ sent'[e] = s
  <2>. SUFFICES ASSUME NEW c \in Cart, NEW s \in Final, IsPaid(c, s)
                PROVE  \E e \in Event : CartOf[e] = c /\ sent'[e] = s
    OBVIOUS
  <2>1. IsPaid(c, s)'
    BY PaymentsLast
  <2>. QED  BY <2>1 DEF IsPaid
<1>6. \A t \in ticks' : t.status \in Final => \E e \in Event : CartOf[e] = t.cart /\ sent'[e] = t.status
  <2>. SUFFICES ASSUME NEW t \in ticks', t.status \in Final
                PROVE  \E e \in Event : CartOf[e] = t.cart /\ sent'[e] = t.status
    OBVIOUS
  <2>1. t.cart \in Cart /\ IsPaid(t.cart, t.status)
    <3>1. CASE \E u \in ticks : t.cart = u.cart /\ t.status = u.status
      BY <1>1, <3>1 DEF PollInv, Tick
    <3>2. CASE \E u \in ticks : t.cart = u.cart /\ t.status = cartStatus[t.cart]
      <4>1. t.cart \in Cart
        BY <1>1, <3>2 DEF Tick
      <4>. QED  BY <1>1, <3>2, <4>1 DEF PollInv
    <3>. QED  BY <3>1, <3>2, TicksOfStep, FinalStatuses
  <2>. QED  BY <1>5, <2>1
<1>7. poll' \in Final => \E e \in Event : CartOf[e] = link' /\ sent'[e] = poll'
  <2>. SUFFICES ASSUME poll' \in Final PROVE \E e \in Event : CartOf[e] = link' /\ sent'[e] = poll'
    OBVIOUS
  <2>1. CASE poll' = poll /\ link' = link
    <3>1. PICK e \in Event : CartOf[e] = link /\ sent[e] = poll
      BY <1>1, <2>1 DEF PollInv, CompleteIsOfThisLink
    <3>2. link \in Cart /\ IsPaid(link, poll)
      BY <3>1, HP2Assumption DEF IsPaid
    <3>. QED  BY <1>5, <2>1, <3>2
  <2>2. ASSUME NEW t \in ticks, link' = link, t.live, t.status = poll'
        PROVE  \E e \in Event : CartOf[e] = link' /\ sent'[e] = poll'
    <3>1. t.cart = link /\ t.cart \in Cart /\ IsPaid(t.cart, t.status)
      BY <1>1, <2>2 DEF PollInv, Tick
    <3>. QED  BY <1>5, <2>2, <3>1
  <2>. QED  BY <2>1, <2>2, PollOfStep, FinalStatuses
<1>. QED  BY <1>2, <1>3, <1>4, <1>6, <1>7 DEF PollInv, CompleteIsOfThisLink, IsPaid

LEMMA CheckoutStep ==
  ASSUME CheckoutInv, [CheckoutNext]_checkoutVars
  PROVE  CheckoutInv'
<1>1. CASE CheckoutNext
  <2>1. [HP2Next]_hp2Vars
    BY CheckoutStepIsHP2 DEF CheckoutInv
  <2>2. TypeInv'
    BY <2>1, TypeStep DEF CheckoutInv
  <2>. QED  BY <1>1, <2>2, PanelTypeStep, CreateStep, PollStep, KnownStep DEF CheckoutInv
<1>2. CASE UNCHANGED checkoutVars
  <2>1. UNCHANGED <<panelVars, hp2Vars>>
    BY <1>2 DEF checkoutVars
  <2>2. TypeInv'
    BY <2>1, TypeStep DEF CheckoutInv
  <2>3. UNCHANGED <<creating, wanted, link, poll, ticks, shown, remembered, cartStatus, sent, answer>>
    BY <2>1 DEF panelVars, hp2Vars, appVars, gatewayVars
  <2>4. PanelTypeOK' /\ CreateInv'
    BY <2>3 DEF CheckoutInv, PanelTypeOK, CreateInv
  <2>5. PollInv'
    BY <2>3 DEF CheckoutInv, PollInv, CompleteIsOfThisLink, IsPaid
  <2>6. KnownInv'
    BY <2>3 DEF CheckoutInv, KnownInv, UnknownWasRemembered
  <2>. QED  BY <2>2, <2>4, <2>5, <2>6 DEF CheckoutInv
<1>. QED  BY <1>1, <1>2

LEMMA CheckoutStart == CheckoutInit => HP2Init /\ CheckoutInv
<1>. SUFFICES ASSUME CheckoutInit PROVE HP2Init /\ CheckoutInv
  OBVIOUS
<1>1. HP2Init
  BY DEF CheckoutInit
<1>2. TypeInv
  BY <1>1, TypeInit
<1>3. /\ creating = "idle" /\ wanted = NoCart /\ link = NoCart /\ poll = "idle"
      /\ ticks = {} /\ shown = {}
      /\ cartStatus = [c \in Cart |-> "none"] /\ sent = [e \in Event |-> "none"]
      /\ answer = [e \in Event |-> "none"]
  BY <1>1 DEF CheckoutInit, HP2Init
<1>4. PanelTypeOK /\ CreateInv
  BY <1>3 DEF PanelTypeOK, CreateInv
<1>5. PollInv
  BY <1>3, FinalStatuses DEF PollInv, CompleteIsOfThisLink
<1>6. KnownInv
  BY <1>3 DEF KnownInv, UnknownWasRemembered
<1>. QED  BY <1>1, <1>2, <1>4, <1>5, <1>6 DEF CheckoutInv

LEMMA CheckoutInvariant == CheckoutSpec => []CheckoutInv
<1>1. CheckoutInit => CheckoutInv
  BY CheckoutStart
<1>. QED  BY <1>1, CheckoutStep, PTL DEF CheckoutSpec

(* The panel, its routes and the gateway's checks leave the settlement as  *)
(* HP2Settlement has it: whatever the browser polls, cancels or creates,   *)
(* the payments behind it take steps of HP2Settlement only, and all that   *)
(* is proved of that module holds of the whole checkout.                   *)
THEOREM CheckoutImplementsHP2 == CheckoutSpec => HP2Spec
<1>1. CheckoutInit => HP2Init
  BY CheckoutStart
<1>2. CheckoutInv /\ [CheckoutNext]_checkoutVars => [HP2Next]_hp2Vars
  BY CheckoutStepIsHP2 DEF CheckoutInv
<1>. QED  BY <1>1, <1>2, CheckoutInvariant, PTL DEF CheckoutSpec, HP2Spec

(* The composed state stays well typed.                                    *)
THEOREM CheckoutTypeCorrect == CheckoutSpec => []CheckoutTypeOK
<1>1. CheckoutInv => CheckoutTypeOK
  BY DEF CheckoutInv, TypeInv, PanelTypeOK, CheckoutTypeOK
<1>. QED  BY <1>1, CheckoutInvariant, PTL

(* However many links are made one after another and however many polls    *)
(* are in flight, late or lost, the panel says paid or failed only of the  *)
(* link it shows (PaymentRequestPanel.tsx's cancelled flag), and only what *)
(* a payment of that cart had come to.                                     *)
THEOREM CompleteLinksAreTheirOwn == CheckoutSpec => []CompleteIsOfThisLink
<1>1. CheckoutInv => CompleteIsOfThisLink
  BY DEF CheckoutInv, PollInv
<1>. QED  BY <1>1, CheckoutInvariant, PTL

(* A payment the webhook knows no cart of is of a cart it once remembered: *)
(* the create route answers with the link only after rememberCartMandate.  *)
THEOREM UnknownsWereRemembered == CheckoutSpec => []UnknownWasRemembered
<1>1. CheckoutInv => UnknownWasRemembered
  BY DEF CheckoutInv, KnownInv
<1>. QED  BY <1>1, CheckoutInvariant, PTL
============================================================================
