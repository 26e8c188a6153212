------------------------------ MODULE Relayer ------------------------------
(***************************************************************************)
(* The settlement relayer (relayer/src): a webhook that queues sales and   *)
(* one worker that pays each into CreditLine.onSaleReceived.               *)
(*                                                                         *)
(* The worker's awaits are its atomic steps: between two of them webhooks  *)
(* arrive, the borrower draws and repays, transactions are mined. A receipt*)
(* that does not come in time, or an answer lost on the way, leaves the    *)
(* transaction in the mempool. The process can die at any moment.          *)
(* unsure and outcome record what happened, for the properties.            *)
(***************************************************************************)
EXTENDS SaleQueue, SettlementChain

CONSTANTS
  MinSale,         \* MIN_SALE_AMOUNT_CENTS, in base units
  MaxAttempts,     \* maxAttempts
  MaxRestarts,     \* bound: how often the process starts again
  NoWork

ASSUME WorkerAssumption ==
  /\ MinSale \in Nat /\ MaxAttempts \in Nat \ {0} /\ MaxRestarts \in Nat
  /\ NoWork \notin Work
  /\ Payment = Sale /\ Debtor = Merchant /\ Waiter = {"worker"}

VARIABLES
  pc,           \* where the worker is
  work,         \* the item it holds
  applyAmount,  \* what it decided to send
  stopped,      \* a signal asked it to stop
  restarts,
  unsure,       \* unsure[e]: how often the relayer lost track of e
  outcome       \* outcome[e]: what this process made of e

workerVars == <<pc, work, applyAmount, stopped>>
historyVars == <<restarts, unsure, outcome>>
relayerVars == <<queueVars, workerVars, chainVars, historyVars>>

Outcome == {"none", "queued", "routed", "skipped", "dead"}

RelayerTypeOK ==
  /\ QueueTypeOK
  /\ ChainTypeOK
  /\ pc \in {"idle", "read", "send", "wait", "exited"}
  /\ work \in Work \union {NoWork}
  /\ work # NoWork <=> pc \in {"read", "send", "wait"}
  /\ applyAmount \in Nat
  /\ stopped \in BOOLEAN
  /\ restarts \in 0 .. MaxRestarts
  /\ unsure \in [Sale -> Nat]
  /\ outcome \in [Sale -> Outcome]

RelayerInit ==
  /\ EmptyQueue
  /\ ChainInit
  /\ pc = "idle" /\ work = NoWork /\ applyAmount = 0 /\ stopped = FALSE
  /\ restarts = 0
  /\ unsure = [e \in Sale |-> 0]
  /\ outcome = [e \in Sale |-> "none"]

---------------------------------------------------------------------------
(* POST /webhooks/sale with a good signature and payload. The provider may *)
(* send the same sale any number of times.                                 *)
AcceptSale(e) ==
  /\ pc # "exited" /\ ~stopped
  /\ e.amount >= MinSale
  /\ Enqueue(e)
  /\ outcome' = [outcome EXCEPT ![e] = "queued"]
  /\ UNCHANGED <<workerVars, chainVars, restarts, unsure>>

RefuseSale(e) ==
  /\ pc # "exited" /\ ~stopped
  /\ e.amount >= MinSale
  /\ Refuse(e)
  /\ UNCHANGED <<workerVars, chainVars, historyVars>>

---------------------------------------------------------------------------
(* The worker. *)

NextDue ==
  /\ pc = "idle" /\ ~stopped
  /\ \E i \in DOMAIN items : IsNextDue(i) /\ Splice(i) /\ work' = items[i]
  /\ pc' = "read"
  /\ UNCHANGED <<applyAmount, stopped, chainVars, historyVars>>

(* It lets go of its item, which ended as o, and of the transaction. *)
Release == pc' = "idle" /\ work' = NoWork /\ applyAmount' = 0
Ended(o) == outcome' = [outcome EXCEPT ![work.sale] = o]
NoReceipt == receipt' = [w \in Waiter |-> "none"]

SkipPaidUp ==
  /\ pc = "read"
  /\ debt[work.sale.borrower] = 0
  /\ MarkCompleted(work) /\ Release /\ Ended("skipped")
  /\ UNCHANGED <<stopped, chainVars, restarts, unsure>>

ReadDebt ==
  /\ pc = "read"
  /\ debt[work.sale.borrower] > 0
  /\ applyAmount' = ApplyAmount(work.sale.borrower, work.sale.amount)
  /\ pc' = "send"
  /\ UNCHANGED <<queueVars, work, stopped, chainVars, historyVars>>

(* Faulty variant: a dead letter that stays in its merchant's count. *)
DeadLetterUncounted ==
  /\ work.attempts + 1 >= MaxAttempts
  /\ Ended("dead")
  /\ UNCHANGED queueVars
DeadLetter ==
  /\ work.attempts + 1 >= MaxAttempts
  /\ MarkCompleted(work) /\ Ended("dead")
Retry ==
  /\ work.attempts + 1 < MaxAttempts
  /\ Requeue(work)
  /\ UNCHANGED outcome
Fail == (DeadLetter \/ Retry) /\ Release

(* The read fails, or the simulated call reverts, or the wallet could not  *)
(* hand the transaction in.                                                *)
FailBeforeSending ==
  /\ pc \in {"read", "send"}
  /\ Fail
  /\ UNCHANGED <<stopped, chainVars, restarts, unsure>>

SendOnSaleReceived ==
  /\ pc = "send"
  /\ WouldAccept(work.sale.borrower)
  /\ mempool' = Submitted(work.sale, work.sale.borrower, applyAmount, "worker")
  /\ pc' = "wait"
  /\ UNCHANGED <<queueVars, work, applyAmount, stopped, debt, lineOpen, receipt, taken, historyVars>>

LoseTrack == unsure' = [unsure EXCEPT ![work.sale] = @ + 1]

(* The transaction was handed in, its hash never came back. *)
LoseHash ==
  /\ pc = "send"
  /\ WouldAccept(work.sale.borrower)
  /\ mempool' = Submitted(work.sale, work.sale.borrower, applyAmount, NoWaiter)
  /\ Fail
  /\ LoseTrack
  /\ UNCHANGED <<stopped, debt, lineOpen, receipt, taken, restarts>>

(* No receipt within the client's time limit. *)
TimeOut ==
  /\ pc = "wait"
  /\ receipt["worker"] # "reverted"
  /\ mempool' = Abandoned("worker")
  /\ NoReceipt
  /\ Fail
  /\ LoseTrack
  /\ UNCHANGED <<stopped, debt, lineOpen, taken, restarts>>

(* Faulty variant: any receipt will do. *)
RoutedAnyhow ==
  /\ pc = "wait"
  /\ receipt["worker"] # "none"
  /\ NoReceipt
  /\ MarkCompleted(work) /\ Release /\ Ended("routed")
  /\ UNCHANGED <<stopped, debt, lineOpen, mempool, taken, restarts, unsure>>

Routed ==
  /\ pc = "wait"
  /\ receipt["worker"] = "success"
  /\ NoReceipt
  /\ MarkCompleted(work) /\ Release /\ Ended("routed")
  /\ UNCHANGED <<stopped, debt, lineOpen, mempool, taken, restarts, unsure>>

FailReverted ==
  /\ pc = "wait"
  /\ receipt["worker"] = "reverted"
  /\ NoReceipt
  /\ Fail
  /\ UNCHANGED <<stopped, debt, lineOpen, mempool, taken, restarts, unsure>>

---------------------------------------------------------------------------
(* The process. *)

(* SIGINT or SIGTERM: the worker finishes the item it holds. *)
Stop ==
  /\ pc # "exited" /\ ~stopped
  /\ stopped' = TRUE
  /\ UNCHANGED <<queueVars, pc, work, applyAmount, chainVars, historyVars>>

LoseMemory ==
  /\ items' = <<>> /\ seen' = {} /\ perMerchant' = [m \in Merchant |-> 0]
  /\ pc' = "exited" /\ work' = NoWork /\ applyAmount' = 0 /\ stopped' = FALSE
  /\ mempool' = Abandoned("worker") /\ NoReceipt
  /\ outcome' = [e \in Sale |-> "none"]
  /\ unsure' = [e \in Sale |-> unsure[e] + 1]
  /\ UNCHANGED <<debt, lineOpen, taken, restarts>>

Exit == pc = "idle" /\ stopped /\ LoseMemory

Crash == pc # "exited" /\ LoseMemory

Start ==
  /\ pc = "exited"
  /\ restarts < MaxRestarts
  /\ restarts' = restarts + 1
  /\ pc' = "idle"
  /\ UNCHANGED <<queueVars, work, applyAmount, stopped, chainVars, unsure, outcome>>

Second == CountDown /\ UNCHANGED <<workerVars, chainVars, historyVars>>

---------------------------------------------------------------------------
WebhookNext == \E e \in Sale : AcceptSale(e) \/ RefuseSale(e)

WorkerNext ==
  \/ NextDue \/ SkipPaidUp \/ ReadDebt \/ FailBeforeSending
  \/ SendOnSaleReceived \/ LoseHash \/ TimeOut \/ Routed \/ FailReverted
  \/ Exit

ProcessNext == Stop \/ Crash \/ Start

RelayerNext ==
  \/ WebhookNext \/ WorkerNext \/ ProcessNext \/ Second
  \/ ChainNext /\ UNCHANGED <<queueVars, workerVars, historyVars>>

(* The event loop runs: the worker's awaits all end, by an answer or by    *)
(* the client's time limit, and time passes. Nothing else is promised: not *)
(* that webhooks come, transactions are mined, or the process starts again.*)
RelayerFairness == WF_relayerVars(WorkerNext) /\ WF_relayerVars(Second)

RelayerSpec == RelayerInit /\ [][RelayerNext]_relayerVars /\ RelayerFairness

---------------------------------------------------------------------------
(* Back-pressure counts what is really in progress: perMerchant[m] is the  *)
(* number of m's sales in the array or in the worker's hands, through      *)
(* every retry, dead letter and refusal. A leak would in the end refuse a  *)
(* merchant for good (MarkCompleted on every way out of processOne).       *)
InProgress(m) ==
  Cardinality({i \in DOMAIN items : items[i].sale.borrower = m})
    + (IF work # NoWork THEN IF work.sale.borrower = m THEN 1 ELSE 0 ELSE 0)
PerMerchantIsBacklog == \A m \in Merchant : perMerchant[m] = InProgress(m)

(* A key is in the dedupe set exactly when this process accepted a sale    *)
(* with it, so a delivery refused because its merchant was at the cap is   *)
(* not taken for a duplicate when the provider sends it again.             *)
SeenIsAccepted == seen = {e.key : e \in {f \in Sale : outcome[f] # "none"}}

(* The chain never takes more than the sale from the borrower, except once *)
(* more for each time the relayer lost track of it: a transaction whose    *)
(* receipt did not come, or the memory of the process.                     *)
SaleTakenOncePerLoss ==
  \A e \in Sale : taken[e] <= e.amount * (1 + unsure[e])

(* A sale is closed as routed only if the chain took something for it: not *)
(* on a receipt that says it reverted, nor on one of another attempt.      *)
RoutedIsTaken == \A e \in Sale : outcome[e] = "routed" => taken[e] > 0

(* A sale the webhook accepted does not stay for ever: it is routed, found *)
(* to have no debt to pay, given up after maxAttempts, or lost with the    *)
(* process, even if every call to the chain fails.                         *)
AcceptedSaleEnds ==
  \A e \in Sale : outcome[e] = "queued" ~> outcome[e] # "queued"

(* worker.ts:25 calls the worker idempotent: no sale is taken twice. It is *)
(* when a transaction whose receipt did not come in time is mined after    *)
(* the retry, or before it.                                                *)
SaleAppliedOnce == \A e \in Sale : taken[e] <= e.amount
============================================================================
