----------------------------- MODULE SaleQueue -----------------------------
(***************************************************************************)
(* The relayer's in-memory queue of sales (relayer/src/queue.ts): a FIFO   *)
(* with a dedupe set, a cap on what one merchant may have in progress, and *)
(* exponential backoff for the items put back.                             *)
(*                                                                         *)
(* A sale is what the queue tells apart of a SaleEvent: its key (source    *)
(* and sourceId), the borrower and the amount. An item keeps how long it   *)
(* still has to wait instead of the time its wait ends; enqueuedAt is its  *)
(* place in the order of acceptance instead of a time.                     *)
(***************************************************************************)
EXTENDS Integers, Sequences, FiniteSets

CONSTANTS
  Sale,              \* the sales: records [key, borrower, amount]
  Merchant,          \* the borrowers
  MaxPerMerchant,    \* MAX_PENDING_PER_MERCHANT
  MAX_BACKOFF        \* the 600 of requeue

Key == {e.key : e \in Sale}

ASSUME SaleAssumption ==
  \A e \in Sale : e.borrower \in Merchant /\ e.amount \in Nat \ {0}
ASSUME QueueAssumption == MaxPerMerchant \in Nat \ {0} /\ MAX_BACKOFF \in Nat \ {0}

VARIABLES
  items,        \* the waiting work, oldest first but for what was put back
  seen,         \* the keys accepted since the process started
  perMerchant   \* perMerchant[m]: accepted sales of m not completed yet

queueVars == <<items, seen, perMerchant>>

Work == [sale : Sale, enqueuedAt : Nat, attempts : Nat, wait : 0 .. MAX_BACKOFF]

QueueTypeOK ==
  /\ items \in Seq(Work)
  /\ seen \subseteq Key
  /\ perMerchant \in [Merchant -> 0 .. MaxPerMerchant]

---------------------------------------------------------------------------
EmptyQueue == items = <<>> /\ seen = {} /\ perMerchant = [m \in Merchant |-> 0]

(* Faulty variants: no look at `seen`, and a cap that lets one more in. *)
AcceptsAgain(e) == perMerchant[e.borrower] < MaxPerMerchant
AcceptsOneMore(e) == e.key \notin seen /\ perMerchant[e.borrower] <= MaxPerMerchant

Accepts(e) == e.key \notin seen /\ perMerchant[e.borrower] < MaxPerMerchant

Enqueue(e) ==
  /\ Accepts(e)
  /\ seen' = seen \union {e.key}
  /\ perMerchant' = [perMerchant EXCEPT ![e.borrower] = @ + 1]
  /\ items' = Append(items, [sale |-> e, enqueuedAt |-> Cardinality(seen),
                             attempts |-> 0, wait |-> 0])

(* A refusal, of a duplicate or of a merchant at its cap. Faulty variant:  *)
(* the key is marked before the cap is looked at.                          *)
RefuseAndMark(e) ==
  /\ ~Accepts(e)
  /\ seen' = seen \union {e.key}
  /\ UNCHANGED <<items, perMerchant>>
Refuse(e) == ~Accepts(e) /\ UNCHANGED queueVars

(* nextDue: the first item in the array whose wait is over. *)
IsNextDue(i) == items[i].wait = 0 /\ \A j \in 1 .. i - 1 : items[j].wait > 0
Splice(i) ==
  /\ items' = SubSeq(items, 1, i - 1) \o SubSeq(items, i + 1, Len(items))
  /\ UNCHANGED <<seen, perMerchant>>

MarkCompleted(w) ==
  /\ perMerchant' = [perMerchant EXCEPT ![w.sale.borrower] = @ - 1]
  /\ UNCHANGED <<items, seen>>

Delay(attempts) ==
  IF 2 ^ attempts \in 0 .. MAX_BACKOFF THEN 2 ^ attempts ELSE MAX_BACKOFF

(* Faulty variant: a retry that does not count. *)
RequeueUncounted(w) ==
  /\ items' = Append(items, [w EXCEPT !.wait = Delay(w.attempts + 1)])
  /\ UNCHANGED <<seen, perMerchant>>
Requeue(w) ==
  /\ items' = Append(items, [w EXCEPT !.attempts = @ + 1, !.wait = Delay(w.attempts + 1)])
  /\ UNCHANGED <<seen, perMerchant>>

(* A second passes. *)
CountDown ==
  /\ \E i \in DOMAIN items : items[i].wait > 0
  /\ items' = [i \in DOMAIN items |->
                 [items[i] EXCEPT !.wait = IF @ > 0 THEN @ - 1 ELSE 0]]
  /\ UNCHANGED <<seen, perMerchant>>
============================================================================
