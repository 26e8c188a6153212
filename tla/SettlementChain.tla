-------------------------- MODULE SettlementChain --------------------------
(***************************************************************************)
(* The chain as the two off-chain settlement paths meet it: the relayer    *)
(* (relayer/src/chain.ts) and the app's HP2 webhook (lib/server/onchain.ts)*)
(* both read outstandingDebt, simulate and send onSaleReceived, and wait   *)
(* for the receipt. Of CreditLine (modelled in full in CreditLine.tla) it  *)
(* keeps the debts and whether a settlement would be accepted.             *)
(*                                                                         *)
(* Transactions wait in `mempool` in the order of the sender's nonces, so  *)
(* they are mined in that order; one whose sender stopped waiting stays    *)
(* there and is mined all the same.                                        *)
(***************************************************************************)
EXTENDS Integers, Sequences

CONSTANTS
  Payment,    \* what a settlement is made for
  Debtor,     \* the borrowers
  Waiter,     \* who waits for receipts
  NoWaiter,
  MaxDebt     \* bound: the largest debt

ASSUME DebtAssumption == MaxDebt \in Nat
ASSUME WaiterAssumption == NoWaiter \notin Waiter

VARIABLES
  debt,       \* debt[m]: outstandingDebt(m)
  lineOpen,   \* the line would take a settlement: unpaused, role held, HKDm approved and held
  mempool,    \* transactions sent and not mined yet
  receipt,    \* receipt[w]: the receipt w waits for
  taken       \* taken[p]: what the chain took from the borrower for payment p

chainVars == <<debt, lineOpen, mempool, receipt, taken>>

Tx == [payment : Payment, borrower : Debtor, amount : Nat \ {0},
       waiter : Waiter \union {NoWaiter}]

ChainTypeOK ==
  /\ debt \in [Debtor -> 0 .. MaxDebt]
  /\ lineOpen \in BOOLEAN
  /\ mempool \in Seq(Tx)
  /\ receipt \in [Waiter -> {"none", "success", "reverted"}]
  /\ taken \in [Payment -> Nat]

ChainInit ==
  /\ debt \in [Debtor -> 0 .. MaxDebt]
  /\ lineOpen = TRUE
  /\ mempool = <<>>
  /\ receipt = [w \in Waiter |-> "none"]
  /\ taken = [p \in Payment |-> 0]

---------------------------------------------------------------------------
(* What both clients decide to send, once they read a debt. *)
ApplyAmount(m, amount) == IF amount > debt[m] THEN debt[m] ELSE amount

(* simulateContract passes. *)
WouldAccept(m) == lineOpen /\ debt[m] > 0

(* The mempool with one more transaction, and with w waiting for none. *)
Submitted(p, m, amount, w) ==
  Append(mempool, [payment |-> p, borrower |-> m, amount |-> amount, waiter |-> w])
Unwaited(tx) == [tx EXCEPT !.waiter = NoWaiter]
Abandoned(w) ==
  [i \in DOMAIN mempool |->
     IF mempool[i].waiter = w THEN Unwaited(mempool[i]) ELSE mempool[i]]
AllAbandoned == [i \in DOMAIN mempool |-> Unwaited(mempool[i])]

(* onSaleReceived clamps to the debt of that moment, or reverts. *)
Applied(tx) ==
  IF WouldAccept(tx.borrower) THEN ApplyAmount(tx.borrower, tx.amount) ELSE 0

Mine ==
  LET tx == Head(mempool) IN
  /\ mempool # <<>>
  /\ mempool' = Tail(mempool)
  /\ debt' = [debt EXCEPT ![tx.borrower] = @ - Applied(tx)]
  /\ taken' = [taken EXCEPT ![tx.payment] = @ + Applied(tx)]
  /\ receipt' = IF tx.waiter = NoWaiter THEN receipt
                ELSE [receipt EXCEPT ![tx.waiter] =
                        IF WouldAccept(tx.borrower) THEN "success" ELSE "reverted"]
  /\ UNCHANGED lineOpen

(* The borrower draws or its interest grows, and it repays by itself. *)
DebtMoves(m) ==
  /\ \/ debt[m] < MaxDebt /\ debt' = [debt EXCEPT ![m] = @ + 1]
     \/ debt[m] > 0 /\ debt' = [debt EXCEPT ![m] = @ - 1]
  /\ UNCHANGED <<lineOpen, mempool, receipt, taken>>

LineTurns ==
  /\ lineOpen' = ~lineOpen
  /\ UNCHANGED <<debt, mempool, receipt, taken>>

ChainNext == Mine \/ LineTurns \/ \E m \in Debtor : DebtMoves(m)
============================================================================
