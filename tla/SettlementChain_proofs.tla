---------------------- MODULE SettlementChain_proofs ----------------------
(* Lemmas about the chain, for the proofs about the two paths that use it. *)
EXTENDS SettlementChain, TLAPS

(* What the two ways of relabelling the mempool leave alone. *)
Relabelled(pool) ==
  /\ pool \in Seq(Tx) /\ Len(pool) = Len(mempool)
  /\ \A i \in 1 .. Len(mempool) :
       /\ pool[i].payment = mempool[i].payment
       /\ pool[i].borrower = mempool[i].borrower
       /\ pool[i].amount = mempool[i].amount
       /\ pool[i].waiter \in {mempool[i].waiter, NoWaiter}

LEMMA UnwaitedTx ==
  ASSUME NEW tx \in Tx
  PROVE  /\ Unwaited(tx) \in Tx
         /\ Unwaited(tx).payment = tx.payment /\ Unwaited(tx).borrower = tx.borrower
         /\ Unwaited(tx).amount = tx.amount /\ Unwaited(tx).waiter = NoWaiter
BY DEF Unwaited, Tx

LEMMA AbandonedRelabels ==
  ASSUME mempool \in Seq(Tx), NEW w \in Waiter
  PROVE  Relabelled(Abandoned(w)) /\ \A i \in 1 .. Len(mempool) : Abandoned(w)[i].waiter # w
<1>1. \A i \in 1 .. Len(mempool) : mempool[i] \in Tx
  OBVIOUS
<1>2. \A i \in 1 .. Len(mempool) :
        Abandoned(w)[i] = IF mempool[i].waiter = w THEN Unwaited(mempool[i]) ELSE mempool[i]
  BY DEF Abandoned
<1>3. \A i \in 1 .. Len(mempool) :
        /\ Abandoned(w)[i] \in Tx
        /\ Abandoned(w)[i].payment = mempool[i].payment
        /\ Abandoned(w)[i].borrower = mempool[i].borrower
        /\ Abandoned(w)[i].amount = mempool[i].amount
        /\ Abandoned(w)[i].waiter \in {mempool[i].waiter, NoWaiter} \ {w}
  BY <1>1, <1>2, UnwaitedTx, WaiterAssumption
<1>4. Len(mempool) \in Nat /\ DOMAIN mempool = 1 .. Len(mempool)
  OBVIOUS
<1>5. Abandoned(w) \in [1 .. Len(mempool) -> Tx]
  BY <1>3, <1>4 DEF Abandoned
<1>6. Abandoned(w) \in Seq(Tx) /\ Len(Abandoned(w)) = Len(mempool)
  BY <1>4, <1>5
<1>. QED  BY <1>3, <1>6 DEF Relabelled

LEMMA RestartRelabels ==
  ASSUME mempool \in Seq(Tx)
  PROVE  /\ Relabelled(AllAbandoned)
         /\ \A i \in 1 .. Len(mempool) : AllAbandoned[i].waiter = NoWaiter
<1>1. \A i \in 1 .. Len(mempool) : mempool[i] \in Tx
  OBVIOUS
<1>2. \A i \in 1 .. Len(mempool) : AllAbandoned[i] = Unwaited(mempool[i])
  BY DEF AllAbandoned
<1>3. \A i \in 1 .. Len(mempool) :
        /\ AllAbandoned[i] \in Tx
        /\ AllAbandoned[i].payment = mempool[i].payment
        /\ AllAbandoned[i].borrower = mempool[i].borrower
        /\ AllAbandoned[i].amount = mempool[i].amount
        /\ AllAbandoned[i].waiter = NoWaiter
  BY <1>1, <1>2, UnwaitedTx
<1>4. Len(mempool) \in Nat /\ DOMAIN mempool = 1 .. Len(mempool)
  OBVIOUS
<1>5. AllAbandoned \in [1 .. Len(mempool) -> Tx]
  BY <1>3, <1>4 DEF AllAbandoned
<1>6. AllAbandoned \in Seq(Tx) /\ Len(AllAbandoned) = Len(mempool)
  BY <1>4, <1>5
<1>. QED  BY <1>3, <1>6 DEF Relabelled

(* onSaleReceived takes something when it is accepted, and never more than *)
(* the debt or the amount.                                                 *)
LEMMA AppliedBounds ==
  ASSUME debt \in [Debtor -> 0 .. MaxDebt], lineOpen \in BOOLEAN, NEW tx \in Tx
  PROVE  /\ Applied(tx) \in Nat
         /\ Applied(tx) <= debt[tx.borrower] /\ Applied(tx) <= tx.amount
         /\ WouldAccept(tx.borrower) => Applied(tx) > 0
<1>1. tx.amount \in Nat \ {0} /\ tx.borrower \in Debtor
  BY DEF Tx
<1>2. debt[tx.borrower] \in 0 .. MaxDebt
  BY <1>1
<1>. QED  BY <1>1, <1>2, DebtAssumption DEF Applied, ApplyAmount, WouldAccept

(* The mempool holds transactions and the chain's step keeps its types. *)
LEMMA ChainStepTypes ==
  ASSUME ChainTypeOK, ChainNext
  PROVE  ChainTypeOK'
<1>1. CASE Mine
  <2>. DEFINE tx == Head(mempool)
  <2>1. tx \in Tx /\ mempool' \in Seq(Tx)
    BY <1>1 DEF Mine, ChainTypeOK
  <2>2. tx.payment \in Payment /\ tx.borrower \in Debtor /\ tx.waiter \in Waiter \union {NoWaiter}
    BY <2>1 DEF Tx
  <2>3. Applied(tx) \in Nat /\ Applied(tx) <= debt[tx.borrower]
    BY <2>1, AppliedBounds DEF ChainTypeOK
  <2>4. debt' = [debt EXCEPT ![tx.borrower] = @ - Applied(tx)]
        /\ taken' = [taken EXCEPT ![tx.payment] = @ + Applied(tx)]
        /\ lineOpen' = lineOpen
        /\ receipt' = IF tx.waiter = NoWaiter THEN receipt
                      ELSE [receipt EXCEPT ![tx.waiter] =
                              IF WouldAccept(tx.borrower) THEN "success" ELSE "reverted"]
    BY <1>1 DEF Mine
  <2>. HIDE DEF tx
  <2>5. debt' \in [Debtor -> 0 .. MaxDebt]
    BY <2>2, <2>3, <2>4, DebtAssumption DEF ChainTypeOK
  <2>6. taken' \in [Payment -> Nat]
    BY <2>2, <2>3, <2>4 DEF ChainTypeOK
  <2>7. receipt' \in [Waiter -> {"none", "success", "reverted"}]
    BY <2>2, <2>4 DEF ChainTypeOK
  <2>. QED  BY <2>1, <2>4, <2>5, <2>6, <2>7 DEF ChainTypeOK
<1>2. CASE LineTurns
  BY <1>2 DEF LineTurns, ChainTypeOK
<1>3. ASSUME NEW m \in Debtor, DebtMoves(m) PROVE ChainTypeOK'
  BY <1>3, DebtAssumption DEF DebtMoves, ChainTypeOK
<1>. QED  BY <1>1, <1>2, <1>3 DEF ChainNext
===========================================================================
