--------------------------- MODULE Relayer_proofs ---------------------------
(* Theorems about the relayer. The worker lets go of a sale in one of two  *)
(* ways, MarkCompleted and Requeue; that both keep the books is the heart  *)
(* of it. The books are counted by index sets of the two sequences, the    *)
(* queue and the mempool.                                                  *)
EXTENDS Relayer, SettlementChain_proofs, FiniteSetTheorems, Functions

---------------------------------------------------------------------------
(* Counting positions of a sequence. *)

(* One position more, at the end. *)
LEMMA CountAppended ==
  ASSUME NEW n \in Nat, NEW S \in SUBSET (1 .. n), NEW T \in SUBSET (1 .. n + 1),
         \A j \in 1 .. n : j \in T <=> j \in S
  PROVE  /\ Cardinality(S) \in Nat
         /\ Cardinality(T) = Cardinality(S) + (IF n + 1 \in T THEN 1 ELSE 0)
<1>1. IsFiniteSet(1 .. n)
  BY FS_Interval
<1>2. IsFiniteSet(S)
  BY <1>1, FS_Subset
<1>3. Cardinality(S) \in Nat
  BY <1>2, FS_CardinalityType
<1>4. n + 1 \notin S /\ \A x : x \in 1 .. n + 1 <=> x \in 1 .. n \/ x = n + 1
  OBVIOUS
<1>5. CASE n + 1 \in T
  <2>1. \A x : x \in T <=> x \in S \/ x = n + 1
    BY <1>4, <1>5
  <2>2. T = S \union {n + 1}
    BY <2>1
  <2>. QED  BY <1>2, <1>3, <1>4, <1>5, <2>2, FS_AddElement
<1>6. CASE n + 1 \notin T
  <2>1. \A x : x \in T <=> x \in S
    BY <1>4, <1>6
  <2>2. T = S
    BY <2>1
  <2>. QED  BY <1>3, <1>6, <2>2
<1>. QED  BY <1>5, <1>6

(* The k-th position taken out, and those behind it moved up. *)
TakenOut(n, k, S, T) ==
  /\ n \in Nat /\ k \in 1 .. n
  /\ S \in SUBSET (1 .. n) /\ T \in SUBSET (1 .. n - 1)
  /\ \A j \in 1 .. n - 1 : j \in T <=> (IF j < k THEN j ELSE j + 1) \in S

LEMMA CountRemoved ==
  ASSUME NEW n, NEW k, NEW S, NEW T, TakenOut(n, k, S, T)
  PROVE  /\ Cardinality(S) \in Nat /\ Cardinality(T) \in Nat
         /\ Cardinality(T) = Cardinality(S) - (IF k \in S THEN 1 ELSE 0)
<1>. USE DEF TakenOut
<1>. DEFINE f == [j \in T |-> IF j < k THEN j ELSE j + 1]
<1>1. IsFiniteSet(1 .. n) /\ IsFiniteSet(1 .. n - 1)
  BY FS_Interval
<1>2. IsFiniteSet(S) /\ IsFiniteSet(T)
  BY <1>1, FS_Subset
<1>3. f \in [T -> S \ {k}]
  OBVIOUS
<1>4. \A a, b \in T : f[a] = f[b] => a = b
  OBVIOUS
<1>5. \A s \in S \ {k} : \E j \in T : f[j] = s
  <2>1. TAKE s \in S \ {k}
  <2>2. CASE s < k
    <3>1. s \in T /\ f[s] = s
      BY <2>2
    <3>. QED  BY <3>1
  <2>3. CASE s > k
    <3>1. s - 1 \in 1 .. n - 1 /\ ~(s - 1 < k) /\ (s - 1) + 1 = s
      BY <2>3
    <3>2. s - 1 \in T
      BY <3>1
    <3>3. f[s - 1] = s
      BY <3>1, <3>2
    <3>. QED  BY <3>2, <3>3
  <2>. QED  BY <2>2, <2>3
<1>6. ExistsBijection(T, S \ {k})
  <2>1. f \in Bijection(T, S \ {k})
    BY <1>3, <1>4, <1>5, Zenon DEF Bijection, Injection, Surjection, IsInjective
  <2>. QED  BY <2>1 DEF ExistsBijection
<1>7. Cardinality(S \ {k}) = Cardinality(T)
  BY <1>2, <1>6, FS_Bijection
<1>8. Cardinality(S) \in Nat /\ Cardinality(T) \in Nat
  BY <1>2, FS_CardinalityType
<1>9. Cardinality(S \ {k}) = IF k \in S THEN Cardinality(S) - 1 ELSE Cardinality(S)
  BY <1>2, FS_RemoveElement
<1>. HIDE DEF f
<1>. QED  BY <1>7, <1>8, <1>9

---------------------------------------------------------------------------
(* The queue. *)

Positions(m) == {i \in 1 .. Len(items) : items[i].sale.borrower = m}
Backlog(m) == Cardinality(Positions(m))
One(b) == IF b THEN 1 ELSE 0

LEMMA BacklogIsNat ==
  ASSUME items \in Seq(Work), NEW m
  PROVE  Backlog(m) \in Nat
<1>1. Len(items) \in Nat /\ Positions(m) \in SUBSET (1 .. Len(items))
  BY DEF Positions
<1>2. IsFiniteSet(1 .. Len(items))
  BY <1>1, FS_Interval
<1>. QED  BY <1>1, <1>2, FS_Subset, FS_CardinalityType DEF Backlog

(* A sale is put at the end of the array, new or again. *)
LEMMA AppendCounts ==
  ASSUME items \in Seq(Work), NEW w \in Work, items' = Append(items, w), NEW m \in Merchant
  PROVE  /\ items' \in Seq(Work)
         /\ Backlog(m) \in Nat
         /\ Backlog(m)' = Backlog(m) + One(w.sale.borrower = m)
<1>1. /\ Len(items) \in Nat /\ Len(items') = Len(items) + 1
      /\ \A j \in 1 .. Len(items) : items'[j] = items[j]
      /\ items'[Len(items) + 1] = w
      /\ items' \in Seq(Work)
  OBVIOUS
<1>2. Positions(m) \in SUBSET (1 .. Len(items))
  BY DEF Positions
<1>3. Positions(m)' = {i \in 1 .. Len(items) + 1 : items'[i].sale.borrower = m}
  BY <1>1 DEF Positions
<1>4. \A j \in 1 .. Len(items) : j \in Positions(m)' <=> j \in Positions(m)
  BY <1>1, <1>3 DEF Positions
<1>5. Len(items) + 1 \in Positions(m)' <=> w.sale.borrower = m
  BY <1>1, <1>3
<1>6. Cardinality(Positions(m)) \in Nat
      /\ Cardinality(Positions(m)') = Cardinality(Positions(m))
           + (IF Len(items) + 1 \in Positions(m)' THEN 1 ELSE 0)
  BY <1>1, <1>2, <1>3, <1>4, CountAppended
<1>. QED  BY <1>1, <1>5, <1>6 DEF Backlog, One

(* The worker takes a sale out of the array. *)
LEMMA SpliceCounts ==
  ASSUME items \in Seq(Work), NEW k \in DOMAIN items, Splice(k), NEW m \in Merchant
  PROVE  /\ items' \in Seq(Work) /\ Len(items') = Len(items) - 1
         /\ \A j \in 1 .. Len(items) - 1 : items'[j] = items[IF j < k THEN j ELSE j + 1]
         /\ Backlog(m) \in Nat /\ Backlog(m)' \in Nat
         /\ Backlog(m)' = Backlog(m) - One(items[k].sale.borrower = m)
<1>. DEFINE n == Len(items)
            a == SubSeq(items, 1, k - 1)
            b == SubSeq(items, k + 1, n)
<1>1. n \in Nat /\ k \in 1 .. n /\ items' = a \o b
  BY DEF Splice
<1>2. a \in Seq(Work) /\ Len(a) = k - 1 /\ \A j \in 1 .. k - 1 : a[j] = items[j]
  BY <1>1
<1>3. b \in Seq(Work) /\ Len(b) = n - k /\ \A j \in 1 .. n - k : b[j] = items[k + j]
  BY <1>1
<1>. HIDE DEF a, b
<1>4. items' \in Seq(Work) /\ Len(items') = n - 1
  BY <1>1, <1>2, <1>3
<1>5. ASSUME NEW j \in 1 .. n - 1
      PROVE  items'[j] = items[IF j < k THEN j ELSE j + 1]
  <2>1. CASE j < k
    <3>1. items'[j] = a[j] /\ j \in 1 .. k - 1
      BY <1>1, <1>2, <1>3, <2>1
    <3>. QED  BY <1>2, <2>1, <3>1
  <2>2. CASE ~(j < k)
    <3>1. items'[j] = b[j - (k - 1)] /\ j - (k - 1) \in 1 .. n - k
      BY <1>1, <1>2, <1>3, <2>2
    <3>2. k + (j - (k - 1)) = j + 1
      BY <1>1
    <3>. QED  BY <1>3, <2>2, <3>1, <3>2
  <2>. QED  BY <2>1, <2>2
<1>6. Positions(m) \in SUBSET (1 .. n)
  BY DEF Positions
<1>7. Positions(m)' = {i \in 1 .. n - 1 : items'[i].sale.borrower = m}
  BY <1>4 DEF Positions
<1>8. \A j \in 1 .. n - 1 : (IF j < k THEN j ELSE j + 1) \in 1 .. n
  BY <1>1
<1>. DEFINE up(j) == IF j < k THEN j ELSE j + 1
<1>9. \A j \in 1 .. n - 1 : up(j) \in 1 .. n /\ items'[j] = items[up(j)]
  BY <1>5, <1>8
<1>10. \A j \in 1 .. n - 1 : j \in Positions(m)' <=> up(j) \in Positions(m)
  <2>. HIDE DEF up, n
  <2>. QED  BY <1>7, <1>9 DEF Positions, n
<1>11. k \in Positions(m) <=> items[k].sale.borrower = m
  BY <1>1 DEF Positions
<1>12. /\ Cardinality(Positions(m)) \in Nat /\ Cardinality(Positions(m)') \in Nat
       /\ Cardinality(Positions(m)') = Cardinality(Positions(m))
            - (IF k \in Positions(m) THEN 1 ELSE 0)
  <2>1. Positions(m)' \in SUBSET (1 .. n - 1)
    BY <1>7
  <2>2. TakenOut(n, k, Positions(m), Positions(m)')
    BY <1>1, <1>6, <1>10, <2>1 DEF TakenOut
  <2>. QED  BY <2>2, CountRemoved
<1>. QED  BY <1>4, <1>5, <1>11, <1>12 DEF Backlog, One

(* Waiting changes no position. *)
LEMMA CountDownCounts ==
  ASSUME items \in Seq(Work), CountDown
  PROVE  /\ items' \in Seq(Work) /\ Len(items') = Len(items)
         /\ \A j \in 1 .. Len(items) : items'[j].sale = items[j].sale
         /\ \A m \in Merchant : Backlog(m)' = Backlog(m)
<1>1. Len(items) \in Nat /\ DOMAIN items = 1 .. Len(items)
      /\ \A j \in 1 .. Len(items) : items[j] \in Work
  OBVIOUS
<1>. DEFINE down(w) == [w EXCEPT !.wait = IF @ > 0 THEN @ - 1 ELSE 0]
<1>2. ASSUME NEW w \in Work PROVE down(w) \in Work /\ down(w).sale = w.sale
  <2>1. PICK t : t = IF w.wait > 0 THEN w.wait - 1 ELSE 0
    OBVIOUS
  <2>2. down(w) = [w EXCEPT !.wait = t]
    BY <2>1
  <2>3. t \in 0 .. MAX_BACKOFF
    BY <2>1, QueueAssumption DEF Work
  <2>. HIDE DEF down
  <2>. QED  BY <2>2, <2>3 DEF Work
<1>3. items' = [j \in 1 .. Len(items) |-> down(items[j])]
  BY <1>1 DEF CountDown
<1>. HIDE DEF down
<1>4. \A j \in 1 .. Len(items) : items'[j] \in Work /\ items'[j].sale = items[j].sale
  BY <1>1, <1>2, <1>3
<1>5. items' \in [1 .. Len(items) -> Work]
  BY <1>3, <1>4
<1>6. items' \in Seq(Work) /\ Len(items') = Len(items)
  BY <1>1, <1>5
<1>7. \A m \in Merchant : Positions(m)' = Positions(m)
  BY <1>4, <1>6 DEF Positions
<1>. QED  BY <1>4, <1>6, <1>7 DEF Backlog

LEMMA DelayBounds == \A n \in Nat : Delay(n) \in 0 .. MAX_BACKOFF
BY QueueAssumption DEF Delay

---------------------------------------------------------------------------
(* The books: the types, what the worker is about to send, and the counts. *)

SendsPartOfSale ==
  pc \in {"send", "wait"} => applyAmount > 0 /\ applyAmount <= work.sale.amount
Books == RelayerTypeOK /\ SendsPartOfSale /\ IsFiniteSet(seen) /\ PerMerchantIsBacklog

Hand(m) == IF work # NoWork THEN One(work.sale.borrower = m) ELSE 0

LEMMA InProgressIs ==
  ASSUME items \in Seq(Work), NEW m
  PROVE  InProgress(m) = Backlog(m) + Hand(m)
<1>1. DOMAIN items = 1 .. Len(items)
  OBVIOUS
<1>2. Backlog(m) = Cardinality({i \in DOMAIN items : items[i].sale.borrower = m})
  BY <1>1 DEF Backlog, Positions
<1>3. Hand(m) = IF work # NoWork THEN IF work.sale.borrower = m THEN 1 ELSE 0 ELSE 0
  BY DEF Hand, One
<1>. QED  BY <1>2, <1>3, Zenon DEF InProgress

LEMMA InProgressWillBe ==
  ASSUME items' \in Seq(Work), NEW m
  PROVE  InProgress(m)' = Backlog(m)' + Hand(m)'
<1>1. DOMAIN items' = 1 .. Len(items')
  OBVIOUS
<1>2. Backlog(m)' = Cardinality({i \in DOMAIN items' : items'[i].sale.borrower = m})
  BY <1>1 DEF Backlog, Positions
<1>3. Hand(m)' = IF work' # NoWork THEN IF work'.sale.borrower = m THEN 1 ELSE 0 ELSE 0
  BY DEF Hand, One
<1>. QED  BY <1>2, <1>3, Zenon DEF InProgress

LEMMA WorkFields ==
  ASSUME NEW w \in Work
  PROVE  /\ w # NoWork /\ w.sale \in Sale /\ w.sale.borrower \in Merchant
         /\ w.sale.amount \in Nat \ {0} /\ w.sale.key \in Key
         /\ w.attempts \in Nat
BY WorkerAssumption, SaleAssumption DEF Work, Key

LEMMA HeldWork ==
  ASSUME RelayerTypeOK, pc \in {"read", "send", "wait"}
  PROVE  work \in Work /\ work # NoWork
BY DEF RelayerTypeOK

(* Accepting a sale counts it once, and within the cap. *)
LEMMA EnqueueBooks ==
  ASSUME Books, NEW e \in Sale, Enqueue(e), work' = work
  PROVE  QueueTypeOK' /\ IsFiniteSet(seen') /\ PerMerchantIsBacklog'
<1>. DEFINE w == [sale |-> e, enqueuedAt |-> Cardinality(seen), attempts |-> 0, wait |-> 0]
<1>1. items \in Seq(Work) /\ seen \subseteq Key /\ IsFiniteSet(seen)
      /\ perMerchant \in [Merchant -> 0 .. MaxPerMerchant]
  BY DEF Books, RelayerTypeOK, QueueTypeOK
<1>2. e.borrower \in Merchant /\ e.key \in Key
  BY SaleAssumption DEF Key
<1>3. /\ seen' = seen \union {e.key} /\ items' = Append(items, w)
      /\ perMerchant[e.borrower] < MaxPerMerchant
      /\ perMerchant' = [perMerchant EXCEPT ![e.borrower] = @ + 1]
  BY DEF Enqueue, Accepts
<1>4. seen' \subseteq Key /\ IsFiniteSet(seen')
  BY <1>1, <1>2, <1>3, FS_AddElement
<1>5. perMerchant' \in [Merchant -> 0 .. MaxPerMerchant]
  BY <1>1, <1>2, <1>3, QueueAssumption
<1>6. Cardinality(seen) \in Nat
  BY <1>1, FS_CardinalityType
<1>7. w \in Work /\ w.sale = e
  BY <1>6, QueueAssumption DEF Work
<1>. HIDE DEF w
<1>8. ASSUME NEW m \in Merchant
      PROVE  /\ items' \in Seq(Work) /\ Backlog(m) \in Nat
             /\ Backlog(m)' = Backlog(m) + One(e.borrower = m)
  BY <1>1, <1>3, <1>7, AppendCounts
<1>9. items' \in Seq(Work)
  BY <1>2, <1>8
<1>10. ASSUME NEW m \in Merchant PROVE perMerchant'[m] = InProgress(m)'
  <2>1. perMerchant[m] = Backlog(m) + Hand(m)
    BY <1>1, InProgressIs DEF Books, PerMerchantIsBacklog
  <2>2. InProgress(m)' = Backlog(m)' + Hand(m)'
    BY <1>9, InProgressWillBe
  <2>3. Hand(m)' = Hand(m) /\ Hand(m) \in Nat
    BY DEF Hand, One
  <2>4. perMerchant'[m] = perMerchant[m] + One(e.borrower = m)
    BY <1>1, <1>2, <1>3 DEF One
  <2>5. One(e.borrower = m) \in Nat
    BY DEF One
  <2>. QED  BY <1>8, <2>1, <2>2, <2>3, <2>4, <2>5
<1>. QED  BY <1>4, <1>5, <1>9, <1>10 DEF QueueTypeOK, PerMerchantIsBacklog

(* The sale the worker completes is one less in progress. *)
LEMMA CompletedBooks ==
  ASSUME Books, work \in Work, MarkCompleted(work), work' = NoWork
  PROVE  QueueTypeOK' /\ IsFiniteSet(seen') /\ PerMerchantIsBacklog'
<1>1. items \in Seq(Work) /\ seen \subseteq Key /\ IsFiniteSet(seen)
      /\ perMerchant \in [Merchant -> 0 .. MaxPerMerchant]
  BY DEF Books, RelayerTypeOK, QueueTypeOK
<1>. DEFINE b == work.sale.borrower
<1>2. b \in Merchant /\ work # NoWork
  BY WorkFields
<1>3. perMerchant' = [perMerchant EXCEPT ![b] = @ - 1] /\ items' = items /\ seen' = seen
  BY DEF MarkCompleted
<1>4. \A m \in Merchant : perMerchant[m] = Backlog(m) + Hand(m)
  BY <1>1, InProgressIs DEF Books, PerMerchantIsBacklog
<1>5. \A m \in Merchant : Hand(m) = One(b = m) /\ Hand(m)' = 0
  BY <1>2 DEF Hand
<1>. HIDE DEF b
<1>6. \A m \in Merchant : Backlog(m)' = Backlog(m) /\ Backlog(m) \in Nat
  BY <1>1, <1>3, BacklogIsNat DEF Backlog, Positions
<1>7. perMerchant[b] > 0
  BY <1>1, <1>2, <1>4, <1>5, <1>6 DEF One
<1>8. perMerchant' \in [Merchant -> 0 .. MaxPerMerchant]
  BY <1>1, <1>2, <1>3, <1>7, QueueAssumption
<1>9. ASSUME NEW m \in Merchant PROVE perMerchant'[m] = InProgress(m)'
  <2>1. InProgress(m)' = Backlog(m)' + Hand(m)'
    BY <1>1, <1>3, InProgressWillBe
  <2>2. perMerchant'[m] = perMerchant[m] - One(b = m)
    BY <1>1, <1>2, <1>3 DEF One
  <2>3. One(b = m) \in Nat
    BY DEF One
  <2>. QED  BY <1>4, <1>5, <1>6, <2>1, <2>2, <2>3
<1>. QED  BY <1>1, <1>3, <1>8, <1>9 DEF QueueTypeOK, PerMerchantIsBacklog

(* A sale put back is still in progress. *)
LEMMA RequeueBooks ==
  ASSUME Books, work \in Work, Requeue(work), work' = NoWork
  PROVE  QueueTypeOK' /\ IsFiniteSet(seen') /\ PerMerchantIsBacklog'
<1>1. items \in Seq(Work) /\ seen \subseteq Key /\ IsFiniteSet(seen)
      /\ perMerchant \in [Merchant -> 0 .. MaxPerMerchant]
  BY DEF Books, RelayerTypeOK, QueueTypeOK
<1>. DEFINE w == [work EXCEPT !.attempts = @ + 1, !.wait = Delay(work.attempts + 1)]
<1>2. items' = Append(items, w) /\ seen' = seen /\ perMerchant' = perMerchant
  BY DEF Requeue
<1>3. w \in Work /\ w.sale = work.sale
  <2>1. work.attempts + 1 \in Nat
    BY WorkFields
  <2>2. Delay(work.attempts + 1) \in 0 .. MAX_BACKOFF
    BY <2>1, DelayBounds
  <2>. QED  BY <2>1, <2>2 DEF Work
<1>. HIDE DEF w
<1>4. work # NoWork /\ work.sale.borrower \in Merchant
  BY WorkFields
<1>5. ASSUME NEW m \in Merchant
      PROVE  /\ items' \in Seq(Work) /\ Backlog(m) \in Nat
             /\ Backlog(m)' = Backlog(m) + One(work.sale.borrower = m)
  BY <1>1, <1>2, <1>3, AppendCounts
<1>6. items' \in Seq(Work)
  BY <1>4, <1>5
<1>7. ASSUME NEW m \in Merchant PROVE perMerchant'[m] = InProgress(m)'
  <2>1. perMerchant[m] = Backlog(m) + Hand(m)
    BY <1>1, InProgressIs DEF Books, PerMerchantIsBacklog
  <2>2. InProgress(m)' = Backlog(m)' + Hand(m)'
    BY <1>6, InProgressWillBe
  <2>3. Hand(m) = One(work.sale.borrower = m) /\ Hand(m)' = 0
    BY <1>4 DEF Hand
  <2>4. One(work.sale.borrower = m) \in Nat
    BY DEF One
  <2>. QED  BY <1>2, <1>5, <2>1, <2>2, <2>3, <2>4
<1>. QED  BY <1>1, <1>2, <1>6, <1>7 DEF QueueTypeOK, PerMerchantIsBacklog

(* So is a sale the worker takes out. *)
LEMMA SpliceBooks ==
  ASSUME Books, work = NoWork, NEW k \in DOMAIN items, Splice(k), work' = items[k]
  PROVE  QueueTypeOK' /\ IsFiniteSet(seen') /\ PerMerchantIsBacklog' /\ work' \in Work
<1>1. items \in Seq(Work) /\ seen \subseteq Key /\ IsFiniteSet(seen)
      /\ perMerchant \in [Merchant -> 0 .. MaxPerMerchant]
  BY DEF Books, RelayerTypeOK, QueueTypeOK
<1>2. items[k] \in Work /\ seen' = seen /\ perMerchant' = perMerchant
  BY <1>1 DEF Splice
<1>3. work' # NoWork /\ work'.sale.borrower \in Merchant
  BY <1>2, WorkFields
<1>4. ASSUME NEW m \in Merchant
      PROVE  /\ items' \in Seq(Work) /\ Backlog(m) \in Nat /\ Backlog(m)' \in Nat
             /\ Backlog(m)' = Backlog(m) - One(items[k].sale.borrower = m)
  BY <1>1, SpliceCounts
<1>5. items' \in Seq(Work)
  BY <1>3, <1>4
<1>6. ASSUME NEW m \in Merchant PROVE perMerchant'[m] = InProgress(m)'
  <2>1. perMerchant[m] = Backlog(m) + Hand(m)
    BY <1>1, InProgressIs DEF Books, PerMerchantIsBacklog
  <2>2. InProgress(m)' = Backlog(m)' + Hand(m)'
    BY <1>5, InProgressWillBe
  <2>3. Hand(m) = 0 /\ Hand(m)' = One(items[k].sale.borrower = m)
    BY <1>3 DEF Hand
  <2>4. One(items[k].sale.borrower = m) \in Nat
    BY DEF One
  <2>. QED  BY <1>2, <1>4, <2>1, <2>2, <2>3, <2>4
<1>. QED  BY <1>1, <1>2, <1>5, <1>6 DEF QueueTypeOK, PerMerchantIsBacklog

(* Nothing moves between the queue, the worker and the outside. *)
LEMMA SameBooks ==
  ASSUME Books, UNCHANGED <<queueVars, work>>
  PROVE  QueueTypeOK' /\ IsFiniteSet(seen') /\ PerMerchantIsBacklog'
BY DEF Books, RelayerTypeOK, QueueTypeOK, PerMerchantIsBacklog, InProgress, queueVars

LEMMA CountDownBooks ==
  ASSUME Books, CountDown, work' = work
  PROVE  QueueTypeOK' /\ IsFiniteSet(seen') /\ PerMerchantIsBacklog'
<1>1. items \in Seq(Work) /\ seen \subseteq Key /\ IsFiniteSet(seen)
      /\ perMerchant \in [Merchant -> 0 .. MaxPerMerchant]
  BY DEF Books, RelayerTypeOK, QueueTypeOK
<1>2. seen' = seen /\ perMerchant' = perMerchant
  BY DEF CountDown
<1>3. items' \in Seq(Work) /\ \A m \in Merchant : Backlog(m)' = Backlog(m)
  BY <1>1, CountDownCounts
<1>4. ASSUME NEW m \in Merchant PROVE perMerchant'[m] = InProgress(m)'
  <2>1. perMerchant[m] = Backlog(m) + Hand(m)
    BY <1>1, InProgressIs DEF Books, PerMerchantIsBacklog
  <2>2. InProgress(m)' = Backlog(m)' + Hand(m)'
    BY <1>3, InProgressWillBe
  <2>3. Hand(m)' = Hand(m)
    BY DEF Hand
  <2>. QED  BY <1>2, <1>3, <2>1, <2>2, <2>3
<1>. QED  BY <1>1, <1>2, <1>3, <1>4 DEF QueueTypeOK, PerMerchantIsBacklog

---------------------------------------------------------------------------
(* Every action keeps the books. *)

LEMMA SubmittedTypes ==
  ASSUME mempool \in Seq(Tx), NEW w \in Work, NEW n \in Nat \ {0},
         NEW v \in Waiter \union {NoWaiter}
  PROVE  Submitted(w.sale, w.sale.borrower, n, v) \in Seq(Tx)
<1>1. [payment |-> w.sale, borrower |-> w.sale.borrower, amount |-> n, waiter |-> v] \in Tx
  BY WorkFields, WorkerAssumption DEF Tx
<1>. QED  BY <1>1 DEF Submitted

LEMMA AbandonedTypes ==
  mempool \in Seq(Tx) => Abandoned("worker") \in Seq(Tx)
BY AbandonedRelabels, WorkerAssumption DEF Relabelled

LEMMA NoReceiptTypes ==
  NoReceipt => receipt' \in [Waiter -> {"none", "success", "reverted"}]
BY DEF NoReceipt

(* A failed attempt: the dead letter is completed, the other put back. *)
LEMMA FailBooks ==
  ASSUME Books, pc \in {"read", "send", "wait"}, Fail
  PROVE  /\ QueueTypeOK' /\ IsFiniteSet(seen') /\ PerMerchantIsBacklog'
         /\ pc' = "idle" /\ work' = NoWork /\ applyAmount' = 0
         /\ outcome' \in [Sale -> Outcome]
<1>1. work \in Work /\ work.sale \in Sale
  BY HeldWork, WorkFields DEF Books
<1>2. pc' = "idle" /\ work' = NoWork /\ applyAmount' = 0
  BY DEF Fail, Release
<1>3. outcome \in [Sale -> Outcome]
  BY DEF Books, RelayerTypeOK
<1>4. CASE DeadLetter
  <2>1. QueueTypeOK' /\ IsFiniteSet(seen') /\ PerMerchantIsBacklog'
    BY <1>1, <1>2, <1>4, CompletedBooks DEF DeadLetter
  <2>2. outcome' \in [Sale -> Outcome]
    BY <1>1, <1>3, <1>4 DEF DeadLetter, Ended, Outcome
  <2>. QED  BY <1>2, <2>1, <2>2
<1>5. CASE Retry
  <2>1. QueueTypeOK' /\ IsFiniteSet(seen') /\ PerMerchantIsBacklog'
    BY <1>1, <1>2, <1>5, RequeueBooks DEF Retry
  <2>. QED  BY <1>2, <1>3, <1>5, <2>1 DEF Retry
<1>. QED  BY <1>4, <1>5 DEF Fail

LEMMA BooksInit == RelayerInit => Books
<1>. SUFFICES ASSUME RelayerInit PROVE Books
  OBVIOUS
<1>1. QueueTypeOK /\ IsFiniteSet(seen)
  BY QueueAssumption, FS_EmptySet DEF RelayerInit, EmptyQueue, QueueTypeOK
<1>2. ChainTypeOK
  BY DebtAssumption DEF RelayerInit, ChainInit, ChainTypeOK
<1>3. RelayerTypeOK
  <2>1. unsure \in [Sale -> Nat] /\ outcome \in [Sale -> Outcome]
    BY DEF RelayerInit, Outcome
  <2>2. pc = "idle" /\ work = NoWork /\ applyAmount \in Nat
    BY DEF RelayerInit
  <2>3. stopped \in BOOLEAN
    BY Zenon DEF RelayerInit
  <2>4. restarts \in 0 .. MaxRestarts
    BY WorkerAssumption DEF RelayerInit
  <2>. QED  BY <1>1, <1>2, <2>1, <2>2, <2>3, <2>4 DEF RelayerTypeOK
<1>4. ASSUME NEW m \in Merchant PROVE perMerchant[m] = InProgress(m)
  <2>1. Positions(m) = {} /\ items \in Seq(Work)
    BY DEF RelayerInit, EmptyQueue, Positions
  <2>2. Backlog(m) = 0 /\ Hand(m) = 0
    BY <2>1, FS_EmptySet DEF Backlog, Hand, RelayerInit
  <2>3. perMerchant[m] = 0
    BY DEF RelayerInit, EmptyQueue
  <2>. QED  BY <2>1, <2>2, <2>3, InProgressIs
<1>. QED  BY <1>1, <1>3, <1>4 DEF Books, SendsPartOfSale, RelayerInit, PerMerchantIsBacklog

LEMMA BooksStep == Books /\ [RelayerNext]_relayerVars => Books'
<1>. SUFFICES ASSUME Books, [RelayerNext]_relayerVars PROVE Books'
  OBVIOUS
<1>0. RelayerTypeOK /\ QueueTypeOK /\ ChainTypeOK
  BY DEF Books, RelayerTypeOK
<1>1. ASSUME NEW e \in Sale, AcceptSale(e) PROVE Books'
  <2>1. QueueTypeOK' /\ IsFiniteSet(seen') /\ PerMerchantIsBacklog'
    BY <1>1, EnqueueBooks DEF AcceptSale, workerVars
  <2>2. outcome' \in [Sale -> Outcome]
    BY <1>0, <1>1 DEF AcceptSale, RelayerTypeOK, Outcome
  <2>. QED  BY <1>0, <1>1, <2>1, <2>2
       DEF Books, AcceptSale, RelayerTypeOK, ChainTypeOK, SendsPartOfSale, workerVars, chainVars
<1>2. ASSUME NEW e \in Sale, RefuseSale(e) PROVE Books'
  <2>1. UNCHANGED relayerVars
    BY <1>2 DEF RefuseSale, Refuse, relayerVars
  <2>2. QueueTypeOK' /\ IsFiniteSet(seen') /\ PerMerchantIsBacklog'
    BY <2>1, SameBooks DEF relayerVars, workerVars
  <2>. QED  BY <1>0, <2>1, <2>2
       DEF Books, RelayerTypeOK, ChainTypeOK, SendsPartOfSale,
           relayerVars, workerVars, chainVars, historyVars
<1>3. CASE NextDue
  <2>1. PICK k \in DOMAIN items : Splice(k) /\ work' = items[k]
    BY <1>3 DEF NextDue
  <2>2. work = NoWork
    BY <1>0, <1>3 DEF NextDue, RelayerTypeOK
  <2>3. QueueTypeOK' /\ IsFiniteSet(seen') /\ PerMerchantIsBacklog' /\ work' \in Work
    BY <2>1, <2>2, SpliceBooks
  <2>4. work' # NoWork
    BY <2>3, WorkFields
  <2>. QED  BY <1>0, <1>3, <2>3, <2>4
       DEF Books, NextDue, RelayerTypeOK, ChainTypeOK, SendsPartOfSale, chainVars, historyVars
<1>4. CASE SkipPaidUp
  <2>1. work \in Work /\ work.sale \in Sale
    BY <1>0, <1>4, HeldWork, WorkFields DEF SkipPaidUp
  <2>2. QueueTypeOK' /\ IsFiniteSet(seen') /\ PerMerchantIsBacklog'
    BY <1>4, <2>1, CompletedBooks DEF SkipPaidUp, Release
  <2>3. outcome' \in [Sale -> Outcome]
    BY <1>0, <1>4, <2>1 DEF SkipPaidUp, Ended, RelayerTypeOK, Outcome
  <2>. QED  BY <1>0, <1>4, <2>2, <2>3
       DEF Books, SkipPaidUp, Release, RelayerTypeOK, ChainTypeOK, SendsPartOfSale, chainVars
<1>5. CASE ReadDebt
  <2>1. work \in Work /\ work.sale.borrower \in Merchant /\ work.sale.amount \in Nat \ {0}
    BY <1>0, <1>5, HeldWork, WorkFields DEF ReadDebt
  <2>2. debt[work.sale.borrower] \in Nat \ {0}
    BY <1>0, <1>5, <2>1, WorkerAssumption, DebtAssumption DEF ReadDebt, ChainTypeOK
  <2>3. applyAmount' \in Nat \ {0} /\ applyAmount' <= work.sale.amount
    BY <1>5, <2>1, <2>2 DEF ReadDebt, ApplyAmount
  <2>4. QueueTypeOK' /\ IsFiniteSet(seen') /\ PerMerchantIsBacklog'
    BY <1>5, SameBooks DEF ReadDebt
  <2>. QED  BY <1>0, <1>5, <2>3, <2>4
       DEF Books, ReadDebt, RelayerTypeOK, ChainTypeOK, SendsPartOfSale, chainVars, historyVars
<1>6. CASE FailBeforeSending
  <2>1. Fail /\ pc \in {"read", "send", "wait"}
    BY <1>6 DEF FailBeforeSending
  <2>2. /\ QueueTypeOK' /\ IsFiniteSet(seen') /\ PerMerchantIsBacklog'
        /\ pc' = "idle" /\ work' = NoWork /\ applyAmount' = 0
        /\ outcome' \in [Sale -> Outcome]
    BY <2>1, FailBooks
  <2>. QED  BY <1>0, <1>6, <2>2
       DEF Books, FailBeforeSending, RelayerTypeOK, ChainTypeOK, SendsPartOfSale, chainVars
<1>7. CASE SendOnSaleReceived
  <2>1. work \in Work /\ applyAmount \in Nat \ {0}
    BY <1>0, <1>7, HeldWork DEF SendOnSaleReceived, Books, SendsPartOfSale, RelayerTypeOK
  <2>2. mempool' \in Seq(Tx)
    BY <1>0, <1>7, <2>1, SubmittedTypes, WorkerAssumption DEF SendOnSaleReceived, ChainTypeOK
  <2>3. QueueTypeOK' /\ IsFiniteSet(seen') /\ PerMerchantIsBacklog'
    BY <1>7, SameBooks DEF SendOnSaleReceived
  <2>. QED  BY <1>0, <1>7, <2>2, <2>3
       DEF Books, SendOnSaleReceived, RelayerTypeOK, ChainTypeOK, SendsPartOfSale, historyVars
<1>8. CASE LoseHash
  <2>1. work \in Work /\ applyAmount \in Nat \ {0} /\ work.sale \in Sale
    BY <1>0, <1>8, HeldWork, WorkFields DEF LoseHash, Books, SendsPartOfSale, RelayerTypeOK
  <2>2. mempool' \in Seq(Tx)
    BY <1>0, <1>8, <2>1, SubmittedTypes DEF LoseHash, ChainTypeOK
  <2>3. Fail /\ pc \in {"read", "send", "wait"}
    BY <1>8 DEF LoseHash
  <2>4. /\ QueueTypeOK' /\ IsFiniteSet(seen') /\ PerMerchantIsBacklog'
        /\ pc' = "idle" /\ work' = NoWork /\ applyAmount' = 0
        /\ outcome' \in [Sale -> Outcome]
    BY <2>3, FailBooks
  <2>5. unsure' \in [Sale -> Nat]
    BY <1>0, <1>8, <2>1 DEF LoseHash, LoseTrack, RelayerTypeOK
  <2>. QED  BY <1>0, <1>8, <2>2, <2>4, <2>5
       DEF Books, LoseHash, RelayerTypeOK, ChainTypeOK, SendsPartOfSale
<1>9. CASE TimeOut
  <2>1. work.sale \in Sale
    BY <1>0, <1>9, HeldWork, WorkFields DEF TimeOut
  <2>2. mempool' \in Seq(Tx) /\ receipt' \in [Waiter -> {"none", "success", "reverted"}]
    BY <1>0, <1>9, AbandonedTypes, NoReceiptTypes DEF TimeOut, ChainTypeOK
  <2>3. Fail /\ pc \in {"read", "send", "wait"}
    BY <1>9 DEF TimeOut
  <2>4. /\ QueueTypeOK' /\ IsFiniteSet(seen') /\ PerMerchantIsBacklog'
        /\ pc' = "idle" /\ work' = NoWork /\ applyAmount' = 0
        /\ outcome' \in [Sale -> Outcome]
    BY <2>3, FailBooks
  <2>5. unsure' \in [Sale -> Nat]
    BY <1>0, <1>9, <2>1 DEF TimeOut, LoseTrack, RelayerTypeOK
  <2>. QED  BY <1>0, <1>9, <2>2, <2>4, <2>5
       DEF Books, TimeOut, RelayerTypeOK, ChainTypeOK, SendsPartOfSale
<1>10. CASE Routed
  <2>1. work \in Work /\ work.sale \in Sale
    BY <1>0, <1>10, HeldWork, WorkFields DEF Routed
  <2>2. receipt' \in [Waiter -> {"none", "success", "reverted"}]
    BY <1>10, NoReceiptTypes DEF Routed
  <2>3. QueueTypeOK' /\ IsFiniteSet(seen') /\ PerMerchantIsBacklog'
    BY <1>10, <2>1, CompletedBooks DEF Routed, Release
  <2>4. outcome' \in [Sale -> Outcome]
    BY <1>0, <1>10, <2>1 DEF Routed, Ended, RelayerTypeOK, Outcome
  <2>. QED  BY <1>0, <1>10, <2>2, <2>3, <2>4
       DEF Books, Routed, Release, RelayerTypeOK, ChainTypeOK, SendsPartOfSale
<1>11. CASE FailReverted
  <2>1. receipt' \in [Waiter -> {"none", "success", "reverted"}]
    BY <1>11, NoReceiptTypes DEF FailReverted
  <2>2. Fail /\ pc \in {"read", "send", "wait"}
    BY <1>11 DEF FailReverted
  <2>3. /\ QueueTypeOK' /\ IsFiniteSet(seen') /\ PerMerchantIsBacklog'
        /\ pc' = "idle" /\ work' = NoWork /\ applyAmount' = 0
        /\ outcome' \in [Sale -> Outcome]
    BY <2>2, FailBooks
  <2>. QED  BY <1>0, <1>11, <2>1, <2>3
       DEF Books, FailReverted, RelayerTypeOK, ChainTypeOK, SendsPartOfSale
<1>12. CASE Stop
  <2>1. QueueTypeOK' /\ IsFiniteSet(seen') /\ PerMerchantIsBacklog'
    BY <1>12, SameBooks DEF Stop
  <2>. QED  BY <1>0, <1>12, <2>1
       DEF Books, Stop, RelayerTypeOK, ChainTypeOK, SendsPartOfSale, chainVars, historyVars
<1>13. CASE LoseMemory
  <2>1. QueueTypeOK' /\ IsFiniteSet(seen')
    BY <1>13, QueueAssumption, FS_EmptySet DEF LoseMemory, QueueTypeOK
  <2>2. mempool' \in Seq(Tx) /\ receipt' \in [Waiter -> {"none", "success", "reverted"}]
    BY <1>0, <1>13, AbandonedTypes, NoReceiptTypes DEF LoseMemory, ChainTypeOK
  <2>3. unsure' \in [Sale -> Nat] /\ outcome' \in [Sale -> Outcome]
    BY <1>0, <1>13 DEF LoseMemory, RelayerTypeOK, Outcome
  <2>4. ASSUME NEW m \in Merchant PROVE perMerchant'[m] = InProgress(m)'
    <3>1. items' = <<>> /\ work' = NoWork /\ perMerchant'[m] = 0
      BY <1>13 DEF LoseMemory
    <3>2. Positions(m)' = {} /\ items' \in Seq(Work)
      BY <3>1 DEF Positions
    <3>3. Backlog(m)' = 0 /\ Hand(m)' = 0
      BY <3>1, <3>2, FS_EmptySet DEF Backlog, Hand
    <3>. QED  BY <3>1, <3>2, <3>3, InProgressWillBe
  <2>. QED  BY <1>0, <1>13, <2>1, <2>2, <2>3, <2>4
       DEF Books, LoseMemory, RelayerTypeOK, ChainTypeOK, SendsPartOfSale, PerMerchantIsBacklog
<1>14. CASE Start
  <2>1. QueueTypeOK' /\ IsFiniteSet(seen') /\ PerMerchantIsBacklog'
    BY <1>14, SameBooks DEF Start
  <2>. QED  BY <1>0, <1>14, <2>1, WorkerAssumption
       DEF Books, Start, RelayerTypeOK, ChainTypeOK, SendsPartOfSale, chainVars
<1>15. CASE Second
  <2>1. QueueTypeOK' /\ IsFiniteSet(seen') /\ PerMerchantIsBacklog'
    BY <1>15, CountDownBooks DEF Second, workerVars
  <2>. QED  BY <1>0, <1>15, <2>1
       DEF Books, Second, RelayerTypeOK, ChainTypeOK, SendsPartOfSale,
           workerVars, chainVars, historyVars
<1>16. CASE ChainNext /\ UNCHANGED <<queueVars, workerVars, historyVars>>
  <2>1. QueueTypeOK' /\ IsFiniteSet(seen') /\ PerMerchantIsBacklog'
    BY <1>16, SameBooks DEF workerVars
  <2>2. ChainTypeOK'
    BY <1>0, <1>16, ChainStepTypes
  <2>. QED  BY <1>0, <1>16, <2>1, <2>2
       DEF Books, RelayerTypeOK, SendsPartOfSale, workerVars, historyVars
<1>17. CASE UNCHANGED relayerVars
  <2>1. QueueTypeOK' /\ IsFiniteSet(seen') /\ PerMerchantIsBacklog'
    BY <1>17, SameBooks DEF relayerVars, workerVars
  <2>. QED  BY <1>0, <1>17, <2>1
       DEF Books, RelayerTypeOK, ChainTypeOK, SendsPartOfSale,
           relayerVars, workerVars, chainVars, historyVars
<1>. QED  BY <1>1, <1>2, <1>3, <1>4, <1>5, <1>6, <1>7, <1>8, <1>9, <1>10, <1>11, <1>12,
            <1>13, <1>14, <1>15, <1>16, <1>17
     DEF RelayerNext, WebhookNext, WorkerNext, ProcessNext, Exit, Crash

LEMMA BooksKept == RelayerSpec => []Books
BY BooksInit, BooksStep, PTL DEF RelayerSpec

(* The types of the queue, the worker and the chain hold. *)
THEOREM RelayerTypeCorrect == RelayerSpec => []RelayerTypeOK
<1>1. Books => RelayerTypeOK
  BY DEF Books
<1>. QED  BY <1>1, BooksKept, PTL

(* Back-pressure is never off: a merchant's counter is the number of its   *)
(* sales waiting or in the worker's hands, whatever fails or is retried.   *)
THEOREM BackPressureIsExact == RelayerSpec => []PerMerchantIsBacklog
<1>1. Books => PerMerchantIsBacklog
  BY DEF Books
<1>. QED  BY <1>1, BooksKept, PTL

---------------------------------------------------------------------------
(* The dedupe set: a sale is held in one place at most, and what is held   *)
(* was accepted and has not ended.                                         *)

HeldOnce ==
  /\ \A i \in 1 .. Len(items) : outcome[items[i].sale] = "queued"
  /\ \A i, j \in 1 .. Len(items) : items[i].sale = items[j].sale => i = j
  /\ work # NoWork => /\ outcome[work.sale] = "queued"
                      /\ \A i \in 1 .. Len(items) : items[i].sale # work.sale
Accepted == SeenIsAccepted /\ HeldOnce

(* The keys of what was accepted stay the same while no outcome comes or   *)
(* goes.                                                                   *)
LEMMA SeenKept ==
  ASSUME SeenIsAccepted, seen' = seen,
         \A e \in Sale : outcome'[e] # "none" <=> outcome[e] # "none"
  PROVE  SeenIsAccepted'
<1>1. {f \in Sale : outcome'[f] # "none"} = {f \in Sale : outcome[f] # "none"}
  OBVIOUS
<1>. QED  BY <1>1 DEF SeenIsAccepted

LEMMA AcceptedByEnqueue ==
  ASSUME Books, Accepted, NEW e \in Sale, AcceptSale(e)
  PROVE  Accepted'
<1>1. /\ items \in Seq(Work) /\ seen' = seen \union {e.key} /\ e.key \notin seen
      /\ work' = work /\ outcome \in [Sale -> Outcome]
      /\ outcome' = [outcome EXCEPT ![e] = "queued"]
  BY DEF Books, RelayerTypeOK, QueueTypeOK, AcceptSale, Enqueue, Accepts, workerVars
<1>2. PICK w : items' = Append(items, w) /\ w.sale = e
  BY DEF AcceptSale, Enqueue
<1>3. outcome[e] = "none"
  BY <1>1 DEF Accepted, SeenIsAccepted
<1>4. SeenIsAccepted'
  <2>1. {f \in Sale : outcome'[f] # "none"} = {f \in Sale : outcome[f] # "none"} \union {e}
    BY <1>1, <1>3
  <2>2. {g.key : g \in {f \in Sale : outcome[f] # "none"} \union {e}}
          = {g.key : g \in {f \in Sale : outcome[f] # "none"}} \union {e.key}
    OBVIOUS
  <2>. QED  BY <1>1, <2>1, <2>2 DEF Accepted, SeenIsAccepted
<1>5. /\ Len(items') = Len(items) + 1 /\ Len(items) \in Nat
      /\ \A i \in 1 .. Len(items) : items'[i] = items[i] /\ items[i].sale \in Sale
      /\ items'[Len(items) + 1] = w
  BY <1>1, <1>2, WorkFields
<1>6. \A i \in 1 .. Len(items') : i \in 1 .. Len(items) \/ i = Len(items) + 1
  BY <1>5
<1>7. /\ \A i \in 1 .. Len(items) : items[i].sale # e
      /\ work # NoWork => work.sale # e /\ work.sale \in Sale
  BY <1>3, <1>5, HeldWork, WorkFields DEF Accepted, HeldOnce, Books, RelayerTypeOK
<1>8. \A i \in 1 .. Len(items) : outcome'[items[i].sale] = "queued"
  BY <1>1, <1>5 DEF Accepted, HeldOnce
<1>9. HeldOnce'
  <2>1. \A i \in 1 .. Len(items') : outcome'[items'[i].sale] = "queued"
    BY <1>1, <1>2, <1>5, <1>6, <1>8
  <2>2. \A i, j \in 1 .. Len(items') : items'[i].sale = items'[j].sale => i = j
    BY <1>2, <1>5, <1>6, <1>7 DEF Accepted, HeldOnce
  <2>3. work' # NoWork => outcome'[work'.sale] = "queued"
    BY <1>1, <1>7 DEF Accepted, HeldOnce
  <2>4. work' # NoWork => \A i \in 1 .. Len(items') : items'[i].sale # work'.sale
    BY <1>1, <1>2, <1>5, <1>6, <1>7 DEF Accepted, HeldOnce
  <2>. QED  BY <2>1, <2>2, <2>3, <2>4 DEF HeldOnce
<1>. QED  BY <1>4, <1>9 DEF Accepted

(* The worker takes a sale out: it holds what the array held. *)
LEMMA AcceptedByNextDue ==
  ASSUME Books, Accepted, NextDue
  PROVE  Accepted'
<1>1. PICK k \in DOMAIN items : Splice(k) /\ work' = items[k]
  BY DEF NextDue
<1>2. /\ items \in Seq(Work) /\ work = NoWork /\ outcome' = outcome /\ seen' = seen
  BY <1>1 DEF Books, RelayerTypeOK, QueueTypeOK, NextDue, Splice, historyVars
<1>3. k \in 1 .. Len(items) /\ Len(items) \in Nat
  BY <1>2
<1>4. items[k].sale.borrower \in Merchant
  BY <1>2, WorkFields
<1>5. /\ Len(items') = Len(items) - 1
      /\ \A j \in 1 .. Len(items) - 1 : items'[j] = items[IF j < k THEN j ELSE j + 1]
  BY <1>1, <1>2, <1>4, SpliceCounts
<1>. DEFINE up(j) == IF j < k THEN j ELSE j + 1
<1>6. \A j \in 1 .. Len(items') : up(j) \in 1 .. Len(items) /\ up(j) # k
  BY <1>3, <1>5
<1>7. \A i, j \in 1 .. Len(items') : up(i) = up(j) => i = j
  BY <1>3, <1>5
<1>8. \A j \in 1 .. Len(items') : items'[j] = items[up(j)]
  BY <1>5
<1>. HIDE DEF up
<1>9. HeldOnce'
  <2>1. \A j \in 1 .. Len(items') : outcome'[items'[j].sale] = "queued"
    BY <1>2, <1>6, <1>8 DEF Accepted, HeldOnce
  <2>2. \A i, j \in 1 .. Len(items') : items'[i].sale = items'[j].sale => i = j
    BY <1>6, <1>7, <1>8 DEF Accepted, HeldOnce
  <2>3. outcome'[work'.sale] = "queued"
    BY <1>1, <1>2, <1>3 DEF Accepted, HeldOnce
  <2>4. \A j \in 1 .. Len(items') : items'[j].sale # work'.sale
    BY <1>1, <1>3, <1>6, <1>8 DEF Accepted, HeldOnce
  <2>. QED  BY <2>1, <2>2, <2>3, <2>4, Zenon DEF HeldOnce
<1>10. SeenIsAccepted'
  BY <1>2, SeenKept DEF Accepted
<1>. QED  BY <1>9, <1>10 DEF Accepted

(* It is done with the sale. *)
LEMMA AcceptedByEnd ==
  ASSUME Books, Accepted, work \in Work, MarkCompleted(work), work' = NoWork,
         NEW o \in Outcome \ {"none"}, Ended(o)
  PROVE  Accepted'
<1>1. /\ items' = items /\ seen' = seen /\ items \in Seq(Work)
      /\ outcome \in [Sale -> Outcome] /\ work # NoWork /\ work.sale \in Sale
      /\ outcome' = [outcome EXCEPT ![work.sale] = o]
  BY WorkFields DEF MarkCompleted, Ended, Books, RelayerTypeOK, QueueTypeOK
<1>2. outcome[work.sale] = "queued"
  BY <1>1 DEF Accepted, HeldOnce
<1>3. \A e \in Sale : outcome'[e] # "none" <=> outcome[e] # "none"
  BY <1>1, <1>2
<1>4. \A i \in 1 .. Len(items) : items[i].sale \in Sale
  BY <1>1, WorkFields
<1>5. HeldOnce'
  BY <1>1, <1>4 DEF Accepted, HeldOnce
<1>. QED  BY <1>1, <1>3, <1>5, SeenKept DEF Accepted

(* It puts the sale back. *)
LEMMA AcceptedByRequeue ==
  ASSUME Books, Accepted, work \in Work, Requeue(work), work' = NoWork, outcome' = outcome
  PROVE  Accepted'
<1>1. items \in Seq(Work) /\ work # NoWork /\ seen' = seen
  BY WorkFields DEF Requeue, Books, RelayerTypeOK, QueueTypeOK
<1>. DEFINE v == [work EXCEPT !.attempts = @ + 1, !.wait = Delay(work.attempts + 1)]
<1>2. PICK w : items' = Append(items, w) /\ w.sale = work.sale
  <2>1. items' = Append(items, v)
    BY DEF Requeue
  <2>2. v.sale = work.sale
    BY DEF Work
  <2>. QED  BY <2>1, <2>2
<1>. HIDE DEF v
<1>3. /\ Len(items') = Len(items) + 1 /\ Len(items) \in Nat
      /\ \A i \in 1 .. Len(items) : items'[i] = items[i]
      /\ items'[Len(items) + 1] = w
  BY <1>1, <1>2
<1>4. \A i \in 1 .. Len(items') : i \in 1 .. Len(items) \/ i = Len(items) + 1
  BY <1>3
<1>5. HeldOnce'
  BY <1>1, <1>2, <1>3, <1>4 DEF Accepted, HeldOnce
<1>6. SeenIsAccepted'
  BY <1>1, SeenKept DEF Accepted
<1>. QED  BY <1>5, <1>6 DEF Accepted

LEMMA AcceptedByFail ==
  ASSUME Books, Accepted, pc \in {"read", "send", "wait"}, Fail
  PROVE  Accepted'
<1>1. work \in Work /\ work' = NoWork
  BY HeldWork DEF Books, Fail, Release
<1>2. CASE DeadLetter
  BY <1>1, <1>2, AcceptedByEnd DEF DeadLetter, Outcome
<1>3. CASE Retry
  BY <1>1, <1>3, AcceptedByRequeue DEF Retry
<1>. QED  BY <1>2, <1>3 DEF Fail

LEMMA AcceptedInit == RelayerInit => Accepted
BY DEF RelayerInit, EmptyQueue, Accepted, SeenIsAccepted, HeldOnce

LEMMA AcceptedSame ==
  ASSUME Accepted, UNCHANGED <<items, seen, work, outcome>>
  PROVE  Accepted'
BY DEF Accepted, SeenIsAccepted, HeldOnce

LEMMA AcceptedStep == Books /\ Accepted /\ [RelayerNext]_relayerVars => Accepted'
<1>. SUFFICES ASSUME Books, Accepted, [RelayerNext]_relayerVars PROVE Accepted'
  OBVIOUS
<1>0. RelayerTypeOK
  BY DEF Books
<1>1. ASSUME NEW e \in Sale, AcceptSale(e) PROVE Accepted'
  BY <1>1, AcceptedByEnqueue
<1>2. ASSUME NEW e \in Sale, RefuseSale(e) PROVE Accepted'
  BY <1>2, AcceptedSame DEF RefuseSale, Refuse, queueVars, workerVars, historyVars
<1>3. CASE NextDue
  BY <1>3, AcceptedByNextDue
<1>4. CASE SkipPaidUp
  <2>1. work \in Work
    BY <1>0, <1>4, HeldWork DEF SkipPaidUp
  <2>. QED  BY <1>4, <2>1, AcceptedByEnd DEF SkipPaidUp, Release, Outcome
<1>5. CASE ReadDebt
  BY <1>5, AcceptedSame DEF ReadDebt, queueVars, historyVars
<1>6. CASE FailBeforeSending
  BY <1>6, AcceptedByFail DEF FailBeforeSending
<1>7. CASE SendOnSaleReceived
  BY <1>7, AcceptedSame DEF SendOnSaleReceived, queueVars, historyVars
<1>8. CASE LoseHash
  BY <1>8, AcceptedByFail DEF LoseHash
<1>9. CASE TimeOut
  BY <1>9, AcceptedByFail DEF TimeOut
<1>10. CASE Routed
  <2>1. work \in Work
    BY <1>0, <1>10, HeldWork DEF Routed
  <2>. QED  BY <1>10, <2>1, AcceptedByEnd DEF Routed, Release, Outcome
<1>11. CASE FailReverted
  BY <1>11, AcceptedByFail DEF FailReverted
<1>12. CASE Stop
  BY <1>12, AcceptedSame DEF Stop, queueVars, historyVars
<1>13. CASE LoseMemory
  BY <1>13 DEF LoseMemory, Accepted, SeenIsAccepted, HeldOnce
<1>14. CASE Start
  BY <1>14, AcceptedSame DEF Start, queueVars
<1>15. CASE Second
  <2>1. /\ Len(items') = Len(items)
        /\ \A j \in 1 .. Len(items) : items'[j].sale = items[j].sale
        /\ seen' = seen /\ work' = work /\ outcome' = outcome
    BY <1>0, <1>15, CountDownCounts
    DEF Second, CountDown, RelayerTypeOK, QueueTypeOK, workerVars, historyVars
  <2>2. SeenIsAccepted'
    BY <2>1, SeenKept DEF Accepted
  <2>3. HeldOnce'
    BY <2>1 DEF Accepted, HeldOnce
  <2>. QED  BY <2>2, <2>3 DEF Accepted
<1>16. CASE ChainNext /\ UNCHANGED <<queueVars, workerVars, historyVars>>
  BY <1>16, AcceptedSame DEF queueVars, workerVars, historyVars
<1>17. CASE UNCHANGED relayerVars
  BY <1>17, AcceptedSame DEF relayerVars, queueVars, workerVars, historyVars
<1>. QED  BY <1>1, <1>2, <1>3, <1>4, <1>5, <1>6, <1>7, <1>8, <1>9, <1>10, <1>11, <1>12,
            <1>13, <1>14, <1>15, <1>16, <1>17
     DEF RelayerNext, WebhookNext, WorkerNext, ProcessNext, Exit, Crash

LEMMA AcceptedKept == RelayerSpec => []Accepted
BY BooksKept, AcceptedInit, AcceptedStep, PTL DEF RelayerSpec

(* The dedupe set holds the keys of the accepted sales and no others.      *)
THEOREM SeenWasAccepted == RelayerSpec => []SeenIsAccepted
<1>1. Accepted => SeenIsAccepted
  BY DEF Accepted
<1>. QED  BY <1>1, AcceptedKept, PTL

---------------------------------------------------------------------------
(* The wait: only the worker's last transaction has a waiter, and only     *)
(* while the worker waits for it and has no receipt.                       *)

OneWait ==
  /\ \A i \in 1 .. Len(mempool) : mempool[i].waiter # NoWaiter =>
       pc = "wait" /\ mempool[i].payment = work.sale /\ receipt["worker"] = "none"
  /\ \A i, j \in 1 .. Len(mempool) :
       mempool[i].waiter # NoWaiter /\ mempool[j].waiter # NoWaiter => i = j
ReceiptIsTheWorks ==
  /\ receipt["worker"] # "none" => pc = "wait"
  /\ receipt["worker"] = "success" => taken[work.sale] > 0
Waits == OneWait /\ ReceiptIsTheWorks /\ RoutedIsTaken

NoNewRouted == \A e \in Sale : outcome'[e] = "routed" => outcome[e] = "routed"

LEMMA FailRoutesNothing ==
  ASSUME Books, pc \in {"read", "send", "wait"}, Fail
  PROVE  NoNewRouted
<1>1. outcome \in [Sale -> Outcome] /\ work.sale \in Sale
  BY HeldWork, WorkFields DEF Books, RelayerTypeOK
<1>. QED  BY <1>1 DEF Fail, DeadLetter, Retry, Ended, NoNewRouted

(* Nobody waits while pc is not "wait", so other steps disturb no wait.    *)
LEMMA WaitsAside ==
  ASSUME Waits, pc # "wait", UNCHANGED <<mempool, receipt, taken>>, NoNewRouted
  PROVE  Waits'
BY DEF Waits, OneWait, ReceiptIsTheWorks, RoutedIsTaken, NoNewRouted

LEMMA WaitsSame ==
  ASSUME Waits, UNCHANGED <<pc, work, mempool, receipt, taken>>, NoNewRouted
  PROVE  Waits'
BY DEF Waits, OneWait, ReceiptIsTheWorks, RoutedIsTaken, NoNewRouted

(* The wait ends, with or without a receipt. *)
LEMMA WaitsEnd ==
  ASSUME NoReceipt, \A i \in 1 .. Len(mempool') : mempool'[i].waiter = NoWaiter, RoutedIsTaken'
  PROVE  Waits'
<1>1. receipt'["worker"] = "none"
  BY WorkerAssumption DEF NoReceipt
<1>. QED  BY <1>1 DEF Waits, OneWait, ReceiptIsTheWorks

LEMMA RoutedStays ==
  ASSUME RoutedIsTaken, taken' = taken, NoNewRouted
  PROVE  RoutedIsTaken'
BY DEF RoutedIsTaken, NoNewRouted

LEMMA WaitsMine ==
  ASSUME Books, Waits, Mine, UNCHANGED <<queueVars, workerVars, historyVars>>
  PROVE  Waits'
<1>. DEFINE tx == Head(mempool)
            n == Len(mempool)
<1>1. /\ mempool \in Seq(Tx) /\ mempool # <<>>
      /\ debt \in [Debtor -> 0 .. MaxDebt] /\ lineOpen \in BOOLEAN
      /\ receipt \in [Waiter -> {"none", "success", "reverted"}]
      /\ taken \in [Payment -> Nat]
  BY DEF Books, RelayerTypeOK, ChainTypeOK, Mine
<1>2. /\ n \in Nat \ {0} /\ tx = mempool[1] /\ tx \in Tx /\ Len(mempool') = n - 1
      /\ \A i \in 1 .. n - 1 : mempool'[i] = mempool[i + 1]
  BY <1>1 DEF Mine
<1>3. tx.payment \in Sale /\ tx.waiter \in {"worker", NoWaiter}
  BY <1>2, WorkerAssumption DEF Tx
<1>4. Applied(tx) \in Nat /\ (WouldAccept(tx.borrower) => Applied(tx) > 0)
  BY <1>1, <1>2, AppliedBounds
<1>5. /\ taken' = [taken EXCEPT ![tx.payment] = @ + Applied(tx)]
      /\ receipt' = IF tx.waiter = NoWaiter THEN receipt
                    ELSE [receipt EXCEPT ![tx.waiter] =
                            IF WouldAccept(tx.borrower) THEN "success" ELSE "reverted"]
  BY DEF Mine
<1>6. pc' = pc /\ work' = work /\ outcome' = outcome
  BY DEF workerVars, historyVars
<1>. HIDE DEF tx, n
<1>7. \A e \in Sale : taken'[e] \in Nat /\ taken[e] \in Nat /\ taken'[e] >= taken[e]
  BY <1>1, <1>3, <1>4, <1>5, WorkerAssumption
<1>8. taken'[tx.payment] = taken[tx.payment] + Applied(tx)
  BY <1>1, <1>3, <1>4, <1>5, WorkerAssumption
<1>9. RoutedIsTaken'
  BY <1>6, <1>7 DEF Waits, RoutedIsTaken
<1>10. CASE tx.waiter = NoWaiter
  <2>1. receipt' = receipt
    BY <1>5, <1>10
  <2>2. OneWait'
    <3>1. \A i \in 1 .. n - 1 : i + 1 \in 1 .. n
      BY <1>2
    <3>2. ASSUME NEW i \in 1 .. n - 1, mempool[i + 1].waiter # NoWaiter
          PROVE  pc = "wait" /\ mempool[i + 1].payment = work.sale /\ receipt["worker"] = "none"
      BY <3>1, <3>2 DEF Waits, OneWait, n
    <3>3. ASSUME NEW i \in 1 .. n - 1, NEW j \in 1 .. n - 1,
                 mempool[i + 1].waiter # NoWaiter, mempool[j + 1].waiter # NoWaiter
          PROVE  i = j
      <4>1. i + 1 = j + 1
        BY <3>1, <3>3 DEF Waits, OneWait, n
      <4>. QED  BY <4>1, <1>2
    <3>4. 1 .. Len(mempool') = 1 .. n - 1
      BY <1>2
    <3>5. ASSUME NEW i \in 1 .. n - 1, mempool'[i].waiter # NoWaiter
          PROVE  pc' = "wait" /\ mempool'[i].payment = work'.sale /\ receipt'["worker"] = "none"
      BY <1>2, <1>6, <2>1, <3>2, <3>5
    <3>6. ASSUME NEW i \in 1 .. n - 1, NEW j \in 1 .. n - 1,
                 mempool'[i].waiter # NoWaiter, mempool'[j].waiter # NoWaiter
          PROVE  i = j
      BY <1>2, <3>3, <3>6
    <3>. QED  BY <3>4, <3>5, <3>6 DEF OneWait
  <2>3. ReceiptIsTheWorks'
    <3>1. receipt["worker"] = "success" => work.sale \in Sale
      BY HeldWork, WorkFields DEF Waits, ReceiptIsTheWorks, Books
    <3>. QED  BY <1>6, <1>7, <2>1, <3>1 DEF Waits, ReceiptIsTheWorks
  <2>. QED  BY <1>9, <2>2, <2>3 DEF Waits
<1>11. CASE tx.waiter # NoWaiter
  <2>1. pc = "wait" /\ tx.payment = work.sale
    BY <1>2, <1>11 DEF Waits, OneWait, n
  <2>2. receipt'["worker"] = IF WouldAccept(tx.borrower) THEN "success" ELSE "reverted"
    BY <1>1, <1>3, <1>5, <1>11, WorkerAssumption
  <2>3. \A i \in 1 .. n - 1 : mempool'[i].waiter = NoWaiter
    <3>1. \A i \in 1 .. n - 1 : i + 1 \in 1 .. n /\ i + 1 # 1 /\ 1 \in 1 .. n
      BY <1>2
    <3>. QED  BY <1>2, <1>11, <3>1 DEF Waits, OneWait, n
  <2>4. OneWait'
    BY <1>2, <2>3 DEF OneWait
  <2>5. receipt'["worker"] = "success" => taken'[work.sale] > 0
    <3>1. taken[tx.payment] \in Nat
      BY <1>3, <1>7
    <3>. QED  BY <1>4, <1>8, <2>1, <2>2, <3>1
  <2>6. ReceiptIsTheWorks'
    BY <1>6, <2>1, <2>5 DEF ReceiptIsTheWorks
  <2>. QED  BY <1>9, <2>4, <2>6 DEF Waits
<1>. QED  BY <1>10, <1>11

LEMMA WaitsInit == RelayerInit => Waits
<1>. SUFFICES ASSUME RelayerInit PROVE Waits
  OBVIOUS
<1>1. receipt["worker"] = "none" /\ mempool = <<>>
  BY WorkerAssumption DEF RelayerInit, ChainInit
<1>. QED  BY <1>1 DEF RelayerInit, Waits, OneWait, ReceiptIsTheWorks, RoutedIsTaken

(* One more transaction, with a waiter or none. *)
LEMMA SubmittedIs ==
  ASSUME mempool \in Seq(Tx), NEW w \in Work, NEW k \in Nat \ {0},
         NEW v \in Waiter \union {NoWaiter},
         mempool' = Submitted(w.sale, w.sale.borrower, k, v)
  PROVE  /\ Len(mempool) \in Nat /\ Len(mempool') = Len(mempool) + 1
         /\ \A i \in 1 .. Len(mempool) : mempool'[i] = mempool[i]
         /\ mempool'[Len(mempool) + 1].payment = w.sale
         /\ mempool'[Len(mempool) + 1].amount = k
         /\ mempool'[Len(mempool) + 1].waiter = v
         /\ \A i \in 1 .. Len(mempool') : i \in 1 .. Len(mempool) \/ i = Len(mempool) + 1
<1>. DEFINE tx == [payment |-> w.sale, borrower |-> w.sale.borrower, amount |-> k, waiter |-> v]
<1>1. mempool' = Append(mempool, tx)
  BY DEF Submitted
<1>2. tx \in Tx /\ tx.payment = w.sale /\ tx.amount = k /\ tx.waiter = v
  BY WorkFields, WorkerAssumption DEF Tx
<1>. HIDE DEF tx
<1>. QED  BY <1>1, <1>2

LEMMA AbandonedHasNoWaiter ==
  ASSUME mempool \in Seq(Tx)
  PROVE  \A i \in 1 .. Len(Abandoned("worker")) : Abandoned("worker")[i].waiter = NoWaiter
<1>1. /\ Relabelled(Abandoned("worker"))
      /\ \A i \in 1 .. Len(mempool) : Abandoned("worker")[i].waiter # "worker"
  BY AbandonedRelabels, WorkerAssumption
<1>2. ASSUME NEW i \in 1 .. Len(mempool) PROVE mempool[i].waiter \in {"worker", NoWaiter}
  <2>1. mempool[i] \in Tx
    OBVIOUS
  <2>. QED  BY <2>1, WorkerAssumption DEF Tx
<1>. QED  BY <1>1, <1>2 DEF Relabelled

LEMMA WaitsStep == Books /\ Waits /\ [RelayerNext]_relayerVars => Waits'
<1>. SUFFICES ASSUME Books, Waits, [RelayerNext]_relayerVars PROVE Waits'
  OBVIOUS
<1>0. /\ RelayerTypeOK /\ mempool \in Seq(Tx) /\ outcome \in [Sale -> Outcome]
      /\ RoutedIsTaken
      /\ pc \in {"send", "wait"} => work \in Work /\ applyAmount \in Nat \ {0}
  BY HeldWork DEF Books, RelayerTypeOK, ChainTypeOK, Waits, SendsPartOfSale
<1>1. ASSUME NEW e \in Sale, AcceptSale(e) PROVE Waits'
  <2>1. NoNewRouted
    BY <1>0, <1>1 DEF AcceptSale, NoNewRouted
  <2>. QED  BY <1>1, <2>1, WaitsSame DEF AcceptSale, workerVars, chainVars
<1>2. ASSUME NEW e \in Sale, RefuseSale(e) PROVE Waits'
  BY <1>2, WaitsSame DEF RefuseSale, workerVars, chainVars, historyVars, NoNewRouted
<1>3. CASE NextDue
  BY <1>3, WaitsAside DEF NextDue, chainVars, historyVars, NoNewRouted
<1>4. CASE SkipPaidUp
  <2>1. work.sale \in Sale
    BY <1>0, <1>4, HeldWork, WorkFields DEF SkipPaidUp
  <2>2. NoNewRouted
    BY <1>0, <1>4, <2>1 DEF SkipPaidUp, Ended, NoNewRouted
  <2>. QED  BY <1>4, <2>2, WaitsAside DEF SkipPaidUp, chainVars
<1>5. CASE ReadDebt
  BY <1>5, WaitsAside DEF ReadDebt, chainVars, historyVars, NoNewRouted
<1>6. CASE FailBeforeSending
  <2>1. NoNewRouted
    BY <1>6, FailRoutesNothing DEF FailBeforeSending
  <2>. QED  BY <1>6, <2>1, WaitsAside DEF FailBeforeSending, chainVars
<1>7. CASE SendOnSaleReceived
  <2>1. work \in Work /\ applyAmount \in Nat \ {0}
    BY <1>0, <1>7 DEF SendOnSaleReceived
  <2>2. /\ Len(mempool) \in Nat /\ Len(mempool') = Len(mempool) + 1
        /\ \A i \in 1 .. Len(mempool) : mempool'[i] = mempool[i]
        /\ mempool'[Len(mempool) + 1].payment = work.sale
        /\ \A i \in 1 .. Len(mempool') : i \in 1 .. Len(mempool) \/ i = Len(mempool) + 1
    BY <1>0, <1>7, <2>1, SubmittedIs, WorkerAssumption DEF SendOnSaleReceived
  <2>3. \A i \in 1 .. Len(mempool) : mempool[i].waiter = NoWaiter
    BY <1>7 DEF SendOnSaleReceived, Waits, OneWait
  <2>4. receipt["worker"] = "none"
    BY <1>7 DEF SendOnSaleReceived, Waits, ReceiptIsTheWorks
  <2>5. pc' = "wait" /\ work' = work /\ receipt' = receipt /\ taken' = taken /\ outcome' = outcome
    BY <1>7 DEF SendOnSaleReceived, historyVars
  <2>6. OneWait'
    BY <2>2, <2>3, <2>4, <2>5 DEF OneWait
  <2>7. ReceiptIsTheWorks' /\ RoutedIsTaken'
    BY <1>0, <2>4, <2>5 DEF ReceiptIsTheWorks, RoutedIsTaken
  <2>. QED  BY <2>6, <2>7 DEF Waits
<1>8. CASE LoseHash
  <2>1. work \in Work /\ applyAmount \in Nat \ {0}
    BY <1>0, <1>8 DEF LoseHash
  <2>2. /\ Len(mempool) \in Nat /\ Len(mempool') = Len(mempool) + 1
        /\ \A i \in 1 .. Len(mempool) : mempool'[i] = mempool[i]
        /\ mempool'[Len(mempool) + 1].waiter = NoWaiter
        /\ \A i \in 1 .. Len(mempool') : i \in 1 .. Len(mempool) \/ i = Len(mempool) + 1
    BY <1>0, <1>8, <2>1, SubmittedIs DEF LoseHash
  <2>3. \A i \in 1 .. Len(mempool) : mempool[i].waiter = NoWaiter
    BY <1>8 DEF LoseHash, Waits, OneWait
  <2>4. receipt'["worker"] = "none"
    BY <1>8 DEF LoseHash, Waits, ReceiptIsTheWorks
  <2>5. RoutedIsTaken'
    BY <1>0, <1>8, FailRoutesNothing, RoutedStays DEF LoseHash
  <2>6. \A i \in 1 .. Len(mempool') : mempool'[i].waiter = NoWaiter
    BY <2>2, <2>3
  <2>. QED  BY <2>4, <2>5, <2>6 DEF Waits, OneWait, ReceiptIsTheWorks
<1>9. CASE TimeOut
  <2>1. \A i \in 1 .. Len(mempool') : mempool'[i].waiter = NoWaiter
    BY <1>0, <1>9, AbandonedHasNoWaiter DEF TimeOut
  <2>2. RoutedIsTaken'
    BY <1>0, <1>9, FailRoutesNothing, RoutedStays DEF TimeOut
  <2>. QED  BY <1>9, <2>1, <2>2, WaitsEnd DEF TimeOut
<1>10. CASE Routed
  <2>1. \A i \in 1 .. Len(mempool) : mempool[i].waiter = NoWaiter
    BY <1>10 DEF Routed, Waits, OneWait
  <2>2. work.sale \in Sale /\ taken[work.sale] > 0
    BY <1>0, <1>10, WorkFields DEF Routed, Waits, ReceiptIsTheWorks
  <2>3. RoutedIsTaken'
    BY <1>0, <1>10, <2>2 DEF Routed, Ended, RoutedIsTaken
  <2>. QED  BY <1>10, <2>1, <2>3, WaitsEnd DEF Routed
<1>11. CASE FailReverted
  <2>1. \A i \in 1 .. Len(mempool) : mempool[i].waiter = NoWaiter
    BY <1>11 DEF FailReverted, Waits, OneWait
  <2>2. RoutedIsTaken'
    BY <1>0, <1>11, FailRoutesNothing, RoutedStays DEF FailReverted
  <2>. QED  BY <1>11, <2>1, <2>2, WaitsEnd DEF FailReverted
<1>12. CASE Stop
  BY <1>12, WaitsSame DEF Stop, chainVars, historyVars, NoNewRouted
<1>13. CASE LoseMemory
  <2>1. \A i \in 1 .. Len(mempool') : mempool'[i].waiter = NoWaiter
    BY <1>0, <1>13, AbandonedHasNoWaiter DEF LoseMemory
  <2>2. RoutedIsTaken'
    BY <1>13 DEF LoseMemory, RoutedIsTaken
  <2>. QED  BY <1>13, <2>1, <2>2, WaitsEnd DEF LoseMemory
<1>14. CASE Start
  BY <1>14, WaitsAside DEF Start, chainVars, NoNewRouted
<1>15. CASE Second
  BY <1>15, WaitsSame DEF Second, workerVars, chainVars, historyVars, NoNewRouted
<1>16. CASE ChainNext /\ UNCHANGED <<queueVars, workerVars, historyVars>>
  <2>1. CASE Mine
    BY <1>16, <2>1, WaitsMine
  <2>2. CASE LineTurns \/ \E m \in Debtor : DebtMoves(m)
    BY <1>16, <2>2, WaitsSame DEF LineTurns, DebtMoves, workerVars, historyVars, NoNewRouted
  <2>. QED  BY <1>16, <2>1, <2>2 DEF ChainNext
<1>17. CASE UNCHANGED relayerVars
  BY <1>17, WaitsSame DEF relayerVars, workerVars, chainVars, historyVars, NoNewRouted
<1>. QED  BY <1>1, <1>2, <1>3, <1>4, <1>5, <1>6, <1>7, <1>8, <1>9, <1>10, <1>11, <1>12,
            <1>13, <1>14, <1>15, <1>16, <1>17
     DEF RelayerNext, WebhookNext, WorkerNext, ProcessNext, Exit, Crash

LEMMA WaitsKept == RelayerSpec => []Waits
BY BooksKept, WaitsInit, WaitsStep, PTL DEF RelayerSpec

(* A sale closed as routed was taken from the borrower.                    *)
THEOREM RoutedWasTaken == RelayerSpec => []RoutedIsTaken
<1>1. Waits => RoutedIsTaken
  BY DEF Waits
<1>. QED  BY <1>1, WaitsKept, PTL

---------------------------------------------------------------------------
(* The losses: what the chain took for a sale was paid for by the attempt  *)
(* that counts or by a loss of track, and so is each of the sale's         *)
(* transactions still in the mempool.                                      *)

Sent(e) == {i \in 1 .. Len(mempool) : mempool[i].payment = e}
InPool(e) == Cardinality(Sent(e))
Used(e) == One(\/ pc = "wait" /\ work.sale = e /\ receipt["worker"] # "reverted"
               \/ outcome[e] = "routed")
Credit(e) == unsure[e] + Used(e) - InPool(e)

PartsOfSales == \A i \in 1 .. Len(mempool) : mempool[i].amount <= mempool[i].payment.amount
Backed == \A e \in Sale : taken[e] <= e.amount * Credit(e)
Losses == PartsOfSales /\ Backed

LEMMA MoreCredit ==
  ASSUME NEW a \in Nat, NEW t \in Nat, NEW c \in Int, NEW d \in Int, t <= a * c
  PROVE  /\ c <= d => t <= a * d
         /\ \A u \in Nat : u <= t + a /\ c + 1 <= d => u <= a * d
<1>1. ASSUME NEW x \in Int, NEW y \in Int, x <= y PROVE a * x <= a * y
  <2>1. PICK z \in Nat : y = x + z
    <3>1. y - x \in Nat /\ y = x + (y - x)
      BY <1>1
    <3>. QED  BY <3>1
  <2>2. a * y = a * x + a * z /\ a * z \in Nat /\ a * x \in Int
    BY <2>1
  <2>. QED  BY <2>2
<1>2. a * (c + 1) = a * c + a
  OBVIOUS
<1>3. a * c \in Int /\ a * d \in Int /\ c + 1 \in Int
  OBVIOUS
<1>. QED  BY <1>1, <1>2, <1>3

LEMMA LossTypes ==
  ASSUME Books, NEW e \in Sale
  PROVE  /\ InPool(e) \in Nat /\ unsure[e] \in Nat /\ taken[e] \in Nat
         /\ Used(e) \in {0, 1} /\ Used(e)' \in {0, 1} /\ e.amount \in Nat
<1>1. mempool \in Seq(Tx) /\ unsure \in [Sale -> Nat] /\ taken \in [Payment -> Nat]
  BY DEF Books, RelayerTypeOK, ChainTypeOK
<1>2. Len(mempool) \in Nat /\ Sent(e) \in SUBSET (1 .. Len(mempool))
  BY <1>1 DEF Sent
<1>3. IsFiniteSet(1 .. Len(mempool))
  BY <1>2, FS_Interval
<1>4. InPool(e) \in Nat
  BY <1>2, <1>3, FS_Subset, FS_CardinalityType DEF InPool
<1>5. Used(e) \in {0, 1} /\ Used(e)' \in {0, 1}
  BY DEF Used, One
<1>. QED  BY <1>1, <1>4, <1>5, WorkerAssumption, SaleAssumption

(* A step that takes nothing loses no credit. *)
LEMMA BackedKept ==
  ASSUME Books, Backed, taken' = taken,
         \A e \in Sale : unsure'[e] \in Nat /\ InPool(e)' \in Nat,
         \A e \in Sale : unsure[e] + Used(e) - InPool(e) <= unsure'[e] + Used(e)' - InPool(e)'
  PROVE  Backed'
<1>1. ASSUME NEW e \in Sale PROVE taken'[e] <= e.amount * Credit(e)'
  <2>1. /\ InPool(e) \in Nat /\ unsure[e] \in Nat /\ taken[e] \in Nat
        /\ Used(e) \in {0, 1} /\ Used(e)' \in {0, 1} /\ e.amount \in Nat
    BY LossTypes
  <2>2. Credit(e) \in Int /\ Credit(e)' \in Int /\ Credit(e) <= Credit(e)'
    BY <2>1 DEF Credit
  <2>3. taken[e] <= e.amount * Credit(e)
    BY DEF Backed
  <2>. QED  BY <2>1, <2>2, <2>3, MoreCredit
<1>. QED  BY <1>1 DEF Backed

LEMMA LossesQuiet ==
  ASSUME Books, Losses, UNCHANGED <<mempool, taken, unsure>>,
         \A e \in Sale : Used(e) <= Used(e)'
  PROVE  Losses'
<1>1. PartsOfSales'
  BY DEF Losses, PartsOfSales
<1>2. \A e \in Sale : InPool(e)' = InPool(e)
  BY DEF InPool, Sent
<1>3. Backed'
  BY <1>2, LossTypes, BackedKept DEF Losses
<1>. QED  BY <1>1, <1>3 DEF Losses

(* Nobody gives up a sale already routed. *)
RoutedStaysRouted == \A e \in Sale : outcome[e] = "routed" => outcome'[e] = "routed"

LEMMA FailKeepsRouted ==
  ASSUME Books, Accepted, pc \in {"read", "send", "wait"}, Fail
  PROVE  RoutedStaysRouted
<1>1. outcome \in [Sale -> Outcome] /\ work.sale \in Sale /\ work # NoWork
  BY HeldWork, WorkFields DEF Books, RelayerTypeOK
<1>2. outcome[work.sale] = "queued"
  BY <1>1 DEF Accepted, HeldOnce
<1>. QED  BY <1>1, <1>2 DEF Fail, DeadLetter, Retry, Ended, RoutedStaysRouted

LEMMA UsedAside ==
  ASSUME pc # "wait", RoutedStaysRouted
  PROVE  \A e \in Sale : Used(e) <= Used(e)'
BY DEF Used, One, RoutedStaysRouted

LEMMA UsedSame ==
  ASSUME UNCHANGED <<pc, work, receipt>>, RoutedStaysRouted
  PROVE  \A e \in Sale : Used(e) <= Used(e)'
BY DEF Used, One, RoutedStaysRouted

(* A transaction more. *)
LEMMA LossesSubmit ==
  ASSUME Books, Losses, work \in Work, NEW v \in Waiter \union {NoWaiter},
         applyAmount \in Nat \ {0}, applyAmount <= work.sale.amount,
         mempool' = Submitted(work.sale, work.sale.borrower, applyAmount, v)
  PROVE  /\ PartsOfSales'
         /\ \A e \in Sale : InPool(e)' = InPool(e) + One(e = work.sale)
<1>0. mempool \in Seq(Tx)
  BY DEF Books, RelayerTypeOK, ChainTypeOK
<1>1. /\ Len(mempool) \in Nat /\ Len(mempool') = Len(mempool) + 1
      /\ \A i \in 1 .. Len(mempool) : mempool'[i] = mempool[i]
      /\ mempool'[Len(mempool) + 1].payment = work.sale
      /\ mempool'[Len(mempool) + 1].amount = applyAmount
      /\ \A i \in 1 .. Len(mempool') : i \in 1 .. Len(mempool) \/ i = Len(mempool) + 1
  BY <1>0, SubmittedIs
<1>2. PartsOfSales'
  BY <1>1 DEF Losses, PartsOfSales
<1>3. ASSUME NEW e \in Sale PROVE InPool(e)' = InPool(e) + One(e = work.sale)
  <2>1. Sent(e) \in SUBSET (1 .. Len(mempool))
    BY DEF Sent
  <2>2. Sent(e)' = {i \in 1 .. Len(mempool) + 1 : mempool'[i].payment = e}
    BY <1>1 DEF Sent
  <2>3. \A j \in 1 .. Len(mempool) : j \in Sent(e)' <=> j \in Sent(e)
    BY <1>1, <2>2 DEF Sent
  <2>4. Len(mempool) + 1 \in Sent(e)' <=> e = work.sale
    BY <1>1, <2>2
  <2>5. Cardinality(Sent(e)') = Cardinality(Sent(e))
          + (IF Len(mempool) + 1 \in Sent(e)' THEN 1 ELSE 0)
    BY <1>1, <2>1, <2>2, <2>3, CountAppended
  <2>. QED  BY <2>4, <2>5 DEF InPool, One
<1>. QED  BY <1>2, <1>3

(* The same transactions, without a waiter. *)
LEMMA LossesAbandon ==
  ASSUME Books, Losses, mempool' = Abandoned("worker")
  PROVE  PartsOfSales' /\ \A e \in Sale : InPool(e)' = InPool(e)
<1>1. mempool \in Seq(Tx) /\ Relabelled(mempool')
  BY AbandonedRelabels, WorkerAssumption DEF Books, RelayerTypeOK, ChainTypeOK
<1>2. PartsOfSales'
  BY <1>1 DEF Relabelled, Losses, PartsOfSales
<1>3. \A e \in Sale : Sent(e)' = Sent(e)
  BY <1>1 DEF Relabelled, Sent
<1>. QED  BY <1>2, <1>3 DEF InPool

LEMMA LossesMine ==
  ASSUME Books, Waits, Losses, Mine, UNCHANGED <<queueVars, workerVars, historyVars>>
  PROVE  Losses'
<1>. DEFINE tx == Head(mempool)
            n == Len(mempool)
<1>1. /\ mempool \in Seq(Tx) /\ mempool # <<>>
      /\ debt \in [Debtor -> 0 .. MaxDebt] /\ lineOpen \in BOOLEAN
      /\ receipt \in [Waiter -> {"none", "success", "reverted"}]
      /\ taken \in [Payment -> Nat]
  BY DEF Books, RelayerTypeOK, ChainTypeOK, Mine
<1>2. /\ n \in Nat \ {0} /\ tx = mempool[1] /\ tx \in Tx /\ Len(mempool') = n - 1
      /\ \A i \in 1 .. n - 1 : mempool'[i] = mempool[i + 1]
  BY <1>1 DEF Mine
<1>3. tx.payment \in Sale /\ tx.waiter \in {"worker", NoWaiter} /\ tx.amount \in Nat
  BY <1>2, WorkerAssumption DEF Tx
<1>4. /\ Applied(tx) \in Nat /\ Applied(tx) <= tx.amount
      /\ ~WouldAccept(tx.borrower) => Applied(tx) = 0
  BY <1>1, <1>2, AppliedBounds DEF Applied
<1>5. /\ taken' = [taken EXCEPT ![tx.payment] = @ + Applied(tx)]
      /\ receipt' = IF tx.waiter = NoWaiter THEN receipt
                    ELSE [receipt EXCEPT ![tx.waiter] =
                            IF WouldAccept(tx.borrower) THEN "success" ELSE "reverted"]
  BY DEF Mine
<1>6. pc' = pc /\ work' = work /\ outcome' = outcome /\ unsure' = unsure
  BY DEF workerVars, historyVars
<1>. HIDE DEF tx, n
<1>7. tx.amount <= tx.payment.amount
  <2>1. 1 \in 1 .. n
    BY <1>2
  <2>. QED  BY <1>2, <2>1 DEF Losses, PartsOfSales, n
<1>8. PartsOfSales'
  <2>1. \A i \in 1 .. n - 1 : i + 1 \in 1 .. n
    BY <1>2
  <2>. QED  BY <1>2, <2>1 DEF Losses, PartsOfSales, n
<1>9. ASSUME NEW e \in Sale PROVE InPool(e)' = InPool(e) - One(e = tx.payment)
  <2>1. 1 \in Sent(e) <=> e = tx.payment
    BY <1>2 DEF Sent, n
  <2>2. TakenOut(n, 1, Sent(e), Sent(e)')
    <3>1. n \in Nat /\ 1 \in 1 .. n /\ Sent(e) \in SUBSET (1 .. n)
      BY <1>2 DEF Sent, n
    <3>2. Sent(e)' = {i \in 1 .. n - 1 : mempool'[i].payment = e}
      BY <1>2 DEF Sent
    <3>3. \A j \in 1 .. n - 1 : j + 1 \in 1 .. n /\ ~(j < 1)
      BY <1>2
    <3>4. \A j \in 1 .. n - 1 : j \in Sent(e)' <=> j + 1 \in Sent(e)
      BY <1>2, <3>2, <3>3 DEF Sent, n
    <3>. QED  BY <3>1, <3>2, <3>3, <3>4 DEF TakenOut
  <2>3. Cardinality(Sent(e)') = Cardinality(Sent(e)) - (IF 1 \in Sent(e) THEN 1 ELSE 0)
    BY <2>2, CountRemoved
  <2>. QED  BY <2>1, <2>3 DEF InPool, One
<1>10. ASSUME NEW e \in Sale PROVE taken'[e] <= e.amount * Credit(e)'
  <2>1. /\ InPool(e) \in Nat /\ unsure[e] \in Nat /\ taken[e] \in Nat
        /\ Used(e) \in {0, 1} /\ Used(e)' \in {0, 1} /\ e.amount \in Nat
    BY LossTypes
  <2>2. InPool(e)' \in Int /\ InPool(e)' = InPool(e) - One(e = tx.payment)
    BY <1>9, <2>1 DEF One
  <2>3. Credit(e) \in Int /\ Credit(e)' \in Int
        /\ Credit(e) = unsure[e] + Used(e) - InPool(e)
        /\ Credit(e)' = unsure[e] + Used(e)' - InPool(e)'
    BY <1>6, <2>1, <2>2 DEF Credit
  <2>4. taken[e] <= e.amount * Credit(e)
    BY DEF Losses, Backed
  <2>5. CASE e # tx.payment
    <3>1. taken'[e] = taken[e] /\ InPool(e)' = InPool(e)
      BY <1>1, <1>3, <1>5, <2>1, <2>2, <2>5, WorkerAssumption DEF One
    <3>2. Used(e)' = Used(e)
      <4>1. CASE tx.waiter = NoWaiter
        BY <1>5, <1>6, <4>1 DEF Used
      <4>2. CASE tx.waiter # NoWaiter
        <5>1. 1 \in 1 .. Len(mempool)
          BY <1>2 DEF n
        <5>2. tx.payment = work.sale
          BY <1>2, <4>2, <5>1 DEF Waits, OneWait
        <5>. QED  BY <1>6, <2>5, <5>2 DEF Used
      <4>. QED  BY <4>1, <4>2
    <3>. QED  BY <2>1, <2>3, <2>4, <3>1, <3>2, MoreCredit
  <2>6. CASE e = tx.payment
    <3>1. taken'[e] = taken[e] + Applied(tx) /\ taken'[e] \in Nat
      BY <1>1, <1>3, <1>4, <1>5, <2>6, WorkerAssumption
    <3>2. InPool(e)' = InPool(e) - 1
      BY <2>2, <2>6 DEF One
    <3>3. taken'[e] <= taken[e] + e.amount
      BY <1>3, <1>4, <1>7, <2>1, <2>6, <3>1
    <3>4. CASE Used(e)' = Used(e)
      BY <2>1, <2>3, <2>4, <3>1, <3>2, <3>3, <3>4, MoreCredit
    <3>5. CASE Used(e)' # Used(e)
      <4>1. tx.waiter = "worker"
        BY <1>3, <1>5, <1>6, <3>5 DEF Used
      <4>2. pc = "wait" /\ receipt["worker"] = "none" /\ tx.payment = work.sale
        <5>1. 1 \in 1 .. Len(mempool)
          BY <1>2 DEF n
        <5>. QED  BY <1>2, <4>1, <5>1, WorkerAssumption, WaiterAssumption DEF Waits, OneWait
      <4>3. receipt'["worker"] = IF WouldAccept(tx.borrower) THEN "success" ELSE "reverted"
        BY <1>1, <1>5, <4>1, WorkerAssumption, WaiterAssumption
      <4>4. ~WouldAccept(tx.borrower)
        BY <1>6, <3>5, <4>2, <4>3 DEF Used
      <4>5. taken'[e] = taken[e]
        BY <1>4, <2>1, <3>1, <4>4
      <4>6. Credit(e) <= Credit(e)'
        BY <2>1, <2>3, <3>2
      <4>. QED  BY <2>1, <2>3, <2>4, <4>5, <4>6, MoreCredit
    <3>. QED  BY <3>4, <3>5
  <2>. QED  BY <2>5, <2>6
<1>. QED  BY <1>8, <1>10 DEF Losses, Backed

LEMMA LossesInit == RelayerInit => Losses
<1>. SUFFICES ASSUME RelayerInit PROVE Losses
  OBVIOUS
<1>0. Books
  BY BooksInit
<1>1. PartsOfSales
  BY DEF RelayerInit, ChainInit, PartsOfSales
<1>2. ASSUME NEW e \in Sale PROVE taken[e] <= e.amount * Credit(e)
  <2>1. Sent(e) = {}
    BY DEF RelayerInit, ChainInit, Sent
  <2>2. InPool(e) = 0 /\ taken[e] = 0 /\ unsure[e] = 0
    BY <2>1, FS_EmptySet, WorkerAssumption DEF InPool, RelayerInit, ChainInit
  <2>3. Used(e) \in {0, 1} /\ e.amount \in Nat
    BY <1>0, LossTypes
  <2>4. Credit(e) \in Nat
    BY <2>2, <2>3 DEF Credit
  <2>5. e.amount * Credit(e) \in Nat
    BY <2>3, <2>4
  <2>. QED  BY <2>2, <2>5
<1>. QED  BY <1>1, <1>2 DEF Losses, Backed

LEMMA LossesStep ==
  Books /\ Accepted /\ Waits /\ Losses /\ [RelayerNext]_relayerVars => Losses'
<1>. SUFFICES ASSUME Books, Accepted, Waits, Losses, [RelayerNext]_relayerVars PROVE Losses'
  OBVIOUS
<1>0. /\ RelayerTypeOK /\ outcome \in [Sale -> Outcome] /\ unsure \in [Sale -> Nat]
      /\ pc \in {"read", "send", "wait"} =>
           work \in Work /\ work.sale \in Sale /\ outcome[work.sale] = "queued"
      /\ pc \in {"send", "wait"} => applyAmount \in Nat \ {0} /\ applyAmount <= work.sale.amount
  BY HeldWork, WorkFields DEF Books, RelayerTypeOK, SendsPartOfSale, Accepted, HeldOnce
<1>1. ASSUME NEW e \in Sale, AcceptSale(e) PROVE Losses'
  <2>1. outcome[e] = "none"
    BY <1>1 DEF AcceptSale, Enqueue, Accepts, Accepted, SeenIsAccepted
  <2>2. RoutedStaysRouted
    BY <1>0, <1>1, <2>1 DEF AcceptSale, RoutedStaysRouted
  <2>. QED  BY <1>1, <2>2, UsedSame, LossesQuiet DEF AcceptSale, workerVars, chainVars
<1>2. ASSUME NEW e \in Sale, RefuseSale(e) PROVE Losses'
  BY <1>2, UsedSame, LossesQuiet DEF RefuseSale, workerVars, chainVars, historyVars, RoutedStaysRouted
<1>3. CASE NextDue
  BY <1>3, UsedAside, LossesQuiet DEF NextDue, chainVars, historyVars, RoutedStaysRouted
<1>4. CASE SkipPaidUp
  <2>1. RoutedStaysRouted
    BY <1>0, <1>4 DEF SkipPaidUp, Ended, RoutedStaysRouted
  <2>. QED  BY <1>4, <2>1, UsedAside, LossesQuiet DEF SkipPaidUp, chainVars
<1>5. CASE ReadDebt
  BY <1>5, UsedAside, LossesQuiet DEF ReadDebt, chainVars, historyVars, RoutedStaysRouted
<1>6. CASE FailBeforeSending
  <2>1. RoutedStaysRouted
    BY <1>6, FailKeepsRouted DEF FailBeforeSending
  <2>. QED  BY <1>6, <2>1, UsedAside, LossesQuiet DEF FailBeforeSending, chainVars
<1>7. CASE SendOnSaleReceived
  <2>1. PartsOfSales' /\ \A e \in Sale : InPool(e)' = InPool(e) + One(e = work.sale)
    BY <1>0, <1>7, LossesSubmit, WorkerAssumption DEF SendOnSaleReceived
  <2>2. taken' = taken /\ unsure' = unsure
    BY <1>7 DEF SendOnSaleReceived, historyVars
  <2>3. receipt["worker"] = "none"
    BY <1>7 DEF SendOnSaleReceived, Waits, ReceiptIsTheWorks
  <2>4. \A e \in Sale : Used(e)' = Used(e) + One(e = work.sale)
    BY <1>0, <1>7, <2>3 DEF SendOnSaleReceived, historyVars, Used, One
  <2>5. \A e \in Sale : One(e = work.sale) \in {0, 1}
    BY DEF One
  <2>6. \A e \in Sale : /\ unsure'[e] \in Nat /\ InPool(e)' \in Nat
                        /\ unsure[e] + Used(e) - InPool(e) <= unsure'[e] + Used(e)' - InPool(e)'
    BY <2>1, <2>2, <2>4, <2>5, LossTypes
  <2>. QED  BY <2>1, <2>2, <2>6, BackedKept DEF Losses
<1>8. CASE LoseHash
  <2>1. PartsOfSales' /\ \A e \in Sale : InPool(e)' = InPool(e) + One(e = work.sale)
    BY <1>0, <1>8, LossesSubmit DEF LoseHash
  <2>2. taken' = taken
    BY <1>8 DEF LoseHash
  <2>3. \A e \in Sale : unsure'[e] = unsure[e] + One(e = work.sale)
    BY <1>0, <1>8 DEF LoseHash, LoseTrack, One
  <2>4. \A e \in Sale : Used(e) <= Used(e)'
    BY <1>8, FailKeepsRouted, UsedAside DEF LoseHash
  <2>5. \A e \in Sale : One(e = work.sale) \in {0, 1}
    BY DEF One
  <2>6. \A e \in Sale : /\ unsure'[e] \in Nat /\ InPool(e)' \in Nat
                        /\ unsure[e] + Used(e) - InPool(e) <= unsure'[e] + Used(e)' - InPool(e)'
    BY <2>1, <2>3, <2>4, <2>5, LossTypes
  <2>. QED  BY <2>1, <2>2, <2>6, BackedKept DEF Losses
<1>9. CASE TimeOut
  <2>1. PartsOfSales' /\ \A e \in Sale : InPool(e)' = InPool(e)
    BY <1>9, LossesAbandon DEF TimeOut
  <2>2. taken' = taken
    BY <1>9 DEF TimeOut
  <2>3. \A e \in Sale : unsure'[e] = unsure[e] + One(e = work.sale)
    BY <1>0, <1>9 DEF TimeOut, LoseTrack, One
  <2>4. \A e \in Sale : Used(e) <= Used(e)' + One(e = work.sale)
    <3>1. RoutedStaysRouted
      BY <1>9, FailKeepsRouted DEF TimeOut
    <3>. QED  BY <3>1 DEF Used, One, RoutedStaysRouted
  <2>5. \A e \in Sale : One(e = work.sale) \in {0, 1}
    BY DEF One
  <2>6. \A e \in Sale : /\ unsure'[e] \in Nat /\ InPool(e)' \in Nat
                        /\ unsure[e] + Used(e) - InPool(e) <= unsure'[e] + Used(e)' - InPool(e)'
    BY <2>1, <2>3, <2>4, <2>5, LossTypes
  <2>. QED  BY <2>1, <2>2, <2>6, BackedKept DEF Losses
<1>10. CASE Routed
  <2>1. \A e \in Sale : Used(e) <= Used(e)'
    BY <1>0, <1>10 DEF Routed, Ended, Used, One
  <2>. QED  BY <1>10, <2>1, LossesQuiet DEF Routed
<1>11. CASE FailReverted
  <2>1. RoutedStaysRouted
    BY <1>11, FailKeepsRouted DEF FailReverted
  <2>2. \A e \in Sale : Used(e) <= Used(e)'
    BY <1>11, <2>1 DEF FailReverted, Used, One, RoutedStaysRouted
  <2>. QED  BY <1>11, <2>2, LossesQuiet DEF FailReverted
<1>12. CASE Stop
  BY <1>12, UsedSame, LossesQuiet DEF Stop, chainVars, historyVars, RoutedStaysRouted
<1>13. CASE LoseMemory
  <2>1. PartsOfSales' /\ \A e \in Sale : InPool(e)' = InPool(e)
    BY <1>13, LossesAbandon DEF LoseMemory
  <2>2. taken' = taken /\ \A e \in Sale : unsure'[e] = unsure[e] + 1
    BY <1>13 DEF LoseMemory
  <2>3. \A e \in Sale : /\ unsure'[e] \in Nat /\ InPool(e)' \in Nat
                        /\ unsure[e] + Used(e) - InPool(e) <= unsure'[e] + Used(e)' - InPool(e)'
    BY <2>1, <2>2, LossTypes
  <2>. QED  BY <2>1, <2>2, <2>3, BackedKept DEF Losses
<1>14. CASE Start
  BY <1>14, UsedAside, LossesQuiet DEF Start, chainVars, RoutedStaysRouted
<1>15. CASE Second
  BY <1>15, UsedSame, LossesQuiet DEF Second, workerVars, chainVars, historyVars, RoutedStaysRouted
<1>16. CASE ChainNext /\ UNCHANGED <<queueVars, workerVars, historyVars>>
  <2>1. CASE Mine
    BY <1>16, <2>1, LossesMine
  <2>2. CASE LineTurns \/ \E m \in Debtor : DebtMoves(m)
    BY <1>16, <2>2, UsedSame, LossesQuiet
    DEF LineTurns, DebtMoves, workerVars, historyVars, RoutedStaysRouted
  <2>. QED  BY <1>16, <2>1, <2>2 DEF ChainNext
<1>17. CASE UNCHANGED relayerVars
  BY <1>17, UsedSame, LossesQuiet
  DEF relayerVars, workerVars, chainVars, historyVars, RoutedStaysRouted
<1>. QED  BY <1>1, <1>2, <1>3, <1>4, <1>5, <1>6, <1>7, <1>8, <1>9, <1>10, <1>11, <1>12,
            <1>13, <1>14, <1>15, <1>16, <1>17
     DEF RelayerNext, WebhookNext, WorkerNext, ProcessNext, Exit, Crash

LEMMA LossesKept == RelayerSpec => []Losses
BY BooksKept, AcceptedKept, WaitsKept, LossesInit, LossesStep, PTL DEF RelayerSpec

(* The chain takes a sale from the borrower once, and once more for each   *)
(* time the relayer lost track of it: however often the provider sends it, *)
(* the calls fail or the process restarts.                                 *)
THEOREM SaleIsTakenOncePerLoss == RelayerSpec => []SaleTakenOncePerLoss
<1>1. Books /\ Losses => SaleTakenOncePerLoss
  <2>. SUFFICES ASSUME Books, Losses, NEW e \in Sale
                PROVE  taken[e] <= e.amount * (1 + unsure[e])
    BY DEF SaleTakenOncePerLoss
  <2>1. /\ InPool(e) \in Nat /\ unsure[e] \in Nat /\ taken[e] \in Nat
        /\ Used(e) \in {0, 1} /\ e.amount \in Nat
    BY LossTypes
  <2>2. taken[e] <= e.amount * Credit(e)
    BY DEF Losses, Backed
  <2>3. Credit(e) \in Int /\ Credit(e) <= 1 + unsure[e]
    BY <2>1 DEF Credit
  <2>. QED  BY <2>1, <2>2, <2>3, MoreCredit
<1>. QED  BY <1>1, BooksKept, LossesKept, PTL

=============================================================================
