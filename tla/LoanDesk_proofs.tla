-------------------------- MODULE LoanDesk_proofs --------------------------
(***************************************************************************)
(* Proofs about a merchant's page: what the server signs is within its     *)
(* policy and taken by the line, and what the page offers the line grants. *)
(***************************************************************************)
EXTENDS LoanDesk, CreditLine_proofs

USE PartiesAssumption, ParameterAssumption, AmountAssumption, TimestampAssumption

(***************************************************************************)
(* The price.                                                              *)
(***************************************************************************)
LEMMA RoundType ==
  ASSUME NEW n \in Nat, NEW d \in Nat \ {0}
  PROVE  Round(n, d) \in Nat
<1>1. 2 * n + d \in Nat /\ 2 * d \in Nat \ {0}
  OBVIOUS
<1> QED
  BY <1>1, QuotientType DEF Round

LEMMA PowerType ==
  ASSUME NEW x \in Nat \ {0}, NEW k \in 0 .. 2
  PROVE  Power(x, k) \in Nat \ {0}
<1>1. k = 0 \/ k = 1 \/ k = 2
  OBVIOUS
<1>2. x * x \in Nat \ {0}
  OBVIOUS
<1> QED
  BY <1>1, <1>2 DEF Power

LEMMA WindowsType ==
  ASSUME NEW form \in Form
  PROVE  Windows(form) \in [0 .. 2 -> Nat]
<1>1. form.revenue \in Nat /\ form.growth \in -50 .. 200 /\ MIN_REVENUE \in Nat
  BY ScoringAssumption
<1>2. ASSUME NEW k \in 0 .. 2
      PROVE  GreatestOf(MIN_REVENUE, Round(form.revenue * Power(100, k), Power(100 + form.growth, k)))
               \in Nat
  <2>1. 100 + form.growth \in Nat \ {0} /\ 100 \in Nat \ {0}
    BY <1>1
  <2>2. Power(100, k) \in Nat /\ Power(100 + form.growth, k) \in Nat \ {0}
    BY <2>1, PowerType
  <2>3. form.revenue * Power(100, k) \in Nat
    BY <1>1, <2>2
  <2>4. Round(form.revenue * Power(100, k), Power(100 + form.growth, k)) \in Nat
    BY <2>2, <2>3, RoundType
  <2> QED
    BY <1>1, <2>4 DEF GreatestOf
<1> QED
  BY <1>2 DEF Windows

LEMMA ProfileType ==
  ASSUME NEW windows \in Profile
  PROVE  /\ IsFiniteSet(DOMAIN windows)
         /\ DOMAIN windows # {}
         /\ windows \in [DOMAIN windows -> Nat]
<1>1. CASE windows \in Fixture
  BY <1>1, ScoringAssumption
<1>2. CASE windows \notin Fixture
  <2>1. PICK form \in Form : windows = Windows(form)
    BY <1>2 DEF Profile
  <2>2. windows \in [0 .. 2 -> Nat]
    BY <2>1, WindowsType
  <2>3. DOMAIN windows = 0 .. 2
    BY <2>2
  <2>4. IsFiniteSet(0 .. 2)
    <3>1. 0 \in Int /\ 2 \in Int
      OBVIOUS
    <3> QED
      BY <3>1, FS_Interval, Zenon
  <2> QED
    BY <2>2, <2>3, <2>4, 0 \in 0 .. 2
<1> QED
  BY <1>1, <1>2

(* Whatever the windows, their average is a natural number: the sum over   *)
(* them is, and there is at least one.                                     *)
LEMMA AverageType ==
  ASSUME NEW windows \in Profile
  PROVE  AvgMonthlyRevenue(windows) \in Nat
<1> DEFINE S == DOMAIN windows  sum == SumOf(windows, S)
<1>1. IsFiniteSet(S) /\ S # {} /\ windows \in [S -> Nat] /\ windows \in [S -> Int]
  BY ProfileType
<1>2. sum \in Nat
  <2>1. sum \in Int
    BY <1>1, SumType
  <2>2. PICK x \in S : TRUE
    BY <1>1
  <2>3. windows[x] <= sum /\ windows[x] \in Nat
    BY <1>1, <2>2, SumBounds
  <2> QED
    BY <2>1, <2>3
<1>3. Cardinality(S) \in Nat \ {0}
  BY <1>1, FS_CardinalityType, FS_EmptySet
<1>4. AvgMonthlyRevenue(windows) = Round(sum, Cardinality(S))
  BY DEF AvgMonthlyRevenue, SumOf
<1> QED
  BY <1>2, <1>3, <1>4, RoundType

LEMMA TierLineCapType ==
  ASSUME NEW windows \in Profile, NEW tier \in Tier
  PROVE  TierLineCap(windows, tier) \in Nat
<1>1. AvgMonthlyRevenue(windows) \in Nat /\ TIER_POLICY[tier].percent \in Nat
  BY AverageType, ScoringAssumption
<1>2. AvgMonthlyRevenue(windows) * TIER_POLICY[tier].percent \in Nat
  BY <1>1
<1> QED
  BY <1>2, QuotientType DEF TierLineCap

(* What the server signs, whatever the LLM said: a line and an APR of one  *)
(* tier of its policy (the clamps of scoreMerchant), an APR the contract   *)
(* takes, and a window of validity that starts ISSUED_CLOCK_SKEW before    *)
(* the server's time.                                                      *)
LEMMA SignedTerms ==
  ASSUME NEW windows \in Profile, NEW llm \in LlmOutput, NEW t \in Nat, t >= ISSUED_CLOCK_SKEW
  PROVE  /\ Terms(windows, llm, t).tier \in Tier
         /\ Terms(windows, llm, t).maxLine \in Nat
         /\ Terms(windows, llm, t).aprBps \in Nat
         /\ WithinPolicy(Terms(windows, llm, t))
         /\ Terms(windows, llm, t).issuedAt \in Nat
         /\ Terms(windows, llm, t).expiresAt \in Nat
         /\ Terms(windows, llm, t).issuedAt = t - ISSUED_CLOCK_SKEW
<1> DEFINE tier == llm.tier  cap == TierLineCap(windows, tier)
           line == ClampedLine(windows, llm)  apr == ClampedApr(llm)
<1>1. /\ tier \in Tier /\ llm.aprBps \in Nat /\ llm.maxLine \in Nat
      /\ TIER_POLICY[tier].minAprBps \in Nat /\ TIER_POLICY[tier].maxAprBps \in Nat
      /\ TIER_POLICY[tier].minAprBps <= TIER_POLICY[tier].maxAprBps
      /\ LINE_ABSOLUTE_CAP \in Nat /\ UNITS_PER_CENT \in Nat
      /\ SCORE_VALIDITY \in Nat /\ ISSUED_CLOCK_SKEW \in Nat
  BY ScoringAssumption
<1>2. cap \in Nat
  BY <1>1, TierLineCapType
<1> HIDE DEF cap
<1>3. line \in Nat /\ line <= LeastOf(LINE_ABSOLUTE_CAP, cap) /\ LeastOf(LINE_ABSOLUTE_CAP, cap) \in Nat
  BY <1>1, <1>2 DEF ClampedLine, LeastOf, cap
<1>4. apr \in TIER_POLICY[tier].minAprBps .. TIER_POLICY[tier].maxAprBps
  BY <1>1 DEF ClampedApr, LeastOf, GreatestOf
<1> HIDE DEF line, apr
<1>5. /\ line * UNITS_PER_CENT \in Nat
      /\ line * UNITS_PER_CENT <= UNITS_PER_CENT * LeastOf(LINE_ABSOLUTE_CAP, cap)
  BY <1>1, <1>3
<1>6. /\ Terms(windows, llm, t).tier = tier
      /\ Terms(windows, llm, t).maxLine = line * UNITS_PER_CENT
      /\ Terms(windows, llm, t).aprBps = apr
      /\ Terms(windows, llm, t).issuedAt = t - ISSUED_CLOCK_SKEW
      /\ Terms(windows, llm, t).expiresAt = t - ISSUED_CLOCK_SKEW + SCORE_VALIDITY
  BY DEF Terms, Valid, line, apr
<1> DEFINE terms == Terms(windows, llm, t)
<1>7. /\ terms.tier = tier /\ terms.maxLine = line * UNITS_PER_CENT /\ terms.aprBps = apr
  BY <1>6
<1> HIDE DEF terms, tier
<1>8. terms.maxLine <= UNITS_PER_CENT * LeastOf(LINE_ABSOLUTE_CAP, TierLineCap(windows, terms.tier))
  BY <1>5, <1>7 DEF cap
<1>9. terms.tier \in Tier
      /\ terms.aprBps \in TIER_POLICY[terms.tier].minAprBps .. TIER_POLICY[terms.tier].maxAprBps
  BY <1>1, <1>4, <1>7
<1>10. WithinPolicy(terms)
  BY <1>8, <1>9 DEF WithinPolicy
<1> QED
  BY <1>1, <1>4, <1>5, <1>6, <1>10 DEF terms

(* A line of the policy is one the token can supply.                       *)
LEMMA PolicyBounds ==
  ASSUME NEW sc, sc.maxLine \in Nat, sc.aprBps \in Nat, WithinPolicy(sc)
  PROVE  sc.maxLine <= MaxUint /\ sc.aprBps <= MAX_APR_BPS /\ sc.tier \in CreditTier
<1> DEFINE tier == sc.tier  maxLine == sc.maxLine  aprBps == sc.aprBps
<1>0. tier \in Tier /\ tier \in CreditTier /\ maxLine \in Nat /\ aprBps \in Nat
  BY DeskAssumption DEF WithinPolicy
<1>1. PICK windows \in Profile :
        /\ aprBps \in TIER_POLICY[tier].minAprBps .. TIER_POLICY[tier].maxAprBps
        /\ maxLine <= UNITS_PER_CENT * LeastOf(LINE_ABSOLUTE_CAP, TierLineCap(windows, tier))
  BY DEF WithinPolicy
<1> HIDE DEF tier, maxLine, aprBps
<1> DEFINE least == LeastOf(LINE_ABSOLUTE_CAP, TierLineCap(windows, tier))
<1>2. least \in Nat /\ least <= LINE_ABSOLUTE_CAP
  BY <1>0, <1>1, TierLineCapType, ScoringAssumption DEF LeastOf
<1>3. /\ UNITS_PER_CENT \in Nat /\ LINE_ABSOLUTE_CAP \in Nat
      /\ TIER_POLICY[tier].minAprBps \in Nat /\ TIER_POLICY[tier].maxAprBps \in Nat
      /\ TIER_POLICY[tier].maxAprBps <= MAX_APR_BPS
      /\ UNITS_PER_CENT * LINE_ABSOLUTE_CAP <= MaxUint
  BY <1>0, <1>1, ScoringAssumption, DeskAssumption
<1> HIDE DEF least
<1>4. UNITS_PER_CENT * least <= UNITS_PER_CENT * LINE_ABSOLUTE_CAP
      /\ UNITS_PER_CENT * least \in Nat /\ UNITS_PER_CENT * LINE_ABSOLUTE_CAP \in Nat
  BY <1>2, <1>3
<1>5. maxLine <= UNITS_PER_CENT * least
  BY <1>1 DEF least
<1>6. MaxUint \in Nat /\ MAX_APR_BPS \in Nat
  OBVIOUS
<1>7. maxLine <= MaxUint
  BY <1>0, <1>3, <1>4, <1>5, <1>6
<1>8. aprBps <= MAX_APR_BPS
  BY <1>0, <1>1, <1>3, <1>6
<1> QED
  BY <1>0, <1>7, <1>8 DEF tier, maxLine, aprBps

---------------------------------------------------------------------------
(***************************************************************************)
(* The chain under the page: each transaction the page sends, a routed     *)
(* sale, an attestation and the clock keep the chain's part of the         *)
(* invariant.                                                              *)
(***************************************************************************)
LEMMA MerchantType ==
  Merchant \in Borrower /\ Merchant \in Account /\ Line \in Spender /\ Scorer \subseteq Caller
  BY DeskAssumption

LEMMA UnlimitedType == MaxUint \in Nat \ {0}
  OBVIOUS

(* What a step on chain leaves of the merchant's approval and of the time. *)
Kept ==
  /\ ChainInv'
  /\ now' >= now
  /\ allowance[Merchant][Line] = MaxUint => allowance'[Merchant][Line] = MaxUint

LEMMA ScoreKept ==
  ASSUME ChainInv, NEW sc \in Offer, Current(sc), ApplyScore(sc)
  PROVE  Kept /\ now' = now
<1>1. LineInv'
  BY ApplyScoreStep DEF ChainInv, Offer
<1>2. UNCHANGED <<tokenVars, registryVars, loans, linePaused, lineRole>>
  BY DEF ApplyScore
<1>3. AsDeployed'
  BY <1>2 DEF ChainInv, AsDeployed, tokenVars
<1>4. scores'[Merchant] = [tier |-> sc.tier, maxLine |-> sc.maxLine, aprBps |-> sc.aprBps,
                           issuedAt |-> sc.issuedAt, expiresAt |-> sc.expiresAt]
  BY MerchantType DEF ApplyScore, Current, ChainInv, LineInv, LineTypeOK
<1>5. ScoreFollowsPolicy'
  <2> DEFINE new == scores'[Merchant]
  <2>1. new.tier = sc.tier /\ new.maxLine = sc.maxLine /\ new.aprBps = sc.aprBps
    BY <1>4
  <2> HIDE DEF new
  <2>2. WithinPolicy(new)
    BY <2>1 DEF Current, WithinPolicy
  <2> QED
    BY <2>2 DEF ScoreFollowsPolicy, new, WithinPolicy
<1>6. UNCHANGED <<totalSupply, loans, allowance, now>>
  BY <1>2 DEF tokenVars, registryVars
<1>7. now' >= now
  BY <1>6, NowType DEF ChainInv, LineInv
<1> QED
  BY <1>1, <1>3, <1>5, <1>6, <1>7 DEF Kept, ChainInv

LEMMA BorrowKept ==
  ASSUME ChainInv, NEW n \in Amount, NEW d \in DurationArg, Borrow(Merchant, n, d)
  PROVE  Kept /\ UNCHANGED consumedScoreNonces
<1>1. LineInv'
  BY MerchantType, BorrowStep DEF ChainInv
<1>2. UNCHANGED <<allowance, tokenPaused, tokenRole, registryVars, scores, consumedScoreNonces,
                  linePaused, lineRole>>
  BY DEF Borrow
<1>3. AsDeployed' /\ ScoreFollowsPolicy'
  BY <1>2 DEF ChainInv, AsDeployed, ScoreFollowsPolicy
<1>4. totalSupply' = totalSupply + n
  BY DEF Borrow
<1>5. loans'[Merchant].principal = loans[Merchant].principal + n
  BY MerchantType, BorrowedLoan DEF ChainInv
<1>6. now' >= now
  BY <1>2, NowType DEF ChainInv, LineInv, registryVars
<1> QED
  BY <1>1, <1>2, <1>3, <1>4, <1>5, <1>6 DEF Kept, ChainInv

LEMMA RepaymentKept ==
  ASSUME ChainInv, NEW n \in Nat \ {0}, TakeRepayment(Merchant, n), RepaymentFrame
  PROVE  Kept /\ UNCHANGED consumedScoreNonces
<1>0. LineInv /\ Merchant \in Borrower
  BY MerchantType DEF ChainInv
<1>1. LineInv'
  BY <1>0, RepaymentStep
<1>2. UNCHANGED <<tokenPaused, tokenRole, registryVars, scores, consumedScoreNonces,
                  linePaused, lineRole>>
  BY DEF RepaymentFrame
<1>3. AsDeployed' /\ ScoreFollowsPolicy'
  BY <1>2 DEF ChainInv, AsDeployed, ScoreFollowsPolicy
<1>4. PICK i \in Nat, p \in Nat : IsRepayment(Merchant, i, p)
  BY <1>0, RepaymentSplit
<1>5. loans'[Merchant].principal = loans[Merchant].principal - p
  BY <1>0, <1>4, RepaidLoan
<1>6. totalSupply' = totalSupply - p
  BY <1>4 DEF IsRepayment
<1>7. now' >= now
  BY <1>0, <1>2, NowType DEF LineInv, registryVars
<1> DEFINE al == allowance
           bl == Spent(al, Merchant, Line, i)
<1>8. /\ al \in [Account -> [Spender -> 0 .. MaxUint]]
      /\ al[Merchant][Line] \in {0, MaxUint}
      /\ CanSpend(al, Merchant, Line, i)
      /\ CanSpend(bl, Merchant, Line, p)
      /\ allowance' = Spent(bl, Merchant, Line, p)
  BY <1>0, <1>4 DEF IsRepayment, ChainInv, LineInv, LineTypeOK, TokenTypeOK
<1>9. bl = al
  BY <1>8, MerchantType, UnlimitedType DEF Spent, CanSpend
<1> HIDE DEF bl
<1>10. /\ al \in [Account -> [Spender -> 0 .. MaxUint]]
       /\ al[Merchant][Line] \in {0, MaxUint}
       /\ CanSpend(al, Merchant, Line, p)
       /\ allowance' = Spent(al, Merchant, Line, p)
  BY <1>8, <1>9
<1> HIDE DEF al
<1>11. allowance' = al
  BY <1>10, MerchantType, UnlimitedType DEF Spent, CanSpend
<1> QED
  BY <1>1, <1>2, <1>3, <1>5, <1>6, <1>7, <1>11 DEF Kept, ChainInv, al

LEMMA ApproveKept ==
  ASSUME ChainInv, Approve(Merchant, Line, MaxUint), UNCHANGED <<registryVars, lineVars>>
  PROVE  Kept /\ UNCHANGED consumedScoreNonces
<1>1. HolderNext
  BY MerchantType DEF HolderNext
<1>2. LineInv'
  BY <1>1, HolderStep DEF ChainInv
<1>3. UNCHANGED <<totalSupply, tokenPaused, tokenRole>>
  BY DEF Approve
<1>4. allowance'[Merchant][Line] = MaxUint
  BY MerchantType DEF Approve, ChainInv, LineInv, LineTypeOK, TokenTypeOK
<1>5. now' >= now
  BY NowType DEF ChainInv, LineInv, registryVars
<1> QED
  BY <1>2, <1>3, <1>4, <1>5 DEF Kept, ChainInv, AsDeployed, ScoreFollowsPolicy, lineVars

LEMMA OutsideKept ==
  ASSUME ChainInv, AttestationNext \/ ClockNext
  PROVE  Kept /\ UNCHANGED consumedScoreNonces
<1>1. LineInv'
  BY RegistryStep DEF ChainInv
<1>2. UNCHANGED <<tokenVars, lineVars>>
  BY DEF AttestationNext, ClockNext
<1>3. now' >= now
  <2>1. now \in Nat /\ now' \in Nat
    BY <1>1 DEF ChainInv, LineInv, LineTypeOK, RegistryTypeOK
  <2>2. now' = now \/ now' > now
    BY DEF AttestationNext, ClockNext, RegistryNext, RecordAttestation, StoreAttestation,
           Revoke, GrantAttestor, RevokeAttestor, Tick
  <2> QED
    BY <2>1, <2>2
<1> QED
  BY <1>1, <1>2, <1>3 DEF Kept, ChainInv, AsDeployed, ScoreFollowsPolicy, lineVars, tokenVars

LEMMA IdleKept ==
  ASSUME ChainInv, UNCHANGED vars
  PROVE  Kept /\ UNCHANGED consumedScoreNonces
<1>1. LineInv'
  BY LineInvStep DEF ChainInv
<1>2. now' >= now
  BY NowType DEF ChainInv, LineInv, vars, registryVars
<1> QED
  BY <1>1, <1>2 DEF Kept, ChainInv, AsDeployed, ScoreFollowsPolicy, vars, tokenVars, registryVars, lineVars

---------------------------------------------------------------------------
(***************************************************************************)
(* The page over a step of the chain.                                      *)
(***************************************************************************)
PanelTypes ==
  /\ scorePanel \in {"idle", "scoring", "submitting", "confirming"}
  /\ offer \in IF scorePanel = "submitting" THEN Offer ELSE {NoOffer}
  /\ borrowPanel \in {"idle", "pending", "confirming"}
  /\ asked \in [Prompt -> Tx \union {NoTx}]
  /\ borrowPanel = "pending" => \E q \in Prompt : Open(q)
  /\ shown \in Snapshot

MempoolType == mempool \in Seq(Sent) /\ Len(mempool) <= MaxUnmined

LEMMA DeskTypeParts == DeskTypeOK <=> LineTypeOK /\ PanelTypes /\ MempoolType
  BY DEF DeskTypeOK, PanelTypes, MempoolType

(* Receipts only ever close a panel. *)
PanelsSettle ==
  /\ offer' = offer /\ shown' = shown /\ asked' = asked
  /\ scorePanel' = scorePanel \/ (scorePanel = "confirming" /\ scorePanel' = "idle")
  /\ borrowPanel' = borrowPanel \/ borrowPanel' = "idle"

LEMMA DoneSettles ==
  ASSUME NEW p, Done(p), UNCHANGED <<offer, asked, shown>>
  PROVE  PanelsSettle
<1>1. scorePanel' = scorePanel \/ (scorePanel = "confirming" /\ scorePanel' = "idle")
  BY DEF Done
<1>2. borrowPanel' = borrowPanel \/ borrowPanel' = "idle"
  BY DEF Done
<1> QED
  BY <1>1, <1>2 DEF PanelsSettle

(* A signed score or a panel's transaction stays good over a step of the   *)
(* chain that does not use its nonce.                                      *)
LEMMA ScoreStays ==
  ASSUME ChainInv, Kept, NEW sc \in Offer, Current(sc),
         sc.nonce \notin consumedScoreNonces'[sc.scorer]
  PROVE  Current(sc)'
<1>1. now \in Nat /\ now' \in Nat /\ now' >= now /\ sc.issuedAt \in Nat
  BY DEF Kept, ChainInv, LineInv, LineTypeOK, RegistryTypeOK, Offer
<1> QED
  BY <1>1 DEF Current

LEMMA TxStays ==
  ASSUME Kept, NEW tx, Backed(tx)
  PROVE  Backed(tx)'
  BY DEF Backed, Kept

LEMMA PageStays ==
  ASSUME ChainInv, PanelTypes, PageInv, Kept, PanelsSettle,
         scorePanel = "submitting" => offer.nonce \notin consumedScoreNonces'[offer.scorer]
  PROVE  PanelTypes' /\ PageInv'
<1>1. PanelTypes'
  BY DEF PanelTypes, PanelsSettle, Open
<1>2. ASSUME scorePanel' = "submitting" PROVE Current(offer)'
  <2>1. scorePanel = "submitting" /\ offer' = offer /\ offer \in Offer /\ Current(offer)
    BY <1>2 DEF PanelsSettle, PanelTypes, PageInv
  <2>2. now \in Nat /\ now' \in Nat /\ now' >= now /\ offer.issuedAt \in Nat
    BY <2>1 DEF Kept, ChainInv, LineInv, LineTypeOK, RegistryTypeOK, Offer
  <2> QED
    BY <2>1, <2>2 DEF Current
<1>3. ASSUME NEW q \in Prompt, Open(q)' PROVE Backed(asked[q])'
  <2>1. Open(q) /\ asked' = asked /\ Backed(asked[q])
    BY <1>3 DEF PanelsSettle, PageInv, Open
  <2> QED
    BY <2>1 DEF Backed, Kept
<1>4. shown'.allowance \in {0, MaxUint} /\ (shown'.allowance # 0 => allowance'[Merchant][Line] = MaxUint)
  BY DEF PanelsSettle, PageInv, Kept
<1> QED
  BY <1>1, <1>2, <1>3, <1>4 DEF PageInv

(* The sequence of the merchant's transactions.                            *)
LEMMA SentType ==
  ASSUME MempoolType, NEW i \in 1 .. Len(mempool)
  PROVE  /\ mempool[i] \in Sent
         /\ mempool[i].tx \in Tx \union [call : {"applyScore"}, score : Offer]
         /\ IsScore(i) => mempool[i].tx.score \in Offer
         /\ ~IsScore(i) => mempool[i].tx \in Tx
<1>1. mempool[i] \in Sent
  BY DEF MempoolType
<1> QED
  BY <1>1 DEF Sent, Tx, IsScore

(* A step that keeps the transactions that wait, or all but the oldest,    *)
(* keeps what holds of them.                                               *)
Keeps(shift) ==
  /\ Len(mempool') = Len(mempool) - shift
  /\ \A i \in 1 .. Len(mempool') : mempool'[i].tx = mempool[i + shift].tx

LEMMA MempoolStays ==
  ASSUME DeskInv, Kept, PanelsSettle, MempoolType',
         NEW shift \in {0, 1}, Keeps(shift),
         \A i \in 1 + shift .. Len(mempool) :
           IsScore(i) => mempool[i].tx.score.nonce \notin consumedScoreNonces'[mempool[i].tx.score.scorer]
  PROVE  MempoolInv'
<1>1. ChainInv /\ MempoolInv /\ MempoolType
  BY DeskTypeParts DEF DeskInv
<1>2. Len(mempool) \in Nat /\ Len(mempool') \in Nat
  BY <1>1 DEF MempoolType
<1>3. ASSUME NEW i \in 1 .. Len(mempool')
      PROVE  /\ i + shift \in 1 + shift .. Len(mempool) /\ i + shift \in 1 .. Len(mempool)
             /\ mempool'[i].tx = mempool[i + shift].tx
             /\ IsScore(i)' <=> IsScore(i + shift)
  <2>1. Len(mempool') = Len(mempool) - shift /\ mempool'[i].tx = mempool[i + shift].tx
    BY <1>3 DEF Keeps
  <2>2. i + shift \in 1 + shift .. Len(mempool) /\ i + shift \in 1 .. Len(mempool)
    BY <1>2, <2>1
  <2> QED
    BY <2>1, <2>2 DEF IsScore
<1>4. ASSUME NEW i \in 1 .. Len(mempool')
      PROVE  /\ IsScore(i)' => Current(mempool[i].tx.score)'
             /\ ~IsScore(i)' => Backed(mempool[i].tx)'
             /\ IsScore(i)' /\ scorePanel' = "submitting" => mempool'[i].tx.score.nonce # offer'.nonce
  <2> DEFINE tx == mempool[i + shift].tx
  <2>1. /\ i + shift \in 1 .. Len(mempool)
        /\ mempool'[i].tx = tx /\ (IsScore(i)' <=> IsScore(i + shift))
        /\ IsScore(i + shift) => Current(tx.score) /\ tx.score \in Offer
        /\ IsScore(i + shift) => tx.score.nonce \notin consumedScoreNonces'[tx.score.scorer]
        /\ ~IsScore(i + shift) => Backed(tx)
        /\ IsScore(i + shift) /\ scorePanel = "submitting" => tx.score.nonce # offer.nonce
    BY <1>1, <1>3, SentType DEF MempoolInv
  <2> HIDE DEF tx
  <2>2. IsScore(i)' => Current(mempool[i].tx.score)'
    <3>1. now \in Nat /\ now' \in Nat /\ now' >= now
      BY <1>1 DEF Kept, ChainInv, LineInv, LineTypeOK, RegistryTypeOK
    <3>2. tx.score \in Offer => tx.score.issuedAt \in Nat
      BY DEF Offer
    <3>3. mempool'[i].tx.score = tx.score
      BY <2>1
    <3>4. IsScore(i)' => WithinPolicy(mempool'[i].tx.score)
      BY <2>1, <3>3 DEF Current, WithinPolicy
    <3> QED
      BY <2>1, <3>1, <3>2, <3>3, <3>4 DEF Current, WithinPolicy
  <2>3. ~IsScore(i)' => Backed(mempool[i].tx)'
    BY <2>1 DEF Backed, Kept
  <2> QED
    BY <2>1, <2>2, <2>3 DEF PanelsSettle
<1>5. ASSUME NEW i \in 1 .. Len(mempool'), NEW j \in 1 .. Len(mempool'),
             IsScore(i)', IsScore(j)', i # j
      PROVE  mempool'[i].tx.score.nonce # mempool'[j].tx.score.nonce
  <2>1. i + shift \in 1 .. Len(mempool) /\ mempool'[i].tx = mempool[i + shift].tx /\ IsScore(i + shift)
    BY <1>3, <1>5
  <2>2. j + shift \in 1 .. Len(mempool) /\ mempool'[j].tx = mempool[j + shift].tx /\ IsScore(j + shift)
    BY <1>3, <1>5
  <2>3. i + shift # j + shift
    BY <1>5
  <2> QED
    BY <1>1, <2>1, <2>2, <2>3 DEF MempoolInv
<1> QED
  BY <1>4, <1>5 DEF MempoolInv

---------------------------------------------------------------------------
(***************************************************************************)
(* The steps. First those of the chain, with the receipts they give.       *)
(***************************************************************************)
LEMMA ChainStep ==
  ASSUME DeskInv, Kept, PanelsSettle, MempoolType', NEW shift \in {0, 1}, Keeps(shift),
         \A i \in 1 + shift .. Len(mempool) :
           IsScore(i) => mempool[i].tx.score.nonce \notin consumedScoreNonces'[mempool[i].tx.score.scorer],
         scorePanel = "submitting" => offer.nonce \notin consumedScoreNonces'[offer.scorer]
  PROVE  DeskInv'
<1>1. ChainInv /\ PanelTypes /\ PageInv
  BY DeskTypeParts DEF DeskInv
<1>2. PanelTypes' /\ PageInv'
  BY <1>1, PageStays
<1>3. MempoolInv'
  BY MempoolStays
<1>4. ChainInv' /\ LineTypeOK'
  BY DEF Kept, ChainInv, LineInv
<1>5. DeskTypeOK'
  BY <1>2, <1>4 DEF DeskTypeOK, PanelTypes, MempoolType
<1> QED
  BY <1>2, <1>3, <1>4, <1>5 DEF DeskInv

(* As long as no nonce is used, all that are waited for stay unused. *)
LEMMA NoncesStay ==
  ASSUME DeskInv, UNCHANGED consumedScoreNonces
  PROVE  /\ \A i \in 1 .. Len(mempool) :
              IsScore(i) => mempool[i].tx.score.nonce
                              \notin consumedScoreNonces'[mempool[i].tx.score.scorer]
         /\ scorePanel = "submitting" => offer.nonce \notin consumedScoreNonces'[offer.scorer]
<1>1. ASSUME NEW i \in 1 .. Len(mempool), IsScore(i)
      PROVE  mempool[i].tx.score.nonce \notin consumedScoreNonces'[mempool[i].tx.score.scorer]
  BY <1>1 DEF DeskInv, MempoolInv, Current
<1>2. ASSUME scorePanel = "submitting"
      PROVE  offer.nonce \notin consumedScoreNonces'[offer.scorer]
  BY <1>2 DEF DeskInv, PageInv, Current
<1> QED
  BY <1>1, <1>2

LEMMA LengthType == DeskInv => Len(mempool) \in Nat /\ MempoolType
  BY DEF DeskInv, DeskTypeOK, MempoolType

LEMMA OutsideStep ==
  ASSUME DeskInv, Kept, UNCHANGED <<consumedScoreNonces, deskVars>>
  PROVE  DeskInv'
<1>1. PanelsSettle /\ mempool' = mempool
  BY DEF PanelsSettle, deskVars, panelVars
<1>2. Len(mempool) \in Nat /\ MempoolType
  BY LengthType
<1>3. MempoolType'
  BY <1>1, <1>2 DEF MempoolType
<1>4. Keeps(0)
  BY <1>1, <1>2 DEF Keeps
<1>5. \A i \in 1 + 0 .. Len(mempool) :
        IsScore(i) => mempool[i].tx.score.nonce \notin consumedScoreNonces'[mempool[i].tx.score.scorer]
  BY NoncesStay
<1>6. scorePanel = "submitting" => offer.nonce \notin consumedScoreNonces'[offer.scorer]
  BY NoncesStay
<1> QED
  BY <1>1, <1>3, <1>4, <1>5, <1>6, ChainStep

LEMMA GiveUpStep ==
  ASSUME DeskInv, NEW k \in DOMAIN mempool, GiveUp(k)
  PROVE  DeskInv'
<1>1. UNCHANGED vars /\ UNCHANGED <<offer, asked, shown>> /\ Done(PanelOf(mempool[k].tx))
  BY DEF GiveUp
<1>2. ChainInv
  BY DEF DeskInv
<1>3. Kept /\ UNCHANGED consumedScoreNonces
  BY <1>1, <1>2, IdleKept
<1>4. PanelsSettle
  BY <1>1, DoneSettles
<1>5. Len(mempool) \in Nat /\ MempoolType
  BY LengthType
<1>6. /\ mempool' \in Seq(Sent) /\ Len(mempool') = Len(mempool)
      /\ \A i \in 1 .. Len(mempool) : mempool'[i].tx = mempool[i].tx
  <2>1. k \in 1 .. Len(mempool) /\ mempool[k] \in Sent
    BY <1>5 DEF MempoolType
  <2> DEFINE m == [mempool[k] EXCEPT !.watched = FALSE]
  <2>2. mempool' = [mempool EXCEPT ![k] = m]
    BY DEF GiveUp
  <2>3. m \in Sent /\ m.tx = mempool[k].tx
    BY <2>1 DEF Sent
  <2> HIDE DEF m
  <2>4. mempool' \in Seq(Sent) /\ Len(mempool') = Len(mempool)
    BY <1>5, <2>1, <2>2, <2>3 DEF MempoolType
  <2>5. ASSUME NEW i \in 1 .. Len(mempool) PROVE mempool'[i].tx = mempool[i].tx
    BY <1>5, <2>1, <2>2, <2>3 DEF MempoolType
  <2> QED
    BY <2>4, <2>5
<1>7. MempoolType'
  BY <1>5, <1>6 DEF MempoolType
<1>8. Keeps(0)
  BY <1>5, <1>6 DEF Keeps
<1>9. \A i \in 1 + 0 .. Len(mempool) :
        IsScore(i) => mempool[i].tx.score.nonce \notin consumedScoreNonces'[mempool[i].tx.score.scorer]
  BY <1>3, NoncesStay
<1>10. scorePanel = "submitting" => offer.nonce \notin consumedScoreNonces'[offer.scorer]
  BY <1>3, NoncesStay
<1> QED
  BY <1>3, <1>4, <1>7, <1>8, <1>9, <1>10, ChainStep

(* The oldest transaction of the merchant is executed or reverts. *)
LEMMA ExecuteKept ==
  ASSUME DeskInv, mempool # <<>>, Execute(Head(mempool).tx)
  PROVE  /\ Kept
         /\ ~IsScore(1) => UNCHANGED consumedScoreNonces
         /\ IsScore(1) => ApplyScore(mempool[1].tx.score)
<1> DEFINE tx == mempool[1].tx
<1>1. Len(mempool) \in Nat /\ MempoolType /\ ChainInv
  BY LengthType DEF DeskInv
<1>2. 1 \in 1 .. Len(mempool) /\ Head(mempool).tx = tx
  BY <1>1 DEF MempoolType
<1>3. /\ IsScore(1) => tx.score \in Offer /\ Current(tx.score)
      /\ ~IsScore(1) => tx \in Tx /\ Backed(tx)
      /\ IsScore(1) <=> tx.call = "applyScore"
  <2>1. /\ IsScore(1) => tx.score \in Offer
        /\ ~IsScore(1) => tx \in Tx
    BY <1>1, <1>2, SentType
  <2> QED
    BY <1>2, <2>1 DEF DeskInv, MempoolInv, IsScore
<1> HIDE DEF tx
<1>4. CASE tx.call = "applyScore" /\ ApplyScore(tx.score)
  BY <1>1, <1>3, <1>4, ScoreKept DEF tx
<1>5. CASE tx.call = "borrow" /\ \E d \in DurationArg : Borrow(Merchant, tx.amount, d)
  <2>1. tx.amount \in Amount /\ ~IsScore(1)
    BY <1>3, <1>5 DEF Backed
  <2>2. PICK d \in DurationArg : Borrow(Merchant, tx.amount, d)
    BY <1>5
  <2> QED
    BY <1>1, <2>1, <2>2, BorrowKept
<1>6. CASE tx.call = "repay" /\ Repay(Merchant, tx.amount)
  <2>1. tx.amount \in Nat \ {0} /\ ~IsScore(1)
    BY <1>3, <1>6 DEF Tx
  <2>2. TakeRepayment(Merchant, tx.amount) /\ RepaymentFrame
    BY <1>6 DEF Repay, RepaymentFrame
  <2> QED
    BY <1>1, <2>1, <2>2, RepaymentKept
<1>7. CASE /\ tx.call = "approve" /\ Approve(Merchant, Line, tx.amount)
           /\ UNCHANGED <<registryVars, lineVars>>
  <2>1. tx.amount = MaxUint /\ ~IsScore(1)
    BY <1>3, <1>7 DEF Backed
  <2> QED
    BY <1>1, <1>7, <2>1, ApproveKept
<1> QED
  BY <1>2, <1>4, <1>5, <1>6, <1>7 DEF Execute

LEMMA TailOf ==
  ASSUME NEW S, NEW q \in Seq(S), q # <<>>
  PROVE  /\ Len(q) \in Nat \ {0} /\ Head(q) = q[1]
         /\ Tail(q) \in Seq(S)
         /\ Len(Tail(q)) = Len(q) - 1
         /\ \A i \in 1 .. Len(q) - 1 : Tail(q)[i] = q[i + 1]
  OBVIOUS

LEMMA MineStep ==
  ASSUME DeskInv, Mine
  PROVE  DeskInv'
<1>1. ChainInv /\ MempoolInv /\ PageInv /\ MempoolType /\ Len(mempool) \in Nat /\ PanelTypes
  BY LengthType, DeskTypeParts DEF DeskInv
<1>2. mempool # <<>> /\ mempool' = Tail(mempool) /\ UNCHANGED <<offer, shown>>
  BY DEF Mine
<1>3. PanelsSettle
  <2>1. CASE Head(mempool).watched
    BY <1>2, <2>1, DoneSettles DEF Mine
  <2>2. CASE ~Head(mempool).watched
    BY <1>2, <2>2 DEF Mine, PanelsSettle
  <2> QED
    BY <2>1, <2>2
<1>4. /\ MempoolType' /\ Len(mempool) >= 1
      /\ Len(mempool') = Len(mempool) - 1
      /\ \A i \in 1 .. Len(mempool') : mempool'[i] = mempool[i + 1]
  <2>1. mempool \in Seq(Sent) /\ mempool # <<>> /\ mempool' = Tail(mempool)
    BY <1>1, <1>2 DEF MempoolType
  <2>2. /\ Len(mempool) \in Nat \ {0}
        /\ Tail(mempool) \in Seq(Sent)
        /\ Len(Tail(mempool)) = Len(mempool) - 1
    BY <2>1, TailOf
  <2>3. \A i \in 1 .. Len(mempool) - 1 : Tail(mempool)[i] = mempool[i + 1]
    BY <2>1, TailOf
  <2>4. Len(mempool) <= MaxUnmined /\ MaxUnmined \in Nat
    BY <1>1, DeskAssumption DEF MempoolType
  <2> QED
    BY <2>1, <2>2, <2>3, <2>4 DEF MempoolType
<1>5. Keeps(1)
  BY <1>4 DEF Keeps
<1>6. /\ Kept
      /\ \/ UNCHANGED consumedScoreNonces
         \/ IsScore(1) /\ ApplyScore(mempool[1].tx.score)
  <2>1. CASE Execute(Head(mempool).tx)
    BY <1>2, <2>1, ExecuteKept
  <2>2. CASE UNCHANGED vars
    BY <1>1, <2>2, IdleKept
  <2> QED
    BY <2>1, <2>2 DEF Mine
<1>7. CASE UNCHANGED consumedScoreNonces
  <2>1. \A i \in 1 + 1 .. Len(mempool) :
          IsScore(i) => mempool[i].tx.score.nonce \notin consumedScoreNonces'[mempool[i].tx.score.scorer]
    BY <1>7, NoncesStay
  <2>2. scorePanel = "submitting" => offer.nonce \notin consumedScoreNonces'[offer.scorer]
    BY <1>7, NoncesStay
  <2> QED
    BY <1>3, <1>4, <1>5, <1>6, <2>1, <2>2, ChainStep
<1>8. CASE IsScore(1) /\ ApplyScore(mempool[1].tx.score)
  <2> DEFINE sc == mempool[1].tx.score
  <2>1. 1 \in 1 .. Len(mempool) /\ sc \in Offer
    BY <1>1, <1>4, <1>8, SentType
  <2>2. \A s \in Scorer, n \in ScoreNonce :
          n \notin consumedScoreNonces[s] /\ n # sc.nonce => n \notin consumedScoreNonces'[s]
    BY <1>1, <1>8, <2>1 DEF ApplyScore, ChainInv, LineInv, LineTypeOK, Offer
  <2> HIDE DEF sc
  <2>3. ASSUME NEW i \in 1 + 1 .. Len(mempool), IsScore(i)
        PROVE  mempool[i].tx.score.nonce \notin consumedScoreNonces'[mempool[i].tx.score.scorer]
    <3>1. i \in 1 .. Len(mempool) /\ i # 1
      BY <1>1
    <3>2. mempool[i].tx.score \in Offer
      BY <1>1, <2>3, <3>1, SentType
    <3>3. /\ mempool[i].tx.score.nonce # sc.nonce
          /\ mempool[i].tx.score.nonce \notin consumedScoreNonces[mempool[i].tx.score.scorer]
      BY <1>1, <1>8, <2>1, <2>3, <3>1 DEF MempoolInv, Current, sc
    <3> QED
      BY <2>2, <3>2, <3>3 DEF Offer
  <2>4. ASSUME scorePanel = "submitting"
        PROVE  offer.nonce \notin consumedScoreNonces'[offer.scorer]
    <3>1. offer \in Offer /\ Current(offer)
      BY <1>1, <2>4 DEF PanelTypes, PageInv
    <3>2. sc.nonce # offer.nonce
      BY <1>1, <1>8, <2>1, <2>4 DEF MempoolInv, sc
    <3> QED
      BY <2>2, <3>1, <3>2 DEF Offer, Current
  <2> QED
    BY <1>3, <1>4, <1>5, <1>6, <2>3, <2>4, ChainStep
<1> QED
  BY <1>6, <1>7, <1>8

---------------------------------------------------------------------------
(* The steps of the page by itself. *)
LEMMA PageStep ==
  ASSUME DeskInv, UNCHANGED <<vars, mempool>>, PanelTypes', PageInv',
         scorePanel' = "submitting" =>
           \A i \in 1 .. Len(mempool) : IsScore(i) => mempool[i].tx.score.nonce # offer'.nonce
  PROVE  DeskInv'
<1>1. ChainInv /\ MempoolInv /\ MempoolType
  BY LengthType DEF DeskInv
<1>2. ChainInv'
  BY <1>1, IdleKept DEF Kept
<1>3. MempoolType'
  BY <1>1 DEF MempoolType
<1>4. MempoolInv'
  <2>1. UNCHANGED <<now, consumedScoreNonces, allowance>> /\ mempool' = mempool
    BY DEF vars, registryVars, lineVars, tokenVars
  <2> QED
    BY <1>1, <2>1 DEF MempoolInv, IsScore, Current, Backed
<1>5. DeskTypeOK'
  BY <1>2, <1>3 DEF ChainInv, LineInv, DeskTypeOK, PanelTypes, MempoolType
<1> QED
  BY <1>2, <1>4, <1>5 DEF DeskInv

LEMMA FreshNonceIsFresh ==
  ASSUME FreshNonces # {}
  PROVE  /\ FreshNonce \in ScoreNonce
         /\ \A s \in Scorer : FreshNonce \notin consumedScoreNonces[s]
         /\ \A i \in DOMAIN mempool : IsScore(i) => mempool[i].tx.score.nonce # FreshNonce
<1>1. FreshNonce \in FreshNonces
  BY DEF FreshNonce
<1> QED
  BY <1>1 DEF FreshNonces, IsScore

(* What is signed within MaxLead of the chain's time counts as issued at   *)
(* the chain's time at the latest.                                         *)
LEMMA SignStep ==
  ASSUME DeskInv, SignScore
  PROVE  DeskInv'
<1>1. PanelTypes /\ PageInv /\ MempoolType /\ Len(mempool) \in Nat /\ ChainInv
  BY LengthType, DeskTypeParts DEF DeskInv
<1>2. PICK windows \in Profile, llm \in LlmOutput, lead \in 0 .. MaxLead, s \in Scorer :
        offer' = SignedOffer(s, Terms(windows, llm, now + lead))
  BY DEF SignScore
<1>3. /\ UNCHANGED <<vars, borrowPanel, asked, shown, mempool>> /\ scorePanel' = "submitting"
      /\ FreshNonces # {}
  BY DEF SignScore
<1>4. /\ now \in Nat /\ lead \in Nat /\ ISSUED_CLOCK_SKEW \in Nat
      /\ now + lead >= ISSUED_CLOCK_SKEW
      /\ now + lead - ISSUED_CLOCK_SKEW <= now
  <2>1. now \in Timestamp /\ now \in Nat
    BY <1>1 DEF ChainInv, LineInv, LineTypeOK, RegistryTypeOK
  <2>2. now >= ISSUED_CLOCK_SKEW /\ MaxLead \in Nat /\ MaxLead <= ISSUED_CLOCK_SKEW
    BY <2>1, DeskAssumption
  <2>3. lead \in Nat /\ lead <= MaxLead /\ ISSUED_CLOCK_SKEW \in Nat
    BY <2>2, ScoringAssumption
  <2> QED
    BY <2>1, <2>2, <2>3
<1>14. PICK t : t = now + lead /\ offer' = SignedOffer(s, Terms(windows, llm, t))
  BY <1>2, Zenon
<1>5. t \in Nat /\ t >= ISSUED_CLOCK_SKEW /\ t - ISSUED_CLOCK_SKEW <= now
  BY <1>4, <1>14
<1> DEFINE terms == Terms(windows, llm, t)
<1>6. /\ terms.tier \in Tier
      /\ terms.maxLine \in Nat
      /\ terms.aprBps \in Nat
      /\ WithinPolicy(terms)
      /\ terms.issuedAt \in Nat
      /\ terms.expiresAt \in Nat
      /\ terms.issuedAt = t - ISSUED_CLOCK_SKEW
  BY <1>5, SignedTerms
<1> HIDE DEF terms
<1>7. /\ FreshNonce \in ScoreNonce
      /\ FreshNonce \notin consumedScoreNonces[s]
      /\ \A i \in DOMAIN mempool : IsScore(i) => mempool[i].tx.score.nonce # FreshNonce
  BY <1>3, FreshNonceIsFresh
<1>8. /\ offer' \in Offer
      /\ offer'.borrower = Merchant
      /\ offer'.tier = terms.tier /\ offer'.maxLine = terms.maxLine /\ offer'.aprBps = terms.aprBps
      /\ offer'.issuedAt = terms.issuedAt /\ offer'.nonce = FreshNonce /\ offer'.scorer = s
  <2>1. Merchant \in Borrower
    BY MerchantType
  <2>2. offer' = [scorer |-> s, borrower |-> Merchant, nonce |-> FreshNonce, tier |-> terms.tier,
                  maxLine |-> terms.maxLine, aprBps |-> terms.aprBps,
                  issuedAt |-> terms.issuedAt, expiresAt |-> terms.expiresAt]
    BY <1>14 DEF SignedOffer, terms
  <2>3. terms.tier \in Nat
    <3>1. Tier \subseteq CreditTier
      BY DeskAssumption
    <3>2. terms.tier \in Tier
      BY <1>6
    <3>3. terms.tier \in CreditTier
      BY <3>1, <3>2
    <3> QED
      BY <3>3 DEF CreditTier
  <2> QED
    BY <1>6, <1>7, <2>1, <2>2, <2>3 DEF Offer
<1>9. PanelTypes'
  BY <1>1, <1>3, <1>8 DEF PanelTypes, Open
<1>10. UNCHANGED <<now, consumedScoreNonces, allowance>>
  BY <1>3 DEF vars, registryVars, lineVars, tokenVars
<1>11. Current(offer)'
  <2>1. WithinPolicy(offer')
    BY <1>6, <1>8 DEF WithinPolicy
  <2> QED
    BY <1>5, <1>6, <1>7, <1>8, <1>10, <2>1 DEF Current, WithinPolicy
<1>12. PageInv'
  BY <1>1, <1>3, <1>10, <1>11 DEF PageInv, Backed, Open
<1>13. \A i \in 1 .. Len(mempool) : IsScore(i) => mempool[i].tx.score.nonce # offer'.nonce
  <2>1. DOMAIN mempool = 1 .. Len(mempool)
    BY <1>1 DEF MempoolType
  <2> QED
    BY <1>7, <1>8, <2>1
<1> QED
  BY <1>3, <1>9, <1>12, <1>13, PageStep

(* Answering a prompt leaves the others as they are. *)
NothingNewAsked ==
  \A q \in Prompt : asked'[q] # NoTx => asked'[q] = asked[q]

LEMMA RejectedPrompts ==
  ASSUME asked \in [Prompt -> Tx \union {NoTx}], NEW q \in Prompt,
         asked' = [asked EXCEPT ![q] = NoTx]
  PROVE  asked' \in [Prompt -> Tx \union {NoTx}] /\ NothingNewAsked
  BY DEF NothingNewAsked

(* The steps of the page that neither sign nor send. *)
LEMMA PanelStep ==
  ASSUME DeskInv,
         \/ AskScore \/ ScoringFails \/ CancelScore \/ Refetch
         \/ \E q \in Prompt : Reject(q)
         \/ \E n \in Amount : AskBorrow(n)
         \/ \E n \in Amount \union {0} : AskRepay(n) \/ AskApprove(n)
  PROVE  DeskInv'
<1>1. PanelTypes /\ PageInv /\ MempoolInv /\ ChainInv
  BY DeskTypeParts DEF DeskInv
<1>2. UNCHANGED <<vars, mempool>>
  BY DEF AskScore, ScoringFails, CancelScore, Reject, Refetch, AskBorrow, AskRepay, AskApprove, Ask
<1>3. UNCHANGED <<now, consumedScoreNonces, allowance>>
  BY <1>2 DEF vars, registryVars, lineVars, tokenVars
<1>4. scorePanel' = "submitting" => scorePanel = "submitting" /\ offer' = offer
  BY DEF AskScore, ScoringFails, CancelScore, Reject, Refetch, AskBorrow, AskRepay, AskApprove, Ask
<1>5. scorePanel' = "submitting" =>
        \A i \in 1 .. Len(mempool) : IsScore(i) => mempool[i].tx.score.nonce # offer'.nonce
  BY <1>1, <1>4 DEF MempoolInv
<1>6. scorePanel' = "submitting" => Current(offer)'
  BY <1>1, <1>3, <1>4 DEF PageInv, Current
<1>7. shown.allowance \in Nat /\ shown.debt \in Nat /\ shown.available \in Nat
  BY <1>1 DEF PanelTypes, Snapshot
<1>8. ASSUME NEW call \in {"borrow", "repay", "approve"}, NEW n \in Nat \ {0}, Ask(call, n),
             call = "borrow" => n \in Amount, call = "approve" => n = MaxUint
      PROVE  PanelTypes' /\ PageInv'
  <2> DEFINE ok == shown.allowance >= n
             r == [call |-> call, amount |-> n, approved |-> ok]
  <2>6. ok \in BOOLEAN
    OBVIOUS
  <2> HIDE DEF ok
  <2>7. r \in Tx /\ r.call = call /\ r.amount = n /\ r.approved = ok
    BY <2>6 DEF Tx
  <2>1. r \in Tx /\ r.call = call /\ r.amount = n /\ (r.approved => shown.allowance >= n)
    BY <2>7 DEF ok
  <2>2. PICK q \in Prompt : asked' = [asked EXCEPT ![q] = r]
    BY <1>8 DEF Ask, ok
  <2>8. borrowPanel' = "pending" /\ UNCHANGED <<scorePanel, offer, shown>>
    BY <1>8 DEF Ask
  <2> HIDE DEF r
  <2>9. /\ asked' \in [Prompt -> Tx \union {NoTx}] /\ asked'[q] = r
        /\ \A p \in Prompt : p # q => asked'[p] = asked[p]
    BY <1>1, <2>1, <2>2 DEF PanelTypes
  <2>10. Open(q)'
    BY <2>1, <2>9, PromptAssumption DEF Open
  <2>3. PanelTypes'
    BY <1>1, <2>8, <2>9, <2>10 DEF PanelTypes
  <2>4. r.approved => r.amount <= MaxUint /\ allowance'[Merchant][Line] = MaxUint
    BY <1>1, <1>3, <1>7, <2>1, UnlimitedType DEF PageInv
  <2>11. ASSUME NEW p \in Prompt, Open(p)' PROVE Backed(asked[p])'
    <3>1. CASE p = q
      BY <1>8, <2>1, <2>4, <2>9, <3>1 DEF Backed
    <3>2. CASE p # q
      BY <1>1, <1>3, <2>9, <2>11, <3>2 DEF PageInv, Backed, Open
    <3> QED
      BY <3>1, <3>2
  <2> QED
    BY <1>1, <1>3, <1>6, <2>3, <2>8, <2>11 DEF PageInv
<1>9. CASE AskScore \/ ScoringFails \/ CancelScore
  <2>1. UNCHANGED <<borrowPanel, asked, shown>>
    BY <1>9 DEF AskScore, ScoringFails, CancelScore
  <2>2. PanelTypes'
    BY <1>1, <1>9, <2>1 DEF AskScore, ScoringFails, CancelScore, PanelTypes, Open
  <2> QED
    BY <1>1, <1>2, <1>3, <1>5, <1>6, <2>1, <2>2, PageStep DEF PageInv, Backed, Open
<1>15. ASSUME NEW q \in Prompt, Reject(q) PROVE DeskInv'
  <2>1. borrowPanel' = "idle" /\ UNCHANGED <<scorePanel, offer, shown>>
    BY <1>15 DEF Reject
  <2>2. asked' \in [Prompt -> Tx \union {NoTx}] /\ NothingNewAsked
    BY <1>1, <1>15, RejectedPrompts DEF Reject, PanelTypes
  <2>3. PanelTypes'
    BY <1>1, <2>1, <2>2 DEF PanelTypes
  <2>4. PageInv'
    BY <1>1, <1>3, <1>6, <2>1, <2>2 DEF PageInv, Backed, Open, NothingNewAsked
  <2> QED
    BY <1>2, <1>5, <2>3, <2>4, PageStep
<1>10. CASE Refetch
  <2>1. LineInv /\ Merchant \in Borrower
    BY <1>1, MerchantType DEF ChainInv
  <2>2. OutstandingDebt(Merchant) \in Nat
    BY <2>1, AccruedLoan
  <2>3. AvailableCredit(Merchant) \in Nat
    <3>1. scores[Merchant].maxLine \in Nat
      BY <2>1 DEF LineInv, LineTypeOK, Score
    <3> QED
      BY <2>2, <3>1 DEF AvailableCredit
  <2>4. allowance[Merchant][Line] \in {0, MaxUint} /\ MaxUint # 0 /\ allowance[Merchant][Line] \in Nat
    BY <1>1, UnlimitedType DEF ChainInv
  <2>5. /\ shown' = [available |-> AvailableCredit(Merchant), debt |-> OutstandingDebt(Merchant),
                     allowance |-> allowance[Merchant][Line]]
        /\ UNCHANGED <<scorePanel, offer, borrowPanel, asked>>
    BY <1>10 DEF Refetch
  <2>6. shown' \in Snapshot /\ shown'.allowance = allowance[Merchant][Line]
    BY <2>2, <2>3, <2>4, <2>5 DEF Snapshot
  <2>7. PanelTypes'
    BY <1>1, <2>5, <2>6 DEF PanelTypes, Open
  <2>8. PageInv'
    BY <1>1, <1>3, <1>6, <2>4, <2>5, <2>6 DEF PageInv, Backed, Open
  <2> QED
    BY <1>2, <1>5, <2>7, <2>8, PageStep
<1>11. ASSUME NEW n \in Amount, AskBorrow(n) PROVE DeskInv'
  <2>1. n \in Nat \ {0}
    BY <1>11, PositiveAmount DEF AskBorrow
  <2>2. Ask("borrow", n)
    BY <1>11 DEF AskBorrow
  <2>3. PanelTypes' /\ PageInv'
    BY <1>8, <2>1, <2>2
  <2> QED
    BY <1>2, <1>5, <2>3, PageStep
<1>12. ASSUME NEW n \in Amount \union {0}, shown.debt # 0
       PROVE  RepayAmount(n) \in Nat \ {0}
  <2>1. n \in Nat
    BY AmountType
  <2> QED
    BY <1>7, <1>12, <2>1 DEF RepayAmount
<1>13. ASSUME NEW n \in Amount \union {0}, AskRepay(n) PROVE DeskInv'
  <2>1. RepayAmount(n) \in Nat \ {0} /\ Ask("repay", RepayAmount(n))
    BY <1>12, <1>13 DEF AskRepay
  <2>2. PanelTypes' /\ PageInv'
    BY <1>8, <2>1
  <2> QED
    BY <1>2, <1>5, <2>2, PageStep
<1>14. ASSUME NEW n \in Amount \union {0}, AskApprove(n) PROVE DeskInv'
  <2>1. MaxUint \in Nat \ {0} /\ Ask("approve", MaxUint)
    BY <1>14, UnlimitedType DEF AskApprove
  <2>2. PanelTypes' /\ PageInv'
    BY <1>8, <2>1
  <2> QED
    BY <1>2, <1>5, <2>2, PageStep
<1> QED
  BY <1>9, <1>10, <1>11, <1>13, <1>14, <1>15

---------------------------------------------------------------------------
(* Sending: the transaction joins the others with what was known of it. *)
LEMMA AppendOf ==
  ASSUME NEW S, NEW q \in Seq(S), NEW e \in S
  PROVE  /\ Len(q) \in Nat
         /\ Append(q, e) \in Seq(S)
         /\ Len(Append(q, e)) = Len(q) + 1
         /\ \A i \in 1 .. Len(q) : Append(q, e)[i] = q[i]
         /\ Append(q, e)[Len(q) + 1] = e
  OBVIOUS

LEMMA SendStep ==
  ASSUME DeskInv, UNCHANGED <<vars, shown>>, NEW tx, Send(tx),
         tx \in Tx \/ tx \in [call : {"applyScore"}, score : Offer],
         tx.call = "applyScore" =>
           /\ Current(tx.score)
           /\ \A i \in 1 .. Len(mempool) : IsScore(i) => mempool[i].tx.score.nonce # tx.score.nonce,
         tx.call # "applyScore" => Backed(tx),
         PanelTypes', scorePanel' = "submitting" => scorePanel = "submitting" /\ offer' = offer,
         scorePanel' = "submitting" => tx.call # "applyScore",
         NothingNewAsked
  PROVE  DeskInv'
<1> DEFINE entry == [tx |-> tx, watched |-> TRUE]
<1>1. ChainInv /\ PageInv /\ MempoolInv /\ MempoolType
  BY LengthType DEF DeskInv
<1>2. entry \in Sent /\ entry.tx = tx
  BY DEF Sent
<1>3. mempool' = Append(mempool, entry) /\ Len(mempool) < MaxUnmined /\ mempool \in Seq(Sent)
  BY <1>1 DEF Send, MempoolType
<1> HIDE DEF entry
<1>4. /\ Len(mempool) \in Nat
      /\ mempool' \in Seq(Sent)
      /\ Len(mempool') = Len(mempool) + 1
  BY <1>2, <1>3, AppendOf
<1>5. /\ \A i \in 1 .. Len(mempool) : mempool'[i] = mempool[i]
      /\ mempool'[Len(mempool) + 1] = entry
  BY <1>2, <1>3, AppendOf
<1>6. UNCHANGED <<now, consumedScoreNonces, allowance>>
  BY DEF vars, registryVars, lineVars, tokenVars
<1>7. ChainInv'
  BY <1>1, IdleKept DEF Kept
<1>8. MempoolType'
  BY <1>3, <1>4, DeskAssumption DEF MempoolType
<1>9. DeskTypeOK'
  BY <1>7, <1>8 DEF ChainInv, LineInv, DeskTypeOK, PanelTypes, MempoolType
<1>10. PageInv'
  BY <1>1, <1>6 DEF PageInv, Current, Backed, Open, NothingNewAsked
<1>11. ASSUME NEW i \in 1 .. Len(mempool')
       PROVE  \/ i \in 1 .. Len(mempool) /\ mempool'[i].tx = mempool[i].tx
              \/ i = Len(mempool) + 1 /\ mempool'[i].tx = tx
  BY <1>2, <1>4, <1>5
<1>12. ASSUME NEW i \in 1 .. Len(mempool')
       PROVE  /\ IsScore(i)' => Current(mempool[i].tx.score)'
              /\ ~IsScore(i)' => Backed(mempool[i].tx)'
              /\ IsScore(i)' /\ scorePanel' = "submitting" => mempool'[i].tx.score.nonce # offer'.nonce
  <2>1. CASE i \in 1 .. Len(mempool) /\ mempool'[i].tx = mempool[i].tx
    <3>1. IsScore(i)' <=> IsScore(i)
      BY <2>1 DEF IsScore
    <3> QED
      BY <1>1, <1>6, <2>1, <3>1 DEF MempoolInv, Current, Backed
  <2>2. CASE i = Len(mempool) + 1 /\ mempool'[i].tx = tx
    <3>1. IsScore(i)' <=> tx.call = "applyScore"
      BY <2>2 DEF IsScore
    <3> QED
      BY <1>6, <2>2, <3>1 DEF Current, Backed
  <2> QED
    BY <1>11, <2>1, <2>2
<1>13. ASSUME NEW i \in 1 .. Len(mempool'), NEW j \in 1 .. Len(mempool'),
              IsScore(i)', IsScore(j)', i # j
       PROVE  mempool'[i].tx.score.nonce # mempool'[j].tx.score.nonce
  <2>1. CASE i \in 1 .. Len(mempool) /\ j \in 1 .. Len(mempool)
    BY <1>1, <1>5, <1>13, <2>1 DEF MempoolInv, IsScore
  <2>2. CASE i = Len(mempool) + 1
    <3>1. mempool'[i].tx = tx /\ j \in 1 .. Len(mempool) /\ mempool'[j].tx = mempool[j].tx
      BY <1>4, <1>11, <1>13, <2>2
    <3> QED
      BY <1>13, <3>1 DEF IsScore
  <2>3. CASE j = Len(mempool) + 1
    <3>1. mempool'[j].tx = tx /\ i \in 1 .. Len(mempool) /\ mempool'[i].tx = mempool[i].tx
      BY <1>4, <1>11, <1>13, <2>3
    <3> QED
      BY <1>13, <3>1 DEF IsScore
  <2> QED
    BY <1>4, <2>1, <2>2, <2>3
<1>14. MempoolInv'
  BY <1>12, <1>13 DEF MempoolInv
<1> QED
  BY <1>7, <1>9, <1>10, <1>14 DEF DeskInv

LEMMA SubmitStep ==
  ASSUME DeskInv, SubmitScore
  PROVE  DeskInv'
<1>1. PanelTypes /\ PageInv /\ MempoolInv
  BY DeskTypeParts DEF DeskInv
<1> DEFINE tx == ScoreTx(offer)
<1>2. /\ scorePanel = "submitting" /\ scorePanel' = "confirming" /\ offer' = NoOffer
      /\ Send(tx) /\ UNCHANGED <<vars, borrowPanel, asked, shown>>
  BY DEF SubmitScore
<1>3. offer \in Offer /\ Current(offer)
  BY <1>1, <1>2 DEF PanelTypes, PageInv
<1>4. tx \in [call : {"applyScore"}, score : Offer] /\ tx.call = "applyScore" /\ tx.score = offer
  BY <1>3 DEF ScoreTx
<1>5. \A i \in 1 .. Len(mempool) : IsScore(i) => mempool[i].tx.score.nonce # tx.score.nonce
  BY <1>1, <1>2, <1>4 DEF MempoolInv
<1>6. PanelTypes' /\ NothingNewAsked
  BY <1>1, <1>2 DEF PanelTypes, Open, NothingNewAsked
<1> HIDE DEF tx
<1>7. scorePanel' # "submitting" /\ Current(tx.score)
  BY <1>2, <1>3, <1>4
<1> QED
  BY <1>2, <1>4, <1>5, <1>6, <1>7, SendStep

LEMMA ConfirmStep ==
  ASSUME DeskInv, NEW q \in Prompt, Confirm(q)
  PROVE  DeskInv'
<1>1. PanelTypes /\ PageInv
  BY DeskTypeParts DEF DeskInv
<1> DEFINE tx == asked[q]
<1>2. /\ Open(q) /\ borrowPanel' = "confirming" /\ asked' = [asked EXCEPT ![q] = NoTx]
      /\ Send(tx) /\ UNCHANGED <<vars, scorePanel, offer, shown>>
  BY DEF Confirm
<1>3. tx \in Tx /\ Backed(tx) /\ tx.call # "applyScore"
  BY <1>1, <1>2 DEF PanelTypes, PageInv, Tx, Open
<1> HIDE DEF tx
<1>4. asked' \in [Prompt -> Tx \union {NoTx}] /\ NothingNewAsked
  BY <1>1, <1>2, RejectedPrompts DEF PanelTypes
<1>5. PanelTypes'
  BY <1>1, <1>2, <1>4 DEF PanelTypes
<1> QED
  BY <1>2, <1>3, <1>4, <1>5, SendStep

LEMMA RouteStep ==
  ASSUME DeskInv, NEW n \in Amount, RouteSale(n)
  PROVE  DeskInv'
<1>1. n \in Nat \ {0} /\ TakeRepayment(Merchant, n) /\ RepaymentFrame /\ UNCHANGED deskVars
  BY PositiveAmount DEF RouteSale, OnSaleReceived, RepaymentFrame
<1>2. Kept /\ UNCHANGED consumedScoreNonces
  BY <1>1, RepaymentKept DEF DeskInv
<1> QED
  BY <1>1, <1>2, OutsideStep

LEMMA AttestedDeskStep ==
  ASSUME DeskInv, Attested \/ TimePasses
  PROVE  DeskInv'
<1>1. AttestationNext \/ ClockNext
  <2>1. CASE Attested
    <3>1. UNCHANGED <<tokenVars, lineVars>>
      BY <2>1 DEF Attested
    <3>2. RegistryNext
      <4>1. Merchant \in Subject /\ HUMANITY \in Kind
        BY MerchantType DEF Kind
      <4> QED
        BY <2>1, <4>1 DEF Attested, RegistryNext
    <3> QED
      BY <3>1, <3>2 DEF AttestationNext
  <2>2. CASE TimePasses
    BY <2>2 DEF TimePasses
  <2> QED
    BY <2>1, <2>2
<1>2. UNCHANGED deskVars
  BY DEF Attested, TimePasses
<1>3. Kept /\ UNCHANGED consumedScoreNonces
  BY <1>1, OutsideKept DEF DeskInv
<1> QED
  BY <1>2, <1>3, OutsideStep

LEMMA DeskInvStep ==
  ASSUME DeskInv, [DeskNext]_allVars
  PROVE  DeskInv'
<1>1. CASE UNCHANGED allVars
  <2>1. UNCHANGED vars /\ UNCHANGED deskVars
    BY <1>1 DEF allVars
  <2>2. Kept /\ UNCHANGED consumedScoreNonces
    BY <2>1, IdleKept DEF DeskInv
  <2> QED
    BY <2>1, <2>2, OutsideStep
<1>2. CASE \/ AskScore \/ ScoringFails \/ CancelScore \/ Refetch
           \/ \E q \in Prompt : Reject(q)
           \/ \E n \in Amount : AskBorrow(n)
           \/ \E n \in Amount \union {0} : AskRepay(n) \/ AskApprove(n)
  BY <1>2, PanelStep
<1>3. CASE SignScore
  BY <1>3, SignStep
<1>4. CASE SubmitScore
  BY <1>4, SubmitStep
<1>5. ASSUME NEW q \in Prompt, Confirm(q) PROVE DeskInv'
  BY <1>5, ConfirmStep
<1>6. ASSUME NEW k \in DOMAIN mempool, GiveUp(k) PROVE DeskInv'
  BY <1>6, GiveUpStep
<1>7. CASE Mine
  BY <1>7, MineStep
<1>8. ASSUME NEW n \in Amount, RouteSale(n) PROVE DeskInv'
  BY <1>8, RouteStep
<1>9. CASE Attested \/ TimePasses
  BY <1>9, AttestedDeskStep
<1> QED
  BY <1>1, <1>2, <1>3, <1>4, <1>5, <1>6, <1>7, <1>8, <1>9 DEF DeskNext

LEMMA DeskInvInit == DeskInit => DeskInv
<1> SUFFICES ASSUME DeskInit PROVE DeskInv
  OBVIOUS
<1>1. LineInit /\ LineInv
  BY LineInvInit DEF DeskInit
<1>2. Merchant \in Borrower /\ Merchant \in Account /\ Line \in Spender
  BY MerchantType
<1>3. AsDeployed
  BY <1>1 DEF LineInit, AsDeployed, TokenRole, LineRole
<1>4. scores[Merchant] = NoScore /\ loans[Merchant] = NoLoan /\ allowance[Merchant][Line] = 0
      /\ totalSupply = 0
  BY <1>1, <1>2 DEF LineInit
<1>5. ChainInv
  BY <1>1, <1>3, <1>4 DEF ChainInv, ScoreFollowsPolicy, NoLoan
<1>6. mempool = <<>> /\ Len(mempool) = 0 /\ mempool \in Seq(Sent)
  BY DEF DeskInit
<1>7. MempoolType
  BY <1>6, DeskAssumption DEF MempoolType
<1>8. /\ scorePanel = "idle" /\ offer = NoOffer /\ borrowPanel = "idle"
      /\ asked = [q \in Prompt |-> NoTx] /\ shown \in Snapshot /\ shown.allowance = 0
  BY DEF DeskInit, Snapshot
<1>9. PanelTypes /\ PageInv
  BY <1>8 DEF PanelTypes, PageInv, Open
<1>10. MempoolInv
  BY <1>6 DEF MempoolInv
<1>11. DeskTypeOK
  BY <1>1, <1>7, <1>9, DeskTypeParts DEF LineInv
<1> QED
  BY <1>5, <1>9, <1>10, <1>11 DEF DeskInv

(* Whatever the wallet, the clocks, the routed sales and the attestations  *)
(* do, in whatever order, the page and the chain under it keep what the    *)
(* three refusals below rest on (ScorePanel.tsx, BorrowPanel.tsx,          *)
(* score/route.ts, CreditLine.sol).                                        *)
THEOREM DeskInvariant == DeskSpec => []DeskInv
<1>1. DeskInit => DeskInv
  BY DeskInvInit
<1>2. DeskInv /\ [DeskNext]_allVars => DeskInv'
  BY DeskInvStep
<1> QED
  BY <1>1, <1>2, PTL DEF DeskSpec

(* The page and the chain keep their types: in particular every amount the *)
(* page asks for is positive, whatever is left in its fields.              *)
THEOREM DeskTypeCorrect == DeskSpec => []DeskTypeOK
<1>1. DeskInv => DeskTypeOK
  BY DEF DeskInv
<1> QED
  BY <1>1, DeskInvariant, PTL

(* What stands on chain for the merchant is a line and an APR the policy   *)
(* has for the tier that stands beside them, for a profile the server      *)
(* knows, whatever the LLM said (the clamps of scoring.ts).                *)
THEOREM ScoresFollowPolicy == DeskSpec => []ScoreFollowsPolicy
<1>1. DeskInv => ScoreFollowsPolicy
  BY DEF DeskInv, ChainInv
<1> QED
  BY <1>1, DeskInvariant, PTL

(* A repayment for which the page asked for no approval has one when it is *)
(* mined: approvals are unlimited, and routed sales do not use them up.    *)
THEOREM ApprovedRepaymentsAreAllowed == DeskSpec => ApprovedRepayIsAllowed
<1>1. ASSUME DeskInv, Refused("repay"), Head(mempool).tx.approved
      PROVE  allowance[Merchant][Line] >= Head(mempool).tx.amount
  <2>1. MempoolType /\ MempoolInv /\ mempool # <<>> /\ Head(mempool).tx.call = "repay"
    BY <1>1, LengthType DEF DeskInv, Refused
  <2>2. Len(mempool) \in Nat \ {0} /\ Head(mempool) = mempool[1]
    BY <2>1, TailOf DEF MempoolType
  <2>3. 1 \in 1 .. Len(mempool) /\ ~IsScore(1)
    BY <2>1, <2>2 DEF IsScore
  <2>4. Backed(mempool[1].tx) /\ mempool[1].tx \in Tx
    BY <2>1, <2>3, SentType DEF MempoolInv
  <2>5. /\ mempool[1].tx.amount \in Nat /\ mempool[1].tx.amount <= MaxUint
        /\ allowance[Merchant][Line] = MaxUint
    BY <1>1, <2>2, <2>4 DEF Backed, Tx
  <2> QED
    BY <2>2, <2>5, UnlimitedType
<1>2. DeskInv /\ [DeskNext]_allVars =>
        [Refused("repay") /\ Head(mempool).tx.approved =>
           allowance[Merchant][Line] >= Head(mempool).tx.amount]_allVars
  BY <1>1
<1> QED
  BY <1>2, DeskInvariant, PTL DEF DeskSpec, ApprovedRepayIsAllowed

(* A transaction of the merchant leaves the mempool only by being mined.   *)
LEMMA RefusedIsMined ==
  ASSUME DeskInv, [DeskNext]_allVars, NEW call, Refused(call)
  PROVE  /\ Mine /\ UNCHANGED vars
         /\ 1 \in 1 .. Len(mempool) /\ Head(mempool).tx = mempool[1].tx
         /\ mempool[1].tx.call = call
<1>1. mempool \in Seq(Sent) /\ mempool # <<>> /\ mempool' = Tail(mempool) /\ UNCHANGED vars
      /\ Head(mempool).tx.call = call
  BY LengthType DEF MempoolType, Refused
<1>2. Len(mempool) \in Nat \ {0} /\ Head(mempool) = mempool[1] /\ Len(mempool') = Len(mempool) - 1
  BY <1>1, TailOf
<1>3. Len(mempool') # Len(mempool)
  BY <1>2
<1>4. mempool' # mempool
  BY <1>3
<1>5. ASSUME NEW tx, Send(tx) PROVE FALSE
  <2> DEFINE entry == [tx |-> tx, watched |-> TRUE]
  <2>1. mempool' = Append(mempool, entry)
    BY <1>5 DEF Send
  <2> HIDE DEF entry
  <2>2. Len(Append(mempool, entry)) = Len(mempool) + 1
    BY <1>1
  <2> QED
    BY <1>2, <2>1, <2>2
<1>6. ASSUME NEW k \in DOMAIN mempool, GiveUp(k) PROVE FALSE
  <2> DEFINE m == [mempool[k] EXCEPT !.watched = FALSE]
  <2>1. mempool' = [mempool EXCEPT ![k] = m]
    BY <1>6 DEF GiveUp
  <2> HIDE DEF m
  <2>2. DOMAIN mempool' = DOMAIN mempool
    BY <2>1
  <2>3. mempool' \in Seq(Sent)
    BY <1>1
  <2>4. Len(mempool') = Len(mempool)
    BY <1>1, <2>2, <2>3
  <2> QED
    BY <1>3, <2>4
<1>7. Mine
  <2>1. UNCHANGED allVars => mempool' = mempool
    BY DEF allVars, deskVars
  <2>2. AskScore \/ SignScore \/ ScoringFails \/ CancelScore \/ Refetch => mempool' = mempool
    BY DEF AskScore, SignScore, ScoringFails, CancelScore, Refetch
  <2>7. \A q : Reject(q) => mempool' = mempool
    BY DEF Reject
  <2>3. \A n : AskBorrow(n) \/ AskRepay(n) \/ AskApprove(n) => mempool' = mempool
    BY DEF AskBorrow, AskRepay, AskApprove, Ask
  <2>4. (\E n \in Amount : RouteSale(n)) \/ Attested \/ TimePasses => mempool' = mempool
    BY DEF RouteSale, Attested, TimePasses, deskVars
  <2>5. SubmitScore => Send(ScoreTx(offer))
    BY DEF SubmitScore
  <2>6. \A q : Confirm(q) => Send(asked[q])
    BY DEF Confirm
  <2> QED
    BY <1>4, <1>5, <1>6, <2>1, <2>2, <2>3, <2>4, <2>5, <2>6, <2>7 DEF DeskNext
<1> QED
  BY <1>1, <1>2, <1>7

(* The one reason left for the line to refuse a score is that it expired   *)
(* on its way: its APR is one the contract allows, it was not issued in    *)
(* the chain's future, its tier is one of the five, its scorer holds the   *)
(* role and its nonce is unused.                                           *)
THEOREM ScoresAreAccepted == DeskSpec => ScoreIsAccepted
<1>1. ASSUME DeskInv, [DeskNext]_allVars, Refused("applyScore")
      PROVE  Head(mempool).tx.score.expiresAt <= now
  <2>1. /\ Mine /\ UNCHANGED vars
        /\ 1 \in 1 .. Len(mempool) /\ Head(mempool).tx = mempool[1].tx
        /\ mempool[1].tx.call = "applyScore"
    BY <1>1, RefusedIsMined
  <2> DEFINE sc == mempool[1].tx.score
  <2>2. MempoolType /\ MempoolInv /\ ChainInv
    BY <1>1, LengthType DEF DeskInv
  <2>3. sc \in Offer /\ Current(sc)
    BY <2>1, <2>2, SentType DEF MempoolInv, IsScore
  <2>4. Execute(mempool[1].tx) => ApplyScore(sc)
    BY <2>1 DEF Execute
  <2>5. Accepts(mempool[1].tx) <=> CanApplyScore(sc)
    BY <2>1 DEF Accepts
  <2>6. Accepts(mempool[1].tx) => Execute(mempool[1].tx)
    BY <2>1 DEF Mine
  <2> HIDE DEF sc
  <2>7. ~ApplyScore(sc)
    <3>1. consumedScoreNonces' = consumedScoreNonces
      BY <2>1 DEF vars, lineVars
    <3>2. sc.nonce \notin consumedScoreNonces[sc.scorer] /\ sc.scorer \in Scorer
      BY <2>3 DEF Current, Offer
    <3>3. ApplyScore(sc) => sc.nonce \in consumedScoreNonces'[sc.scorer]
      BY <2>2, <3>2 DEF ApplyScore, ChainInv, LineInv, LineTypeOK
    <3> QED
      BY <3>1, <3>2, <3>3
  <2>8. ~CanApplyScore(sc)
    BY <2>4, <2>5, <2>6, <2>7
  <2>9. sc.aprBps <= MAX_APR_BPS /\ sc.tier \in CreditTier
    <3>1. sc.maxLine \in Nat /\ sc.aprBps \in Nat /\ WithinPolicy(sc)
      BY <2>3 DEF Offer, Current
    <3> QED
      BY <3>1, PolicyBounds
  <2>10. sc.scorer \in lineRole["SCORER"]
    BY <2>2, <2>3 DEF ChainInv, AsDeployed, Offer
  <2>11. ~(sc.expiresAt > now)
    BY <2>3, <2>8, <2>9, <2>10 DEF CanApplyScore, Current
  <2>12. sc.expiresAt \in Nat /\ now \in Nat
    BY <2>2, <2>3, NowType DEF Offer, ChainInv, LineInv
  <2> QED
    BY <2>1, <2>11, <2>12 DEF sc
<1>2. DeskInv /\ [DeskNext]_allVars =>
        [Refused("applyScore") => Head(mempool).tx.score.expiresAt <= now]_allVars
  BY <1>1
<1> QED
  BY <1>2, DeskInvariant, PTL DEF DeskSpec, ScoreIsAccepted

(* Whatever the page shows as available, the line lends at that moment:    *)
(* the view and the draw agree on what is owed, on expiry and on           *)
(* verification, the fee leaves something to mint, and the supply has      *)
(* room for every line of the policy.                                      *)
LEMMA AvailableIsLent ==
  ASSUME ChainInv, NEW n \in Nat \ {0}, n <= AvailableCredit(Merchant)
  PROVE  \E d \in DurationArg : CanBorrow(Merchant, n, d)
<1>1. LineInv /\ LineTypeOK /\ Merchant \in Borrower /\ AsDeployed
  BY MerchantType DEF ChainInv, LineInv
<1> DEFINE sc == scores[Merchant]  owed == OutstandingDebt(Merchant)
<1>2. /\ sc.maxLine \in Nat /\ sc.aprBps \in Nat /\ sc.expiresAt \in Nat /\ now \in Nat
      /\ owed \in Nat /\ Owed(Accrued(Merchant)) = owed
  BY <1>1, AccruedLoan, NowType DEF LineTypeOK, Score
<1>3. /\ ~(sc.expiresAt <= now) /\ IsFullyVerified(Merchant) /\ ~(sc.maxLine < owed)
      /\ n <= sc.maxLine - owed
  <2>1. CASE sc.expiresAt <= now \/ ~IsFullyVerified(Merchant) \/ sc.maxLine < owed
    BY <2>1 DEF AvailableCredit
  <2>2. CASE ~(sc.expiresAt <= now \/ ~IsFullyVerified(Merchant) \/ sc.maxLine < owed)
    BY <2>2 DEF AvailableCredit
  <2> QED
    BY <2>1, <2>2
<1>4. n <= Available(Merchant)
  BY <1>2, <1>3 DEF Available
<1>5. totalSupply \in Nat /\ totalSupply <= owed
  <2>1. /\ Accrued(Merchant) \in Loan
        /\ Accrued(Merchant).principal = loans[Merchant].principal
    BY <1>1, AccruedLoan
  <2>2. totalSupply = Accrued(Merchant).principal
    BY <2>1 DEF ChainInv
  <2> QED
    BY <1>2, <2>1, <2>2 DEF Loan, Owed
<1>6. sc.maxLine <= MaxUint
  <2>1. sc # NoScore
    BY <1>2, <1>3 DEF NoScore
  <2>2. WithinPolicy(sc)
    BY <2>1 DEF ChainInv, ScoreFollowsPolicy
  <2> QED
    BY <1>2, <2>2, PolicyBounds
<1>7. n - OriginationFee(n) # 0
  BY <1>1, FeeBelowAmount
<1>8. PICK d \in DurationArg : d \in MIN_DURATION .. MAX_DURATION
  BY DeskAssumption
<1> HIDE DEF owed
<1>9. totalSupply + n <= MaxUint
  BY <1>2, <1>3, <1>5, <1>6, UnlimitedType
<1>10. sc.expiresAt > now
  BY <1>2, <1>3
<1> QED
  BY <1>1, <1>3, <1>4, <1>7, <1>8, <1>9, <1>10 DEF CanBorrow, AsDeployed

(* A draw that reverts asks for more than is available by then.            *)
THEOREM RefusedDrawsWereUnavailable == DeskSpec => RefusedDrawWasUnavailable
<1>1. ASSUME DeskInv, [DeskNext]_allVars, Refused("borrow")
      PROVE  Head(mempool).tx.amount > AvailableCredit(Merchant)
  <2>1. /\ Mine /\ UNCHANGED vars
        /\ 1 \in 1 .. Len(mempool) /\ Head(mempool).tx = mempool[1].tx
        /\ mempool[1].tx.call = "borrow"
    BY <1>1, RefusedIsMined
  <2> DEFINE n == mempool[1].tx.amount
  <2>2. MempoolType /\ ChainInv
    BY <1>1, LengthType DEF DeskInv
  <2>3. n \in Nat \ {0}
    BY <2>1, <2>2, SentType DEF IsScore, Tx
  <2>4. Execute(mempool[1].tx) => \E d \in DurationArg : Borrow(Merchant, n, d)
    BY <2>1 DEF Execute
  <2>5. Accepts(mempool[1].tx) <=> \E d \in DurationArg : CanBorrow(Merchant, n, d)
    BY <2>1 DEF Accepts
  <2>6. Accepts(mempool[1].tx) => Execute(mempool[1].tx)
    BY <2>1 DEF Mine
  <2> HIDE DEF n
  <2>7. ~\E d \in DurationArg : Borrow(Merchant, n, d)
    <3>1. totalSupply' = totalSupply /\ totalSupply \in Int
      BY <2>1, <2>2 DEF vars, tokenVars, ChainInv, LineInv, LineTypeOK, TokenTypeOK
    <3>2. \A d \in DurationArg : Borrow(Merchant, n, d) => totalSupply' = totalSupply + n
      BY DEF Borrow
    <3> QED
      BY <2>3, <3>1, <3>2
  <2>8. ~(n <= AvailableCredit(Merchant))
    BY <2>2, <2>3, <2>4, <2>5, <2>6, <2>7, AvailableIsLent
  <2>9. AvailableCredit(Merchant) \in Int
    <3>1. LineInv /\ Merchant \in Borrower
      BY <2>2, MerchantType DEF ChainInv
    <3>2. OutstandingDebt(Merchant) \in Nat
      BY <3>1, AccruedLoan
    <3>3. scores[Merchant].maxLine \in Nat
      BY <3>1 DEF LineInv, LineTypeOK, Score
    <3> QED
      BY <3>2, <3>3 DEF AvailableCredit
  <2> QED
    BY <2>1, <2>3, <2>8, <2>9 DEF n
<1>2. DeskInv /\ [DeskNext]_allVars =>
        [Refused("borrow") => Head(mempool).tx.amount > AvailableCredit(Merchant)]_allVars
  BY <1>1
<1> QED
  BY <1>2, DeskInvariant, PTL DEF DeskSpec, RefusedDrawWasUnavailable
============================================================================
