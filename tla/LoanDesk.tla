----------------------------- MODULE LoanDesk -----------------------------
(***************************************************************************)
(* A merchant's page (app/src/app/app/page.tsx with the hook               *)
(* useAccountStatus, ScorePanel and BorrowPanel) between the score route   *)
(* and the credit line: the panels act on a snapshot of the chain, send    *)
(* transactions through the merchant's wallet, and wait for receipts,      *)
(* while time passes, sales are routed and attestations come and go.       *)
(*                                                                         *)
(* The chain is CreditLine itself: a transaction that is mined is one of   *)
(* its actions, or reverts. Of the line's other actions, nobody pauses,    *)
(* changes roles or settings, or approves and transfers by hand.           *)
(* Transactions of one account are mined in the order they were sent. The  *)
(* statuses "done" and "error" enable what "idle" does and are one with    *)
(* it. The score route asks nobody for an attestation, so the panel's own  *)
(* test of it is left out.                                                 *)
(***************************************************************************)
EXTENDS CreditLine, Scoring, Sequences

CONSTANTS
  Merchant,    \* the connected account
  NoOffer, NoTx,
  Prompt,      \* bound: the prompts the wallet may have open at once
  MaxLead,     \* how far the server's clock may run ahead of the chain's
  MaxUnmined   \* bound: the merchant's transactions in the mempool

ASSUME DeskAssumption ==
  /\ Merchant \in Borrower /\ MaxLead \in Nat /\ MaxUnmined \in Nat
  /\ MaxLead <= ISSUED_CLOCK_SKEW   \* what the back-dating is meant to absorb
  /\ \A t \in Timestamp : t >= ISSUED_CLOCK_SKEW
  /\ Tier \subseteq CreditTier   \* llmOutputSchema
  /\ \A tier \in Tier : TIER_POLICY[tier].maxAprBps <= MAX_APR_BPS
  /\ UNITS_PER_CENT * LINE_ABSOLUTE_CAP <= MaxUint
  /\ DurationArg # {} /\ DurationArg \subseteq MIN_DURATION .. MAX_DURATION

VARIABLES
  scorePanel,  \* ScorePanel's status
  offer,       \* the signed score it holds
  borrowPanel, \* BorrowPanel's status
  asked,       \* asked[q]: what BorrowPanel asked the wallet to send at prompt q
  shown,       \* the snapshot of the chain on the page
  mempool      \* the merchant's transactions not mined yet, oldest first

panelVars == <<scorePanel, offer, borrowPanel, asked, shown>>
deskVars == <<panelVars, mempool>>
allVars == <<vars, deskVars>>

Snapshot == [available : Nat, debt : Nat, allowance : Nat]
Tx == [call : {"borrow", "repay", "approve"}, amount : Nat \ {0}, approved : BOOLEAN]
Offer == [scorer : Scorer, borrower : Borrower, tier : Nat, maxLine : Nat, aprBps : Nat,
          issuedAt : Nat, expiresAt : Nat, nonce : ScoreNonce]
ScoreTx(sc) == [call |-> "applyScore", score |-> sc]
Sent == [tx : Tx \union [call : {"applyScore"}, score : Offer], watched : BOOLEAN]
ASSUME PromptAssumption == NoTx \notin Tx
Open(q) == asked[q] # NoTx
PanelOf(tx) == IF tx.call = "applyScore" THEN "score" ELSE "borrow"

DeskTypeOK ==
  /\ LineTypeOK
  /\ scorePanel \in {"idle", "scoring", "submitting", "confirming"}
  /\ offer \in IF scorePanel = "submitting" THEN Offer ELSE {NoOffer}
  /\ borrowPanel \in {"idle", "pending", "confirming"}
  /\ asked \in [Prompt -> Tx \union {NoTx}]
  /\ borrowPanel = "pending" => \E q \in Prompt : Open(q)
  /\ shown \in Snapshot
  /\ mempool \in Seq(Sent) /\ Len(mempool) <= MaxUnmined

DeskInit ==
  /\ LineInit
  /\ scorePanel = "idle" /\ offer = NoOffer
  /\ borrowPanel = "idle" /\ asked = [q \in Prompt |-> NoTx]
  /\ shown = [available |-> 0, debt |-> 0, allowance |-> 0]
  /\ mempool = <<>>

Send(tx) ==
  /\ Len(mempool) < MaxUnmined
  /\ mempool' = Append(mempool, [tx |-> tx, watched |-> TRUE])

---------------------------------------------------------------------------
(* ScorePanel and POST /api/score. *)

AskScore ==
  /\ scorePanel = "idle"
  /\ scorePanel' = "scoring"
  /\ UNCHANGED <<vars, offer, borrowPanel, asked, shown, mempool>>

(* The nonces are random; the model takes each once. *)
FreshNonces ==
  {n \in ScoreNonce : /\ \A s \in Scorer : n \notin consumedScoreNonces[s]
                      /\ \A i \in DOMAIN mempool :
                           mempool[i].tx.call = "applyScore" => mempool[i].tx.score.nonce # n}
FreshNonce == CHOOSE n \in FreshNonces : TRUE

SignedOffer(s, terms) ==
  [scorer |-> s, borrower |-> Merchant, nonce |-> FreshNonce, tier |-> terms.tier,
   maxLine |-> terms.maxLine, aprBps |-> terms.aprBps, issuedAt |-> terms.issuedAt, expiresAt |-> terms.expiresAt]

SignScore ==
  /\ scorePanel = "scoring" /\ FreshNonces # {}
  /\ \E windows \in Profile, llm \in LlmOutput, lead \in 0 .. MaxLead, s \in Scorer :
       offer' = SignedOffer(s, Terms(windows, llm, now + lead))
  /\ scorePanel' = "submitting"
  /\ UNCHANGED <<vars, borrowPanel, asked, shown, mempool>>

(* Refused by the limiter, an unusable LLM output, a lost answer. *)
ScoringFails ==
  /\ scorePanel = "scoring"
  /\ scorePanel' = "idle"
  /\ UNCHANGED <<vars, offer, borrowPanel, asked, shown, mempool>>

SubmitScore ==
  /\ scorePanel = "submitting"
  /\ Send(ScoreTx(offer))
  /\ scorePanel' = "confirming" /\ offer' = NoOffer
  /\ UNCHANGED <<vars, borrowPanel, asked, shown>>

CancelScore ==
  /\ scorePanel = "submitting"
  /\ scorePanel' = "idle" /\ offer' = NoOffer
  /\ UNCHANGED <<vars, borrowPanel, asked, shown, mempool>>

---------------------------------------------------------------------------
(* BorrowPanel. An amount of 0 is an empty field. A wallet's prompt stays  *)
(* until the user answers it, whatever the panel shows by then.            *)

Ask(call, amount) ==
  /\ \E q \in Prompt :
       /\ ~Open(q)
       /\ asked' = [asked EXCEPT ![q] =
            [call |-> call, amount |-> amount, approved |-> shown.allowance >= amount]]
  /\ borrowPanel' = "pending"
  /\ UNCHANGED <<vars, scorePanel, offer, shown, mempool>>

AskBorrow(amount) ==
  /\ amount # 0 /\ amount <= shown.available
  /\ borrowPanel = "idle"
  /\ Ask("borrow", amount)

(* Faulty variant: an empty field repays nothing. *)
RepayAmountTyped(amount) == amount
RepayAmount(amount) == IF amount > 0 THEN amount ELSE shown.debt

(* Neither button is disabled while a transaction confirms. *)
AskRepay(amount) ==
  /\ shown.debt # 0 /\ borrowPanel # "pending"
  /\ Ask("repay", RepayAmount(amount))

(* Faulty variant: approving what is about to be repaid. *)
AskApproveExactly(amount) ==
  /\ shown.debt # 0 /\ shown.allowance < RepayAmount(amount)
  /\ borrowPanel # "pending"
  /\ Ask("approve", RepayAmount(amount))
AskApprove(amount) ==
  /\ shown.debt # 0 /\ shown.allowance < RepayAmount(amount)
  /\ borrowPanel # "pending"
  /\ Ask("approve", MaxUint)

Confirm(q) ==
  /\ Open(q)
  /\ Send(asked[q])
  /\ borrowPanel' = "confirming" /\ asked' = [asked EXCEPT ![q] = NoTx]
  /\ UNCHANGED <<vars, scorePanel, offer, shown>>

(* The user rejects it, or the wallet finds that it would revert. *)
Reject(q) ==
  /\ Open(q)
  /\ borrowPanel' = "idle" /\ asked' = [asked EXCEPT ![q] = NoTx]
  /\ UNCHANGED <<vars, scorePanel, offer, shown, mempool>>

---------------------------------------------------------------------------
(* Receipts. A panel that hears of one, or gives up waiting for it, is     *)
(* done, whatever the receipt says and whatever else the panel waits for.  *)
(* Hearing of a receipt is one step with the block.                        *)

Done(p) ==
  \/ /\ p = "score" /\ UNCHANGED borrowPanel
     /\ scorePanel' = IF scorePanel = "confirming" THEN "idle" ELSE scorePanel
  \/ /\ p = "borrow" /\ UNCHANGED scorePanel
     /\ borrowPanel' = "idle"

GiveUp(i) ==
  /\ mempool[i].watched
  /\ mempool' = [mempool EXCEPT ![i].watched = FALSE]
  /\ Done(PanelOf(mempool[i].tx))
  /\ UNCHANGED <<vars, offer, asked, shown>>

(* useAccountStatus reads the chain every ten seconds, and on a receipt. *)
Refetch ==
  /\ shown' = [available |-> AvailableCredit(Merchant), debt |-> OutstandingDebt(Merchant),
               allowance |-> allowance[Merchant][Line]]
  /\ UNCHANGED <<vars, scorePanel, offer, borrowPanel, asked, mempool>>

---------------------------------------------------------------------------
(* The chain. *)
Execute(tx) ==
  \/ tx.call = "applyScore" /\ ApplyScore(tx.score)
  \/ tx.call = "borrow" /\ \E d \in DurationArg : Borrow(Merchant, tx.amount, d)
  \/ tx.call = "repay" /\ Repay(Merchant, tx.amount)
  \/ /\ tx.call = "approve" /\ Approve(Merchant, Line, tx.amount)
     /\ UNCHANGED <<registryVars, lineVars>>

(* Whether it does not revert. *)
Accepts(tx) ==
  \/ tx.call = "applyScore" /\ CanApplyScore(tx.score)
  \/ tx.call = "borrow" /\ \E d \in DurationArg : CanBorrow(Merchant, tx.amount, d)
  \/ tx.call = "repay" /\ CanRepay(Merchant, tx.amount)
  \/ tx.call = "approve"

Mine ==
  /\ mempool # <<>>
  /\ LET tx == Head(mempool).tx
     IN IF Accepts(tx) THEN Execute(tx) ELSE UNCHANGED vars
  /\ mempool' = Tail(mempool)
  /\ IF Head(mempool).watched THEN Done(PanelOf(Head(mempool).tx))
     ELSE UNCHANGED <<scorePanel, borrowPanel>>
  /\ UNCHANGED <<offer, asked, shown>>

RouteSale(amount) == OnSaleReceived(LineAdmin, Merchant, amount) /\ UNCHANGED deskVars

(* The merchant is attested as human and business, and may lose it. *)
Attested ==
  /\ \/ \E t \in SignedAttestation : RecordAttestation(t)
     \/ Revoke(Merchant, HUMANITY)
  /\ UNCHANGED <<tokenVars, lineVars, deskVars>>

TimePasses == ClockNext /\ UNCHANGED deskVars

DeskNext ==
  \/ AskScore \/ SignScore \/ ScoringFails \/ SubmitScore \/ CancelScore
  \/ \E n \in Amount : AskBorrow(n)
  \/ \E n \in Amount \union {0} : AskRepay(n) \/ AskApprove(n)
  \/ \E q \in Prompt : Confirm(q) \/ Reject(q)
  \/ \E i \in DOMAIN mempool : GiveUp(i)
  \/ Refetch \/ Mine
  \/ \E n \in Amount : RouteSale(n)
  \/ Attested \/ TimePasses

DeskSpec == DeskInit /\ [][DeskNext]_allVars

---------------------------------------------------------------------------
Refused(call) ==
  /\ mempool # <<>> /\ Head(mempool).tx.call = call
  /\ mempool' = Tail(mempool) /\ UNCHANGED vars

(* A score that reaches the line before it expires is taken: its price is  *)
(* one the contract allows, whatever the LLM said, and a server whose      *)
(* clock runs ahead by no more than the back-dating never signs one the    *)
(* chain finds to be issued in the future (score/route.ts:75-80).          *)
ScoreIsAccepted ==
  [][Refused("applyScore") => Head(mempool).tx.score.expiresAt <= now]_allVars

(* What stands on chain is a line and an APR the policy has for the tier   *)
(* beside them, for a merchant the server knows (scoring.ts:262-271).      *)
ScoreFollowsPolicy == scores[Merchant] # NoScore => WithinPolicy(scores[Merchant])

(* A draw the page offered is refused only if by then less is available    *)
(* than it asks for: the view the page shows and the test borrow makes     *)
(* agree on what is owed, on expiry and on verification.                   *)
RefusedDrawWasUnavailable ==
  [][Refused("borrow") => Head(mempool).tx.amount > AvailableCredit(Merchant)]_allVars

(* A repayment for which the page asked for no approval never lacks one    *)
(* when it is mined, although routed sales spend the same allowance in     *)
(* between.                                                                *)
ApprovedRepayIsAllowed ==
  [][Refused("repay") /\ Head(mempool).tx.approved =>
       allowance[Merchant][Line] >= Head(mempool).tx.amount]_allVars

---------------------------------------------------------------------------
(* The inductive invariant. A score that is signed and not yet mined has   *)
(* terms of the policy, was issued at or before the block's time and       *)
(* carries a nonce no other has; the page's approvals are unlimited, so    *)
(* one that was seen stays; the supply is what the merchant borrowed; and  *)
(* nothing the page does touches pauses and roles.                         *)
Current(sc) ==
  /\ sc.borrower = Merchant
  /\ WithinPolicy(sc)
  /\ sc.issuedAt <= now
  /\ sc.nonce \notin consumedScoreNonces[sc.scorer]

Backed(tx) ==
  /\ tx.call = "borrow" => tx.amount \in Amount
  /\ tx.call = "approve" => tx.amount = MaxUint
  /\ tx.approved => tx.amount <= MaxUint /\ allowance[Merchant][Line] = MaxUint

AsDeployed ==
  /\ ~linePaused /\ ~tokenPaused
  /\ Line \in tokenRole["MINTER"] /\ lineRole["SCORER"] = Scorer

PageInv ==
  /\ scorePanel = "submitting" => Current(offer)
  /\ \A q \in Prompt : Open(q) => Backed(asked[q])
  /\ shown.allowance \in {0, MaxUint}
  /\ shown.allowance # 0 => allowance[Merchant][Line] = MaxUint

IsScore(i) == mempool[i].tx.call = "applyScore"

MempoolInv ==
  /\ \A i \in 1 .. Len(mempool) :
       /\ IsScore(i) => Current(mempool[i].tx.score)
       /\ ~IsScore(i) => Backed(mempool[i].tx)
       /\ IsScore(i) /\ scorePanel = "submitting" => mempool[i].tx.score.nonce # offer.nonce
  /\ \A i, j \in 1 .. Len(mempool) :
       IsScore(i) /\ IsScore(j) /\ i # j => mempool[i].tx.score.nonce # mempool[j].tx.score.nonce

ChainInv ==
  /\ LineInv /\ AsDeployed
  /\ ScoreFollowsPolicy
  /\ totalSupply = loans[Merchant].principal
  /\ allowance[Merchant][Line] \in {0, MaxUint}

DeskInv == ChainInv /\ DeskTypeOK /\ PageInv /\ MempoolInv
=============================================================================
