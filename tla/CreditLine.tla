---------------------------- MODULE CreditLine ----------------------------
(***************************************************************************)
(* The credit line (contracts/src/CreditLine.sol) with the two contracts   *)
(* it calls, wired as contracts/script/Deploy.s.sol wires them: the line   *)
(* alone may mint and burn HKDm, and it lends to fully verified subjects   *)
(* of the registry.                                                        *)
(*                                                                         *)
(* One action is one transaction, with every call it makes into HKDm and   *)
(* the registry; a failed guard anywhere reverts all of it. A score is     *)
(* what its signature pins. Arithmetic is checked in Solidity 0.8, so an   *)
(* overflow is a revert; the one the model keeps is the supply reaching    *)
(* MaxUint.                                                                *)
(***************************************************************************)
EXTENDS HKDm, PoHRegistry

CONSTANTS
  Borrower,          \* the accounts that use the line
  Line,              \* the address of the CreditLine contract
  LineAdmin,         \* its constructor's admin
  Caller,            \* the accounts that may hold a role of the line
  Treasury,          \* the accounts ever made treasury
  DeployTreasury,    \* the constructor's treasury
  Scorer,            \* the keys scores are signed with
  ScoreNonce,
  SignedScore,       \* the scores the scorers sign
  DurationArg,       \* the durations borrowers ask for
  FeeArg,            \* the origination fees the admin asks for
  MAX_APR_BPS, MIN_DURATION, MAX_DURATION, SECONDS_PER_YEAR, BPS,
  MAX_FEE_BPS,       \* the 1_000 of setOriginationFeeBps
  DEFAULT_FEE_BPS    \* the initial originationFeeBps

SCORE == [scorer : Scorer, borrower : Borrower, tier : Nat, maxLine : Nat, aprBps : Nat,
          issuedAt : Timestamp, expiresAt : Timestamp, nonce : ScoreNonce]

ASSUME PartiesAssumption ==
  /\ Borrower \subseteq Account \intersect Subject
  /\ Treasury \subseteq Account
  /\ DeployTreasury \in Treasury
  /\ Line \in Spender
  /\ Scorer \union {LineAdmin} \subseteq Caller
ASSUME ScoreAssumption == SignedScore \subseteq SCORE
ASSUME ParameterAssumption ==
  /\ {MAX_APR_BPS, MIN_DURATION, MAX_DURATION, MAX_FEE_BPS, DEFAULT_FEE_BPS} \subseteq Nat
  /\ BPS \in Nat \ {0} /\ SECONDS_PER_YEAR \in Nat \ {0}
  /\ MAX_FEE_BPS < BPS /\ DEFAULT_FEE_BPS <= MAX_FEE_BPS
  /\ DurationArg \subseteq Nat /\ FeeArg \subseteq Nat

VARIABLES
  scores,              \* scores[b]
  loans,               \* loans[b]
  consumedScoreNonces, \* consumedScoreNonces[s]: the nonces of s already used
  treasury,
  originationFeeBps,
  linePaused,
  lineRole             \* lineRole[r]: the accounts that hold role r of the line

lineVars == <<scores, loans, consumedScoreNonces, treasury, originationFeeBps, linePaused, lineRole>>
vars == <<tokenVars, registryVars, lineVars>>

LineRole == {"ADMIN", "PAUSER", "SCORER", "SETTLEMENT"}

CreditTier == 1 .. 5   \* A to E
Score == [tier : CreditTier \union {0}, maxLine : Nat, aprBps : Nat,
          issuedAt : Nat, expiresAt : Nat]
NoScore == [tier |-> 0, maxLine |-> 0, aprBps |-> 0, issuedAt |-> 0, expiresAt |-> 0]
Loan == [principal : Nat, interestAccrued : Nat, lastAccrualAt : Nat, dueAt : Nat]
NoLoan == [principal |-> 0, interestAccrued |-> 0, lastAccrualAt |-> 0, dueAt |-> 0]

LineTypeOK ==
  /\ TokenTypeOK
  /\ RegistryTypeOK
  /\ scores \in [Borrower -> Score]
  /\ loans \in [Borrower -> Loan]
  /\ consumedScoreNonces \in [Scorer -> SUBSET ScoreNonce]
  /\ treasury \in Treasury
  /\ originationFeeBps \in 0 .. MAX_FEE_BPS
  /\ linePaused \in BOOLEAN
  /\ lineRole \in [LineRole -> SUBSET Caller]

---------------------------------------------------------------------------
(* Interest and debt. *)

Least(m, n) == IF m < n THEN m ELSE n
Latest(m, n) == IF n > m THEN n ELSE m

PendingInterest(l, aprBps, t) ==
  IF l.principal = 0 \/ l.lastAccrualAt = 0 THEN 0
  ELSE (l.principal * aprBps * (t - l.lastAccrualAt)) \div (BPS * SECONDS_PER_YEAR)

OriginationFee(amount) == (amount * originationFeeBps) \div BPS

(* A loan with pending interest added, with a draw added, and with interest *)
(* i and principal p repaid. A draw may only postpone the maturity.         *)
WithInterest(l, pending) ==
  [l EXCEPT !.interestAccrued = @ + pending, !.lastAccrualAt = now]
(* Faulty variants: a draw that leaves the accrual clock, one that books   *)
(* only what reaches the borrower.                                         *)
WithDrawUnclocked(l, amount, due) ==
  [l EXCEPT !.principal = @ + amount, !.dueAt = Latest(@, due)]
WithDrawNet(l, amount, due) ==
  [l EXCEPT !.principal = @ + amount - OriginationFee(amount), !.lastAccrualAt = now,
            !.dueAt = Latest(@, due)]

WithDraw(l, amount, due) ==
  [l EXCEPT !.principal = @ + amount, !.lastAccrualAt = now,
            !.dueAt = Latest(@, due)]
(* Faulty variant: the whole payment is taken off the principal. *)
WithRepaymentWhole(l, i, p) ==
  [l EXCEPT !.interestAccrued = @ - i, !.principal = @ - (i + p)]
WithRepayment(l, i, p) ==
  [l EXCEPT !.interestAccrued = @ - i, !.principal = @ - p]

(* Faulty variant: the clock moves, the interest is lost. *)
AccruedForgetfully(b) ==
  IF loans[b].principal = 0 THEN loans[b] ELSE WithInterest(loans[b], 0)

(* loans[b] as _accrue leaves it *)
Accrued(b) ==
  IF loans[b].principal = 0 \/ loans[b].lastAccrualAt = now THEN loans[b]
  ELSE WithInterest(loans[b], PendingInterest(loans[b], scores[b].aprBps, now))

Owed(l) == l.principal + l.interestAccrued

(* Faulty variant: interest not yet accrued does not count against the line. *)
AvailableUnaccrued(b) ==
  IF scores[b].maxLine > Owed(loans[b]) THEN scores[b].maxLine - Owed(loans[b]) ELSE 0

(* What borrow lets b draw, once accrued. *)
Available(b) ==
  LET owed == Owed(Accrued(b)) IN
  IF scores[b].maxLine > owed THEN scores[b].maxLine - owed ELSE 0

(* The interest in a payment of n; the rest is principal. Faulty variant:  *)
(* the principal first.                                                    *)
InterestLast(l, n) == n - Least(n, l.principal)
InterestPart(l, n) == Least(n, l.interestAccrued)

OutstandingDebt(b) == Owed(loans[b]) + PendingInterest(loans[b], scores[b].aprBps, now)

(* Faulty variant: a view that shows the line without the pending interest. *)
AvailableCreditUnaccrued(b) ==
  IF scores[b].expiresAt <= now \/ ~IsFullyVerified(b) \/ scores[b].maxLine < Owed(loans[b])
  THEN 0 ELSE scores[b].maxLine - Owed(loans[b])
AvailableCredit(b) ==
  IF scores[b].expiresAt <= now \/ ~IsFullyVerified(b) \/ scores[b].maxLine < OutstandingDebt(b)
  THEN 0 ELSE scores[b].maxLine - OutstandingDebt(b)

---------------------------------------------------------------------------
(* The state the deployment script leaves. *)
LineInit ==
  /\ EmptyRegistry
  /\ attestors = Attestor
  /\ balance = [a \in Account |-> 0]
  /\ allowance = [a \in Account |-> [s \in Spender |-> 0]]
  /\ totalSupply = 0
  /\ tokenPaused = FALSE
  /\ tokenRole = [r \in TokenRole |->
                    IF r \in {"MINTER", "BURNER"} THEN {Line} ELSE {TokenAdmin}]
  /\ scores = [b \in Borrower |-> NoScore]
  /\ loans = [b \in Borrower |-> NoLoan]
  /\ consumedScoreNonces = [s \in Scorer |-> {}]
  /\ treasury = DeployTreasury
  /\ originationFeeBps = DEFAULT_FEE_BPS
  /\ linePaused = FALSE
  /\ lineRole = [r \in LineRole |-> IF r = "SCORER" THEN Scorer ELSE {LineAdmin}]

SetTreasury(c, t) ==
  /\ c \in lineRole["ADMIN"]
  /\ treasury' = t
  /\ UNCHANGED <<tokenVars, registryVars, scores, loans, consumedScoreNonces,
                 originationFeeBps, linePaused, lineRole>>

SetOriginationFeeBps(c, f) ==
  /\ c \in lineRole["ADMIN"]
  /\ f <= MAX_FEE_BPS
  /\ originationFeeBps' = f
  /\ UNCHANGED <<tokenVars, registryVars, scores, loans, consumedScoreNonces,
                 treasury, linePaused, lineRole>>

Pause(c) ==
  /\ c \in lineRole["PAUSER"]
  /\ ~linePaused
  /\ linePaused' = TRUE
  /\ UNCHANGED <<tokenVars, registryVars, scores, loans, consumedScoreNonces,
                 treasury, originationFeeBps, lineRole>>

Unpause(c) ==
  /\ c \in lineRole["PAUSER"]
  /\ linePaused
  /\ linePaused' = FALSE
  /\ UNCHANGED <<tokenVars, registryVars, scores, loans, consumedScoreNonces,
                 treasury, originationFeeBps, lineRole>>

(* AccessControl: DEFAULT_ADMIN_ROLE, which the deployer keeps, grants and *)
(* revokes every role at will.                                             *)
GrantLineRole(r, c) ==
  /\ lineRole' = [lineRole EXCEPT ![r] = @ \union {c}]
  /\ UNCHANGED <<tokenVars, registryVars, scores, loans, consumedScoreNonces,
                 treasury, originationFeeBps, linePaused>>

RevokeLineRole(r, c) ==
  /\ lineRole' = [lineRole EXCEPT ![r] = @ \ {c}]
  /\ UNCHANGED <<tokenVars, registryVars, scores, loans, consumedScoreNonces,
                 treasury, originationFeeBps, linePaused>>

(* Each of the three borrower's operations has its guard apart, for what   *)
(* asks whether it would revert.                                           *)
CanApplyScore(sc) ==
  /\ sc.tier \in CreditTier
  /\ sc.aprBps <= MAX_APR_BPS
  /\ sc.issuedAt <= now
  /\ sc.expiresAt > now
  /\ sc.scorer \in lineRole["SCORER"]
  /\ sc.nonce \notin consumedScoreNonces[sc.scorer]

ApplyScore(sc) ==
  /\ CanApplyScore(sc)
  /\ consumedScoreNonces' = [consumedScoreNonces EXCEPT ![sc.scorer] = @ \union {sc.nonce}]
  /\ scores' = [scores EXCEPT ![sc.borrower] =
       [tier |-> sc.tier, maxLine |-> sc.maxLine, aprBps |-> sc.aprBps,
        issuedAt |-> sc.issuedAt, expiresAt |-> sc.expiresAt]]
  /\ UNCHANGED <<tokenVars, registryVars, loans, treasury, originationFeeBps, linePaused, lineRole>>

CanBorrow(b, amount, duration) ==
  /\ ~linePaused
  /\ amount # 0
  /\ duration \in MIN_DURATION .. MAX_DURATION
  /\ IsFullyVerified(b)
  /\ scores[b].expiresAt > now
  /\ amount <= Available(b)
  /\ Line \in tokenRole["MINTER"]
  /\ ~tokenPaused
  /\ amount - OriginationFee(amount) # 0   \* HKDm.mint reverts on a zero amount
  /\ totalSupply + amount <= MaxUint

(* The draw, and the two mints it makes. *)
Borrow(b, amount, duration) ==
  LET fee == OriginationFee(amount) IN
  /\ CanBorrow(b, amount, duration)
  /\ loans' = [loans EXCEPT ![b] = WithDraw(Accrued(b), amount, now + duration)]
  /\ balance' = Minted(Minted(balance, b, amount - fee), treasury, fee)
  /\ totalSupply' = totalSupply + amount
  /\ UNCHANGED <<allowance, tokenPaused, tokenRole, registryVars, scores, consumedScoreNonces,
                 treasury, originationFeeBps, linePaused, lineRole>>

(* What a payment of amount, at most the debt, takes off each part of it.  *)
AppliedInterest(b, amount) == InterestPart(Accrued(b), Least(amount, Owed(Accrued(b))))
AppliedPrincipal(b, amount) == Least(amount, Owed(Accrued(b))) - AppliedInterest(b, amount)

CanTakeRepayment(b, amount) ==
  LET interest == AppliedInterest(b, amount)
      principal == AppliedPrincipal(b, amount)
  IN
  /\ Owed(Accrued(b)) # 0
  /\ CanSpend(allowance, b, Line, interest) /\ balance[b] >= interest
  /\ principal > 0 => Line \in tokenRole["BURNER"]
  /\ CanSpend(Spent(allowance, b, Line, interest), b, Line, principal)
  /\ Moved(balance, b, treasury, interest)[b] >= principal
  /\ ~tokenPaused

(* What both repayment paths do: interest first, moved to the treasury,    *)
(* then principal, burnt; each leg spends the approval the borrower gave.  *)
TakeRepayment(b, amount) ==
  LET interest == AppliedInterest(b, amount)
      principal == AppliedPrincipal(b, amount)
  IN
  /\ CanTakeRepayment(b, amount)
  /\ allowance' = Spent(Spent(allowance, b, Line, interest), b, Line, principal)
  /\ balance' = Burned(Moved(balance, b, treasury, interest), b, principal)
  /\ totalSupply' = totalSupply - principal
  /\ loans' = [loans EXCEPT ![b] = WithRepayment(Accrued(b), interest, principal)]

OnSaleReceived(c, b, amount) ==
  /\ ~linePaused
  /\ c \in lineRole["SETTLEMENT"]
  /\ amount # 0
  /\ TakeRepayment(b, amount)
  /\ UNCHANGED <<tokenPaused, tokenRole, registryVars, scores, consumedScoreNonces,
                 treasury, originationFeeBps, linePaused, lineRole>>

CanRepay(b, amount) == ~linePaused /\ amount # 0 /\ CanTakeRepayment(b, amount)

Repay(b, amount) ==
  /\ CanRepay(b, amount)
  /\ TakeRepayment(b, amount)
  /\ UNCHANGED <<tokenPaused, tokenRole, registryVars, scores, consumedScoreNonces,
                 treasury, originationFeeBps, linePaused, lineRole>>

---------------------------------------------------------------------------
(* Holders moving their tokens, and borrowers approving the line. *)
HolderNext ==
  /\ \/ \E from, to \in Account, n \in Amount : Transfer(from, to, n)
     \/ \E b \in Borrower, n \in Amount \union {MaxUint} : Approve(b, Line, n)
     \/ TokenPauserNext
  /\ UNCHANGED <<registryVars, lineVars>>

AttestationNext == RegistryNext /\ UNCHANGED <<tokenVars, lineVars>>

ClockNext == Tick /\ UNCHANGED <<tokenVars, lineVars>>

AdminNext ==
  \/ \E c \in Caller, t \in Treasury : SetTreasury(c, t)
  \/ \E c \in Caller, f \in FeeArg : SetOriginationFeeBps(c, f)
  \/ \E c \in Caller : Pause(c) \/ Unpause(c)
  \/ \E r \in LineRole, c \in Caller : GrantLineRole(r, c) \/ RevokeLineRole(r, c)

DebtNext ==
  \/ \E sc \in SignedScore : ApplyScore(sc)
  \/ \E b \in Borrower, n \in Amount, d \in DurationArg : Borrow(b, n, d)
  \/ \E c \in Caller, b \in Borrower, n \in Amount : OnSaleReceived(c, b, n)
  \/ \E b \in Borrower, n \in Amount : Repay(b, n)

Next == DebtNext \/ HolderNext \/ AttestationNext \/ AdminNext \/ ClockNext

Spec == LineInit /\ [][Next]_vars

---------------------------------------------------------------------------
(* A loan whose principal is gone owes no interest either: repayments pay  *)
(* the interest first, so a borrower can never be left with interest that  *)
(* no longer grows and that borrow would add to a new draw.                *)
InterestBeforePrincipal ==
  \A b \in Borrower : loans[b].principal = 0 => loans[b].interestAccrued = 0

(* Interest of an open loan was last accrued at a time already past, never *)
(* at time 0 (which _pendingInterest takes for "no loan" and charges       *)
(* nothing), and its maturity is at most MAX_DURATION away.                *)
OpenLoanClock ==
  \A b \in Borrower :
    /\ loans[b].principal > 0 => loans[b].lastAccrualAt \in 1 .. now
    /\ loans[b].dueAt <= now + MAX_DURATION
    /\ loans[b].principal > 0 => loans[b].dueAt > MIN_DURATION

(* The inductive invariant: interest stays a natural number only because   *)
(* the accrual clock never runs ahead of the block, and the clock and the  *)
(* interest of a closed loan are what a new draw starts from.              *)
LineInv == LineTypeOK /\ InterestBeforePrincipal /\ OpenLoanClock

(* The origination fee never eats a whole draw, whatever the admin set: a  *)
(* zero net amount would make HKDm.mint revert every borrow.               *)
FeeLeavesNet == \A n \in Amount \ {0} : OriginationFee(n) < n

(* Principal grows only for a verified borrower with a live score on an    *)
(* unpaused line, and leaves the whole debt, interest included, within     *)
(* the line that score grants.                                             *)
DrawIsAuthorised ==
  [][\A b \in Borrower :
       loans'[b].principal > loans[b].principal =>
         /\ IsFullyVerified(b) /\ scores[b].expiresAt > now
         /\ ~linePaused /\ ~tokenPaused
         /\ OutstandingDebt(b)' <= scores[b].maxLine]_vars

(* Debt falls, as long as the score stands, only by what the borrower paid *)
(* in the same step, with neither contract paused: it had approved that    *)
(* much, and every token left its balance for the treasury or was burnt.   *)
(* Time alone never lowers a debt, nor does touching the loan.             *)
DebtFallsByPayment ==
  [][\A b \in Borrower :
       LET paid == OutstandingDebt(b) - OutstandingDebt(b)' IN
       scores'[b] = scores[b] /\ paid > 0 =>
         /\ ~linePaused /\ ~tokenPaused
         /\ allowance[b][Line] >= paid \/ allowance[b][Line] = MaxUint
         /\ b # treasury =>
              /\ balance[b] - balance'[b] = paid
              /\ (balance'[treasury] - balance[treasury]) + (totalSupply - totalSupply') = paid]_vars

(* Either pause, of the line or of the token, freezes every loan: a draw   *)
(* or repayment that reached the loan reverts with the token call.         *)
PauseFreezesLoans == [][linePaused \/ tokenPaused => UNCHANGED loans]_vars

(* HKDm exists only as principal somebody owes: each step changes the      *)
(* supply by exactly what it adds to or takes off the principal of one     *)
(* borrower, never more than that borrower owes (borrow's two mints, the   *)
(* burn of both repayments; interest and transfers change neither).        *)
Issuance == INSTANCE BackedIssuance
              WITH Party <- Borrower,
                   lent <- [b \in Borrower |-> loans[b].principal],
                   issued <- totalSupply
ImplementsBackedIssuance == Issuance!IssuanceSpec

(* CreditLine.sol:32 has interest "simple, computed linearly on elapsed    *)
(* seconds since draw": a debt moves as seconds elapse, by a draw or by a  *)
(* payment, and by nothing else. applyScore does not accrue, so the new    *)
(* APR also reprices the seconds already elapsed.                          *)
ElapsedInterestIsSettled ==
  [][\A b \in Borrower :
       now' = now /\ loans'[b] = loans[b] => OutstandingDebt(b)' = OutstandingDebt(b)]_vars
===========================================================================
