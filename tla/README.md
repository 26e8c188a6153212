# ZephyrPay in TLA+

ZephyrPay lends a Hong Kong dollar token to merchants against an off-chain
credit score and takes repayments out of their sales. This directory models
its parts, checks the models with TLC on small instances, and proves every
safety property the runs check with TLAPS for every size of instance.
`PROJECT.json` maps each definition to the source lines it stands for, and lists
the runs, theorems, hazards and findings.

## 1. The system

| Part | State it keeps | Operations | Hard because |
|---|---|---|---|
| HKDm (`contracts/src/HKDm.sol`) | balances, allowances, supply, pause, roles | transfer, approve, mint, burnFrom, pause, roles | burns spend approvals; roles change under way |
| PoHRegistry (`contracts/src/PoHRegistry.sol`) | records per subject and kind, consumed nonces, attestors | recordAttestation, revoke, roles, expiry by time | replay, expiry, two kinds in one bundle |
| CreditLine (`contracts/src/CreditLine.sol`) | scores, loans, score nonces, fee, treasury, pause, roles | applyScore, borrow, repay, onSaleReceived, admin | interest over time, two-leg repayments, mints and burns in another contract |
| Deployment (`contracts/script/Deploy.s.sol`, `scripts/deploy-testnet.sh`) | the deployer's nonce, mined steps, the JSON file, `.env.local` | simulate, broadcast, check roles, stamp the addresses | runs that stop anywhere, transactions mined during a later run |
| Relayer (`relayer/src`) | queue, seen set, per-merchant counters, all in memory | sale webhook, worker loop, shutdown | retries, late receipts, crashes, a moving debt |
| HP2 path (`app/src`: payments/hp2/create, webhooks/hp2, hp2/store, onchain) | stored carts, processed request ids, in memory | create link, webhook, settle | concurrent and repeated webhook calls, expiry, restarts |
| HP2 client and sandbox gateway (`app/src`: hp2/client, signer, canonical, sandbox) | the gateway's carts | sign and check a create request, pay, call the webhook, answer status queries | two sides that must build the same bytes; calls repeated |
| Payment request panel (`PaymentRequestPanel.tsx`, payments/hp2/status) | the link shown, its poll | create, poll, cancel, show | late, lost and reordered answers |
| Proof of humanity (`app/src`: zk.ts, api/zk, api/poh/attest, VerifyPanel) | group, used nullifiers, in memory; the browser's identity | enrol, fetch group, prove, attest, record | awaits between check and use, stale roots, lost answers |
| Rate limiter (`app/src/lib/server/rateLimit.ts`) | windows in memory, counters in Upstash | rateLimit | two stores, fallback between them |
| Scoring (`app/src`: scoring.ts, revenue.ts, merchant.ts, api/score) | none | expand a form, extract features, price a profile, sign a score | an untrusted LLM output; two clocks; two roundings |
| Score panel (`ScorePanel.tsx`, `CustomBusinessForm.tsx`) | form, mode, the status of a scoring | edit, switch modes, score, submit | scorings that overlap over one status |
| Merchant page (`app/src`: app/page.tsx, useZephyrPay, BorrowPanel) | a snapshot of the chain, panel statuses | draw, approve, repay | it acts on stale data, transactions in flight |
| Statistics, history, landing page, configuration, end-to-end script | | | see section 8 |

How they interact. The attest and score services sign EIP-712 messages that the
merchant's wallet submits to PoHRegistry and CreditLine. CreditLine asks the
registry whether a borrower is verified, mints HKDm for a draw and burns it for
a repayment. The relayer and the HP2 webhook both call `onSaleReceived` with
the same relayer role. The page polls the chain and sends the merchant's own
draws, approvals and repayments; the payment panel polls the gateway about the
link it shows. All of them find the contracts by the addresses the deployment
script stamped into `.env.local`.

What makes each part correct, in a sentence: tokens exist only as principal
somebody owes and leave a holder only with consent; verification and scores
count once and end on time; a debt follows the clock and falls only by payment;
a sale or payment is taken at most once unless the sender lost track of it;
nothing accepted is stuck; what a panel shows is what happened to the thing it
shows; what the page offers is what the contract accepts, unless the chain
moved in between; and the app is pointed only at whole deployments.

## 2. Modules

| Module | Models | Notes |
|---|---|---|
| `HKDm` | the token | one action per function; a failed guard is a revert; `Held` is the sum of all balances |
| `PoHRegistry` | the registry and the block timestamp `now` | an attestation is the record its signature pins; `SignedAttestation` are those ever signed |
| `PoHRevocation` | the registry with the history of each subject's bundle | for the run `bundle_revoke` |
| `CreditLine` | the line, with HKDm and PoHRegistry under it | one action per transaction, all calls included; the guards of a transaction are an operator (`CanBorrow`, `CanRepay`, `CanApplyScore`), so that the page's can be compared with them; `LineInit` is what the deployment leaves |
| `BackedIssuance` | abstract: principal and supply move together, one party at a time | implemented by `CreditLine` |
| `Deployment` | `Deploy.s.sol` and `deploy-testnet.sh`, with the contracts they create | an attempt is known by the nonce it was simulated at; each of its transactions is mined at its own nonce or never |
| `SaleQueue`, `Relayer` | `queue.ts`; `webhooks.ts`, `worker.ts`, `server.ts` | one action per stretch between two awaits |
| `SettlementChain` | the chain as relayer and app see it: a debt per merchant, a mempool, receipts | shared by `Relayer` and `HP2Settlement` |
| `HP2Settlement` | payments, gateway calls, webhook handlers, settlement | several handlers interleave at their awaits |
| `HP2Wire` | the signed create request and its checks: amounts, canonical form, hash, HMAC, age | operators only; a hash is what it hashes |
| `Checkout` | the payment panel, the create and status routes, composed with `HP2Settlement` and `HP2Wire` | a tick is one poll in flight |
| `RateLimit`, `ZkAttest` | `rateLimit.ts`; enrolment, proof, attest handler and VerifyPanel | a root is the member sequence it hashes; a nullifier the pair of identity and wallet, kept as the text the page writes for it (`Decimal`) |
| `Scoring`, `BusinessForm` | pricing; the form's schema, presets and preview, its expansion to windows, the features | operators only; a typed revenue may be finer than a cent (`PARTS`) |
| `ScorePanel` | the score panel with the form inside it | a job is one scoring, from the click to the receipt |
| `LoanDesk` | the merchant page composed with `Scoring` and `CreditLine` | a mined transaction is an action of `CreditLine`, or reverts when its guard (`Accepts`) fails; see the conventions for what it leaves out |
| `*_proofs` | theorems and lemmas | one per proved component: `CreditLine_proofs` has the token and the registry too, and `Deployment_proofs` and `LoanDesk_proofs` build on it; `Relayer_proofs` and `Checkout_proofs` share the lemmas of `SettlementChain_proofs`; `ZkAttest_proofs` has the limiter, `ScorePanel_proofs` the form |
| `MC*` | instances for TLC | only constants and bounds |

Definitions marked "Faulty variant" are mutated forms of the definition they
precede; no specification uses them. They show that the properties can fail.

### Conventions

- Solidity 0.8 arithmetic reverts on overflow; the one overflow kept is the
  supply reaching `MaxUint`. `MaxUint` is also the infinite allowance.
- Fees and rates are scaled: `BPS = 4`, `SECONDS_PER_YEAR = 1`, so that a small
  principal earns whole units in one or two ticks and roundings occur.
- `GrantLineRole` and `RevokeLineRole` have no guard: the deployer keeps
  `DEFAULT_ADMIN_ROLE`. The token's roles stay as deployed in `CreditLine`;
  the run `deploy` puts the token and the registry to use by themselves, roles
  granted and revoked at will.
- An address in `Deployment` is the nonce of the deployer's transaction that
  created the contract, which is all it depends on beside the deployer.
- Off-chain waits are kept as remaining time, not as clock values.
  `enqueuedAt` is the order of acceptance. `outcome`, `unsure`, `taken`,
  `answer` and `signed` record history for the properties and guard nothing.
- A link is created in steps: the gateway stores the cart, the route remembers
  it, the panel shows it. The request may be lost between any two of them; a
  customer pays only a link that was shown.
- The gateway of `HP2Settlement` does what the sandbox does (including paying a
  cart twice) and retries a call that was not answered 2xx.
- In `ZkAttest` a click uses any identity; that covers a browser that keeps,
  shares between tabs, or loses what localStorage holds. The limit on
  enrolments may refuse at any time.
- `HP2Settlement`'s `Restart` loses the cart store and the marks of processed
  events together. In development the store is kept on `globalThis` and the
  marks in a variable of their module, so that reloading the module alone would
  lose only the marks; a process that is deployed does not do that.
- A nullifier arrives as text, and the server keeps and compares it as it came.
  Requests in `ZkAttest` are those the page sends, which writes each nullifier
  in one way (`DecimalAssumption`); its properties are claims about those
  requests only.
- In `LoanDesk` a panel hears of a receipt with the block, or gives up waiting
  before. That does not close a prompt of the wallet, which stays until the user
  confirms or rejects it. "done" and "error" are one with "idle", in
  `ScorePanel` too. The fields of the snapshot are read together. What the LLM
  says is any of `LlmOutput`.
- Of the actions of `CreditLine`, `LoanDesk` takes the merchant's transactions,
  the routed sales, attestation and revocation, and time. It leaves out pausing,
  roles, fee and treasury (`AdminNext`), and the merchant's own transfers and
  approvals, by hand or by editing a cap in the wallet (`HolderNext`): after one
  of these a refusal has a reason the page could not see.
- `BusinessForm` computes exactly where the code uses floating point. Rates are
  whole hundredths of a percent, growth a whole percent.

## 3. Runs

All runs finish in under five minutes with two workers.

| Run | Instance | Shows |
|---|---|---|
| `deploy` | two runs of the deployment script and one other transaction of the deployer; after the first run the token or the registry in use, one spender who burns, `MaxUint` 3, roles coming and going | the app is pointed only at whole deployments; they leave the state `CreditLine` starts from; a burn spends an approval; an attestation counts once and ends by time or revocation |
| `line` | one borrower, three block times, two valid scores and one over the APR cap, pauses, fees, treasury, revocation, roles | type and clock of every loan, interest before principal, draws within the line, debt falls only by payment |
| `line_two` | two borrowers who pass tokens to each other | implements `BackedIssuance`, so the supply is the principal outstanding; all of it is in somebody's balance |
| `relayer` | two sales of one merchant, backlog 1, two attempts, one restart | what is taken, counted and remembered; every accepted sale ends |
| `checkout` | two carts, one of them worth nothing, one payment, one poll in flight, two webhook calls, one handler, one restart, expiring maps | the panel says paid of the link it shows, and does in the end; the webhook knows every cart that can be paid unless it lost it; a payment is taken at most once, only with consent, and "routed" means taken |
| `attest` | two tabs, two identities, one wallet, one restart, a limit of one call in a window of two | of requests as the page writes them: one signature per nullifier, only for members; a refused wallet gets through again |
| `desk` | one merchant, a policy of two tiers, proposals for the second, two profiles, server clock ahead by 0 or 1, one open prompt, two unmined transactions, attestation and its revocation | a score that arrives in time is accepted; draws and repayments the page offers are refused only for what changed |
| `form` | two industries, one of them a marketplace, a seeded merchant, revenues typed to a tenth of a cent, two scorings, a least month of one dollar | what the browser accepts the server can expand; what it previews is what is scored; the features are those declared; the panel gives its buttons back |

Four runs reproduce disagreements between a comment and the code (section 7):
`bundle_revoke`, `reprice`, `relayer_twice`, `hp2_retry`.

**Why the bounds are enough.** `line` needs a draw, a tick, and a draw or
repayment in the middle of a loan: three times, amounts 1 and 2 against a line
of 4 give partial repayments, interest below, at and above a payment, and
refused draws. The relayer's cases need a second sale at the cap, a retry, and a
loss of memory: two sales, two attempts, one restart. `deploy` needs one attempt
whose leftovers are mined while another runs, and a nonce taken by something
else in between. The contracts share no variable, so the instance puts one of
them to use at a time, and only in the state the first run of the script ends in
(the constraints `InUse` and `RolesBounded`). `checkout` needs an old link with
a poll in flight when a new one is made, a call repeated while the first is
being settled, and a map that forgets: two carts, one tick, two calls, the cart
store ageing out before the mark (`STORE_TTL <= DEDUP_TTL`, the code's 4 and 48
hours; `EventTakenOnce` depends on that order). Several payments and several
handlers at once, several burners in `deploy` and several prompts in `desk` are
covered by the proofs (section 5). `form` needs values on both sides of every
limit of the schema, half cents and half dollars, and the floor on a month.
`attest` needs two requests with one nullifier and a root that changed: two
tabs, two identities. `desk` needs one interest period, one sale in between and
two transactions in the mempool. The bounds that only cut the state space
(`MaxRestarts`, `MaxDeliveries`, `MaxTicks`, `MaxAttempts`, `MaxOther`,
`MaxUnmined`, `Prompt`, `AdminBound`, `DebtBound`, `NowBound`) are named where
they are declared.

`CHECK_DEADLOCK FALSE` stands where the system may stop: block times run out in
`deploy`, `line`, `line_two` and `reprice`, and the gateway gives up in the HP2
runs.

## 4. Fairness

- `Relayer`: weak fairness of the worker and of time. The event loop runs, each
  await ends by an answer or by the client's time limit. Nothing is promised of
  webhooks, mining or restarts. `AcceptedSaleEnds` needs exactly this.
- `Checkout` (`PollFairness`): the interval keeps sending polls and every poll
  is heard or lost in the end (weak); one that is sent again and again is
  answered, and a final answer heard, now and then (strong). Nothing is promised
  of payments, webhooks, settlement or restarts. `PaidLinkIsShown` needs the
  strong half: weak fairness lets every poll be lost.
- `ScorePanel` (`PanelFairness`): weak fairness of each job's request, which is
  answered, fails or times out, and of its receipt, which is heard or given up
  on. The user may leave a wallet prompt open for ever.
- `ZkAttest`: weak fairness of time. Requests may come or not;
  `RefusedKeyRecovers` must hold although refused calls keep coming.
- The contracts, the deployment, `HP2Settlement` and `LoanDesk` have none.

## 5. Proofs

TLAPS proves the following for every value of the constants, from the named
assumptions beside them. They say what the code or its platform fixes:

- `AccountAssumption`: there are finitely many accounts (an address has 160
  bits). Borrowers are accounts, so they are finitely many too.
- `AmountAssumption`, `TimestampAssumption`, `ParameterAssumption`: amounts fit
  in a `uint256`, timestamps are positive, `BPS` and the year are not zero, the
  fee cap is below `BPS`.
- `ScoringAssumption`: each tier's APR band is not empty, the least month is not
  zero, the back-dating is shorter than a score's life.
- `DeskAssumption`: the server's clock is ahead of the block's by at most the
  back-dating (`score/route.ts:75-80` gives that as its purpose); the policy's
  APRs are below the contract's cap and its largest line fits in a `uint256`, as
  the literals of `scoring.ts` do; its tiers are those the contract takes, 1 to
  5 (`scoring.ts:199`); the term the page asks for is within the contract's
  bounds; block time is later than the back-dating is long.
- `DecimalAssumption`: the page writes each nullifier in one way.
- `PanelAssumption`: the fixtures list one window per month, in any order.

**The token** (`CreditLine_proofs`). `TokenTypeOK`, `PauseFreezesBalances`,
`BurnIsApproved` and `SupplyIsHeld`. The type invariant is inductive because
every burn and transfer checks the balance and the allowance it subtracts from.
`SupplyIsHeld`, that all HKDm is in somebody's balance, is a sum over a set of
any size. Induction is done by a minimal counterexample instead of an induction
scheme: the property is given as a *set* of subsets, and a smallest subset
outside it is led to a contradiction (`SubsetInduction`, and `NaturalsInSet` for
numbers). From it follow that the fold behind `Held` has a value, that
a change of one balance changes the sum by as much, and that a transfer changes
nothing. No balance exceeds the supply (`Bounded`), which is what OpenZeppelin's
`unchecked` additions rely on.

**The registry** (`CreditLine_proofs`). `RegistryTypeOK`, `RecordIsAttested`,
`RecordSpendsFreshNonce`, `VerificationEndsByTimeOrRevoke`. `RecordIsAttested`
is strengthened with the type; a revocation deletes the whole record, and
nonces are never given back.

**The line** (`CreditLine_proofs`). The inductive invariant is `LineInv`: types,
*interest before principal* and *the clock of open loans*. None of the three is
inductive alone. Interest is a natural number only while the accrual clock is
not ahead of the block; a closed loan has no interest only because a repayment
takes interest first; and the clock of a new draw relies on both. From `LineInv`
follow the invariants the runs check, the action properties `PauseFreezesLoans`,
`FeeLeavesNet`, `DrawIsAuthorised`, `DebtFallsByPayment` (one case per
transaction, with lemmas on what `_accrue` and a repayment do to a debt), and
the refinement `ImplementsBackedIssuance`: initial states map to initial states,
a draw or repayment to one step of the abstract line, all else to a stutter.
What the refinement promises step by step is also proved in sum: the supply is
the principal outstanding of all borrowers (`SupplyIsLent`) and is what all
holders have. `TouchCostsAUnit` and `TouchesCostUnits` say what rounding loses:
any number of calls of `_accrue`, at any times, cost the lender at most one base
unit of interest each, and never earn more.

**The deployment** (`Deployment_proofs`). `DeployTypeOK`,
`EnvNamesWiredDeployment` and `WiredIsLineInit`, for any number of attempts that
stop anywhere. `DeployInv` says that past the broadcast the attempt the JSON
describes is whole, and what this run has stamped are its contracts; what
carries it is that `forge --broadcast` exits with 0 only after every receipt.
`WireInv` says which roles the grants mined so far have given: a transaction is
mined at its own nonce, so a grant comes after the creation it needs or meets no
contract. `MinedSoFar` has the same reason: it bounds what is mined by the
nonce. By `WiredIsLineInit` what is proved of `CreditLine` is about what the
script leaves.

**The relayer** (`Relayer_proofs`). `RelayerTypeOK`, `PerMerchantIsBacklog`,
`SeenIsAccepted`, `RoutedIsTaken` and `SaleTakenOncePerLoss`, for any number of
sales, merchants, attempts and restarts. The first two go together: the counter
is a number only because it is the size of the backlog, counted by the positions
of the queue. `SeenIsAccepted` needs that a sale is held in one place at a time.
`SaleTakenOncePerLoss` is a book of credits: what the chain took of a sale is
at most its amount times the credits spent, and a sale has one credit for
the current attempt and one for every attempt whose outcome the worker lost,
less one for each of its transactions still in the mempool.

**The HP2 path and the checkout** (`Checkout_proofs`). `HP2TypeOK`,
`EventTakenOnce`, `OnlyConsentedPaymentsSettle` and `RoutedPaymentIsTaken`, for
any number of handlers, carts, payments, calls and restarts. `SettleInv` says
that whatever a handler holds was consented to, that a receipt is of the event
its waiting handler settles, and that an event is in one place at a time: a
handler, the mempool, or taken. The last holds because the app forgets an event
no sooner than its cart, which is where `STORE_TTL <= DEDUP_TTL` is used. By
`CheckoutImplementsHP2` all of it holds of the whole checkout, and beside it
`CheckoutTypeOK`, `CompleteIsOfThisLink` and `UnknownWasRemembered`:
`CheckoutInv` says that while a link is being made nothing is polled, that a
poll that still counts is of the link shown, that a final status was a
payment's, and that what was paid was shown and what was shown was remembered.

**Attestation** (`ZkAttest_proofs`). `AttestTypeOK`, `SignedOncePerProcess` and
`AttestedIsMember`, for any number of tabs, identities, wallets and restarts.
The second, of requests as the page writes them, needs that the text of whatever
was signed is in the set of used ones; the third that a proof on its way names a
member of the group it was built for, and that the group only grows until a
restart drops the requests with it. The types include the limiter's, shared
counts with failing calls and all: counts are kept up to the limit, past which
they are not told apart, and no window is extended.

**The page** (`LoanDesk_proofs`). `DeskTypeOK`, `ScoreFollowsPolicy`,
`ScoreIsAccepted`, `RefusedDrawWasUnavailable` and `ApprovedRepayIsAllowed`, for
any policy, LLM output, amounts, terms and number of prompts and of unmined
transactions. The inductive invariant is `DeskInv`. Of an offer in the panel, a
request at the wallet, an old one included, and a transaction in the mempool
alike it says what will matter when it is mined: a score is of the policy, not
issued in the future, and no other has its nonce (`Current`); an approval is for
`MaxUint`, and what was sent without one had it (`Backed`). That must be known
before the transaction is mined, so `ScoreFollowsPolicy`, which speaks of the
chain, is not inductive without it. The chain's part (`ChainInv`) adds to
`LineInv` that the allowance is none or unlimited, that nobody pauses the line
(`AsDeployed`), and that the supply is what the merchant borrowed, so that the
supply cap is no reason for a refusal.

**The form and the score panel** (`ScorePanel_proofs`). `PanelTypeOK`,
`ValidFormResolves`, `PreviewIsWhatIsScored` and `FeaturesAreDeclared`. The
first two are one inductive invariant. Between preview and score lie three
roundings: the server rounds the typed revenue to cents, and again after undoing
growth, while the preview rounds once, to dollars. Each is within half its unit
(`RoundIs`, `RoundedToHundreds`). Undoing growth multiplies the first one's half
cent by at most four (`AtMostFourfold`), so the two are at most fifty-two cents
apart, and the lift to the least month keeps them so or is said to. For the
features, the windows of a form are shown to be the only sorted order of
themselves, a rate weighted by revenues that cannot be all zero is the rate, and
undoing growth makes an older month no larger, undoing decline none smaller,
whatever the rounding.

Proved and not the property of a run: `TokenTypeOK`, `PauseFreezesBalances`,
`RegistryTypeOK`, `RecordIsAttested`, `FeeLeavesNet`, `PauseFreezesLoans`,
`SupplyIsLent`, `Bounded`, `DeskInv`, `HP2TypeOK` (a part of `CheckoutTypeOK`),
`TouchCostsAUnit`, `TouchesCostUnits`.

Only model-checked: liveness (`AcceptedSaleEnds`, `RefusedKeyRecovers`,
`PaidLinkIsShown`, `ScoringEnds`), which needs fairness and `ENABLED`; they are
out of this prover's reach. And exact arithmetic stands for floating point in
`BusinessForm`, in the proofs as in the runs.

## 6. Reading a property

Each is stated in words above its definition, with the code it is about. The
ones worth knowing first: `DebtFallsByPayment`, `DrawIsAuthorised` and
`ImplementsBackedIssuance` (CreditLine), `EnvNamesWiredDeployment` (Deployment),
`SaleTakenOncePerLoss` (Relayer), `EventTakenOnce` (HP2Settlement),
`CompleteIsOfThisLink` and `PaidLinkIsShown` (Checkout), `SignedOncePerProcess`
(ZkAttest), `RefusedDrawWasUnavailable` and `ScoreIsAccepted` (LoanDesk),
`PreviewIsWhatIsScored` (ScorePanel).

## 7. Disagreements found

Reproduced by a run:

1. `revoke(subject, 3)` after a bundle was recorded emits a revocation and
   leaves both kinds valid (`PoHRegistry.sol:117` against `:25` and `:41`).
2. `applyScore` reprices the seconds already elapsed (`CreditLine.sol:217`
   against `:32`).
3. A receipt that comes late makes the worker take a sale twice
   (`worker.ts:73` against `:25`).
4. The HP2 webhook marks an event before settling it, so the retry a 500 asks
   for does nothing (`webhooks/hp2/route.ts:88` against `:138`).

Seen while reading, not run:

- Contracts. A draw after full repayment keeps the old, later `dueAt`
  (`CreditLine.sol:261` against `:235`). An older valid score may replace a
  newer one (`CreditLine.sol:191`). An unused attestation verifies a revoked
  subject again (`PoHRegistry.sol:115`).
- Deployment. The JSON is written before a transaction is sent
  (`Deploy.s.sol:74`). `deploy-testnet.sh` says it "verifies role wiring
  on-chain" (line 5) and leaves out SETTLEMENT_ROLE; its four checks would also
  pass at the wrong contract, and what protects `.env.local` is forge's exit
  code. A stop between two `update_env` leaves it naming contracts of two
  deployments, each of them whole.
- Relayer. `queue.ts:60` speaks of the oldest due item, `:82` puts a retried one
  last.
- HP2. `onchain.ts:23` speaks of a 503 where `webhooks/hp2/route.ts:117` answers
  200; `create/route.ts:31-34` says the webhook reads the flag from the id, but
  it reads the store; the sandbox pays a cart twice though created with
  `multi_pay: false`, and enforces its two-hour expiry nowhere; its page says
  the webhook responded OK whatever the status; an amount of $0 passes the
  schema and ends as a 500. The panel says "Paid — loan auto-repaid on-chain"
  (`PaymentRequestPanel.tsx:253`) of any successful payment, whatever became of
  the settlement; and it stops polling after a failed payment though the
  checkout page takes another.
- Attestation. The nullifier is spent before the attestation is delivered
  (`zk.ts:102`), so a lost answer costs the wallet its proof until a restart. Of
  root, scope, message and nullifier, only the nullifier is compared as the text
  sent (`:99-102` against `:84`), although the comment above speaks of one use
  per identity and scope. The README states a limit of 3 per day,
  `attest/route.ts:86` has 5.
- Scoring. `revenue.ts:154` calls the oldest month the base, while the newest
  is, so a declining merchant's average exceeds the declared revenue and its
  line may exceed the "60% of monthly rev" of `scoring.ts:36`; `tierLabel` is
  taken from the LLM unchecked against `tier`. `CustomBusinessForm.tsx:92` says
  a change of industry fills fields "only if user hasn't edited them", and
  overwrites them; `:288` says "The AI will see these three months", which are
  rounded to dollars, from a revenue not yet rounded to cents
  (`revenue.ts:147`), and not lifted to the floor.
- Panels. A click on "score" without a wallet client leaves the panel scoring
  for ever (`ScorePanel.tsx:64` against `:137`, "in a few seconds"); switching
  modes lets two scorings overlap, and the card shows the last answered one, not
  the last mined. The panels show a reverted receipt as done. A late receipt
  makes `BorrowPanel.tsx:85` report a failed draw and offer it again.

## 8. Not modelled

Semaphore, EIP-712, HMAC and ECDSA themselves (a signature or proof is what it
pins); encodings, and of the merchant JWT all but the cart hash it carries; the
gateway queries the app never makes; the deviation of revenues and other
features that only reach the LLM's prompt, which are covered by letting the LLM
say anything its schema allows; statistics, history, landing page and other
read-only views; the layout of the pages; the relayer's configuration; the Anvil
script, which drives modelled parts; forge-std. `PROJECT.json` gives each part's
status.

## 9. Plan

Done, in this order: the token, the registry and the line; their proofs; the
relayer; the HP2 path; attestation and limiter; scoring and the page; the
checkout with its panel, client and gateway; the form and the score panel; the
deployment; the proofs of the relayer, of the HP2 path, of the checkout and of
the deployment; supply as a sum, the types of the deployment and of the
attestation service, the page, the form, and what touches of a loan cost.

Left:

1. The liveness properties beyond the small instances: safety halves of them,
   such as that a queued sale always has a step that brings it closer to its
   end.
2. What a touch of a loan and a draw cost together: `TouchesCostUnits` is for
   one principal, a repayment in between starts a new one.
3. That `Relayer` and `HP2Settlement` implement one abstract settlement, as
   `CreditLine` does `BackedIssuance`.

