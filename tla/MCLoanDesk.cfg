SPECIFICATION DeskSpec
CONSTANTS
  alice = alice
  safe = safe
  line = line
  admin = admin
  scorer = scorer
  attestor = attestor
  n1 = n1
  Horizon = 2
  Merchant = alice
  NoOffer = NoOffer
  NoTx = NoTx
  p1 = p1
  Prompt = {p1}
  MaxLead = 1
  MaxUnmined = 2
  TIER_POLICY <- MCTierPolicy
  LINE_ABSOLUTE_CAP = 5
  MIN_REVENUE = 1
  UNITS_PER_CENT = 1
  SCORE_VALIDITY = 2
  ISSUED_CLOCK_SKEW = 1
  Form <- MCForm
  Fixture <- MCFixture
  LlmOutput <- MCLlmOutput
  Account = {alice, safe}
  Spender = {line}
  TokenAdmin = admin
  Amount = {2}
  MaxUint = 6
  Subject = {alice}
  Attestor = {attestor}
  Nonce = {alice}
  Timestamp <- MCTimestamp
  SignedAttestation <- MCSignedAttestation
  NoAttestor = NoAttestor
  Borrower = {alice}
  Line = line
  LineAdmin = admin
  Caller = {admin, scorer}
  Treasury = {safe}
  DeployTreasury = safe
  Scorer = {scorer}
  ScoreNonce = {n1}
  SignedScore = {}
  DurationArg = {1}
  FeeArg = {2}
  MAX_APR_BPS = 2
  MIN_DURATION = 1
  MAX_DURATION = 3
  SECONDS_PER_YEAR = 1
  BPS = 4
  MAX_FEE_BPS = 2
  DEFAULT_FEE_BPS = 1
CONSTRAINT NowBound
INVARIANTS DeskTypeOK ScoreFollowsPolicy
PROPERTIES ScoreIsAccepted RefusedDrawWasUnavailable ApprovedRepayIsAllowed
