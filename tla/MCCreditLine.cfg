SPECIFICATION Spec
CONSTANTS
  alice = alice
  bob = bob
  safe = safe
  line = line
  admin = admin
  scorer = scorer
  attestor = attestor
  n1 = n1
  n2 = n2
  Horizon = 3
  Account = {alice, safe}
  Spender = {line}
  TokenAdmin = admin
  Amount = {1, 2}
  MaxUint = 4
  Subject = {alice}
  Attestor = {attestor}
  Nonce = {alice}
  Timestamp <- MCTimestamp
  SignedAttestation <- MCSignedAttestation
  NoAttestor = NoAttestor
  Borrower = {alice}
  Line = line
  LineAdmin = admin
  Caller = {admin, scorer}
  Treasury = {safe, alice}
  DeployTreasury = safe
  Scorer = {scorer}
  ScoreNonce = {n1, n2}
  SignedScore <- MCSignedScore
  DurationArg = {1}
  FeeArg = {2, 4}
  MAX_APR_BPS = 2
  MIN_DURATION = 1
  MAX_DURATION = 3
  SECONDS_PER_YEAR = 1
  BPS = 4
  MAX_FEE_BPS = 2
  DEFAULT_FEE_BPS = 1
CONSTRAINT AdminBound
CHECK_DEADLOCK FALSE
INVARIANTS LineTypeOK InterestBeforePrincipal OpenLoanClock
PROPERTIES DrawIsAuthorised DebtFallsByPayment
