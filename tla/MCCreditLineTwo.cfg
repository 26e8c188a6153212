SPECIFICATION Spec
CONSTANTS
  alice = alice
  bob = bob
  safe = safe
  line = line
  admin = admin
  scorer = scorer
  attestor = attestor
  n1 = n1
  n2 = n2
  Horizon = 3
  Account = {alice, bob, safe}
  Spender = {line}
  TokenAdmin = admin
  Amount = {2}
  MaxUint = 4
  Subject = {alice, bob}
  Attestor = {attestor}
  Nonce = {alice, bob}
  Timestamp <- MCTimestamp
  SignedAttestation <- MCSignedAttestation
  NoAttestor = NoAttestor
  Borrower = {alice, bob}
  Line = line
  LineAdmin = admin
  Caller = {admin, scorer}
  Treasury = {safe}
  DeployTreasury = safe
  Scorer = {scorer}
  ScoreNonce = {n1, n2}
  SignedScore <- MCSignedScore
  DurationArg = {1}
  FeeArg = {1, 2, 4}
  MAX_APR_BPS = 2
  MIN_DURATION = 1
  MAX_DURATION = 3
  SECONDS_PER_YEAR = 1
  BPS = 4
  MAX_FEE_BPS = 2
  DEFAULT_FEE_BPS = 2
CONSTRAINT DebtBound
CHECK_DEADLOCK FALSE
INVARIANT SupplyIsHeld
PROPERTY ImplementsBackedIssuance
