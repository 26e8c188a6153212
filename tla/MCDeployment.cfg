SPECIFICATION DeploymentSpec
CONSTANTS
  admin = admin
  alice = alice
  bob = bob
  line = line
  scorer = scorer
  attestor = attestor
  n1 = n1
  n2 = n2
  Account = {admin, alice}
  Spender = {line}
  TokenAdmin = admin
  Amount <- MCAmount
  MaxUint = 3
  Subject = {alice, bob}
  Attestor = {attestor}
  Nonce = {n1, n2}
  Timestamp <- MCTimestamp
  SignedAttestation <- Attestation
  NoAttestor = NoAttestor
  Borrower = {alice}
  Line = line
  LineAdmin = admin
  Caller = {admin, scorer}
  Treasury = {admin}
  DeployTreasury = admin
  Scorer = {scorer}
  ScoreNonce = {n1}
  SignedScore = {}
  DurationArg = {1}
  FeeArg = {1}
  MAX_APR_BPS = 2
  MIN_DURATION = 1
  MAX_DURATION = 3
  SECONDS_PER_YEAR = 1
  BPS = 4
  MAX_FEE_BPS = 2
  DEFAULT_FEE_BPS = 1
  ATTESTOR_ADDRESS = attestor
  SCORER_ADDRESS = scorer
  Blank = Blank
  MaxAttempts = 2
  MaxOther = 1
CONSTRAINTS InUse RolesBounded
CHECK_DEADLOCK FALSE
INVARIANTS DeployTypeOK EnvNamesWiredDeployment WiredIsLineInit
PROPERTIES BurnIsApproved RecordSpendsFreshNonce VerificationEndsByTimeOrRevoke
