SPECIFICATION AttestSpec
CONSTANTS
  wallet = wallet
  i1 = i1
  i2 = i2
  t1 = t1
  t2 = t2
  NoIdentity = NoIdentity
  Wallet = {wallet}
  Key = {wallet}
  MaxCalls <- MCMaxCalls
  Window = 2
  Tab = {t1, t2}
  Identity = {i1, i2}
  Decimal <- MCDecimal
  MaxRestarts = 1
INVARIANTS AttestTypeOK SignedOncePerProcess AttestedIsMember
PROPERTY RefusedKeyRecovers
