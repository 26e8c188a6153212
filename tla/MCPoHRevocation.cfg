SPECIFICATION RevocationSpec
CONSTANTS
  alice = alice
  attestor = attestor
  n1 = n1
  n2 = n2
  NoAttestor = NoAttestor
  Subject <- MCSubject
  Attestor <- MCAttestor
  Nonce <- MCNonce
  Timestamp <- MCTimestamp
  SignedAttestation <- Attestation
INVARIANT BundleRevokeIsEffective
