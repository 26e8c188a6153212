--------------------------- MODULE PoHRevocation ---------------------------
(***************************************************************************)
(* The registry with the history of each subject's bundle, to compare what *)
(* a revocation announces with what it does. Revoke is announced by        *)
(* AttestationRevoked(subject, kind).                                      *)
(***************************************************************************)
EXTENDS PoHRegistry

(* bundle[s]: "recorded" when the last attestation recorded for s is a     *)
(* bundle, "revoked" when AttestationRevoked(s, 3) was emitted since.      *)
VARIABLE bundle

revocationVars == <<registryVars, bundle>>

RevocationInit == RegistryInit /\ bundle = [s \in Subject |-> "none"]

RecordAndRemember(t) ==
  /\ RecordAttestation(t)
  /\ bundle' = [bundle EXCEPT ![t.subject] =
                  IF t.kind = HUMANITY_AND_BUSINESS THEN "recorded" ELSE "none"]

RevokeAndEmit(s, k) ==
  /\ Revoke(s, k)
  /\ bundle' = [bundle EXCEPT ![s] =
                  IF k = HUMANITY_AND_BUSINESS /\ @ = "recorded" THEN "revoked" ELSE @]

RevocationNext ==
  \/ \E t \in SignedAttestation : RecordAndRemember(t)
  \/ \E s \in Subject, k \in Kind : RevokeAndEmit(s, k)
  \/ /\ (\E a \in Attestor : GrantAttestor(a) \/ RevokeAttestor(a)) \/ Tick
     /\ UNCHANGED bundle

RevocationSpec == RevocationInit /\ [][RevocationNext]_revocationVars

---------------------------------------------------------------------------
(* PoHRegistry.sol:25 calls kind 3 the humanity+business bundle, and :41   *)
(* says it updates both kinds; so a subject whose bundle was recorded, and *)
(* then revoked as kind 3 with nothing recorded since, is verified of      *)
(* neither. The code deletes slot 3, which nothing ever fills.             *)
BundleRevokeIsEffective ==
  \A s \in Subject, k \in {HUMANITY, BUSINESS} : bundle[s] = "revoked" => ~IsVerified(s, k)
============================================================================
