-------------------------- MODULE MCPoHRevocation --------------------------
(* One subject, one attestor, and every attestation it could sign. *)
EXTENDS PoHRevocation

CONSTANTS alice, attestor, n1, n2

MCSubject == {alice}
MCAttestor == {attestor}
MCNonce == {n1, n2}
MCTimestamp == 1 .. 3
============================================================================
