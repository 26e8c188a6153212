---------------------------- MODULE MCCreditLine ----------------------------
(* Small instances of the credit line. Rates are scaled so that one unit   *)
(* of principal at 1 bps earns one unit of interest in four ticks.         *)
EXTENDS CreditLine

CONSTANTS alice, bob, safe, line, admin, scorer, attestor, n1, n2,
          Horizon   \* the last block timestamp

MCTimestamp == 1 .. Horizon
Both == {alice, bob}

Bundle(s) == [attestor |-> attestor, subject |-> s, kind |-> HUMANITY_AND_BUSINESS,
              issuedAt |-> 1, expiresAt |-> Horizon, nonce |-> s]
MCSignedAttestation == {Bundle(s) : s \in Subject}

SignScore(b, tier, maxLine, apr, issued, expires, nonce) ==
  [scorer |-> scorer, borrower |-> b, tier |-> tier, maxLine |-> maxLine, aprBps |-> apr,
   issuedAt |-> issued, expiresAt |-> expires, nonce |-> nonce]
(* A first score, a cheaper one issued later, one above the APR cap and    *)
(* one of no tier.                                                         *)
MCSignedScore ==
  UNION {{SignScore(b, 5, 4, 2, 1, Horizon, n1),
          SignScore(b, 1, 3, 1, 2, Horizon, n2),
          SignScore(b, 5, 4, MAX_APR_BPS + 1, 1, Horizon, n2),
          SignScore(b, 6, 4, 2, 1, Horizon, n2)} : b \in Borrower}

(* Bounds of the runs. *)
NobodyPauses == ~linePaused /\ ~tokenPaused
RolesStand ==
  /\ lineRole["ADMIN"] = {admin} /\ lineRole["PAUSER"] = {admin}
  /\ lineRole["SETTLEMENT"] = {admin} /\ lineRole["SCORER"] = {scorer}
  /\ attestors = {attestor}
SettingsStand == treasury = DeployTreasury /\ originationFeeBps = DEFAULT_FEE_BPS
DebtBound == NobodyPauses /\ RolesStand /\ SettingsStand
AdminBound ==
  /\ lineRole["ADMIN"] = {admin} /\ lineRole["PAUSER"] = {admin}
  /\ lineRole["SETTLEMENT"] \subseteq {admin} /\ lineRole["SCORER"] \subseteq {scorer}
  /\ attestors = {attestor}
=============================================================================
