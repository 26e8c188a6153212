---------------------------- MODULE MCLoanDesk ----------------------------
(* One merchant, a policy of two tiers, a form whose revenue halves each   *)
(* month and a seeded merchant of the same average.                        *)
EXTENDS LoanDesk

CONSTANTS alice, safe, line, admin, scorer, attestor, n1, p1,
          Horizon   \* the last block timestamp

(* Attestations outlive the run. *)
MCTimestamp == 1 .. Horizon + 1
NowBound == now <= Horizon
MCSignedAttestation ==
  {[attestor |-> attestor, subject |-> alice, kind |-> HUMANITY_AND_BUSINESS,
    issuedAt |-> 1, expiresAt |-> Horizon + 1, nonce |-> alice]}

MCTierPolicy ==
  <<[minAprBps |-> 1, maxAprBps |-> 1, percent |-> 60],
    [minAprBps |-> 2, maxAprBps |-> 2, percent |-> 34]>>
MCForm == [revenue : {5}, growth : {-50}]
MCFixture == {[i \in 0 .. 1 |-> 12]}
(* The LLM proposes tier 2 at a rate below its band and the highest line. *)
MCLlmOutput == [tier : {2}, aprBps : {0}, maxLine : {5}]
============================================================================
