------------------------------ MODULE Scoring ------------------------------
(***************************************************************************)
(* How the server prices a merchant (app/src/lib/server/scoring.ts,        *)
(* app/src/lib/server/revenue.ts) and what it then signs                   *)
(* (app/src/app/api/score/route.ts).                                       *)
(*                                                                         *)
(* Of the features only the average monthly revenue enters the price by    *)
(* itself; the others reach it through the LLM, whose output is any that   *)
(* its schema lets through. Money is in cents, a multiple in hundredths.   *)
(* The label, the rationale and the features of a score are left out.      *)
(***************************************************************************)
EXTENDS Integers, FiniteSetsExt

CONSTANTS
  TIER_POLICY,        \* TIER_POLICY[tier]: APR band and line multiple
  LINE_ABSOLUTE_CAP,  \* LINE_ABSOLUTE_CAP_CENTS
  MIN_REVENUE,        \* the least revenue of a month, 100 * 100 cents
  UNITS_PER_CENT,     \* 10_000: HKDm has 6 decimals
  SCORE_VALIDITY,     \* SCORE_VALIDITY_SECONDS
  ISSUED_CLOCK_SKEW,  \* ISSUED_CLOCK_SKEW_SECONDS
  Form,               \* the custom forms, as declared revenue in cents and growth
  Fixture,            \* the revenues of the seeded merchants' windows
  LlmOutput           \* what passes llmOutputSchema

Tier == DOMAIN TIER_POLICY

ASSUME ScoringAssumption ==
  /\ \A tier \in Tier :
       /\ TIER_POLICY[tier] \in [minAprBps : Nat, maxAprBps : Nat, percent : Nat]
       /\ TIER_POLICY[tier].minAprBps <= TIER_POLICY[tier].maxAprBps
  /\ {LINE_ABSOLUTE_CAP, MIN_REVENUE, UNITS_PER_CENT, SCORE_VALIDITY, ISSUED_CLOCK_SKEW} \subseteq Nat
  /\ MIN_REVENUE # 0 /\ ISSUED_CLOCK_SKEW < SCORE_VALIDITY
  /\ Form \subseteq [revenue : Nat, growth : -50 .. 200]
  /\ \A windows \in Fixture :
       /\ IsFiniteSet(DOMAIN windows) /\ DOMAIN windows # {}
       /\ windows \in [DOMAIN windows -> Nat]
  /\ LlmOutput \subseteq [tier : Tier, aprBps : Nat, maxLine : 0 .. LINE_ABSOLUTE_CAP]

(* Math.round of n / d, for naturals *)
Round(n, d) == (2 * n + d) \div (2 * d)
LeastOf(m, n) == IF m < n THEN m ELSE n
GreatestOf(m, n) == IF m > n THEN m ELSE n

(* x to the power k, for the three windows of a form *)
Power(x, k) == CASE k = 0 -> 1 [] k = 1 -> x [] k = 2 -> x * x

(* profileFromCustomForm: the newest window is the declared month, each    *)
(* older one is discounted by the growth.                                  *)
Windows(form) ==
  [monthsBack \in 0 .. 2 |->
     GreatestOf(MIN_REVENUE, Round(form.revenue * Power(100, monthsBack),
                                   Power(100 + form.growth, monthsBack)))]

Profile == {Windows(form) : form \in Form} \union Fixture
AvgMonthlyRevenue(windows) ==
  Round(MapThenSumSet(LAMBDA i : windows[i], DOMAIN windows), Cardinality(DOMAIN windows))

TierLineCap(windows, tier) == (AvgMonthlyRevenue(windows) * TIER_POLICY[tier].percent) \div 100

(* Faulty variant: the line the LLM proposes. *)
LlmLine(windows, llm) == llm.maxLine
ClampedLine(windows, llm) ==
  LeastOf(LINE_ABSOLUTE_CAP, LeastOf(llm.maxLine, TierLineCap(windows, llm.tier)))
ClampedApr(llm) ==
  LeastOf(TIER_POLICY[llm.tier].maxAprBps, GreatestOf(TIER_POLICY[llm.tier].minAprBps, llm.aprBps))

(* When a score signed at the server's time t is valid. Faulty variant:    *)
(* issued at t.                                                            *)
ValidFromNow(t) == [issuedAt |-> t, expiresAt |-> t + SCORE_VALIDITY]
Valid(t) == LET issuedAt == t - ISSUED_CLOCK_SKEW
            IN [issuedAt |-> issuedAt, expiresAt |-> issuedAt + SCORE_VALIDITY]

(* The terms POST /api/score signs at time t. *)
Terms(windows, llm, t) ==
  [tier |-> llm.tier, maxLine |-> ClampedLine(windows, llm) * UNITS_PER_CENT,
   aprBps |-> ClampedApr(llm), issuedAt |-> Valid(t).issuedAt, expiresAt |-> Valid(t).expiresAt]

(* Whether a score's line and APR are ones the policy has for its tier and  *)
(* some profile.                                                           *)
WithinPolicy(sc) ==
  /\ sc.tier \in Tier
  /\ sc.aprBps \in TIER_POLICY[sc.tier].minAprBps .. TIER_POLICY[sc.tier].maxAprBps
  /\ \E windows \in Profile :
       sc.maxLine <= UNITS_PER_CENT * LeastOf(LINE_ABSOLUTE_CAP, TierLineCap(windows, sc.tier))
============================================================================
