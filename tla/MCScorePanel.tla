---------------------------- MODULE MCScorePanel ----------------------------
(* Two industries, one sold on a marketplace, a seeded merchant, and two   *)
(* jobs: a least month of one dollar, so that half dollars and the floor   *)
(* both show; values on both sides of every limit of the schema, and one   *)
(* revenue in tenths of a cent that two months of decline take more than   *)
(* half a dollar from its preview.                                         *)
EXTENDS ScorePanel, TLC

CONSTANTS apparel, marketplace, kowloon

MCTierPolicy == <<[minAprBps |-> 600, maxAprBps |-> 1000, percent |-> 60]>>
MCPreset ==
  apparel :> [revenue |-> 3330, orders |-> 3, refund |-> 200, chargeback |-> 20, platform |-> "shopify"]
  @@ marketplace :> [revenue |-> 12500, orders |-> 50, refund |-> 550, chargeback |-> 100,
                     platform |-> "lazada"]
MCPlatformRisk == [shopify |-> 10, lazada |-> 14, fixture |-> 10]
MCTyped ==
  [named |-> {TRUE}, revenue |-> {990, 1123}, growth |-> {-100, -50, -33, 200}, refund |-> {10001}]
MCSeeded ==
  kowloon :> [i \in 1 .. 3 |->
    [age |-> i - 1, revenue |-> <<842, 798, 911>>[i], orders |-> <<312, 287, 344>>[i],
     refund |-> <<180, 205, 160>>[i], chargeback |-> <<20, 15, 22>>[i], platform |-> "shopify"]]
MCFixture == {[i \in 1 .. 3 |-> MCSeeded[kowloon][i].revenue]}
MCForm == {}
MCLlmOutput == {}
=============================================================================
