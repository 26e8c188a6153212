---------------------------- MODULE BusinessForm ----------------------------
(***************************************************************************)
(* The custom business form from what the user types to the features the   *)
(* LLM is given (components/CustomBusinessForm.tsx, lib/merchant.ts,       *)
(* profileFromCustomForm in lib/server/revenue.ts, extractFeatures in      *)
(* lib/server/scoring.ts), and the seeded merchants beside it.             *)
(*                                                                         *)
(* Money is in cents, but for the revenue that is typed, which may be      *)
(* finer; rates are whole hundredths of a percent, growth is a whole       *)
(* percent. Arithmetic is exact where the code's is in floating point.     *)
(* The standard deviation, the on-chain features and the names are left    *)
(* out; of the trend its sign matters, so it is the difference the code    *)
(* divides.                                                                *)
(***************************************************************************)
EXTENDS Scoring, Sequences

CONSTANTS
  Industry, DEFAULT_INDUSTRY,
  INDUSTRY_DEFAULTS,      \* INDUSTRY_DEFAULTS[i]: the fields the preset of i has
  DEFAULT_REVENUE, DEFAULT_ORDERS,   \* where the preset has none
  PLATFORM_RISK,          \* PLATFORM_RISK[platform], in tenths
  PARTS,                  \* parts of a cent, the unit of a typed revenue
  MAX_REVENUE, MAX_ORDERS, MAX_MONTHS   \* 50M HK$, 1M and 600

Platform == DOMAIN PLATFORM_RISK
MAX_RATE == 10000         \* 100 %

PresetField == {"revenue", "orders", "refund", "chargeback", "platform"}

ASSUME FormAssumption ==
  /\ DEFAULT_INDUSTRY \in Industry
  /\ PLATFORM_RISK \in [Platform -> Nat] /\ {"shopify", "fixture"} \subseteq Platform
  /\ \A i \in Industry : DOMAIN INDUSTRY_DEFAULTS[i] \subseteq PresetField
  /\ {DEFAULT_REVENUE, DEFAULT_ORDERS, MAX_REVENUE, MAX_ORDERS, MAX_MONTHS} \subseteq Nat
  /\ PARTS \in Nat \ {0}

Overlaid(form, preset) ==
  [f \in DOMAIN form |-> IF f \in DOMAIN preset THEN preset[f] ELSE form[f]]

(* The name is blank, so that the form cannot be sent as it starts. *)
defaultForm(industry) ==
  Overlaid([named |-> FALSE, industry |-> industry, platform |-> "shopify", months |-> 12,
            revenue |-> DEFAULT_REVENUE, orders |-> DEFAULT_ORDERS,
            refund |-> 200, chargeback |-> 20, growth |-> 0],
           INDUSTRY_DEFAULTS[industry])

(* Faulty variant: growth may fall to -100 percent. *)
AcceptsAnyDecline(form) ==
  /\ form.named
  /\ form.industry \in Industry /\ form.platform \in Platform \ {"fixture"}
  /\ form.months \in 1 .. MAX_MONTHS
  /\ form.revenue \in PARTS * MIN_REVENUE .. PARTS * MAX_REVENUE
  /\ form.orders \in 1 .. MAX_ORDERS
  /\ {form.refund, form.chargeback} \subseteq 0 .. MAX_RATE
  /\ form.growth \in -100 .. 200

(* customBusinessFormSchema, which the browser and the server both parse.  *)
customBusinessFormSchema(form) ==
  /\ form.named
  /\ form.industry \in Industry /\ form.platform \in Platform \ {"fixture"}
  /\ form.months \in 1 .. MAX_MONTHS
  /\ form.revenue \in PARTS * MIN_REVENUE .. PARTS * MAX_REVENUE
  /\ form.orders \in 1 .. MAX_ORDERS
  /\ {form.refund, form.chargeback} \subseteq 0 .. MAX_RATE
  /\ form.growth \in -50 .. 200

(* avgRevenueCents *)
Cents(form) == Round(form.revenue, PARTS)

(* n after monthsBack months of growth undone *)
Before(n, growth, monthsBack) == Round(n * Power(100, monthsBack), Power(100 + growth, monthsBack))

(* Faulty variant: growth done instead of undone. *)
PreviewOfGrowth(form) ==
  [monthsBack \in 0 .. 2 |->
     [revenue |-> 100 * Round(form.revenue * Power(100 + form.growth, monthsBack),
                              PARTS * (100 * Power(100, monthsBack))),
      orders |-> GreatestOf(1, Round(form.orders * Power(100 + form.growth, monthsBack), Power(100, monthsBack)))]]

(* What the page says the AI will see: what was typed, rounded to HK$.     *)
Preview(form) ==
  [monthsBack \in 0 .. 2 |->
     [revenue |-> 100 * Round(form.revenue * Power(100, monthsBack),
                              PARTS * (100 * Power(100 + form.growth, monthsBack))),
      orders |-> GreatestOf(1, Before(form.orders, form.growth, monthsBack))]]

---------------------------------------------------------------------------
(* The server. A profile is a sequence of windows in the order its source  *)
(* has them; age is how many months back a window lies. *)

(* merchantProfileSchema on what profileFromCustomForm made: no window is  *)
(* infinite and no rate above 100 percent.                                 *)
Resolves(form) ==
  /\ form.growth > -100
  /\ {form.refund, form.chargeback} \subseteq 0 .. MAX_RATE

profileFromCustomForm(form) ==
  [i \in 1 .. 3 |->
     LET monthsBack == 3 - i IN
     [age |-> monthsBack,
      revenue |-> Windows([revenue |-> Cents(form), growth |-> form.growth])[monthsBack],
      orders |-> GreatestOf(1, Before(form.orders, form.growth, monthsBack)),
      refund |-> form.refund, chargeback |-> form.chargeback, platform |-> form.platform]]

(* Faulty variant: the windows as they came. *)
AsTheyCame(profile) == profile
OldestFirst(profile) ==
  CHOOSE windows \in {[i \in DOMAIN profile |-> profile[p[i]]] :
                        p \in Bijection(DOMAIN profile, DOMAIN profile)} :
    \A i, j \in DOMAIN profile : i < j => windows[i].age >= windows[j].age

SumOver(windows, val(_)) == SumFunction([i \in DOMAIN windows |-> val(windows[i])])
Revenue(w) == w.revenue

extractFeatures(profile) ==
  LET windows == OldestFirst(profile)
      total == SumOver(windows, Revenue)
      weighted(rate(_)) == Round(SumOver(windows, LAMBDA w : rate(w) * w.revenue), GreatestOf(1, total))
  IN [avg |-> Round(total, Len(windows)),
      trend |-> windows[Len(windows)].revenue - windows[1].revenue,
      refund |-> weighted(LAMBDA w : w.refund),
      chargeback |-> weighted(LAMBDA w : w.chargeback),
      risk |-> Round(SumOver(windows, LAMBDA w : PLATFORM_RISK[w.platform]), Len(windows))]
=============================================================================
