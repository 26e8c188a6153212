----------------------------- MODULE ScorePanel -----------------------------
(***************************************************************************)
(* ScorePanel.tsx with the custom form inside it: two ways to ask POST     *)
(* /api/score for a score, and one to bring it on chain. A job is one such *)
(* request from the click to the receipt. Switching between the modes is   *)
(* never disabled, and unmounts the form with what it knows of its job,    *)
(* so jobs may overlap; they share the panel's status.                     *)
(*                                                                         *)
(* A click captures the wallet client the panel had when it was rendered,  *)
(* which is none while the wallet still loads or is on another chain.      *)
(***************************************************************************)
EXTENDS BusinessForm

CONSTANTS
  Typed,        \* Typed[field]: what the user may put into a field of the form
  SeededMerchant,   \* SeededMerchant[m]: the windows of a fixture, newest first
  Job, NoJob

ASSUME PanelAssumption ==
  /\ NoJob \notin Job
  /\ DOMAIN Typed \subseteq DOMAIN defaultForm(DEFAULT_INDUSTRY)
  /\ Fixture = {[i \in DOMAIN SeededMerchant[m] |-> SeededMerchant[m][i].revenue] :
                  m \in DOMAIN SeededMerchant}
  /\ \A windows \in {SeededMerchant[m] : m \in DOMAIN SeededMerchant} :
       /\ Len(windows) \in Nat \ {0} /\ DOMAIN windows = 1 .. Len(windows)
       /\ [i \in DOMAIN windows |-> windows[i].age]
            \in Bijection(1 .. Len(windows), 0 .. Len(windows) - 1)

VARIABLES
  mode, form,
  isScoring,    \* the job the form on the page waits for, or NoJob
  status,
  wallet,       \* whether the panel has a wallet client
  kind, stage,  \* kind[j], stage[j]: what asked for job j, and how far it is
  ready,        \* ready[j]: the click that started j had a wallet client
  card          \* the job whose score the result card has, or NoJob

jobVars == <<kind, stage, ready>>
panelVars == <<mode, form, isScoring, status, wallet, jobVars, card>>

Busy == {"scoring", "submitting", "confirming"}
Kind == {"demo", "custom"}
Form0 == defaultForm(DEFAULT_INDUSTRY)

PanelTypeOK ==
  /\ mode \in Kind
  /\ DOMAIN form = DOMAIN Form0
  /\ isScoring \in Job \union {NoJob}
  /\ status \in Busy \union {"idle", "done", "error"}
  /\ wallet \in BOOLEAN
  /\ kind \in [Job -> Kind]
  /\ stage \in [Job -> {"none", "asked", "refused", "wallet", "sent"}]
  /\ ready \in [Job -> BOOLEAN]
  /\ card \in Job \union {NoJob}
  /\ isScoring # NoJob => mode = "custom" /\ kind[isScoring] = "custom" /\ stage[isScoring] # "none"

PanelInit ==
  /\ mode = "demo" /\ form = Form0 /\ isScoring = NoJob
  /\ status = "idle"
  /\ wallet \in BOOLEAN
  /\ kind = [j \in Job |-> "demo"] /\ stage = [j \in Job |-> "none"]
  /\ ready = [j \in Job |-> FALSE]
  /\ card = NoJob

---------------------------------------------------------------------------
(* The form. Nothing of it is disabled while it waits. *)

Toggle ==
  /\ mode' \in Kind \ {mode}
  /\ form' = Form0 /\ isScoring' = NoJob
  /\ UNCHANGED <<status, wallet, jobVars, card>>

SetField(f, v) ==
  /\ mode = "custom" /\ form[f] # v
  /\ form' = [form EXCEPT ![f] = v]
  /\ UNCHANGED <<mode, isScoring, status, wallet, jobVars, card>>

changeIndustry(i) ==
  /\ mode = "custom"
  /\ form' = Overlaid([form EXCEPT !.industry = i], INDUSTRY_DEFAULTS[i])
  /\ UNCHANGED <<mode, isScoring, status, wallet, jobVars, card>>

---------------------------------------------------------------------------
(* Asking for a score. *)

Start(j, k, s) ==
  /\ stage[j] = "none" /\ status \notin Busy
  /\ kind' = [kind EXCEPT ![j] = k]
  /\ stage' = [stage EXCEPT ![j] = s]
  /\ ready' = [ready EXCEPT ![j] = wallet]

scoreDemoMerchant(j) ==
  /\ mode = "demo"
  /\ Start(j, "demo", "asked")
  /\ status' = "scoring" /\ card' = NoJob
  /\ UNCHANGED <<mode, form, isScoring, wallet>>

(* The request carries the form as it is now; what the server makes of it  *)
(* is settled with that.                                                   *)
submit(j) ==
  /\ mode = "custom" /\ isScoring = NoJob
  /\ customBusinessFormSchema(form)
  /\ Start(j, "custom", IF Resolves(form) THEN "asked" ELSE "refused")
  /\ isScoring' = j
  /\ UNCHANGED <<mode, form, status, wallet, card>>

(* Faulty variant: the form is not told. *)
EndUnnoticed(j) ==
  /\ stage' = [stage EXCEPT ![j] = "none"]
  /\ ready' = [ready EXCEPT ![j] = FALSE]
  /\ UNCHANGED <<kind, mode, form, isScoring, wallet>>

(* Whatever ends a job, the form that waits for it is told. *)
End(j) ==
  /\ stage' = [stage EXCEPT ![j] = "none"]
  /\ ready' = [ready EXCEPT ![j] = FALSE]
  /\ isScoring' = IF isScoring = j THEN NoJob ELSE isScoring
  /\ UNCHANGED <<kind, mode, form, wallet>>

(* Faulty variant: a failed request leaves the status as it is. *)
HearFailureQuietly(j) ==
  /\ stage[j] \in {"asked", "refused"}
  /\ End(j)
  /\ UNCHANGED <<status, card>>

(* Refused, limited, timed out or lost: the form shows it below its button *)
(* and leaves the status alone.                                            *)
HearFailure(j) ==
  /\ stage[j] \in {"asked", "refused"}
  /\ End(j)
  /\ status' = IF kind[j] = "demo" THEN "error" ELSE status
  /\ UNCHANGED card

(* submitScoreAttestation; without a wallet client it returns at once. *)
HearScore(j) ==
  /\ stage[j] = "asked"
  /\ \/ /\ ready[j]
        /\ stage' = [stage EXCEPT ![j] = "wallet"]
        /\ status' = "submitting" /\ card' = j
        /\ UNCHANGED <<kind, ready, mode, form, isScoring, wallet>>
     \/ /\ ~ready[j] /\ End(j)
        /\ UNCHANGED <<status, card>>

Sign(j) ==
  /\ stage[j] = "wallet"
  /\ stage' = [stage EXCEPT ![j] = "sent"]
  /\ status' = "confirming"
  /\ UNCHANGED <<kind, ready, mode, form, isScoring, wallet, card>>

(* Rejected by the user, or the wallet finds that it would revert. *)
Decline(j) ==
  /\ stage[j] = "wallet"
  /\ End(j) /\ status' = "idle"
  /\ UNCHANGED card

(* The receipt, whatever it says; or none in time. *)
HearReceipt(j) ==
  /\ stage[j] = "sent"
  /\ End(j) /\ status' \in {"done", "idle"}
  /\ UNCHANGED card

WalletChanges ==
  /\ wallet' = ~wallet
  /\ UNCHANGED <<mode, form, isScoring, status, jobVars, card>>

JobNext(j) ==
  \/ scoreDemoMerchant(j) \/ submit(j)
  \/ HearFailure(j) \/ HearScore(j) \/ Sign(j) \/ Decline(j) \/ HearReceipt(j)

PanelNext ==
  \/ Toggle
  \/ \E f \in DOMAIN Typed : \E v \in Typed[f] : SetField(f, v)
  \/ \E i \in Industry : changeIndustry(i)
  \/ \E j \in Job : JobNext(j)
  \/ WalletChanges

(* A request is answered, fails or times out; waitForTransactionReceipt    *)
(* returns or times out. The user may leave a prompt open.                 *)
PanelFairness ==
  \A j \in Job : /\ WF_panelVars(HearScore(j) \/ HearFailure(j))
                 /\ WF_panelVars(HearReceipt(j))

PanelSpec == PanelInit /\ [][PanelNext]_panelVars /\ PanelFairness

---------------------------------------------------------------------------
(* A form the browser accepts is one the server can expand: the schema     *)
(* they share leaves out what would make the expansion infinite or its     *)
(* rates exceed what merchantProfileSchema allows, after any edits and     *)
(* changes of industry.                                                    *)
ValidFormResolves == \A j \in Job : stage[j] # "refused"

(* "The AI will see these three months" (CustomBusinessForm.tsx:288): each *)
(* month shown has the orders the server uses, and its revenue to half a   *)
(* dollar, unless the server lifts it to the least it accepts. The server  *)
(* rounds to cents before it undoes the growth (revenue.ts:147), which     *)
(* makes up to two cents of difference more.                               *)
PreviewIsWhatIsScored ==
  customBusinessFormSchema(form) /\ Resolves(form) =>
    \A i \in 1 .. 3 :
      LET w == profileFromCustomForm(form)[i]
          p == Preview(form)[w.age]
      IN /\ w.orders = p.orders
         /\ \/ w.revenue - p.revenue \in -52 .. 52
            \/ w.revenue = MIN_REVENUE /\ p.revenue < MIN_REVENUE

(* The features the LLM is given are those declared: the rates and the     *)
(* platform's risk unchanged by the averaging over windows, and a trend    *)
(* that never runs against the declared growth; of a seeded merchant, the  *)
(* trend from its oldest month to its newest.                              *)
FeaturesAreDeclared ==
  /\ customBusinessFormSchema(form) /\ Resolves(form) =>
       LET features == extractFeatures(profileFromCustomForm(form)) IN
       /\ features.refund = form.refund /\ features.chargeback = form.chargeback
       /\ features.risk = PLATFORM_RISK[form.platform]
       /\ features.trend * form.growth >= 0
       /\ form.growth = 0 => features.trend = 0
  /\ \A m \in DOMAIN SeededMerchant :
       \A v, w \in {SeededMerchant[m][i] : i \in DOMAIN SeededMerchant[m]} :
         v.age = 0 /\ w.age = Len(SeededMerchant[m]) - 1 =>
           extractFeatures(SeededMerchant[m]).trend = v.revenue - w.revenue

(* The panel does not say it is scoring for ever, nor the form, if the     *)
(* click found a wallet client: a failure on any leg gives the buttons     *)
(* back.                                                                   *)
ScoringEnds ==
  \A j \in Job : /\ status = "scoring" /\ stage[j] = "asked" /\ ready[j] /\ kind[j] = "demo"
                      ~> status # "scoring"
                 /\ stage[j] = "asked" /\ isScoring = j ~> isScoring # j \/ stage[j] = "wallet"
=============================================================================
