--------------------------- MODULE BackedIssuance ---------------------------
(***************************************************************************)
(* What the credit line promises about its currency, without contracts,    *)
(* scores or interest: a unit is created only as somebody's debt and is    *)
(* destroyed only with that debt. CreditLine implements it with the        *)
(* principals of the loans and the supply of HKDm.                         *)
(***************************************************************************)
EXTENDS Integers

CONSTANT Party

VARIABLES
  lent,     \* lent[p]: what p has to bring back
  issued    \* units in existence

issuanceVars == <<lent, issued>>

IssuanceInit == lent = [p \in Party |-> 0] /\ issued = 0

Issue(p) ==
  /\ issued' > issued
  /\ lent' = [lent EXCEPT ![p] = @ + (issued' - issued)]

Redeem(p) ==
  /\ issued' < issued
  /\ issued - issued' <= lent[p]
  /\ lent' = [lent EXCEPT ![p] = @ - (issued - issued')]

IssuanceNext == \E p \in Party : Issue(p) \/ Redeem(p)

IssuanceSpec == IssuanceInit /\ [][IssuanceNext]_issuanceVars
=============================================================================
