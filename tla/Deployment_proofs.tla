------------------------- MODULE Deployment_proofs -------------------------
(* Theorems about the deployment, for any number of attempts that stop     *)
(* anywhere and of other transactions of the deployer.                     *)
EXTENDS Deployment, CreditLine_proofs

(* Every transaction of the attempt with base b is on the chain.           *)
Whole(b) == {b} \X Step \subseteq mined

(* Past the broadcast, the attempt the JSON describes is whole; what the   *)
(* script has stamped in this run are its contracts, and every address     *)
(* stamped in any run is the contract of a whole attempt.                  *)
DeployInv ==
  /\ nonce \in Nat
  /\ env \in [Creation -> Nat \union {Blank}]
  /\ script # "off" => json \in Nat
  /\ script \in {"check", "stamp", "done"} => Whole(json)
  /\ script \in {"broadcast", "check"} => stamped = 0
  /\ script = "stamp" => stamped \in 0 .. 2
  /\ script = "done" => stamped = 3
  /\ script \in {"stamp", "done"} => \A i \in 1 .. stamped : env[i] = json + i - 1
  /\ \A i \in Creation : env[i] # Blank => env[i] - i + 1 \in Nat /\ Whole(env[i] - i + 1)

LEMMA DeployInvInit == DeployInit => DeployInv
<1>. SUFFICES ASSUME DeployInit PROVE DeployInv
  OBVIOUS
<1>1. /\ nonce = 0 /\ script = "off" /\ stamped = 0
      /\ env = [i \in Creation |-> Blank]
  BY DEF DeployInit
<1>. QED  BY <1>1 DEF DeployInv

(* While the script's own state stays, blocks only add to what is mined.   *)
LEMMA DeployInvMined ==
  ASSUME DeployInv, UNCHANGED scriptVars, mined \subseteq mined', nonce' \in Nat
  PROVE  DeployInv'
<1>1. script' = script /\ json' = json /\ env' = env /\ stamped' = stamped
  BY DEF scriptVars
<1>2. script \in {"check", "stamp", "done"} => {json} \X Step \subseteq mined'
  BY DEF DeployInv, Whole
<1>3. \A i \in Creation :
        env[i] # Blank => env[i] - i + 1 \in Nat /\ {env[i] - i + 1} \X Step \subseteq mined'
  BY DEF DeployInv, Whole
<1>. QED  BY <1>1, <1>2, <1>3 DEF DeployInv, Whole

LEMMA DeployInvStep ==
  DeployInv /\ [DeployNext \/ ContractNext]_<<vars, deployVars>> => DeployInv'
<1>. SUFFICES ASSUME DeployInv, [DeployNext \/ ContractNext]_<<vars, deployVars>>
              PROVE  DeployInv'
  OBVIOUS
<1>0. nonce \in Nat
  BY DEF DeployInv
<1>1. ASSUME NEW b \in begun, NEW k \in Step, Mine(b, k) PROVE DeployInv'
  BY <1>0, <1>1, DeployInvMined DEF Mine
<1>2. CASE OtherTransaction
  BY <1>0, <1>2, DeployInvMined DEF OtherTransaction
<1>3. CASE Simulate
  BY <1>0, <1>3 DEF Simulate, chainVars, DeployInv, Whole
<1>4. CASE BroadcastEnds
  BY <1>4 DEF BroadcastEnds, chainVars, DeployInv, Whole
<1>5. CASE CheckRoles
  <2>1. /\ script = "check" /\ script' = "stamp" /\ stamped' = stamped
        /\ json' = json /\ env' = env /\ nonce' = nonce /\ mined' = mined
    BY <1>5 DEF CheckRoles, chainVars
  <2>2. stamped = 0
    BY <2>1 DEF DeployInv
  <2>. QED  BY <2>1, <2>2 DEF DeployInv, Whole
<1>6. CASE Stamp
  <2>1. /\ script = "stamp" /\ script' = IF stamped' = 3 THEN "done" ELSE "stamp"
        /\ stamped' = stamped + 1 /\ env' = [env EXCEPT ![stamped + 1] = json + stamped]
        /\ json' = json /\ nonce' = nonce /\ mined' = mined
    BY <1>6 DEF Stamp, chainVars
  <2>2. /\ stamped \in 0 .. 2 /\ json \in Nat /\ Whole(json)
        /\ \A i \in 1 .. stamped : env[i] = json + i - 1
        /\ env \in [Creation -> Nat \union {Blank}]
    BY <2>1 DEF DeployInv
  <2>3. stamped + 1 \in Creation /\ json + stamped \in Nat
    BY <2>2 DEF Creation
  <2>4. env' \in [Creation -> Nat \union {Blank}]
    BY <2>1, <2>2, <2>3
  <2>5. /\ env'[stamped + 1] = json + stamped
        /\ \A i \in Creation : i # stamped + 1 => env'[i] = env[i]
    BY <2>1, <2>2, <2>3
  <2>6. \A i \in 1 .. stamped' : env'[i] = json' + i - 1
    <3>1. \A i \in 1 .. stamped' : i \in Creation /\ (i = stamped + 1 \/ i \in 1 .. stamped)
      BY <2>1, <2>2 DEF Creation
    <3>2. \A i \in 1 .. stamped : i # stamped + 1
      BY <2>2
    <3>3. (stamped + 1) - 1 = stamped /\ json + (stamped + 1) - 1 = json + stamped
      BY <2>2
    <3>. QED  BY <2>1, <2>2, <2>5, <3>1, <3>2, <3>3
  <2>7. ASSUME NEW i \in Creation, env'[i] # Blank
        PROVE  env'[i] - i + 1 \in Nat /\ Whole(env'[i] - i + 1)
    <3>1. CASE i = stamped + 1
      <4>1. env'[i] - i + 1 = json
        BY <2>2, <2>5, <3>1
      <4>. QED  BY <2>2, <4>1
    <3>2. CASE i # stamped + 1
      <4>1. env'[i] = env[i]
        BY <2>5, <3>2
      <4>. QED  BY <2>7, <4>1 DEF DeployInv
    <3>. QED  BY <3>1, <3>2
  <2>8. script' \in {"stamp", "done"}
        /\ (script' = "stamp" => stamped' \in 0 .. 2) /\ (script' = "done" => stamped' = 3)
    BY <2>1, <2>2
  <2>. QED  BY <1>0, <2>1, <2>2, <2>4, <2>6, <2>7, <2>8 DEF DeployInv, Whole
<1>7. CASE Stop
  BY <1>7 DEF Stop, chainVars, DeployInv, Whole
<1>8. CASE ContractNext
  BY <1>0, <1>8, DeployInvMined DEF ContractNext, deployVars, chainVars
<1>9. CASE UNCHANGED <<vars, deployVars>>
  BY <1>0, <1>9, DeployInvMined DEF deployVars, chainVars
<1>. QED  BY <1>1, <1>2, <1>3, <1>4, <1>5, <1>6, <1>7, <1>8, <1>9 DEF DeployNext

(* .env.local never names a contract that an attempt left unwired, however *)
(* many attempts were cut short and whatever of theirs is mined later.     *)
THEOREM EnvIsWired == DeploymentSpec => []EnvNamesWiredDeployment
<1>1. DeployInv => EnvNamesWiredDeployment
  <2>. SUFFICES ASSUME DeployInv PROVE EnvNamesWiredDeployment
    OBVIOUS
  <2>1. ASSUME NEW i \in Creation, env[i] # Blank
        PROVE  IsAt(env[i], i) /\ {env[i] - i + 1} \X Step \subseteq mined
    <3>1. Whole(env[i] - i + 1) /\ i \in Step
      BY <2>1 DEF DeployInv, Step
    <3>. QED  BY <3>1 DEF Whole, IsAt
  <2>2. ASSUME script = "done" PROVE env = [i \in Creation |-> json + i - 1]
    <3>1. \A i \in Creation : env[i] = json + i - 1
      BY <2>2 DEF DeployInv, Creation
    <3>. QED  BY <3>1 DEF DeployInv
  <2>. QED  BY <2>1, <2>2 DEF EnvNamesWiredDeployment
<1>. QED  BY <1>1, DeployInvInit, DeployInvStep, PTL DEF DeploymentSpec

---------------------------------------------------------------------------
(* What the grants of the first attempt have done to its contracts.        *)

(* The creation the grant k depends on. *)
Needs(k) == CASE k = 4 -> 2 [] k \in {5, 6} -> 3 [] k \in {7, 8} -> 1
Took(k) == <<0, Needs(k)>> \in mined /\ <<0, k>> \in mined

Unused == \A i \in Creation : env[i] = Blank

TokenRoleWired ==
  [r \in TokenRole |->
     IF r = "MINTER" THEN (IF Took(7) THEN {Line} ELSE {})
     ELSE IF r = "BURNER" THEN (IF Took(8) THEN {Line} ELSE {})
     ELSE {TokenAdmin}]
LineRoleWired ==
  [r \in LineRole |->
     IF r = "SCORER" THEN (IF Took(5) THEN {SCORER_ADDRESS} ELSE {})
     ELSE IF r = "SETTLEMENT" THEN (IF Took(6) THEN {LineAdmin} ELSE {})
     ELSE {LineAdmin}]

Fresh ==
  /\ EmptyRegistry
  /\ balance = [a \in Account |-> 0]
  /\ allowance = [a \in Account |-> [s \in Spender |-> 0]]
  /\ totalSupply = 0 /\ tokenPaused = FALSE
  /\ scores = [b \in Borrower |-> NoScore] /\ loans = [b \in Borrower |-> NoLoan]
  /\ consumedScoreNonces = [s \in Scorer |-> {}]
  /\ treasury = DeployTreasury /\ originationFeeBps = DEFAULT_FEE_BPS
  /\ linePaused = FALSE
freshVars == <<now, records, consumedNonces, balance, allowance, totalSupply, tokenPaused,
               scores, loans, consumedScoreNonces, treasury, originationFeeBps, linePaused>>
roleVars == <<attestors, tokenRole, lineRole>>

Wired ==
  /\ attestors = (IF Took(4) THEN {ATTESTOR_ADDRESS} ELSE {})
  /\ tokenRole = TokenRoleWired
  /\ lineRole = LineRoleWired

(* A transaction is mined at its nonce, so a grant after the creations.    *)
WireInv ==
  /\ nonce \in Nat /\ begun \subseteq Nat
  /\ \A k \in Step : <<0, k>> \in mined => k <= nonce
  /\ Unused => Fresh /\ Wired

LEMMA WireInvInit == DeployInit => WireInv
<1>. SUFFICES ASSUME DeployInit PROVE WireInv
  OBVIOUS
<1>1. /\ nonce = 0 /\ begun = {} /\ script = "off" /\ mined = {}
      /\ env = [i \in Creation |-> Blank]
  BY DEF DeployInit
<1>2. ~Took(4) /\ ~Took(5) /\ ~Took(6) /\ ~Took(7) /\ ~Took(8)
  BY <1>1 DEF Took
<1>3. Fresh
  BY DEF DeployInit, TokenInit, RegistryInit, Fresh
<1>4. attestors = {} /\ tokenRole = TokenRoleWired
  BY <1>2 DEF DeployInit, TokenInit, RegistryInit, TokenRoleWired, TokenRole
<1>5. lineRole = LineRoleWired
  BY <1>2 DEF DeployInit, LineRoleWired, LineRole
<1>. QED  BY <1>1, <1>2, <1>3, <1>4, <1>5 DEF WireInv, Wired

(* Wired is a matter of the five grants.                                   *)
LEMMA WiredStays ==
  ASSUME Wired, UNCHANGED roleVars,
         Took(4)' <=> Took(4), Took(5)' <=> Took(5), Took(6)' <=> Took(6),
         Took(7)' <=> Took(7), Took(8)' <=> Took(8)
  PROVE  Wired'
<1>1. TokenRoleWired' = TokenRoleWired /\ LineRoleWired' = LineRoleWired
  BY DEF TokenRoleWired, LineRoleWired
<1>. QED  BY <1>1 DEF Wired, roleVars

LEMMA FreshStays ==
  ASSUME Fresh, UNCHANGED freshVars
  PROVE  Fresh'
  BY DEF Fresh, freshVars, EmptyRegistry

(* A mined transaction of another attempt, or a creation of the first,     *)
(* leaves the roles as they were.                                          *)
LEMMA MineOther ==
  ASSUME WireInv, NEW b \in begun, NEW k \in Step, Mine(b, k), b # 0 \/ k \in Creation, Unused
  PROVE  Fresh' /\ Wired'
<1>1. UNCHANGED vars
  BY DEF Mine, Wire, Creation
<1>2. ASSUME NEW j \in Grant PROVE Took(j)' <=> Took(j)
  <2>1. CASE b # 0
    BY <2>1 DEF Mine, Took
  <2>2. CASE b = 0 /\ k \in Creation
    <3>1. nonce = k - 1 /\ nonce' = nonce + 1 /\ mined' = mined \union {<<0, k>>}
      BY <2>2 DEF Mine, WireInv, Creation
    <3>2. <<0, j>> \notin mined
      BY <2>2, <3>1 DEF WireInv, Creation, Grant, Step
    <3>3. <<0, j>> \notin mined'
      BY <2>2, <3>1, <3>2 DEF Creation, Grant
    <3>. QED  BY <3>2, <3>3 DEF Took
  <2>. QED  BY <2>1, <2>2
<1>3. 4 \in Grant /\ 5 \in Grant /\ 6 \in Grant /\ 7 \in Grant /\ 8 \in Grant
  BY DEF Grant
<1>4. Fresh /\ Wired
  BY DEF WireInv
<1>5. UNCHANGED freshVars /\ UNCHANGED roleVars
  BY <1>1 DEF vars, tokenVars, registryVars, pohVars, lineVars, freshVars, roleVars
<1>. QED  BY <1>2, <1>3, <1>4, <1>5, WiredStays, FreshStays

(* What the grant k of the first attempt makes of the other grants. *)
LEMMA MinedGrant ==
  ASSUME NEW k \in Grant, mined' = mined \union {<<0, k>>}
  PROVE  /\ \A j \in Grant : j # k => (Took(j)' <=> Took(j))
         /\ Took(k)' <=> <<0, Needs(k)>> \in mined
<1>1. \A j \in Grant : Needs(j) \in Creation /\ Needs(j) # k
  BY DEF Grant, Creation, Needs
<1>2. \A j \in Grant : <<0, Needs(j)>> \in mined' <=> <<0, Needs(j)>> \in mined
  BY <1>1
<1>3. \A j \in Grant : j # k => (<<0, j>> \in mined' <=> <<0, j>> \in mined)
  OBVIOUS
<1>. QED  BY <1>2, <1>3 DEF Took

(* A grant of the first attempt reaches the contract it was meant for, if  *)
(* that was created, and gives its role to the account it was meant for.   *)
LEMMA MineGrant ==
  ASSUME WireInv, NEW k \in Grant, Mine(0, k), Unused
  PROVE  Fresh' /\ Wired'
<1>1. /\ Fresh /\ Wired /\ nonce = k - 1 /\ mined' = mined \union {<<0, k>>}
  BY DEF WireInv, Mine, Grant
<1>2. /\ \A j \in Grant : j # k => (Took(j)' <=> Took(j))
      /\ Took(k)' <=> <<0, Needs(k)>> \in mined
  BY <1>1, MinedGrant
<1>3. IsAt(Target(0, k), Target(0, k) + 1) <=> <<0, Needs(k)>> \in mined
  <2>1. Target(0, k) + 1 = Needs(k) /\ Target(0, k) - (Target(0, k) + 1) + 1 = 0
    BY DEF Target, Needs, Grant
  <2>. QED  BY <2>1 DEF IsAt
<1>4. ~Took(k)
  <2>1. <<0, k>> \notin mined
    BY <1>1 DEF WireInv, Step, Grant
  <2>. QED  BY <2>1 DEF Took
<1>5. 4 \in Grant /\ 5 \in Grant /\ 6 \in Grant /\ 7 \in Grant /\ 8 \in Grant
  BY DEF Grant
<1>6. CASE <<0, Needs(k)>> \notin mined
  <2>1. UNCHANGED vars
    BY <1>3, <1>6 DEF Mine
  <2>2. UNCHANGED freshVars /\ UNCHANGED roleVars
    BY <2>1 DEF vars, tokenVars, registryVars, pohVars, lineVars, freshVars, roleVars
  <2>3. \A j \in Grant : Took(j)' <=> Took(j)
    BY <1>2, <1>4, <1>6
  <2>. QED  BY <1>1, <1>5, <2>2, <2>3, WiredStays, FreshStays
<1>7. CASE <<0, Needs(k)>> \in mined
  <2>1. Wire(k) /\ Took(k)'
    BY <1>2, <1>3, <1>7 DEF Mine, Grant
  <2>2. attestors = (IF Took(4) THEN {ATTESTOR_ADDRESS} ELSE {})
        /\ tokenRole = TokenRoleWired /\ lineRole = LineRoleWired
    BY <1>1 DEF Wired
  <2>3. CASE k = 4
    <3>1. UNCHANGED freshVars /\ UNCHANGED <<tokenRole, lineRole>>
          /\ attestors' = attestors \union {ATTESTOR_ADDRESS}
      BY <2>1, <2>3 DEF Wire, Creation, GrantAttestor, tokenVars, lineVars, freshVars
    <3>2. attestors' = {ATTESTOR_ADDRESS}
      BY <2>2, <3>1
    <3>3. TokenRoleWired' = TokenRoleWired /\ LineRoleWired' = LineRoleWired
      BY <1>2, <1>5, <2>3 DEF TokenRoleWired, LineRoleWired
    <3>. QED  BY <1>1, <2>1, <2>2, <2>3, <3>1, <3>2, <3>3, FreshStays DEF Wired
  <2>4. CASE k \in {5, 6}
    <3>1. UNCHANGED freshVars /\ UNCHANGED <<attestors, tokenRole>>
      BY <2>1, <2>4 DEF Wire, Creation, GrantLineRole, tokenVars, registryVars, pohVars, freshVars
    <3>2. lineRole' = IF k = 5 THEN [lineRole EXCEPT !["SCORER"] = @ \union {SCORER_ADDRESS}]
                      ELSE [lineRole EXCEPT !["SETTLEMENT"] = @ \union {LineAdmin}]
      BY <2>1, <2>4 DEF Wire, Creation, GrantLineRole
    <3>4. LineRoleWired' = lineRole'
      <4>1. CASE k = 5
        <5>1. Took(5)' /\ ~Took(5) /\ (Took(6)' <=> Took(6))
          BY <1>2, <1>4, <1>5, <2>1, <4>1
        <5>. QED  BY <2>2, <3>2, <4>1, <5>1 DEF LineRoleWired, LineRole
      <4>2. CASE k = 6
        <5>1. Took(6)' /\ ~Took(6) /\ (Took(5)' <=> Took(5))
          BY <1>2, <1>4, <1>5, <2>1, <4>2
        <5>. QED  BY <2>2, <3>2, <4>2, <5>1 DEF LineRoleWired, LineRole
      <4>. QED  BY <2>4, <4>1, <4>2
    <3>5. TokenRoleWired' = TokenRoleWired /\ (Took(4)' <=> Took(4))
      BY <1>2, <1>5, <2>4 DEF TokenRoleWired
    <3>. QED  BY <1>1, <2>2, <3>1, <3>4, <3>5, FreshStays DEF Wired
  <2>5. CASE k \in {7, 8}
    <3>1. UNCHANGED freshVars /\ UNCHANGED <<attestors, lineRole>>
      BY <2>1, <2>5 DEF Wire, Creation, GrantTokenRole, ledgerVars, registryVars, pohVars, lineVars, freshVars
    <3>2. tokenRole' = IF k = 7 THEN [tokenRole EXCEPT !["MINTER"] = @ \union {Line}]
                       ELSE [tokenRole EXCEPT !["BURNER"] = @ \union {Line}]
      BY <2>1, <2>5 DEF Wire, Creation, GrantTokenRole, GrantedRole
    <3>4. TokenRoleWired' = tokenRole'
      <4>1. CASE k = 7
        <5>1. Took(7)' /\ ~Took(7) /\ (Took(8)' <=> Took(8))
          BY <1>2, <1>4, <1>5, <2>1, <4>1
        <5>. QED  BY <2>2, <3>2, <4>1, <5>1 DEF TokenRoleWired, TokenRole
      <4>2. CASE k = 8
        <5>1. Took(8)' /\ ~Took(8) /\ (Took(7)' <=> Took(7))
          BY <1>2, <1>4, <1>5, <2>1, <4>2
        <5>. QED  BY <2>2, <3>2, <4>2, <5>1 DEF TokenRoleWired, TokenRole
      <4>. QED  BY <2>5, <4>1, <4>2
    <3>5. LineRoleWired' = LineRoleWired /\ (Took(4)' <=> Took(4))
      BY <1>2, <1>5, <2>5 DEF LineRoleWired
    <3>. QED  BY <1>1, <2>2, <3>1, <3>4, <3>5, FreshStays DEF Wired
  <2>. QED  BY <2>3, <2>4, <2>5 DEF Grant
<1>. QED  BY <1>6, <1>7

(* Whatever leaves the chain and the contracts alone, and stamps no blank. *)
LEMMA WireInvScript ==
  ASSUME WireInv, UNCHANGED <<chainVars, vars>>,
         begun' \subseteq Nat, Unused' => Unused
  PROVE  WireInv'
<1>1. UNCHANGED <<nonce, mined, freshVars, roleVars>>
  BY DEF chainVars, vars, tokenVars, registryVars, pohVars, lineVars, freshVars, roleVars
<1>2. /\ Took(4)' <=> Took(4)
      /\ Took(5)' <=> Took(5)
      /\ Took(6)' <=> Took(6)
      /\ Took(7)' <=> Took(7)
      /\ Took(8)' <=> Took(8)
  BY <1>1 DEF Took
<1>3. Unused' => (Fresh /\ Wired)'
  BY <1>1, <1>2, FreshStays, WiredStays DEF WireInv
<1>. QED  BY <1>1, <1>3 DEF WireInv

LEMMA WireInvStep ==
  DeployInv /\ WireInv /\ [DeployNext \/ ContractNext]_<<vars, deployVars>> => WireInv'
<1>. SUFFICES ASSUME DeployInv, WireInv, [DeployNext \/ ContractNext]_<<vars, deployVars>>
              PROVE  WireInv'
  OBVIOUS
<1>0. /\ nonce \in Nat /\ begun \subseteq Nat
      /\ env \in [Creation -> Nat \union {Blank}] /\ Blank \notin Nat
  BY KeyAssumption DEF WireInv, DeployInv
<1>1. ASSUME NEW b \in begun, NEW k \in Step, Mine(b, k) PROVE WireInv'
  <2>1. /\ UNCHANGED <<begun, json, env, script, stamped>>
        /\ nonce = b + k - 1 /\ nonce' = nonce + 1 /\ mined' = mined \union {<<b, k>>}
    BY <1>1 DEF Mine, scriptVars
  <2>2. ASSUME NEW j \in Step, <<0, j>> \in mined' PROVE j <= nonce'
    <3>1. CASE <<0, j>> \in mined
      BY <1>0, <2>1, <3>1 DEF WireInv, Step, Creation, Grant
    <3>2. CASE <<0, j>> = <<b, k>>
      BY <1>0, <2>1, <3>2 DEF Step, Creation, Grant
    <3>. QED  BY <2>1, <2>2, <3>1, <3>2
  <2>3. Unused' => Fresh' /\ Wired'
    <3>. SUFFICES ASSUME Unused PROVE Fresh' /\ Wired'
      BY <2>1 DEF Unused
    <3>1. CASE b # 0 \/ k \in Creation
      BY <1>1, <3>1, MineOther
    <3>2. CASE b = 0 /\ k \in Grant
      BY <1>1, <3>2, MineGrant
    <3>. QED  BY <3>1, <3>2 DEF Step
  <2>. QED  BY <1>0, <2>1, <2>2, <2>3 DEF WireInv
<1>2. CASE OtherTransaction
  <2>1. /\ UNCHANGED <<begun, json, env, script, stamped, mined, freshVars, roleVars>>
        /\ nonce' = nonce + 1
    BY <1>2 DEF OtherTransaction, scriptVars, vars, tokenVars, registryVars, pohVars, lineVars,
         freshVars, roleVars
  <2>2. /\ Took(4)' <=> Took(4)
        /\ Took(5)' <=> Took(5)
        /\ Took(6)' <=> Took(6)
        /\ Took(7)' <=> Took(7)
        /\ Took(8)' <=> Took(8)
    BY <2>1 DEF Took
  <2>3. Unused' => (Fresh /\ Wired)'
    BY <2>1, <2>2, FreshStays, WiredStays DEF WireInv, Unused
  <2>4. \A j \in Step : <<0, j>> \in mined' => j <= nonce'
    BY <1>0, <2>1 DEF WireInv, Step, Creation, Grant
  <2>. QED  BY <1>0, <2>1, <2>3, <2>4 DEF WireInv
<1>3. CASE Simulate
  <2>1. /\ begun' = begun \union {nonce} /\ json' = nonce /\ script' = "broadcast"
        /\ UNCHANGED <<env, chainVars, vars>>
    BY <1>3 DEF Simulate
  <2>. QED  BY <1>0, <2>1, WireInvScript DEF Unused
<1>4. CASE BroadcastEnds \/ CheckRoles \/ Stop
  <2>1. UNCHANGED <<begun, env, chainVars, vars>>
    BY <1>4 DEF BroadcastEnds, CheckRoles, Stop
  <2>. QED  BY <1>0, <2>1, WireInvScript DEF Unused
<1>5. CASE Stamp
  <2>1. UNCHANGED <<begun, chainVars, vars>> /\ env' = [env EXCEPT ![stamped + 1] = json + stamped]
    BY <1>5 DEF Stamp
  <2>2. stamped \in 0 .. 2 /\ json \in Nat
    BY <1>5 DEF Stamp, DeployInv
  <2>3. stamped + 1 \in Creation /\ json + stamped \in Nat
    BY <2>2 DEF Creation
  <2>4. env'[stamped + 1] # Blank
    BY <1>0, <2>1, <2>3
  <2>5. ~Unused'
    BY <2>3, <2>4 DEF Unused
  <2>. QED  BY <1>0, <2>1, <2>5, WireInvScript
<1>6. CASE ContractNext
  <2>1. env = FirstContracts /\ UNCHANGED deployVars
    BY <1>6 DEF ContractNext
  <2>2. 1 \in Creation /\ env[1] = 0
    BY <2>1 DEF FirstContracts, Creation
  <2>3. ~Unused /\ env' = env /\ begun' = begun /\ nonce' = nonce /\ mined' = mined
    BY <1>0, <2>1, <2>2 DEF Unused, deployVars, chainVars, scriptVars
  <2>. QED  BY <2>3 DEF WireInv, Unused
<1>7. CASE UNCHANGED <<vars, deployVars>>
  <2>1. UNCHANGED <<begun, env, chainVars, vars>>
    BY <1>7 DEF deployVars, scriptVars
  <2>. QED  BY <1>0, <2>1, WireInvScript DEF Unused
<1>. QED  BY <1>1, <1>2, <1>3, <1>4, <1>5, <1>6, <1>7 DEF DeployNext

(* Once the eight transactions of the first attempt are mined, with        *)
(* whatever was mined in between, the contracts it created are as          *)
(* CreditLine starts from: all that is proved of CreditLine's              *)
(* specification is about what Deploy.s.sol leaves.                        *)
THEOREM WiredContractsAreLineInit == DeploymentSpec => []WiredIsLineInit
<1>1. DeploymentSpec => [](DeployInv /\ WireInv)
  BY DeployInvInit, DeployInvStep, WireInvInit, WireInvStep, PTL DEF DeploymentSpec
<1>2. WireInv => WiredIsLineInit
  <2>. SUFFICES ASSUME WireInv, {0} \X Step \subseteq mined, Unused PROVE LineInit
    BY DEF WiredIsLineInit, Unused
  <2>1. \A k \in Grant : Took(k)
    BY DEF Took, Needs, Step, Creation, Grant
  <2>2. Took(4) /\ Took(5) /\ Took(6) /\ Took(7) /\ Took(8)
    BY <2>1 DEF Grant
  <2>3. Fresh /\ Wired
    BY DEF WireInv
  <2>4. attestors = Attestor
    BY <2>2, <2>3, KeyAssumption DEF Wired
  <2>5. tokenRole = [r \in TokenRole |-> IF r \in {"MINTER", "BURNER"} THEN {Line} ELSE {TokenAdmin}]
    BY <2>2, <2>3 DEF Wired, TokenRoleWired
  <2>6. lineRole = [r \in LineRole |-> IF r = "SCORER" THEN Scorer ELSE {LineAdmin}]
    BY <2>2, <2>3, KeyAssumption DEF Wired, LineRoleWired
  <2>. QED  BY <2>3, <2>4, <2>5, <2>6 DEF LineInit, Fresh
<1>. QED  BY <1>1, <1>2, PTL

---------------------------------------------------------------------------
(* Types: what the chain holds bounds what the script reads of it. *)

(* What is mined is of attempts begun, each step at its own nonce, so that *)
(* there is at most one for every nonce used; what the JSON and            *)
(* .env.local name was created.                                            *)
MinedSoFar ==
  /\ begun \subseteq 0 .. nonce
  /\ mined \subseteq begun \X Step
  /\ IsFiniteSet(mined) /\ Cardinality(mined) <= nonce
  /\ \A b \in begun, k \in Step : <<b, k>> \in mined => b + k <= nonce
ScriptTyped ==
  /\ json \in begun \union {Blank}
  /\ script \in {"off", "broadcast", "check", "stamp", "done"}
  /\ stamped \in 0 .. 3
DeployTypes ==
  /\ LineTypeOK /\ DeployInv /\ MinedSoFar /\ ScriptTyped

LEMMA DeployTyped == DeployTypes => DeployTypeOK
<1>. SUFFICES ASSUME DeployTypes PROVE DeployTypeOK
  OBVIOUS
<1>1. ASSUME NEW i \in Creation PROVE env[i] \in (0 .. nonce) \union {Blank}
  <2>. SUFFICES ASSUME env[i] # Blank PROVE env[i] \in 0 .. nonce
    OBVIOUS
  <2>. DEFINE b == env[i] - i + 1
  <2>1. b \in Nat /\ Whole(b) /\ env[i] \in Nat /\ i \in Nat /\ i \in Step
    BY DEF DeployTypes, DeployInv, Creation, Step
  <2>2. <<b, i>> \in mined
    BY <2>1 DEF Whole
  <2>3. b \in begun /\ b + i <= nonce
    BY <2>1, <2>2 DEF DeployTypes, MinedSoFar
  <2>4. nonce \in Nat
    BY DEF DeployTypes, DeployInv
  <2>. QED  BY <2>1, <2>3, <2>4
<1>2. env \in [Creation -> (0 .. nonce) \union {Blank}]
  BY <1>1 DEF DeployTypes, DeployInv
<1>. QED  BY <1>2 DEF DeployTypes, DeployInv, MinedSoFar, ScriptTyped, DeployTypeOK

(* One more transaction of an attempt begun. *)
LEMMA MinedGrows ==
  ASSUME MinedSoFar, nonce \in Nat, NEW b \in begun, NEW k \in Step,
         nonce = b + k - 1, nonce' = nonce + 1, mined' = mined \union {<<b, k>>}, begun' = begun
  PROVE  MinedSoFar'
<1>1. /\ begun \subseteq 0 .. nonce /\ mined \subseteq begun \X Step
      /\ IsFiniteSet(mined) /\ Cardinality(mined) <= nonce
      /\ \A c \in begun, j \in Step : <<c, j>> \in mined => c + j <= nonce
  BY DEF MinedSoFar
<1>2. b \in Nat /\ k \in Nat /\ begun \subseteq Nat /\ Step \subseteq Nat
  BY <1>1 DEF Step, Creation, Grant
<1>3. begun' \subseteq 0 .. nonce'
  BY <1>1, <1>2
<1>4. mined' \subseteq begun' \X Step
  BY <1>1
<1>5. IsFiniteSet(mined') /\ Cardinality(mined') <= nonce'
  <2>1. IsFiniteSet(mined \union {<<b, k>>})
        /\ \/ Cardinality(mined \union {<<b, k>>}) = Cardinality(mined)
           \/ Cardinality(mined \union {<<b, k>>}) = Cardinality(mined) + 1
    BY <1>1, FS_AddElement
  <2>2. Cardinality(mined) \in Nat
    BY <1>1, FS_CardinalityType
  <2>. QED  BY <1>1, <2>1, <2>2
<1>6. ASSUME NEW c \in begun, NEW j \in Step, <<c, j>> \in mined' PROVE c + j <= nonce'
  <2>1. CASE <<c, j>> \in mined
    <3>1. c + j <= nonce
      BY <1>1, <2>1
    <3>. QED  BY <1>2, <3>1
  <2>2. CASE <<c, j>> = <<b, k>>
    BY <1>2, <2>2
  <2>. QED  BY <1>6, <2>1, <2>2
<1>. QED  BY <1>3, <1>4, <1>5, <1>6 DEF MinedSoFar

(* Wiring gives roles to accounts that may hold them. *)
LEMMA WireTyped ==
  ASSUME LineTypeOK, NEW k \in Step, Wire(k)
  PROVE  LineTypeOK'
<1>1. CASE UNCHANGED vars
  BY <1>1 DEF LineTypeOK, TokenTypeOK, RegistryTypeOK, vars, tokenVars, registryVars, pohVars, lineVars
<1>2. CASE k = 4
  <2>1. GrantAttestor(ATTESTOR_ADDRESS) /\ UNCHANGED <<tokenVars, lineVars>>
    BY <1>1, <1>2 DEF Wire, Creation
  <2>2. RegistryTypeOK'
    BY <2>1, KeyAssumption DEF GrantAttestor, LineTypeOK, RegistryTypeOK
  <2>. QED  BY <2>1, <2>2 DEF LineTypeOK, TokenTypeOK, tokenVars, lineVars
<1>3. CASE k \in {5, 6}
  <2>1. PICK r \in {"SCORER", "SETTLEMENT"}, c \in Caller : GrantLineRole(r, c)
    BY <1>3, KeyAssumption, PartiesAssumption DEF Wire, Creation
  <2>2. lineRole' \in [LineRole -> SUBSET Caller]
    BY <2>1 DEF GrantLineRole, LineTypeOK, LineRole
  <2>3. TokenTypeOK' /\ RegistryTypeOK'
    BY <2>1 DEF GrantLineRole, LineTypeOK, TokenTypeOK, RegistryTypeOK, tokenVars, registryVars, pohVars
  <2>. QED  BY <2>1, <2>2, <2>3 DEF GrantLineRole, LineTypeOK
<1>4. CASE k \in {7, 8}
  <2>1. GrantTokenRole(LineAdmin, GrantedRole(k), Line) /\ UNCHANGED <<registryVars, lineVars>>
    BY <1>1, <1>4 DEF Wire, Creation
  <2>2. GrantedRole(k) \in TokenRole /\ Line \in RoleHolder
    BY <1>4, PartiesAssumption DEF GrantedRole, TokenRole, RoleHolder
  <2>3. TokenTypeOK'
    <3>1. tokenRole' = [tokenRole EXCEPT ![GrantedRole(k)] = @ \union {Line}]
      BY <2>1 DEF GrantTokenRole
    <3>2. tokenRole' \in [TokenRole -> SUBSET RoleHolder]
      BY <2>2, <3>1 DEF LineTypeOK, TokenTypeOK
    <3>. QED  BY <2>1, <3>2 DEF GrantTokenRole, ledgerVars, LineTypeOK, TokenTypeOK
  <2>. QED  BY <2>1, <2>3 DEF LineTypeOK, RegistryTypeOK, registryVars, pohVars, lineVars
<1>5. k \in Creation => UNCHANGED vars
  BY DEF Wire, Creation
<1>. QED  BY <1>1, <1>2, <1>3, <1>4, <1>5 DEF Step, Grant

LEMMA ContractTyped ==
  ASSUME LineTypeOK, ContractNext
  PROVE  LineTypeOK'
<1>1. CASE TokenNext /\ UNCHANGED <<registryVars, lineVars>>
  <2>1. TokenTypeOK'
    BY <1>1, TokenTypeStep DEF LineTypeOK
  <2>. QED  BY <1>1, <2>1 DEF LineTypeOK, RegistryTypeOK, registryVars, pohVars, lineVars
<1>2. CASE (RegistryNext \/ Tick) /\ UNCHANGED <<tokenVars, lineVars>>
  <2>1. RegistryTypeOK'
    BY <1>2, RegistryTypeStep DEF LineTypeOK
  <2>. QED  BY <1>2, <2>1 DEF LineTypeOK, TokenTypeOK, tokenVars, lineVars
<1>. QED  BY <1>1, <1>2 DEF ContractNext

LEMMA DeployTypesInit == DeployInit => DeployTypes
<1>. SUFFICES ASSUME DeployInit PROVE DeployTypes
  OBVIOUS
<1>1. DeployInv
  BY DeployInvInit
<1>2. RegistryTypeOK
  BY RegistryTypeInit DEF DeployInit, RegistryInit
<1>3. TokenTypeOK
  BY TokenTypeInit DEF DeployInit
<1>4. NoScore \in Score /\ NoLoan \in Loan
  BY DEF NoScore, Score, CreditTier, NoLoan, Loan
<1>5. scores \in [Borrower -> Score] /\ loans \in [Borrower -> Loan]
  BY <1>4 DEF DeployInit
<1>6. /\ consumedScoreNonces \in [Scorer -> SUBSET ScoreNonce]
      /\ treasury \in Treasury /\ linePaused \in BOOLEAN
      /\ lineRole \in [LineRole -> SUBSET Caller]
  BY PartiesAssumption DEF DeployInit
<1>7. originationFeeBps \in 0 .. MAX_FEE_BPS
  <2>1. DEFAULT_FEE_BPS \in Nat /\ DEFAULT_FEE_BPS <= MAX_FEE_BPS /\ MAX_FEE_BPS \in Nat
    BY ParameterAssumption
  <2>. QED  BY <2>1 DEF DeployInit
<1>8. LineTypeOK
  BY <1>2, <1>3, <1>5, <1>6, <1>7 DEF LineTypeOK
<1>9. MinedSoFar
  <2>1. mined = {} /\ begun = {} /\ nonce = 0
    BY DEF DeployInit
  <2>. QED  BY <2>1, FS_EmptySet DEF MinedSoFar
<1>10. ScriptTyped
  BY DEF DeployInit, ScriptTyped
<1>. QED  BY <1>1, <1>8, <1>9, <1>10 DEF DeployTypes

(* Where the contracts are left alone and nothing is mined. *)
LEMMA SameChain ==
  ASSUME LineTypeOK, MinedSoFar, UNCHANGED <<vars, mined>>, nonce \in Nat, nonce' \in Nat,
         nonce' >= nonce, begun' \subseteq begun \union {nonce'}, begun \subseteq begun',
         \A k \in Step : <<nonce', k>> \in mined => nonce' \in begun
  PROVE  LineTypeOK' /\ MinedSoFar'
<1>1. LineTypeOK'
  BY DEF LineTypeOK, TokenTypeOK, RegistryTypeOK, vars, tokenVars, registryVars, pohVars, lineVars
<1>2. /\ begun \subseteq 0 .. nonce /\ mined \subseteq begun \X Step
      /\ IsFiniteSet(mined) /\ Cardinality(mined) <= nonce
      /\ \A c \in begun, j \in Step : <<c, j>> \in mined => c + j <= nonce
  BY DEF MinedSoFar
<1>3. begun' \subseteq 0 .. nonce'
  BY <1>2
<1>4. mined' \subseteq begun' \X Step
  BY <1>2
<1>5. IsFiniteSet(mined') /\ Cardinality(mined') <= nonce'
  <2>1. Cardinality(mined) \in Nat
    BY <1>2, FS_CardinalityType
  <2>. QED  BY <1>2, <2>1
<1>6. ASSUME NEW c \in begun', NEW j \in Step, <<c, j>> \in mined' PROVE c + j <= nonce'
  <2>1. c \in begun
    BY <1>2, <1>6
  <2>2. c + j <= nonce
    BY <1>2, <1>6, <2>1
  <2>3. c \in Nat /\ j \in Nat
    <3>1. c \in 0 .. nonce
      BY <1>2, <2>1
    <3>. QED  BY <3>1 DEF Step, Creation, Grant
  <2>. QED  BY <2>2, <2>3
<1>7. MinedSoFar'
  BY <1>3, <1>4, <1>5, <1>6 DEF MinedSoFar
<1>. QED  BY <1>1, <1>7

LEMMA DeployTypesStep ==
  DeployTypes /\ [DeployNext \/ ContractNext]_<<vars, deployVars>> => DeployTypes'
<1>. SUFFICES ASSUME DeployTypes, [DeployNext \/ ContractNext]_<<vars, deployVars>>
              PROVE  DeployTypes'
  OBVIOUS
<1>0. /\ LineTypeOK /\ DeployInv /\ MinedSoFar /\ ScriptTyped
      /\ nonce \in Nat /\ nonce + 1 \in Nat /\ nonce + 1 >= nonce /\ nonce >= nonce
  BY DEF DeployTypes, DeployInv
<1>1. DeployInv'
  BY DeployInvStep DEF DeployTypes
<1>2. ASSUME NEW b \in begun, NEW k \in Step, Mine(b, k) PROVE DeployTypes'
  <2>1. UNCHANGED scriptVars /\ nonce = b + k - 1 /\ nonce' = nonce + 1
        /\ mined' = mined \union {<<b, k>>}
    BY <1>2 DEF Mine
  <2>2. ScriptTyped' /\ begun' = begun
    BY <1>0, <2>1 DEF scriptVars, ScriptTyped
  <2>3. MinedSoFar'
    BY <1>0, <2>1, <2>2, MinedGrows
  <2>4. Wire(k) \/ UNCHANGED vars
    BY <1>2 DEF Mine
  <2>5. LineTypeOK'
    <3>1. CASE Wire(k)
      BY <1>0, <3>1, WireTyped
    <3>2. CASE UNCHANGED vars
      BY <1>0, <3>2 DEF LineTypeOK, TokenTypeOK, RegistryTypeOK, vars, tokenVars, registryVars, pohVars, lineVars
    <3>. QED  BY <2>4, <3>1, <3>2
  <2>. QED  BY <1>1, <2>2, <2>3, <2>5 DEF DeployTypes
<1>3. CASE OtherTransaction
  <2>1. UNCHANGED <<vars, mined>> /\ UNCHANGED scriptVars /\ nonce' = nonce + 1
    BY <1>3 DEF OtherTransaction
  <2>2. begun' = begun /\ ScriptTyped'
    BY <1>0, <2>1 DEF scriptVars, ScriptTyped
  <2>3. \A k \in Step : <<nonce', k>> \in mined => nonce' \in begun
    BY <1>0 DEF MinedSoFar
  <2>4. LineTypeOK' /\ MinedSoFar'
    BY <1>0, <2>1, <2>2, <2>3, SameChain
  <2>. QED  BY <1>1, <2>2, <2>4 DEF DeployTypes
<1>4. CASE Simulate
  <2>1. /\ UNCHANGED <<vars, mined>> /\ nonce' = nonce
        /\ begun' = begun \union {nonce} /\ json' = nonce /\ script' = "broadcast" /\ stamped' = 0
    BY <1>4 DEF Simulate, chainVars
  <2>2. \A k \in Step : <<nonce', k>> \in mined => nonce' \in begun
    BY <1>0 DEF MinedSoFar
  <2>3. LineTypeOK' /\ MinedSoFar'
    BY <1>0, <2>1, <2>2, SameChain
  <2>4. ScriptTyped'
    BY <2>1 DEF ScriptTyped
  <2>. QED  BY <1>1, <2>3, <2>4 DEF DeployTypes
<1>5. CASE BroadcastEnds \/ CheckRoles \/ Stamp \/ Stop \/ UNCHANGED <<vars, deployVars>>
  <2>1. UNCHANGED <<vars, mined>> /\ nonce' = nonce /\ begun' = begun /\ json' = json
    BY <1>5 DEF BroadcastEnds, CheckRoles, Stamp, Stop, chainVars, scriptVars, deployVars
  <2>2. \A k \in Step : <<nonce', k>> \in mined => nonce' \in begun
    BY <1>0 DEF MinedSoFar
  <2>3. LineTypeOK' /\ MinedSoFar'
    BY <1>0, <2>1, <2>2, SameChain
  <2>4. stamped' \in 0 .. 3
    <3>1. CASE Stamp
      <4>1. stamped \in 0 .. 2 /\ stamped' = stamped + 1
        BY <1>0, <3>1 DEF Stamp, DeployInv
      <4>. QED  BY <4>1
    <3>. QED  BY <1>0, <1>5, <3>1 DEF BroadcastEnds, CheckRoles, Stop, scriptVars, deployVars, ScriptTyped
  <2>5. script' \in {"off", "broadcast", "check", "stamp", "done"}
    BY <1>0, <1>5 DEF BroadcastEnds, CheckRoles, Stamp, Stop, scriptVars, deployVars, ScriptTyped
  <2>6. ScriptTyped'
    BY <1>0, <2>1, <2>4, <2>5 DEF ScriptTyped
  <2>. QED  BY <1>1, <2>3, <2>6 DEF DeployTypes
<1>6. CASE ContractNext
  <2>1. UNCHANGED deployVars
    BY <1>6 DEF ContractNext
  <2>2. LineTypeOK'
    BY <1>0, <1>6, ContractTyped
  <2>3. MinedSoFar' /\ ScriptTyped'
    BY <1>0, <2>1 DEF deployVars, chainVars, scriptVars, MinedSoFar, ScriptTyped
  <2>. QED  BY <1>1, <2>2, <2>3 DEF DeployTypes
<1>. QED  BY <1>2, <1>3, <1>4, <1>5, <1>6 DEF DeployNext

(* The script, the chain it reads and the contracts it leaves stay well    *)
(* typed: no more is mined than the deployer has used nonces, and          *)
(* .env.local names only addresses of contracts that exist.                *)
THEOREM DeployTypeCorrect == DeploymentSpec => []DeployTypeOK
  BY DeployTyped, DeployTypesInit, DeployTypesStep, PTL DEF DeploymentSpec
=============================================================================
