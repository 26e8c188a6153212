----------------------------- MODULE Deployment -----------------------------
(***************************************************************************)
(* Bringing the contracts up: contracts/script/Deploy.s.sol, run by        *)
(* scripts/deploy-testnet.sh, which names the addresses in the app's       *)
(* .env.local.                                                             *)
(*                                                                         *)
(* forge simulates the script first: with the deployer's nonce at that     *)
(* time as base it fixes eight transactions, the addresses of the three    *)
(* contracts (which depend on nothing but the deployer and the nonce) and  *)
(* writes deployments/<chainId>.json. Only then are the transactions sent; *)
(* an attempt is therefore known by its base, and what an interrupted      *)
(* attempt left in the mempool may be mined while the next one runs, each  *)
(* transaction at its own nonce or never. The contracts at addresses 0, 1  *)
(* and 2 are those of HKDm, PoHRegistry and CreditLine; their transactions *)
(* become possible once the app's environment names them.                  *)
(***************************************************************************)
EXTENDS CreditLine
LOCAL INSTANCE FiniteSets

CONSTANTS
  ATTESTOR_ADDRESS, SCORER_ADDRESS,  \* the two keys the environment gives the script
  Blank,        \* no address: a JSON never written, an empty line of .env.local
  MaxAttempts,  \* bound: the runs of the script
  MaxOther      \* bound: the deployer's other transactions, failed ones included

ASSUME KeyAssumption ==
  /\ Attestor = {ATTESTOR_ADDRESS} /\ Scorer = {SCORER_ADDRESS}
  /\ TokenAdmin = LineAdmin
  /\ Blank \notin Nat

VARIABLES
  nonce,    \* the deployer's next nonce
  mined,    \* the steps that are on the chain: pairs of an attempt's base and a step
  begun,    \* the bases of the attempts simulated so far
  json,     \* the base of the deployment deployments/<chainId>.json describes
  env,      \* env[i]: the address .env.local has for the i-th contract
  script,   \* where deploy-testnet.sh is
  stamped   \* the keys update_env has written in this run

chainVars == <<nonce, mined>>
scriptVars == <<begun, json, env, script, stamped>>
deployVars == <<chainVars, scriptVars>>

(* The transactions of Deploy.run: three creations, then five grants.      *)
Creation == 1 .. 3
Grant == 4 .. 8
Step == Creation \union Grant

(* What the grant k of the attempt with base b calls, and what it grants.  *)
GrantedRole(k) ==
  CASE k = 4 -> "ATTESTOR" [] k = 5 -> "SCORER" [] k = 6 -> "SETTLEMENT"
    [] k = 7 -> "MINTER"   [] k = 8 -> "BURNER"
Target(b, k) ==
  CASE k = 4 -> b + 1 [] k \in {5, 6} -> b + 2 [] k \in {7, 8} -> b
Grantee(b, k) ==
  CASE k = 4 -> ATTESTOR_ADDRESS [] k = 5 -> SCORER_ADDRESS [] k = 6 -> LineAdmin
    [] k \in {7, 8} -> b + 2

(* The i-th contract is at address a; there is a contract there at all.    *)
IsAt(a, i) == <<a - i + 1, i>> \in mined
HasCode(a) == \E i \in Creation : IsAt(a, i)

(* AccessControl is the same in the three contracts: whichever is at a     *)
(* takes the grant, its admin being the deployer.                          *)
HasRole(a, role, account) ==
  /\ HasCode(a)
  /\ \E t \in mined : /\ t[2] \in Grant
                      /\ Target(t[1], t[2]) = a
                      /\ GrantedRole(t[2]) = role
                      /\ Grantee(t[1], t[2]) = account

FirstContracts == [i \in Creation |-> i - 1]

DeployTypeOK ==
  /\ LineTypeOK
  /\ nonce \in Nat
  /\ begun \subseteq 0 .. nonce
  /\ mined \subseteq begun \X Step
  /\ Cardinality(mined) <= nonce
  /\ json \in begun \union {Blank}
  /\ env \in [Creation -> (0 .. nonce) \union {Blank}]
  /\ script \in {"off", "broadcast", "check", "stamp", "done"}
  /\ stamped \in 0 .. 3

---------------------------------------------------------------------------
DeployInit ==
  /\ TokenInit
  /\ RegistryInit
  /\ scores = [b \in Borrower |-> NoScore]
  /\ loans = [b \in Borrower |-> NoLoan]
  /\ consumedScoreNonces = [s \in Scorer |-> {}]
  /\ treasury = DeployTreasury
  /\ originationFeeBps = DEFAULT_FEE_BPS
  /\ linePaused = FALSE
  /\ lineRole = [r \in LineRole |-> IF r \in {"ADMIN", "PAUSER"} THEN {LineAdmin} ELSE {}]
  /\ nonce = 0 /\ mined = {} /\ begun = {}
  /\ json = Blank /\ env = [i \in Creation |-> Blank]
  /\ script = "off" /\ stamped = 0

(* Faulty variant: both roles of the token granted as the minter's.        *)
WireMinterTwice(k) ==
  \/ k \in Creation /\ UNCHANGED vars
  \/ k = 4 /\ GrantAttestor(ATTESTOR_ADDRESS) /\ UNCHANGED <<tokenVars, lineVars>>
  \/ k = 5 /\ GrantLineRole("SCORER", SCORER_ADDRESS)
  \/ k = 6 /\ GrantLineRole("SETTLEMENT", LineAdmin)
  \/ /\ k \in {7, 8} /\ GrantTokenRole(LineAdmin, "MINTER", Line)
     /\ UNCHANGED <<registryVars, lineVars>>

(* What a step of the first attempt does to the contracts it calls.        *)
Wire(k) ==
  \/ k \in Creation /\ UNCHANGED vars
  \/ k = 4 /\ GrantAttestor(ATTESTOR_ADDRESS) /\ UNCHANGED <<tokenVars, lineVars>>
  \/ k = 5 /\ GrantLineRole("SCORER", SCORER_ADDRESS)
  \/ k = 6 /\ GrantLineRole("SETTLEMENT", LineAdmin)
  \/ /\ k \in {7, 8} /\ GrantTokenRole(LineAdmin, GrantedRole(k), Line)
     /\ UNCHANGED <<registryVars, lineVars>>

---------------------------------------------------------------------------
(* The chain. *)

Mine(b, k) ==
  /\ nonce = b + k - 1
  /\ nonce' = nonce + 1
  /\ mined' = mined \union {<<b, k>>}
  /\ IF b = 0 /\ (k \in Grant => IsAt(Target(b, k), Target(b, k) + 1))
     THEN Wire(k) ELSE UNCHANGED vars
  /\ UNCHANGED scriptVars

(* A transaction sent by hand, or one of a step that failed on the chain.  *)
OtherTransaction ==
  /\ nonce - Cardinality(mined) < MaxOther
  /\ nonce' = nonce + 1
  /\ UNCHANGED <<mined, scriptVars, vars>>

---------------------------------------------------------------------------
(* deploy-testnet.sh. `set -e`: whatever fails, it stops there. *)

(* forge runs Deploy.run on the state it finds. *)
Simulate ==
  /\ script \in {"off", "done"}
  /\ Cardinality(begun) < MaxAttempts
  /\ begun' = begun \union {nonce}
  /\ json' = nonce
  /\ script' = "broadcast" /\ stamped' = 0
  /\ UNCHANGED <<env, chainVars, vars>>

(* Faulty variant: a broadcast that failed is not noticed. *)
BroadcastEndsAnyhow ==
  /\ script = "broadcast"
  /\ script' = "check"
  /\ UNCHANGED <<begun, json, env, stamped, chainVars, vars>>

(* forge --broadcast exits with 0 after the receipts of all it has sent. *)
BroadcastEnds ==
  /\ script = "broadcast"
  /\ {json} \X Step \subseteq mined
  /\ script' = "check"
  /\ UNCHANGED <<begun, json, env, stamped, chainVars, vars>>

(* The four roles asked for, at the addresses the JSON names. *)
CheckRoles ==
  /\ script = "check"
  /\ HasRole(json, "MINTER", json + 2)
  /\ HasRole(json, "BURNER", json + 2)
  /\ HasRole(json + 1, "ATTESTOR", ATTESTOR_ADDRESS)
  /\ HasRole(json + 2, "SCORER", SCORER_ADDRESS)
  /\ script' = "stamp"
  /\ UNCHANGED <<begun, json, env, stamped, chainVars, vars>>

(* One update_env; after the last, "Done". *)
Stamp ==
  /\ script = "stamp"
  /\ stamped' = stamped + 1
  /\ env' = [env EXCEPT ![stamped + 1] = json + stamped]
  /\ script' = IF stamped' = 3 THEN "done" ELSE "stamp"
  /\ UNCHANGED <<begun, json, chainVars, vars>>

(* An error, a failing forge or check among them, or Ctrl-C. *)
Stop ==
  /\ script \in {"broadcast", "check", "stamp"}
  /\ script' = "off"
  /\ UNCHANGED <<begun, json, env, stamped, chainVars, vars>>

DeployNext ==
  \/ \E b \in begun, k \in Step : Mine(b, k)
  \/ OtherTransaction
  \/ Simulate \/ BroadcastEnds \/ CheckRoles \/ Stamp \/ Stop

(* The token and the registry in use, their roles granted and revoked at   *)
(* will; CreditLine's transactions are that module's.                      *)
ContractNext ==
  /\ env = FirstContracts
  /\ \/ TokenNext /\ UNCHANGED <<registryVars, lineVars>>
     \/ (RegistryNext \/ Tick) /\ UNCHANGED <<tokenVars, lineVars>>
  /\ UNCHANGED deployVars

DeploymentSpec ==
  DeployInit /\ [][DeployNext \/ ContractNext]_<<vars, deployVars>>

---------------------------------------------------------------------------
(* The app is never pointed at anything but whole deployments: an address  *)
(* in .env.local is that of the contract it is named for, created and      *)
(* wired by one attempt with all its grants; and once the script says Done *)
(* the three are the contracts of the attempt it made. This holds          *)
(* for any mix of interrupted attempts' transactions, although the roles   *)
(* the script checks would also be found at the wrong contract.            *)
EnvNamesWiredDeployment ==
  /\ \A i \in Creation :
       env[i] # Blank => IsAt(env[i], i) /\ {env[i] - i + 1} \X Step \subseteq mined
  /\ script = "done" => env = [i \in Creation |-> json + i - 1]

(* The eight transactions of Deploy.run leave the contracts in the state   *)
(* CreditLine starts from: the one minter and burner is the line, the      *)
(* attestor and the scorer hold their roles, nobody else any.              *)
WiredIsLineInit ==
  {0} \X Step \subseteq mined /\ (\A i \in Creation : env[i] = Blank) => LineInit
=============================================================================
