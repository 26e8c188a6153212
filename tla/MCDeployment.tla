---------------------------- MODULE MCDeployment ----------------------------
(* Two runs of the script and one other transaction of the deployer; once  *)
(* the first deployment is stamped, the token and the registry in use.     *)
EXTENDS Deployment

CONSTANTS admin, alice, bob, line, scorer, attestor, n1, n2

MCAmount == 0 .. 2
MCTimestamp == 1 .. 3

(* The contracts share no variable: one at a time is put to use, and only  *)
(* in the state in which the first run of the script ends.                 *)
TokenUntouched ==
  /\ totalSupply = 0 /\ ~tokenPaused
  /\ \A a \in Account, s \in Spender : allowance[a][s] = 0
RegistryUntouched ==
  /\ \A a \in Attestor : consumedNonces[a] = {}
  /\ attestors = (IF {<<0, 2>>, <<0, 4>>} \subseteq mined THEN Attestor ELSE {})
InUse ==
  \/ TokenUntouched /\ RegistryUntouched
  \/ /\ TokenUntouched \/ RegistryUntouched
     /\ begun = {0} /\ script = "done" /\ nonce = 8

(* The line contract may mint and burn, the deployer administers, pauses   *)
(* and may be made a minter.                                               *)
RolesBounded ==
  /\ tokenRole["ADMIN"] \union tokenRole["PAUSER"] \subseteq {admin}
  /\ tokenRole["MINTER"] \subseteq {line, admin}
  /\ tokenRole["BURNER"] \subseteq {line}
=============================================================================
