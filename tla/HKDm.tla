------------------------------- MODULE HKDm -------------------------------
(***************************************************************************)
(* The HKDm stablecoin (contracts/src/HKDm.sol): an ERC-20 whose supply    *)
(* is created and destroyed by role holders only, and whose every balance  *)
(* change stops while it is paused.                                        *)
(*                                                                         *)
(* One action is one transaction: the EVM applies it whole or, when a      *)
(* guard fails (a revert), not at all. ERC20, ERC20Pausable and            *)
(* AccessControl are OpenZeppelin's; what HKDm inherits from them is       *)
(* marked external in the map. CreditLine extends this module and chains   *)
(* the ledger operators below inside one transaction of its own.           *)
(***************************************************************************)
EXTENDS Integers, FiniteSetsExt

CONSTANTS
  Account,      \* the addresses that hold tokens, zero address excluded
  Spender,      \* the addresses that are ever approved to spend for a holder
  TokenAdmin,   \* the constructor's admin
  Amount,       \* the token amounts transactions ask for
  MaxUint       \* the largest uint256: the overflow bound and the unlimited allowance

ASSUME AccountAssumption == IsFiniteSet(Account)   \* an address has 160 bits
ASSUME AmountAssumption == MaxUint \in Nat \ {0} /\ Amount \subseteq 0 .. MaxUint

VARIABLES
  balance,      \* balance[a]: tokens a holds
  allowance,    \* allowance[o][s]: what s may still move out of o's balance
  totalSupply,
  tokenPaused,
  tokenRole     \* tokenRole[r]: the accounts that hold role r

RoleHolder == Account \union Spender \union {TokenAdmin}

tokenVars == <<balance, allowance, totalSupply, tokenPaused, tokenRole>>
ledgerVars == <<balance, allowance, totalSupply>>

TokenRole == {"ADMIN", "PAUSER", "MINTER", "BURNER"}

TokenTypeOK ==
  /\ balance \in [Account -> Nat]
  /\ allowance \in [Account -> [Spender -> 0 .. MaxUint]]
  /\ totalSupply \in Int /\ totalSupply <= MaxUint
  /\ tokenPaused \in BOOLEAN
  /\ tokenRole \in [TokenRole -> SUBSET RoleHolder]

---------------------------------------------------------------------------
(* The ledger: what ERC20._mint, _burn, _transfer and _spendAllowance make *)
(* of the balances b and the allowances al they are given.                 *)

Minted(b, to, n) == [b EXCEPT ![to] = @ + n]
Burned(b, from, n) == [b EXCEPT ![from] = @ - n]

Moved(b, from, to, n) == Minted(Burned(b, from, n), to, n)

(* What the accounts hold together. *)
Held(b) == MapThenSumSet(LAMBDA a : b[a], Account)

CanSpend(al, owner, spender, n) == al[owner][spender] >= n
Spent(al, owner, spender, n) ==
  IF al[owner][spender] = MaxUint THEN al   \* an unlimited approval is not used up
  ELSE [al EXCEPT ![owner][spender] = @ - n]

---------------------------------------------------------------------------
TokenInit ==
  /\ balance = [a \in Account |-> 0]
  /\ allowance = [a \in Account |-> [s \in Spender |-> 0]]
  /\ totalSupply = 0
  /\ tokenPaused = FALSE
  /\ tokenRole = [r \in TokenRole |-> IF r \in {"ADMIN", "PAUSER"} THEN {TokenAdmin} ELSE {}]

Mint(minter, to, n) ==
  /\ minter \in tokenRole["MINTER"]
  /\ n # 0
  /\ ~tokenPaused
  /\ totalSupply + n <= MaxUint
  /\ balance' = Minted(balance, to, n)
  /\ totalSupply' = totalSupply + n
  /\ UNCHANGED <<allowance, tokenPaused, tokenRole>>

(* Faulty variant: an approval is spent without a look at it. *)
BurnFromUnapproved(burner, from, n) ==
  /\ burner \in tokenRole["BURNER"]
  /\ n # 0
  /\ ~tokenPaused
  /\ balance[from] >= n
  /\ allowance' = Spent(allowance, from, burner, n)
  /\ balance' = Burned(balance, from, n)
  /\ totalSupply' = totalSupply - n
  /\ UNCHANGED <<tokenPaused, tokenRole>>
BurnFrom(burner, from, n) ==
  /\ burner \in tokenRole["BURNER"]
  /\ n # 0
  /\ CanSpend(allowance, from, burner, n)
  /\ ~tokenPaused
  /\ balance[from] >= n
  /\ allowance' = Spent(allowance, from, burner, n)
  /\ balance' = Burned(balance, from, n)
  /\ totalSupply' = totalSupply - n
  /\ UNCHANGED <<tokenPaused, tokenRole>>

PauseToken(p) ==
  /\ p \in tokenRole["PAUSER"]
  /\ ~tokenPaused
  /\ tokenPaused' = TRUE
  /\ UNCHANGED <<ledgerVars, tokenRole>>

UnpauseToken(p) ==
  /\ p \in tokenRole["PAUSER"]
  /\ tokenPaused
  /\ tokenPaused' = FALSE
  /\ UNCHANGED <<ledgerVars, tokenRole>>

(* Faulty variant: a transfer that reads both balances before it writes    *)
(* either.                                                                 *)
TransferFromStaleReads(from, to, n) ==
  /\ ~tokenPaused
  /\ balance[from] >= n
  /\ balance' = [balance EXCEPT ![from] = balance[from] - n, ![to] = balance[to] + n]
  /\ UNCHANGED <<allowance, totalSupply, tokenPaused, tokenRole>>

Transfer(from, to, n) ==
  /\ ~tokenPaused
  /\ balance[from] >= n
  /\ balance' = Moved(balance, from, to, n)
  /\ UNCHANGED <<allowance, totalSupply, tokenPaused, tokenRole>>

TransferFrom(spender, from, to, n) ==
  /\ CanSpend(allowance, from, spender, n)
  /\ ~tokenPaused
  /\ balance[from] >= n
  /\ allowance' = Spent(allowance, from, spender, n)
  /\ balance' = Moved(balance, from, to, n)
  /\ UNCHANGED <<totalSupply, tokenPaused, tokenRole>>

(* approve, or permit with the owner's signature: neither is stopped by a pause *)
Approve(owner, spender, n) ==
  /\ allowance' = [allowance EXCEPT ![owner][spender] = n]
  /\ UNCHANGED <<balance, totalSupply, tokenPaused, tokenRole>>

GrantTokenRole(admin, r, a) ==
  /\ admin \in tokenRole["ADMIN"]
  /\ tokenRole' = [tokenRole EXCEPT ![r] = @ \union {a}]
  /\ UNCHANGED <<ledgerVars, tokenPaused>>

RevokeTokenRole(admin, r, a) ==
  /\ admin \in tokenRole["ADMIN"]
  /\ tokenRole' = [tokenRole EXCEPT ![r] = @ \ {a}]
  /\ UNCHANGED <<ledgerVars, tokenPaused>>

(* What holders do with their own tokens. *)
WalletNext ==
  \/ \E from, to \in Account, n \in Amount : Transfer(from, to, n)
  \/ \E owner \in Account, s \in Spender, n \in Amount \union {MaxUint} :
       Approve(owner, s, n)

TokenPauserNext == \E p \in RoleHolder : PauseToken(p) \/ UnpauseToken(p)

TokenNext ==
  \/ \E m \in RoleHolder, to \in Account, n \in Amount : Mint(m, to, n)
  \/ \E s \in Spender, from \in Account, n \in Amount : BurnFrom(s, from, n)
  \/ \E s \in Spender, from, to \in Account, n \in Amount : TransferFrom(s, from, to, n)
  \/ WalletNext
  \/ TokenPauserNext
  \/ \E admin, a \in RoleHolder, r \in TokenRole :
       GrantTokenRole(admin, r, a) \/ RevokeTokenRole(admin, r, a)

TokenSpec == TokenInit /\ [][TokenNext]_tokenVars

---------------------------------------------------------------------------
(* All HKDm in circulation is in somebody's balance: the two mints of a    *)
(* draw, the burns of both repayments, the interest that moves and the     *)
(* transfers never create or lose a token on the side.                     *)
SupplyIsHeld == totalSupply = Held(balance)

(* The supply falls only when a burner spends an approval the holder gave  *)
(* it: burnFrom takes the burnt amount from that holder and, unless the    *)
(* approval is unlimited, from the approval, so a burner has no power over *)
(* tokens it was not approved for.                                         *)
BurnIsApproved ==
  [][totalSupply' < totalSupply =>
       LET n == totalSupply - totalSupply' IN
       \E from \in Account, s \in tokenRole["BURNER"] :
         /\ balance' = Burned(balance, from, n)
         /\ allowance[from][s] >= n
         /\ allowance[from][s] # MaxUint => allowance'[from][s] = allowance[from][s] - n]_tokenVars

(* While the token is paused nobody's balance changes and none is created  *)
(* or destroyed, whichever function is called: mint, burnFrom and both     *)
(* transfers all reach the paused _update.                                 *)
PauseFreezesBalances ==
  [][tokenPaused => UNCHANGED <<balance, totalSupply>>]_tokenVars
===========================================================================
