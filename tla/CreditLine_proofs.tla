------------------------- MODULE CreditLine_proofs -------------------------
(***************************************************************************)
(* Proofs about the contracts: sums over the balances, the token, the      *)
(* registry, and the credit line that calls both.                          *)
(***************************************************************************)
EXTENDS CreditLine, FiniteSetTheorems, TLAPS

(***************************************************************************)
(* Sums. The induction lemmas take a property as the set of what has it.   *)
(***************************************************************************)
(* Induction over the subsets of a finite set, the property given as the   *)
(* set of those that have it.                                              *)
LEMMA SubsetInduction ==
  ASSUME NEW S, IsFiniteSet(S), NEW Good,
         \A T \in SUBSET S : (\A x \in T : T \ {x} \in Good) => T \in Good
  PROVE  \A T \in SUBSET S : T \in Good
<1>. DEFINE Bad == {T \in SUBSET S : T \notin Good}
<1>. SUFFICES ASSUME Bad # {} PROVE FALSE
  OBVIOUS
<1>1. IsWellFoundedOn(StrictSubsetOrdering(S), SUBSET S)
  <2>1. FiniteSubsetsOf(S) = SUBSET S
    BY FS_FiniteSubsetsOfFinite
  <2>2. IsWellFoundedOn(StrictSubsetOrdering(S), FiniteSubsetsOf(S))
    BY FS_StrictSubsetOrderingWellFounded
  <2>. QED  BY <2>1, <2>2
<1>2. Bad \subseteq SUBSET S
  OBVIOUS
<1>3. \E T \in Bad : \A U \in Bad : ~(<<U, T>> \in StrictSubsetOrdering(S))
  <2>. HIDE DEF Bad
  <2>. QED  BY <1>1, <1>2, WFMin
<1>4. PICK T \in Bad : \A U \in Bad : ~(<<U, T>> \in StrictSubsetOrdering(S))
  BY <1>3
<1>5. ASSUME NEW x \in T PROVE T \ {x} \in Good
  <2>1. T \ {x} \in SUBSET S /\ T \ {x} # T /\ T \in SUBSET S
    BY <1>5
  <2>2. <<T \ {x}, T>> \in StrictSubsetOrdering(S)
    BY <2>1 DEF StrictSubsetOrdering
  <2>3. T \ {x} \notin Bad
    BY <1>4, <2>2
  <2>. QED  BY <2>1, <2>3
<1>. QED  BY <1>4, <1>5

(* Induction over the natural numbers, the property given in the same way. *)
LEMMA NaturalsInSet ==
  ASSUME NEW Good, 0 \in Good, \A n \in Nat : n \in Good => n + 1 \in Good
  PROVE  \A n \in Nat : n \in Good
<1>. DEFINE Bad == {n \in Nat : n \notin Good}
            Less == OpToRel(<, Nat)
<1>. SUFFICES ASSUME Bad # {} PROVE FALSE
  OBVIOUS
<1>1. Bad \subseteq Nat /\ IsWellFoundedOn(Less, Nat)
  BY NatLessThanWellFounded
<1>2. \E n \in Bad : \A m \in Bad : ~(<<m, n>> \in Less)
  <2>. HIDE DEF Bad, Less
  <2>. QED  BY <1>1, WFMin
<1>3. PICK n \in Bad : \A m \in Bad : ~(<<m, n>> \in Less)
  BY <1>2
<1>4. n \in Nat \ {0} /\ n - 1 \in Nat
  OBVIOUS
<1>5. <<n - 1, n>> \in Less
  BY <1>4 DEF OpToRel
<1>6. n - 1 \in Good
  BY <1>3, <1>4, <1>5
<1>. QED  BY <1>4, <1>6

(* The sum of b over the members of T, and the equation that defines it. *)
SumOf(b, T) == MapThenSumSet(LAMBDA a : b[a], T)
SumEquation(g, b, S) ==
  g = [T \in SUBSET S |->
         IF T = {} THEN 0 ELSE LET x == CHOOSE x \in T : TRUE IN b[x] + g[T \ {x}]]

LEMMA SumIsChosen ==
  ASSUME NEW S, NEW b
  PROVE SumOf(b, S) = (CHOOSE g : SumEquation(g, b, S))[S]
BY DEF SumOf, MapThenSumSet, MapThenFoldSet, SumEquation

(* There is such a function: the subsets of at most n elements, one size   *)
(* after the other.                                                        *)
PartialSum(g, b, S, n) ==
  \A T \in SUBSET S : Cardinality(T) <= n =>
    /\ g[T] \in Int
    /\ g[T] = IF T = {} THEN 0 ELSE LET x == CHOOSE x \in T : TRUE IN b[x] + g[T \ {x}]

LEMMA SumExists ==
  ASSUME NEW S, IsFiniteSet(S), NEW b \in [S -> Int]
  PROVE  \E g \in [SUBSET S -> Int] : SumEquation(g, b, S)
<1>. DEFINE Good == {n \in Nat : \E g : PartialSum(g, b, S, n)}
<1>1. \A T \in SUBSET S : Cardinality(T) \in Nat /\ (Cardinality(T) = 0 <=> T = {})
  BY FS_CardinalityType, FS_Subset, FS_EmptySet
<1>2. \A T \in SUBSET S : \A x \in T : Cardinality(T \ {x}) = Cardinality(T) - 1
  BY FS_RemoveElement, FS_Subset
<1>3. 0 \in Good
  <2>. DEFINE g == [T \in SUBSET S |-> 0]
  <2>1. PartialSum(g, b, S, 0)
    BY <1>1 DEF PartialSum
  <2>. QED  BY <2>1
<1>4. ASSUME NEW n \in Good PROVE n + 1 \in Good
  <2>1. PICK g : PartialSum(g, b, S, n)
    OBVIOUS
  <2>. DEFINE h == [T \in SUBSET S |-> IF Cardinality(T) <= n THEN g[T]
                                        ELSE LET x == CHOOSE x \in T : TRUE IN b[x] + g[T \ {x}]]
  <2>2. ASSUME NEW T \in SUBSET S, Cardinality(T) <= n + 1
        PROVE  /\ h[T] \in Int
               /\ h[T] = IF T = {} THEN 0 ELSE LET x == CHOOSE x \in T : TRUE IN b[x] + h[T \ {x}]
    <3>1. CASE T = {}
      <4>1. Cardinality(T) = 0 /\ h[T] = g[T] /\ g[T] = 0
        BY <1>1, <2>1, <3>1 DEF PartialSum
      <4>. QED  BY <3>1, <4>1
    <3>2. CASE T # {}
      <4>. DEFINE x == CHOOSE x \in T : TRUE
      <4>1. x \in T /\ x \in S
        BY <3>2
      <4>. HIDE DEF x
      <4>2. Cardinality(T \ {x}) <= n /\ T \ {x} \in SUBSET S
        BY <1>1, <1>2, <2>2, <4>1
      <4>3. h[T \ {x}] = g[T \ {x}] /\ g[T \ {x}] \in Int
        BY <2>1, <4>2 DEF PartialSum
      <4>4. h[T] = b[x] + g[T \ {x}]
        BY <2>1, <2>2, <3>2 DEF PartialSum, x
      <4>. QED  BY <3>2, <4>1, <4>3, <4>4 DEF x
    <3>. QED  BY <3>1, <3>2
  <2>3. PartialSum(h, b, S, n + 1)
    BY <2>2 DEF PartialSum
  <2>. QED  BY <2>3
<1>5. \A n \in Nat : n \in Good
  <2>1. \A n \in Nat : n \in Good => n + 1 \in Good
    BY <1>4
  <2>. HIDE DEF Good
  <2>. QED  BY <1>3, <2>1, NaturalsInSet
<1>6. PICK g : PartialSum(g, b, S, Cardinality(S))
  BY <1>1, <1>5, S \in SUBSET S
<1>7. \A T \in SUBSET S : Cardinality(T) <= Cardinality(S)
  BY FS_Subset
<1>. DEFINE h == [T \in SUBSET S |-> g[T]]
<1>8. h \in [SUBSET S -> Int]
  BY <1>6, <1>7 DEF PartialSum
<1>9. ASSUME NEW T \in SUBSET S
      PROVE  h[T] = IF T = {} THEN 0 ELSE LET x == CHOOSE x \in T : TRUE IN b[x] + h[T \ {x}]
  BY <1>6, <1>7 DEF PartialSum
<1>10. SumEquation(h, b, S)
  BY <1>9 DEF SumEquation
<1>. QED  BY <1>8, <1>10

(* What satisfies the equation is a sum, whichever element one starts with. *)
IsSum(g, b, S) ==
  /\ g[{}] = 0
  /\ \A T \in SUBSET S : g[T] \in Int
  /\ \A T \in SUBSET S : \A x \in T : g[T] = b[x] + g[T \ {x}]

LEMMA SumTaken ==
  ASSUME NEW S, IsFiniteSet(S), NEW b \in [S -> Int], NEW g, SumEquation(g, b, S)
  PROVE  IsSum(g, b, S)
<1>1. \A T \in SUBSET S :
        g[T] = IF T = {} THEN 0 ELSE LET x == CHOOSE x \in T : TRUE IN b[x] + g[T \ {x}]
  BY DEF SumEquation
<1>2. g[{}] = 0
  BY <1>1
<1>3. \A T \in SUBSET S : g[T] \in Int
  <2>. DEFINE Good == {T \in SUBSET S : g[T] \in Int}
  <2>1. ASSUME NEW T \in SUBSET S, \A x \in T : T \ {x} \in Good PROVE T \in Good
    <3>1. CASE T # {}
      <4>. DEFINE x == CHOOSE z \in T : TRUE
      <4>1. x \in T /\ g[T] = b[x] + g[T \ {x}]
        BY <1>1, <3>1
      <4>. HIDE DEF x
      <4>2. b[x] \in Int /\ g[T \ {x}] \in Int
        BY <2>1, <4>1
      <4>. QED  BY <4>1, <4>2
    <3>. QED  BY <1>2, <3>1
  <2>. HIDE DEF Good
  <2>2. \A T \in SUBSET S : T \in Good
    BY <2>1, SubsetInduction
  <2>. QED  BY <2>2 DEF Good
<1>. DEFINE Good == {T \in SUBSET S : \A x \in T : g[T] = b[x] + g[T \ {x}]}
<1>4. ASSUME NEW T \in SUBSET S, \A x \in T : T \ {x} \in Good, NEW x \in T
      PROVE  g[T] = b[x] + g[T \ {x}]
  <2>. DEFINE y == CHOOSE z \in T : TRUE
  <2>1. y \in T /\ g[T] = b[y] + g[T \ {y}]
    BY <1>1
  <2>. HIDE DEF y
  <2>2. CASE x # y
    <3>1. (T \ {x}) \ {y} = (T \ {y}) \ {x}
      OBVIOUS
    <3>2. g[T \ {y}] = b[x] + g[(T \ {y}) \ {x}] /\ g[T \ {x}] = b[y] + g[(T \ {x}) \ {y}]
      BY <1>4, <2>1, <2>2
    <3>3. g[(T \ {y}) \ {x}] \in Int /\ b[x] \in Int /\ b[y] \in Int
      BY <1>3, <2>1
    <3>4. g[T] = b[y] + (b[x] + g[(T \ {y}) \ {x}]) /\ g[T \ {x}] = b[y] + g[(T \ {y}) \ {x}]
      BY <2>1, <3>1, <3>2
    <3>. QED  BY <3>3, <3>4
  <2>. QED  BY <2>1, <2>2
<1>5. \A T \in SUBSET S : T \in Good
  <2>1. ASSUME NEW T \in SUBSET S, \A x \in T : T \ {x} \in Good PROVE T \in Good
    BY <1>4, <2>1
  <2>. HIDE DEF Good
  <2>. QED  BY <2>1, SubsetInduction
<1>. QED  BY <1>2, <1>3, <1>5 DEF IsSum

(* Hence the sum itself: over S, with x left out, and with b[x] changed.   *)
LEMMA SumIsRecursive ==
  ASSUME NEW S, IsFiniteSet(S), NEW b \in [S -> Int]
  PROVE  \E g : IsSum(g, b, S) /\ SumOf(b, S) = g[S]
<1>1. \E g : SumEquation(g, b, S)
  BY SumExists
<1>2. SumEquation(CHOOSE g : SumEquation(g, b, S), b, S)
  BY <1>1
<1>3. IsSum(CHOOSE g : SumEquation(g, b, S), b, S)
  BY <1>2, SumTaken
<1>. QED  BY <1>3, SumIsChosen

LEMMA SumType ==
  ASSUME NEW S, IsFiniteSet(S), NEW b \in [S -> Int]
  PROVE  SumOf(b, S) \in Int
<1>1. PICK g : IsSum(g, b, S) /\ SumOf(b, S) = g[S]
  BY SumIsRecursive
<1>. QED  BY <1>1 DEF IsSum

LEMMA SumChanged ==
  ASSUME NEW S, IsFiniteSet(S), NEW b \in [S -> Int], NEW c \in [S -> Int], NEW x \in S,
         \A y \in S \ {x} : c[y] = b[y]
  PROVE  SumOf(c, S) = SumOf(b, S) - b[x] + c[x]
<1>1. \A y \in S : y # x => c[y] = b[y]
  OBVIOUS
<1>2. PICK g : IsSum(g, b, S) /\ SumOf(b, S) = g[S]
  BY SumIsRecursive
<1>3. PICK h : IsSum(h, c, S) /\ SumOf(c, S) = h[S]
  BY <1>1, SumIsRecursive
<1>4. /\ g[{}] = 0
      /\ \A T \in SUBSET S : g[T] \in Int
      /\ \A T \in SUBSET S : \A y \in T : g[T] = b[y] + g[T \ {y}]
  BY <1>2 DEF IsSum
<1>5. /\ h[{}] = 0
      /\ \A T \in SUBSET S : h[T] \in Int
      /\ \A T \in SUBSET S : \A y \in T : h[T] = c[y] + h[T \ {y}]
  BY <1>3 DEF IsSum
<1>. DEFINE Good == {T \in SUBSET S : x \notin T => g[T] = h[T]}
<1>6. ASSUME NEW T \in SUBSET S, \A y \in T : T \ {y} \in Good
      PROVE  T \in Good
  <2>1. CASE T = {}
    BY <1>4, <1>5, <2>1
  <2>2. CASE T # {} /\ x \notin T
    <3>1. PICK y \in T : TRUE
      BY <2>2
    <3>2. g[T] = b[y] + g[T \ {y}] /\ h[T] = c[y] + h[T \ {y}] /\ b[y] = c[y]
      BY <1>1, <1>4, <1>5, <2>2, <3>1
    <3>3. g[T \ {y}] = h[T \ {y}]
      BY <1>6, <2>2, <3>1
    <3>. QED  BY <3>2, <3>3
  <2>3. CASE x \in T
    BY <2>3
  <2>. QED  BY <2>1, <2>2, <2>3
<1>7. \A T \in SUBSET S : T \in Good
  <2>. HIDE DEF Good
  <2>. QED  BY <1>6, SubsetInduction
<1>8. g[S \ {x}] = h[S \ {x}] /\ g[S \ {x}] \in Int
  BY <1>4, <1>7
<1>9. g[S] = b[x] + g[S \ {x}] /\ h[S] = c[x] + h[S \ {x}]
  BY <1>1, <1>4, <1>5
<1>. QED  BY <1>2, <1>3, <1>8, <1>9

LEMMA SumOfZeroes ==
  ASSUME NEW S, IsFiniteSet(S)
  PROVE  SumOf([x \in S |-> 0], S) = 0
<1>. DEFINE b == [x \in S |-> 0]
<1>1. b \in [S -> Int] /\ \A x \in S : b[x] = 0
  OBVIOUS
<1>. HIDE DEF b
<1>2. PICK g : IsSum(g, b, S) /\ SumOf(b, S) = g[S]
  BY <1>1, SumIsRecursive
<1>3. g[{}] = 0 /\ \A T \in SUBSET S : \A x \in T : g[T] = b[x] + g[T \ {x}]
  BY <1>2 DEF IsSum
<1>. DEFINE Good == {T \in SUBSET S : g[T] = 0}
<1>4. ASSUME NEW T \in SUBSET S, \A x \in T : T \ {x} \in Good PROVE T \in Good
  <2>1. CASE T = {}
    BY <1>3, <2>1
  <2>2. ASSUME NEW x \in T PROVE T \in Good
    <3>1. g[T] = b[x] + g[T \ {x}] /\ b[x] = 0 /\ g[T \ {x}] = 0
      BY <1>1, <1>3, <1>4, <2>2
    <3>. QED  BY <3>1
  <2>. QED  BY <2>1, <2>2
<1>5. \A T \in SUBSET S : T \in Good
  <2>. HIDE DEF Good
  <2>. QED  BY <1>4, SubsetInduction
<1>6. SumOf(b, S) = 0
  BY <1>2, <1>5
<1>. QED  BY <1>6 DEF b

(* Of natural numbers, none exceeds the sum. *)
LEMMA SumBounds ==
  ASSUME NEW S, IsFiniteSet(S), NEW b \in [S -> Nat], NEW x \in S
  PROVE  b[x] <= SumOf(b, S)
<1>0. b \in [S -> Int]
  OBVIOUS
<1>1. PICK g : IsSum(g, b, S) /\ SumOf(b, S) = g[S]
  BY <1>0, SumIsRecursive
<1>2. g[{}] = 0 /\ \A T \in SUBSET S : \A y \in T : g[T] = b[y] + g[T \ {y}]
  BY <1>1 DEF IsSum
<1>. DEFINE Good == {T \in SUBSET S : g[T] \in Nat}
<1>3. ASSUME NEW T \in SUBSET S, \A y \in T : T \ {y} \in Good PROVE T \in Good
  <2>1. CASE T = {}
    BY <1>2, <2>1
  <2>2. ASSUME NEW y \in T PROVE T \in Good
    <3>1. g[T] = b[y] + g[T \ {y}] /\ b[y] \in Nat /\ g[T \ {y}] \in Nat
      BY <1>2, <1>3, <2>2
    <3>. QED  BY <3>1
  <2>. QED  BY <2>1, <2>2
<1>4. \A T \in SUBSET S : T \in Good
  <2>. HIDE DEF Good
  <2>. QED  BY <1>3, SubsetInduction
<1>5. g[S \ {x}] \in Nat /\ g[S] = b[x] + g[S \ {x}] /\ b[x] \in Nat
  BY <1>2, <1>4
<1>. QED  BY <1>1, <1>5

---------------------------------------------------------------------------
(***************************************************************************)
(* The token. The lemmas about the ledger operators are stated for any     *)
(* ledger, because one transaction of the line applies several of them.    *)
(***************************************************************************)
LEMMA MintedType ==
  ASSUME NEW b \in [Account -> Nat], NEW to \in Account, NEW n \in Nat
  PROVE  Minted(b, to, n) \in [Account -> Nat]
  BY DEF Minted

LEMMA BurnedType ==
  ASSUME NEW b \in [Account -> Nat], NEW from \in Account, NEW n \in Nat, b[from] >= n
  PROVE  Burned(b, from, n) \in [Account -> Nat]
  BY DEF Burned

LEMMA MovedType ==
  ASSUME NEW b \in [Account -> Nat], NEW from \in Account, NEW to \in Account,
         NEW n \in Nat, b[from] >= n
  PROVE  Moved(b, from, to, n) \in [Account -> Nat]
  BY MintedType, BurnedType DEF Moved

LEMMA SpentType ==
  ASSUME NEW al \in [Account -> [Spender -> 0 .. MaxUint]],
         NEW owner \in Account, NEW s \in Spender, NEW n \in Nat,
         CanSpend(al, owner, s, n)
  PROVE  Spent(al, owner, s, n) \in [Account -> [Spender -> 0 .. MaxUint]]
<1>1. al[owner][s] - n \in 0 .. MaxUint
  BY AmountAssumption DEF CanSpend
<1> QED
  BY <1>1 DEF Spent

(* What holders and the pauser do keeps the token well typed. *)
LEMMA HolderTypeStep ==
  ASSUME TokenTypeOK, WalletNext \/ TokenPauserNext \/ UNCHANGED tokenVars
  PROVE  TokenTypeOK'
<1> USE AmountAssumption
<1>1. ASSUME NEW from \in Account, NEW to \in Account, NEW n \in Amount, Transfer(from, to, n)
      PROVE  TokenTypeOK'
  BY <1>1, MovedType DEF Transfer, TokenTypeOK
<1>2. ASSUME NEW owner \in Account, NEW s \in Spender, NEW n \in Amount \union {MaxUint},
             Approve(owner, s, n)
      PROVE  TokenTypeOK'
  BY <1>2 DEF Approve, TokenTypeOK
<1>3. ASSUME NEW p \in RoleHolder, PauseToken(p) \/ UnpauseToken(p)
      PROVE  TokenTypeOK'
  BY <1>3 DEF PauseToken, UnpauseToken, TokenTypeOK, ledgerVars
<1> QED
  BY <1>1, <1>2, <1>3 DEF WalletNext, TokenPauserNext, tokenVars, TokenTypeOK

LEMMA TokenTypeStep ==
  ASSUME TokenTypeOK, [TokenNext]_tokenVars
  PROVE  TokenTypeOK'
<1> USE AmountAssumption
<1>0. Amount \subseteq Nat
  OBVIOUS
<1>1. ASSUME NEW m \in RoleHolder, NEW to \in Account, NEW n \in Amount, Mint(m, to, n)
      PROVE  TokenTypeOK'
  <2>1. balance' \in [Account -> Nat]
    BY <1>0, <1>1, MintedType DEF Mint, TokenTypeOK
  <2>2. totalSupply' \in Int /\ totalSupply' <= MaxUint
    BY <1>0, <1>1 DEF Mint, TokenTypeOK
  <2> QED
    BY <1>1, <2>1, <2>2 DEF Mint, TokenTypeOK
<1>2. ASSUME NEW s \in Spender, NEW from \in Account, NEW n \in Amount, BurnFrom(s, from, n)
      PROVE  TokenTypeOK'
  <2>1. allowance' \in [Account -> [Spender -> 0 .. MaxUint]]
    BY <1>0, <1>2, SpentType DEF BurnFrom, TokenTypeOK
  <2>2. balance' \in [Account -> Nat]
    BY <1>0, <1>2, BurnedType DEF BurnFrom, TokenTypeOK
  <2>3. totalSupply' \in Int /\ totalSupply' <= MaxUint
    BY <1>0, <1>2 DEF BurnFrom, TokenTypeOK
  <2> QED
    BY <1>2, <2>1, <2>2, <2>3 DEF BurnFrom, TokenTypeOK
<1>3. ASSUME NEW s \in Spender, NEW from \in Account, NEW to \in Account, NEW n \in Amount,
             TransferFrom(s, from, to, n)
      PROVE  TokenTypeOK'
  <2>1. allowance' \in [Account -> [Spender -> 0 .. MaxUint]]
    BY <1>0, <1>3, SpentType DEF TransferFrom, TokenTypeOK
  <2>2. balance' \in [Account -> Nat]
    BY <1>0, <1>3, MovedType DEF TransferFrom, TokenTypeOK
  <2> QED
    BY <1>3, <2>1, <2>2 DEF TransferFrom, TokenTypeOK
<1>4. ASSUME NEW admin \in RoleHolder, NEW a \in RoleHolder, NEW r \in TokenRole,
             GrantTokenRole(admin, r, a) \/ RevokeTokenRole(admin, r, a)
      PROVE  TokenTypeOK'
  BY <1>4 DEF GrantTokenRole, RevokeTokenRole, TokenTypeOK, ledgerVars
<1>5. CASE WalletNext \/ TokenPauserNext \/ UNCHANGED tokenVars
  BY <1>5, HolderTypeStep
<1> QED
  BY <1>1, <1>2, <1>3, <1>4, <1>5 DEF TokenNext

LEMMA TokenTypeInit == TokenInit => TokenTypeOK
<1> SUFFICES ASSUME TokenInit PROVE TokenTypeOK
  OBVIOUS
<1>1. totalSupply \in Int /\ totalSupply <= MaxUint
  BY AmountAssumption DEF TokenInit
<1>2. allowance \in [Account -> [Spender -> 0 .. MaxUint]]
  BY AmountAssumption DEF TokenInit
<1>3. tokenRole \in [TokenRole -> SUBSET RoleHolder]
  BY DEF TokenInit, RoleHolder
<1> QED
  BY <1>1, <1>2, <1>3 DEF TokenInit, TokenTypeOK

(* The token's state is well typed: no balance goes negative and the       *)
(* supply never passes the uint256 bound (mint, burnFrom, the transfers).  *)
THEOREM TokenTypeCorrect == TokenSpec => []TokenTypeOK
<1>1. TokenInit => TokenTypeOK
  BY TokenTypeInit
<1>2. TokenTypeOK /\ [TokenNext]_tokenVars => TokenTypeOK'
  BY TokenTypeStep
<1> QED
  BY <1>1, <1>2, PTL DEF TokenSpec

---------------------------------------------------------------------------
(* A paused token moves for nobody: each function that touches a balance   *)
(* reaches the paused _update.                                             *)
THEOREM PauseFreezes == TokenSpec => PauseFreezesBalances
<1>1. [TokenNext]_tokenVars => [tokenPaused => UNCHANGED <<balance, totalSupply>>]_tokenVars
  BY DEF TokenNext, tokenVars, ledgerVars, Mint, BurnFrom, TransferFrom, WalletNext, Transfer,
         Approve, TokenPauserNext, PauseToken, UnpauseToken, GrantTokenRole, RevokeTokenRole
<1> QED
  BY <1>1, PTL DEF TokenSpec, PauseFreezesBalances

(* Tokens are destroyed only by a burner, and only with the approval of    *)
(* the holder they are taken from (burnFrom's _spendAllowance).            *)
THEOREM BurnsAreApproved == TokenSpec => BurnIsApproved
<1>1. ASSUME TokenTypeOK, [TokenNext]_tokenVars, totalSupply' < totalSupply
      PROVE  LET n == totalSupply - totalSupply' IN
             \E from \in Account, s \in tokenRole["BURNER"] :
               /\ balance' = Burned(balance, from, n)
               /\ allowance[from][s] >= n
               /\ allowance[from][s] # MaxUint => allowance'[from][s] = allowance[from][s] - n
  <2> USE AmountAssumption
  <2>1. PICK s \in Spender, from \in Account, n \in Amount : BurnFrom(s, from, n)
    <3>1. ASSUME NEW m \in RoleHolder, NEW to \in Account, NEW n \in Amount, Mint(m, to, n)
          PROVE  FALSE
      BY <1>1, <3>1 DEF Mint, TokenTypeOK
    <3>2. totalSupply \in Int
      BY <1>1 DEF TokenTypeOK
    <3> QED
      BY <1>1, <3>1, <3>2
         DEF TokenNext, tokenVars, ledgerVars, TransferFrom, WalletNext, Transfer, Approve,
             TokenPauserNext, PauseToken, UnpauseToken, GrantTokenRole, RevokeTokenRole
  <2>2. n = totalSupply - totalSupply' /\ n \in Nat
    BY <1>1, <2>1 DEF BurnFrom, TokenTypeOK
  <2>3. allowance[from][s] # MaxUint => allowance'[from][s] = allowance[from][s] - n
    BY <1>1, <2>1 DEF BurnFrom, Spent, TokenTypeOK
  <2> QED
    BY <2>1, <2>2, <2>3 DEF BurnFrom, CanSpend
<1>2. TokenTypeOK /\ [TokenNext]_tokenVars =>
        [totalSupply' < totalSupply =>
           LET n == totalSupply - totalSupply' IN
           \E from \in Account, s \in tokenRole["BURNER"] :
             /\ balance' = Burned(balance, from, n)
             /\ allowance[from][s] >= n
             /\ allowance[from][s] # MaxUint =>
                  allowance'[from][s] = allowance[from][s] - n]_tokenVars
  BY <1>1
<1> QED
  BY <1>2, TokenTypeCorrect, PTL DEF TokenSpec, BurnIsApproved

---------------------------------------------------------------------------
(* The supply is what the accounts hold. *)
LEMMA HeldChanged ==
  ASSUME NEW b \in [Account -> Int], NEW a \in Account, NEW n \in Int
  PROVE  /\ Held([b EXCEPT ![a] = n]) = Held(b) - b[a] + n
         /\ Held(b) \in Int
<1>. DEFINE c == [b EXCEPT ![a] = n]
<1>1. c \in [Account -> Int] /\ c[a] = n /\ \A x \in Account \ {a} : c[x] = b[x]
  OBVIOUS
<1>. HIDE DEF c
<1>2. SumOf(c, Account) = SumOf(b, Account) - b[a] + c[a] /\ SumOf(b, Account) \in Int
  BY <1>1, AccountAssumption, SumChanged, SumType
<1>3. Held(c) = SumOf(c, Account) /\ Held(b) = SumOf(b, Account)
  BY DEF Held, SumOf
<1>. QED  BY <1>1, <1>2, <1>3 DEF c

LEMMA HeldMinted ==
  ASSUME NEW b \in [Account -> Int], NEW to \in Account, NEW n \in Int
  PROVE  Held(Minted(b, to, n)) = Held(b) + n /\ Minted(b, to, n) \in [Account -> Int]
<1> DEFINE v == b[to] + n
<1>1. Minted(b, to, n) = [b EXCEPT ![to] = v] /\ v \in Int /\ b[to] \in Int
  BY DEF Minted
<1>2. v = b[to] + n
  OBVIOUS
<1> HIDE DEF v
<1>3. Held([b EXCEPT ![to] = v]) = Held(b) - b[to] + v /\ Held(b) \in Int
  BY <1>1, HeldChanged
<1>4. [b EXCEPT ![to] = v] \in [Account -> Int]
  BY <1>1
<1> QED
  BY <1>1, <1>2, <1>3, <1>4

LEMMA HeldBurned ==
  ASSUME NEW b \in [Account -> Int], NEW from \in Account, NEW n \in Int
  PROVE  Held(Burned(b, from, n)) = Held(b) - n /\ Burned(b, from, n) \in [Account -> Int]
<1> DEFINE v == b[from] - n
<1>1. Burned(b, from, n) = [b EXCEPT ![from] = v] /\ v \in Int /\ b[from] \in Int
  BY DEF Burned
<1>2. v = b[from] - n
  OBVIOUS
<1> HIDE DEF v
<1>3. Held([b EXCEPT ![from] = v]) = Held(b) - b[from] + v /\ Held(b) \in Int
  BY <1>1, HeldChanged
<1>4. [b EXCEPT ![from] = v] \in [Account -> Int]
  BY <1>1
<1> QED
  BY <1>1, <1>2, <1>3, <1>4

LEMMA HeldMoved ==
  ASSUME NEW b \in [Account -> Int], NEW from \in Account, NEW to \in Account, NEW n \in Int
  PROVE  Held(Moved(b, from, to, n)) = Held(b) /\ Moved(b, from, to, n) \in [Account -> Int]
<1> DEFINE c == Burned(b, from, n)
<1>1. Held(c) = Held(b) - n /\ c \in [Account -> Int] /\ Held(b) \in Int
  BY HeldBurned, HeldChanged
<1> HIDE DEF c
<1>2. Held(Minted(c, to, n)) = Held(c) + n /\ Minted(c, to, n) \in [Account -> Int]
  BY <1>1, HeldMinted
<1> QED
  BY <1>1, <1>2 DEF c, Moved

LEMMA NothingHeld == Held([a \in Account |-> 0]) = 0
  BY AccountAssumption, SumOfZeroes DEF Held, SumOf

(* Moving tokens, and whatever leaves them where they are, keeps it.       *)
LEMMA TransferSupplyStep ==
  ASSUME TokenTypeOK, SupplyIsHeld, totalSupply' = totalSupply,
         \/ balance' = balance
         \/ \E from, to \in Account, n \in Amount : balance' = Moved(balance, from, to, n)
  PROVE  SupplyIsHeld'
<1>1. balance \in [Account -> Int] /\ Amount \subseteq Int
  BY AmountAssumption DEF TokenTypeOK
<1>2. Held(balance') = Held(balance)
  BY <1>1, HeldMoved
<1> QED
  BY <1>2 DEF SupplyIsHeld

LEMMA TokenSupplyStep ==
  ASSUME TokenTypeOK, SupplyIsHeld, [TokenNext]_tokenVars
  PROVE  SupplyIsHeld'
<1>1. balance \in [Account -> Int] /\ Amount \subseteq Int
  BY AmountAssumption DEF TokenTypeOK
<1>2. ASSUME NEW m \in RoleHolder, NEW to \in Account, NEW n \in Amount, Mint(m, to, n)
      PROVE  SupplyIsHeld'
  <2>1. balance' = Minted(balance, to, n) /\ totalSupply' = totalSupply + n
    BY <1>2 DEF Mint
  <2> QED
    BY <1>1, <2>1, HeldMinted DEF SupplyIsHeld
<1>3. ASSUME NEW s \in Spender, NEW from \in Account, NEW n \in Amount, BurnFrom(s, from, n)
      PROVE  SupplyIsHeld'
  <2>1. balance' = Burned(balance, from, n) /\ totalSupply' = totalSupply - n
    BY <1>3 DEF BurnFrom
  <2> QED
    BY <1>1, <2>1, HeldBurned DEF SupplyIsHeld
<1>4. CASE /\ totalSupply' = totalSupply
           /\ \/ balance' = balance
              \/ \E from, to \in Account, n \in Amount : balance' = Moved(balance, from, to, n)
  BY <1>4, TransferSupplyStep
<1> QED
  BY <1>2, <1>3, <1>4
     DEF TokenNext, tokenVars, ledgerVars, TransferFrom, WalletNext, Transfer, Approve,
         TokenPauserNext, PauseToken, UnpauseToken, GrantTokenRole, RevokeTokenRole

(* No mint, burn or transfer creates or loses a token on the side: the     *)
(* supply is always the sum of the balances.                               *)
THEOREM TokenSupplyIsHeld == TokenSpec => []SupplyIsHeld
<1>1. TokenInit => SupplyIsHeld
  BY NothingHeld DEF TokenInit, SupplyIsHeld
<1>2. TokenTypeOK /\ SupplyIsHeld /\ [TokenNext]_tokenVars => SupplyIsHeld'
  BY TokenSupplyStep
<1> QED
  BY <1>1, <1>2, TokenTypeCorrect, PTL DEF TokenSpec

(* Hence nobody holds more than the supply, which is what ERC20._update    *)
(* relies on where it computes unchecked.                                  *)
LEMMA HeldBounds ==
  ASSUME TokenTypeOK, SupplyIsHeld, NEW a \in Account
  PROVE  totalSupply \in 0 .. MaxUint /\ balance[a] <= totalSupply
<1>1. balance \in [Account -> Nat] /\ balance[a] \in Nat
  BY DEF TokenTypeOK
<1>2. balance[a] <= Held(balance)
  BY <1>1, AccountAssumption, SumBounds DEF Held, SumOf
<1> QED
  BY <1>1, <1>2, AmountAssumption DEF SupplyIsHeld, TokenTypeOK

---------------------------------------------------------------------------
(***************************************************************************)
(* The registry. The lemmas about one step are stated without its          *)
(* specification, because the line's behaviours take the same steps.       *)
(***************************************************************************)
(* A step of the registry or of the clock keeps its state well typed. *)
LEMMA RegistryTypeStep ==
  ASSUME RegistryTypeOK, [RegistryNext \/ Tick]_registryVars
  PROVE  RegistryTypeOK'
<1> USE TimestampAssumption, AttestationAssumption
<1>1. ASSUME NEW t \in SignedAttestation, RecordAttestation(t)
      PROVE  RegistryTypeOK'
  <2>1. t \in Attestation
    OBVIOUS
  <2> DEFINE r == [issuedAt |-> t.issuedAt, expiresAt |-> t.expiresAt, attestor |-> t.attestor]
  <2>2. r \in Record /\ t.subject \in Subject /\ t.attestor \in Attestor /\ t.nonce \in Nonce
    BY <2>1 DEF Attestation, Record
  <2>3. records' \in [Subject -> [Kind -> Record]]
    BY <1>1, <2>2 DEF RecordAttestation, StoreAttestation, RegistryTypeOK
  <2>4. consumedNonces' \in [Attestor -> SUBSET Nonce]
    BY <1>1, <2>2 DEF RecordAttestation, StoreAttestation, RegistryTypeOK
  <2> QED
    BY <1>1, <2>3, <2>4 DEF RecordAttestation, StoreAttestation, RegistryTypeOK
<1>2. ASSUME NEW s \in Subject, NEW k \in Kind, Revoke(s, k)
      PROVE  RegistryTypeOK'
  <2>1. NoRecord \in Record
    BY DEF NoRecord, Record
  <2> QED
    BY <1>2, <2>1 DEF Revoke, RegistryTypeOK
<1>3. ASSUME NEW a \in Attestor, GrantAttestor(a) \/ RevokeAttestor(a)
      PROVE  RegistryTypeOK'
  BY <1>3 DEF GrantAttestor, RevokeAttestor, RegistryTypeOK
<1>4. CASE Tick
  BY <1>4 DEF Tick, pohVars, RegistryTypeOK
<1>5. CASE UNCHANGED registryVars
  BY <1>5 DEF registryVars, pohVars, RegistryTypeOK
<1> QED
  BY <1>1, <1>2, <1>3, <1>4, <1>5 DEF RegistryNext

(* The registry starts well typed, whoever holds the attestor role. *)
LEMMA RegistryTypeInit == EmptyRegistry /\ attestors \subseteq Attestor => RegistryTypeOK
  BY TimestampAssumption DEF EmptyRegistry, RegistryTypeOK, Record, NoRecord

THEOREM RegistryTypeCorrect == RegistrySpec => []RegistryTypeOK
<1>1. RegistryInit => RegistryTypeOK
  BY RegistryTypeInit DEF RegistryInit
<1>2. RegistryTypeOK /\ [RegistryNext \/ Tick]_registryVars => RegistryTypeOK'
  BY RegistryTypeStep
<1> QED
  BY <1>1, <1>2, PTL DEF RegistrySpec

---------------------------------------------------------------------------
(* What one recorded attestation does to each slot. *)
LEMMA RecordedSlot ==
  ASSUME RegistryTypeOK,
         NEW t \in SignedAttestation, RecordAttestation(t),
         NEW s \in Subject, NEW k \in Kind
  PROVE  \/ records'[s][k] = records[s][k]
         \/ records'[s][k] = [issuedAt |-> t.issuedAt, expiresAt |-> t.expiresAt,
                              attestor |-> t.attestor]
<1>1. t \in Attestation
  BY AttestationAssumption
<1>2. t.subject \in Subject
  BY <1>1 DEF Attestation
<1> QED
  BY <1>2 DEF RecordAttestation, StoreAttestation, RegistryTypeOK

(* What a revocation does to each slot. *)
LEMMA RevokedSlot ==
  ASSUME RegistryTypeOK, NEW s \in Subject, NEW k \in Kind,
         NEW u \in Subject, NEW j \in Kind, Revoke(u, j)
  PROVE  records'[s][k] \in {records[s][k], NoRecord}
  BY DEF Revoke, RegistryTypeOK

(* Every record stays backed by a spent nonce of its attestor. *)
LEMMA AttestedStep ==
  ASSUME RegistryTypeOK, RecordIsAttested, [RegistryNext \/ Tick]_registryVars
  PROVE  RecordIsAttested'
<1> SUFFICES ASSUME NEW s \in Subject, NEW k \in Kind
             PROVE  LET r == records'[s][k] IN
                    IF r.attestor = NoAttestor THEN r = NoRecord
                    ELSE /\ r.issuedAt <= now'
                         /\ r.expiresAt > r.issuedAt
                         /\ consumedNonces'[r.attestor] # {}
  BY DEF RecordIsAttested
<1> DEFINE old == records[s][k]
<1>1. /\ IF old.attestor = NoAttestor THEN old = NoRecord
         ELSE /\ old.issuedAt <= now
              /\ old.expiresAt > old.issuedAt
              /\ consumedNonces[old.attestor] # {}
      /\ old \in Record
      /\ now \in Timestamp
  BY DEF RecordIsAttested, RegistryTypeOK
<1>2. Timestamp \subseteq Nat
  BY TimestampAssumption
<1>3. ASSUME NEW t \in SignedAttestation, RecordAttestation(t)
      PROVE  /\ now' = now
             /\ t.attestor \in Attestor
             /\ \A a \in Attestor : consumedNonces[a] \subseteq consumedNonces'[a]
             /\ consumedNonces'[t.attestor] # {}
             /\ t.attestor # NoAttestor
             /\ t.issuedAt <= now /\ t.expiresAt > t.issuedAt
  <2>1. t \in Attestation
    BY AttestationAssumption
  <2>2. t.attestor \in Attestor /\ t.issuedAt \in Nat /\ t.expiresAt \in Nat /\ now \in Nat
    BY <2>1, <1>1, <1>2 DEF Attestation
  <2> QED
    BY <1>3, <2>2, NoAttestorAssumption DEF RecordAttestation, StoreAttestation, RegistryTypeOK
<1>4. ASSUME NEW t \in SignedAttestation, RecordAttestation(t)
      PROVE  LET r == records'[s][k] IN
             IF r.attestor = NoAttestor THEN r = NoRecord
             ELSE /\ r.issuedAt <= now'
                  /\ r.expiresAt > r.issuedAt
                  /\ consumedNonces'[r.attestor] # {}
  <2>1. CASE records'[s][k] = old
    BY <1>1, <1>3, <1>4, <2>1 DEF Record
  <2>2. CASE records'[s][k] = [issuedAt |-> t.issuedAt, expiresAt |-> t.expiresAt,
                               attestor |-> t.attestor]
    BY <1>3, <1>4, <2>2
  <2> QED
    BY <1>4, <2>1, <2>2, RecordedSlot
<1>5. ASSUME NEW u \in Subject, NEW j \in Kind, Revoke(u, j)
      PROVE  LET r == records'[s][k] IN
             IF r.attestor = NoAttestor THEN r = NoRecord
             ELSE /\ r.issuedAt <= now'
                  /\ r.expiresAt > r.issuedAt
                  /\ consumedNonces'[r.attestor] # {}
  <2>1. records'[s][k] \in {old, NoRecord} /\ now' = now /\ consumedNonces' = consumedNonces
    BY <1>5, RevokedSlot DEF Revoke
  <2> QED
    BY <1>1, <2>1 DEF NoRecord
<1>6. ASSUME NEW a \in Attestor, GrantAttestor(a) \/ RevokeAttestor(a)
      PROVE  UNCHANGED <<now, records, consumedNonces>>
  BY <1>6 DEF GrantAttestor, RevokeAttestor
<1>7. CASE UNCHANGED <<now, records, consumedNonces>>
  BY <1>1, <1>7
<1>8. CASE Tick
  <2>1. now' \in Nat /\ now' > now /\ UNCHANGED <<records, consumedNonces>>
    BY <1>2, <1>8 DEF Tick, pohVars
  <2>2. old.issuedAt \in Nat /\ now \in Nat
    <3>1. old.issuedAt \in Timestamp \union {0}
      BY <1>1 DEF Record
    <3>2. now \in Nat
      BY <1>1, <1>2
    <3>3. Timestamp \union {0} \subseteq Nat
      BY <1>2
    <3> QED
      BY <3>1, <3>2, <3>3
  <2> QED
    BY <1>1, <2>1, <2>2
<1> QED
  BY <1>4, <1>5, <1>6, <1>7, <1>8 DEF RegistryNext, registryVars, pohVars

LEMMA AttestedInit == EmptyRegistry => RecordIsAttested
  BY DEF EmptyRegistry, RecordIsAttested, NoRecord

(* No record without a spent nonce of the attestor it names, and none      *)
(* issued in the future (recordAttestation, revoke).                       *)
THEOREM RecordsAreAttested == RegistrySpec => []RecordIsAttested
<1>1. RegistryInit => RecordIsAttested
  BY AttestedInit DEF RegistryInit
<1>2. RegistryTypeOK /\ RecordIsAttested /\ [RegistryNext \/ Tick]_registryVars => RecordIsAttested'
  BY AttestedStep
<1> QED
  BY <1>1, <1>2, RegistryTypeCorrect, PTL DEF RegistrySpec

---------------------------------------------------------------------------
(* Replay protection: a slot gets a new record only against an unused      *)
(* nonce of an attestor that holds its role (consumedNonces).              *)
THEOREM RecordsSpendFreshNonces == RegistrySpec => RecordSpendsFreshNonce
<1>1. ASSUME RegistryTypeOK, [RegistryNext \/ Tick]_registryVars,
             NEW s \in Subject, NEW k \in Kind,
             records'[s][k] \notin {records[s][k], NoRecord}
      PROVE  LET a == records'[s][k].attestor IN
             /\ a \in attestors
             /\ \E n \in Nonce \ consumedNonces[a] :
                  consumedNonces' = [consumedNonces EXCEPT ![a] = @ \union {n}]
  <2>1. PICK t \in SignedAttestation : RecordAttestation(t)
    BY <1>1, RevokedSlot
       DEF RegistryNext, Tick, GrantAttestor, RevokeAttestor, registryVars, pohVars
  <2>2. t.nonce \in Nonce
    BY AttestationAssumption DEF Attestation
  <2>3. records'[s][k] = [issuedAt |-> t.issuedAt, expiresAt |-> t.expiresAt,
                          attestor |-> t.attestor]
    BY <1>1, <2>1, RecordedSlot
  <2>4. records'[s][k].attestor = t.attestor
    BY <2>3
  <2> QED
    BY <2>1, <2>2, <2>4 DEF RecordAttestation, StoreAttestation
<1>2. RegistryTypeOK /\ [RegistryNext \/ Tick]_registryVars =>
        [\A s \in Subject, k \in Kind :
           records'[s][k] \notin {records[s][k], NoRecord} =>
             LET a == records'[s][k].attestor IN
             /\ a \in attestors
             /\ \E n \in Nonce \ consumedNonces[a] :
                  consumedNonces' = [consumedNonces EXCEPT ![a] = @ \union {n}]]_registryVars
  BY <1>1
<1> QED
  BY <1>2, RegistryTypeCorrect, PTL DEF RegistrySpec, RecordSpendsFreshNonce

(* An attestation recorded over an older one never ends a verification:    *)
(* every record it stores is still in force at the time of the block.      *)
THEOREM VerificationsEndByTimeOrRevoke == RegistrySpec => VerificationEndsByTimeOrRevoke
<1>1. ASSUME RegistryTypeOK, [RegistryNext \/ Tick]_registryVars,
             NEW s \in Subject, IsFullyVerified(s), ~IsFullyVerified(s)'
      PROVE  \/ now' > now
             \/ \E k \in {HUMANITY, BUSINESS} : records'[s][k] = NoRecord
  <2>1. PICK k \in {HUMANITY, BUSINESS} : IsVerified(s, k) /\ ~IsVerified(s, k)'
    BY <1>1 DEF IsFullyVerified
  <2>2. k \in Kind
    BY DEF Kind
  <2>3. ~UNCHANGED <<records, now>>
    BY <2>1 DEF IsVerified
  <2>4. ASSUME NEW t \in SignedAttestation, RecordAttestation(t)
        PROVE  FALSE
    <3>1. now' = now /\ t.expiresAt > now
      BY <2>4 DEF RecordAttestation, StoreAttestation
    <3>2. \/ records'[s][k] = records[s][k]
          \/ records'[s][k] = [issuedAt |-> t.issuedAt, expiresAt |-> t.expiresAt,
                               attestor |-> t.attestor]
      BY <1>1, <2>2, <2>4, RecordedSlot
    <3>3. records'[s][k].expiresAt > now'
      BY <2>1, <3>1, <3>2 DEF IsVerified
    <3> QED
      BY <2>1, <3>3 DEF IsVerified
  <2>5. ASSUME NEW u \in Subject, NEW j \in Kind, Revoke(u, j)
        PROVE  records'[s][k] = NoRecord
    <3>1. now' = now
      BY <2>5 DEF Revoke
    <3> QED
      BY <1>1, <2>1, <2>2, <2>5, <3>1, RevokedSlot DEF IsVerified
  <2>6. CASE Tick
    BY <2>6 DEF Tick
  <2> QED
    BY <1>1, <2>3, <2>4, <2>5, <2>6
       DEF RegistryNext, GrantAttestor, RevokeAttestor, registryVars, pohVars
<1>2. RegistryTypeOK /\ [RegistryNext \/ Tick]_registryVars =>
        [\A s \in Subject :
           IsFullyVerified(s) /\ ~IsFullyVerified(s)' =>
             \/ now' > now
             \/ \E k \in {HUMANITY, BUSINESS} : records'[s][k] = NoRecord]_registryVars
  BY <1>1
<1> QED
  BY <1>2, RegistryTypeCorrect, PTL DEF RegistrySpec, VerificationEndsByTimeOrRevoke

---------------------------------------------------------------------------
(***************************************************************************)
(* The credit line: what draws, repayments and the accrual of interest do  *)
(* to a loan.                                                              *)
(***************************************************************************)
USE PartiesAssumption, ParameterAssumption, AmountAssumption, TimestampAssumption

(* Arithmetic. *)

LEMMA ProductType ==
  ASSUME NEW m \in Nat, NEW n \in Nat
  PROVE  m * n \in Nat
  OBVIOUS

LEMMA QuotientType ==
  ASSUME NEW m \in Nat, NEW d \in Nat \ {0}
  PROVE  m \div d \in Nat
  OBVIOUS

LEMMA AmountType == Amount \subseteq Nat
  OBVIOUS

LEMMA PositiveAmount == \A n \in Amount : n # 0 => n \in Nat \ {0}
  OBVIOUS

LEMMA YearType == BPS * SECONDS_PER_YEAR \in Nat \ {0}
  OBVIOUS

(* Interest is a natural number as long as the clock is not ahead. *)
LEMMA PendingType ==
  ASSUME NEW l \in Loan, NEW apr \in Nat, NEW t \in Nat,
         l.principal > 0 => l.lastAccrualAt <= t
  PROVE  PendingInterest(l, apr, t) \in Nat
<1>1. CASE l.principal = 0 \/ l.lastAccrualAt = 0
  BY <1>1 DEF PendingInterest
<1>2. CASE ~(l.principal = 0 \/ l.lastAccrualAt = 0)
  <2>1. l.principal * apr \in Nat /\ t - l.lastAccrualAt \in Nat
    BY <1>2, ProductType DEF Loan
  <2>2. l.principal * apr * (t - l.lastAccrualAt) \in Nat
    BY <2>1, ProductType
  <2> QED
    BY <1>2, <2>2, YearType, QuotientType DEF PendingInterest
<1> QED
  BY <1>1, <1>2

(* Nothing is pending on a loan accrued in this very block. *)
LEMMA NothingPending ==
  ASSUME NEW l \in Loan, NEW apr \in Nat, NEW t \in Nat,
         l.principal = 0 \/ l.lastAccrualAt = t
  PROVE  PendingInterest(l, apr, t) = 0
<1>1. CASE l.principal = 0
  BY <1>1 DEF PendingInterest
<1>2. CASE l.lastAccrualAt = t
  <2>1. l.principal * apr \in Nat
    BY ProductType DEF Loan
  <2>2. l.principal * apr * (t - l.lastAccrualAt) = 0
    BY <1>2, <2>1
  <2>3. 0 \div (BPS * SECONDS_PER_YEAR) = 0
    BY YearType
  <2> QED
    BY <2>2, <2>3 DEF PendingInterest
<1> QED
  BY <1>1, <1>2

(* What rounding down costs: a quotient of a sum against the sum of the    *)
(* quotients.                                                              *)
LEMMA QuotientOfSum ==
  ASSUME NEW m \in Nat, NEW n \in Nat, NEW d \in Nat \ {0}
  PROVE  (m + n) \div d - (m \div d + n \div d) \in {0, 1}
<1>. DEFINE a == m \div d
            b == n \div d
            c == (m + n) \div d
<1>1. a \in Int /\ b \in Int /\ c \in Int
  OBVIOUS
<1>2. /\ d * a <= m /\ m < d * a + d
      /\ d * b <= n /\ n < d * b + d
      /\ d * c <= m + n /\ m + n < d * c + d
  OBVIOUS
<1>. HIDE DEF a, b, c
<1>3. d * a \in Int /\ d * b \in Int /\ d * c \in Int
  BY <1>1
<1>4. ASSUME NEW x \in Int, d * x < d PROVE x <= 0
  BY <1>4
<1>5. d * (a + b - c) = d * a + d * b - d * c /\ d * (c - (a + b) - 1) = d * c - (d * a + d * b) - d
  BY <1>1, <1>3
<1>6. d * (a + b - c) < d /\ d * (c - (a + b) - 1) < d
  BY <1>2, <1>3, <1>5
<1>7. a + b - c <= 0 /\ c - (a + b) - 1 <= 0
  BY <1>1, <1>4, <1>6
<1>8. c - (a + b) \in {0, 1}
  BY <1>1, <1>7
<1>. QED  BY <1>8 DEF a, b, c

(* A touch of the loan in between (any call of _accrue) costs the lender   *)
(* at most one base unit of the interest the loan earns at an unchanged    *)
(* principal and APR, and never earns it more.                             *)
THEOREM TouchCostsAUnit ==
  ASSUME NEW l \in Loan, NEW apr \in Nat, NEW t \in Nat \ {0}, NEW u \in Nat,
         l.lastAccrualAt > 0, l.lastAccrualAt <= t, t <= u
  PROVE  PendingInterest(l, apr, u)
           - (PendingInterest(l, apr, t) + PendingInterest([l EXCEPT !.lastAccrualAt = t], apr, u))
         \in {0, 1}
<1>. DEFINE touched == [l EXCEPT !.lastAccrualAt = t]
            k == l.principal * apr
            D == BPS * SECONDS_PER_YEAR
<1>1. /\ l.principal \in Nat /\ l.lastAccrualAt \in Nat
      /\ touched.principal = l.principal /\ touched.lastAccrualAt = t
  BY DEF Loan
<1>2. k \in Nat /\ D \in Nat \ {0}
  BY <1>1, ProductType, YearType
<1>3. CASE l.principal = 0
  <2>1. /\ PendingInterest(l, apr, u) = 0 /\ PendingInterest(l, apr, t) = 0
        /\ PendingInterest(touched, apr, u) = 0
    BY <1>1, <1>3 DEF PendingInterest
  <2>. QED  BY <2>1
<1>4. CASE l.principal # 0
  <2>1. /\ PendingInterest(l, apr, u) = (k * (u - l.lastAccrualAt)) \div D
        /\ PendingInterest(l, apr, t) = (k * (t - l.lastAccrualAt)) \div D
        /\ PendingInterest(touched, apr, u) = (k * (u - t)) \div D
    BY <1>1, <1>4 DEF PendingInterest
  <2>2. /\ u - l.lastAccrualAt \in Nat /\ t - l.lastAccrualAt \in Nat /\ u - t \in Nat
        /\ u - l.lastAccrualAt = (t - l.lastAccrualAt) + (u - t)
    BY <1>1
  <2>. HIDE DEF k, D, touched
  <2>3. k * (u - l.lastAccrualAt) = k * (t - l.lastAccrualAt) + k * (u - t)
    BY <1>2, <2>2
  <2>4. k * (t - l.lastAccrualAt) \in Nat /\ k * (u - t) \in Nat
    BY <1>2, <2>2, ProductType
  <2>5. (k * (t - l.lastAccrualAt) + k * (u - t)) \div D
          - ((k * (t - l.lastAccrualAt)) \div D + (k * (u - t)) \div D) \in {0, 1}
    BY <1>2, <2>4, QuotientOfSum
  <2>. QED  BY <2>1, <2>3, <2>5 DEF touched
<1>. QED  BY <1>3, <1>4

(* The loan l is touched at at[1], ..., at[n], and earned[i] is what the   *)
(* first i touches have booked.                                            *)
Touches(l, apr, at, earned, n) ==
  /\ at \in [0 .. n -> Nat \ {0}] /\ earned \in [0 .. n -> Int]
  /\ at[0] = l.lastAccrualAt /\ earned[0] = 0
  /\ \A i \in 0 .. n - 1 :
       /\ at[i] <= at[i + 1]
       /\ earned[i + 1] = earned[i] + PendingInterest([l EXCEPT !.lastAccrualAt = at[i]], apr, at[i + 1])

(* Any number of touches, at any times, costs the lender at most one base  *)
(* unit each of the interest of one loan at an unchanged principal and     *)
(* APR, and never earns it more (_accrue, CreditLine.sol:373): frequent    *)
(* small repayments cannot shave off more than that.                       *)
THEOREM TouchesCostUnits ==
  ASSUME NEW l \in Loan, NEW apr \in Nat, NEW n \in Nat, NEW at, NEW earned,
         Touches(l, apr, at, earned, n)
  PROVE  \A i \in 0 .. n : PendingInterest(l, apr, at[i]) - earned[i] \in 0 .. i
<1>. DEFINE lost(i) == PendingInterest(l, apr, at[i]) - earned[i]
            Good == {i \in Nat : i <= n => at[i] >= at[0] /\ lost(i) \in 0 .. i}
<1>1. /\ at[0] = l.lastAccrualAt /\ earned[0] = 0
      /\ \A i \in 0 .. n : at[i] \in Nat \ {0} /\ earned[i] \in Int
  BY DEF Touches
<1>2. 0 \in Good
  <2>1. at[0] \in Nat
    BY <1>1
  <2>2. PendingInterest(l, apr, at[0]) = 0
    BY <1>1, <2>1, NothingPending
  <2>. QED  BY <1>1, <2>1, <2>2
<1>3. ASSUME NEW i \in Nat, i \in Good PROVE i + 1 \in Good
  <2>. SUFFICES ASSUME i + 1 <= n PROVE at[i + 1] >= at[0] /\ lost(i + 1) \in 0 .. i + 1
    OBVIOUS
  <2>1. i \in 0 .. n - 1 /\ i \in 0 .. n /\ i + 1 \in 0 .. n /\ 0 \in 0 .. n
    OBVIOUS
  <2>2. at[i] >= at[0] /\ lost(i) \in 0 .. i
    BY <1>3, <2>1
  <2>. DEFINE t == at[i]
              u == at[i + 1]
              touched == [l EXCEPT !.lastAccrualAt = t]
  <2>3. t <= u /\ earned[i + 1] = earned[i] + PendingInterest(touched, apr, u)
    BY <2>1 DEF Touches
  <2>4. t \in Nat \ {0} /\ u \in Nat \ {0} /\ l.lastAccrualAt > 0 /\ l.lastAccrualAt <= t
    BY <1>1, <2>1, <2>2
  <2>5. PendingInterest(l, apr, u) - (PendingInterest(l, apr, t) + PendingInterest(touched, apr, u)) \in {0, 1}
    <3>1. u \in Nat
      BY <2>4
    <3>. HIDE DEF t, u
    <3>. QED  BY <2>3, <2>4, <3>1, TouchCostsAUnit
  <2>6. /\ PendingInterest(l, apr, t) \in Nat /\ PendingInterest(l, apr, u) \in Nat
        /\ PendingInterest(touched, apr, u) \in Nat
    <3>1. touched \in Loan /\ touched.lastAccrualAt = t
      BY <2>4 DEF Loan
    <3>2. u \in Nat /\ t \in Nat /\ l.lastAccrualAt <= u
      BY <2>3, <2>4, <1>1
    <3>. HIDE DEF t, u, touched
    <3>. QED  BY <2>3, <2>4, <3>1, <3>2, PendingType
  <2>7. earned[i] \in Int /\ at[0] \in Nat
    BY <1>1, <2>1
  <2>. DEFINE x == PendingInterest(l, apr, t)
              y == PendingInterest(l, apr, u)
              z == PendingInterest(touched, apr, u)
  <2>8. lost(i) = x - earned[i] /\ lost(i + 1) = y - earned[i + 1]
    OBVIOUS
  <2>. HIDE DEF x, y, z, lost
  <2>9. y - (x + z) \in {0, 1} /\ x \in Nat /\ y \in Nat /\ z \in Nat /\ earned[i + 1] = earned[i] + z
    BY <2>3, <2>5, <2>6 DEF x, y, z
  <2>10. lost(i + 1) \in 0 .. i + 1
    BY <2>2, <2>7, <2>8, <2>9
  <2>. QED  BY <2>2, <2>3, <2>4, <2>7, <2>10
<1>4. \A i \in Nat : i \in Good
  <2>. HIDE DEF Good
  <2>. QED  BY <1>2, <1>3, NaturalsInSet
<1>. QED  BY <1>4

(* Interest never shrinks as time passes. *)
LEMMA QuotientMonotone ==
  ASSUME NEW m \in Nat, NEW n \in Nat, NEW d \in Nat \ {0}, m <= n
  PROVE  m \div d <= n \div d
  OBVIOUS

LEMMA PendingMonotone ==
  ASSUME NEW l \in Loan, NEW apr \in Nat, NEW t \in Nat, NEW u \in Nat,
         l.principal > 0 => l.lastAccrualAt <= t, t <= u
  PROVE  PendingInterest(l, apr, t) <= PendingInterest(l, apr, u)
<1>1. CASE l.principal = 0 \/ l.lastAccrualAt = 0
  BY <1>1 DEF PendingInterest
<1>2. CASE ~(l.principal = 0 \/ l.lastAccrualAt = 0)
  <2> DEFINE k == l.principal * apr
             early == t - l.lastAccrualAt
             late == u - l.lastAccrualAt
  <2>1. k \in Nat /\ early \in Nat /\ late \in Nat /\ early <= late
    BY <1>2, ProductType DEF Loan
  <2> HIDE DEF k, early, late
  <2>2. k * early \in Nat /\ k * late \in Nat /\ k * early <= k * late
    BY <2>1, ProductType
  <2>3. (k * early) \div (BPS * SECONDS_PER_YEAR) <= (k * late) \div (BPS * SECONDS_PER_YEAR)
    BY <2>2, YearType, QuotientMonotone
  <2> QED
    BY <1>2, <2>3 DEF PendingInterest, k, early, late
<1> QED
  BY <1>1, <1>2

(* The fee is a natural number below the amount it is taken from, because  *)
(* the cap of setOriginationFeeBps is below BPS.                           *)
LEMMA FeeBelowAmount ==
  ASSUME LineTypeOK, NEW n \in Nat \ {0}
  PROVE  OriginationFee(n) \in Nat /\ OriginationFee(n) < n
<1>1. originationFeeBps \in Nat /\ originationFeeBps < BPS
  BY DEF LineTypeOK
<1>2. n * originationFeeBps \in Nat /\ n * originationFeeBps < n * BPS
  BY <1>1, ProductType
<1>3. OriginationFee(n) \in Nat
  BY <1>2, QuotientType DEF OriginationFee
<1>4. \A m \in Nat : m < n * BPS => m \div BPS < n
  OBVIOUS
<1> QED
  BY <1>2, <1>3, <1>4 DEF OriginationFee

---------------------------------------------------------------------------
(* The part of the inductive invariant about one loan l at time t. *)
Sound(l, t) ==
  /\ l.principal = 0 => l.interestAccrued = 0
  /\ l.principal > 0 => l.lastAccrualAt \in 1 .. t
  /\ l.dueAt <= t + MAX_DURATION
  /\ l.principal > 0 => l.dueAt > MIN_DURATION

LEMMA LineInvParts ==
  LineInv <=> LineTypeOK /\ \A b \in Borrower : Sound(loans[b], now)
  BY DEF LineInv, InterestBeforePrincipal, OpenLoanClock, Sound

LEMMA NowType == LineTypeOK => now \in Nat \ {0}
  BY DEF LineTypeOK, RegistryTypeOK

(* The fields of an updated loan. *)
LEMMA InterestFields ==
  ASSUME NEW l \in Loan, NEW pending \in Nat, now \in Nat
  PROVE  /\ WithInterest(l, pending) \in Loan
         /\ WithInterest(l, pending).principal = l.principal
         /\ WithInterest(l, pending).interestAccrued = l.interestAccrued + pending
         /\ WithInterest(l, pending).lastAccrualAt = now
         /\ WithInterest(l, pending).dueAt = l.dueAt
<1>1. l.interestAccrued + pending \in Nat
  BY DEF Loan
<1> QED
  BY <1>1 DEF Loan, WithInterest

LEMMA DrawFields ==
  ASSUME NEW l \in Loan, NEW n \in Nat, NEW due \in Nat, now \in Nat
  PROVE  /\ WithDraw(l, n, due) \in Loan
         /\ WithDraw(l, n, due).principal = l.principal + n
         /\ WithDraw(l, n, due).interestAccrued = l.interestAccrued
         /\ WithDraw(l, n, due).lastAccrualAt = now
         /\ WithDraw(l, n, due).dueAt = Latest(l.dueAt, due)
<1>1. l.principal + n \in Nat /\ Latest(l.dueAt, due) \in Nat
  BY DEF Loan, Latest
<1> QED
  BY <1>1 DEF Loan, WithDraw

LEMMA RepaymentFields ==
  ASSUME NEW l \in Loan, NEW i \in 0 .. l.interestAccrued, NEW p \in 0 .. l.principal
  PROVE  /\ WithRepayment(l, i, p) \in Loan
         /\ WithRepayment(l, i, p).principal = l.principal - p
         /\ WithRepayment(l, i, p).interestAccrued = l.interestAccrued - i
         /\ WithRepayment(l, i, p).lastAccrualAt = l.lastAccrualAt
         /\ WithRepayment(l, i, p).dueAt = l.dueAt
<1>1. l.principal - p \in Nat /\ l.interestAccrued - i \in Nat
  BY DEF Loan
<1> QED
  BY <1>1 DEF Loan, WithRepayment

(* Accruing settles the whole debt into the loan and moves only the        *)
(* interest and the accrual time.                                          *)
LEMMA AccruedLoan ==
  ASSUME LineInv, NEW b \in Borrower
  PROVE  /\ Accrued(b) \in Loan
         /\ Accrued(b).principal = loans[b].principal
         /\ Accrued(b).dueAt = loans[b].dueAt
         /\ loans[b].principal > 0 => Accrued(b).lastAccrualAt = now
         /\ loans[b].principal = 0 => Accrued(b) = loans[b]
         /\ Owed(Accrued(b)) = OutstandingDebt(b)
         /\ OutstandingDebt(b) \in Nat
<1> DEFINE l == loans[b]  apr == scores[b].aprBps  due == PendingInterest(l, apr, now)
<1>1. l \in Loan /\ apr \in Nat /\ now \in Nat /\ Sound(l, now)
  BY LineInvParts, NowType DEF LineTypeOK, Score
<1>2. due \in Nat
  <2>1. l.principal > 0 => l.lastAccrualAt <= now
    BY <1>1 DEF Sound
  <2> QED
    BY <1>1, <2>1, PendingType
<1>3. CASE l.principal = 0 \/ l.lastAccrualAt = now
  <2>1. due = 0
    BY <1>1, <1>3, NothingPending
  <2>2. Accrued(b) = l
    BY <1>3 DEF Accrued
  <2>3. Owed(l) \in Nat
    BY <1>1 DEF Loan, Owed
  <2> QED
    BY <1>1, <1>3, <2>1, <2>2, <2>3 DEF Loan, OutstandingDebt
<1>4. CASE ~(l.principal = 0 \/ l.lastAccrualAt = now)
  <2>1. Accrued(b) = WithInterest(l, due)
    BY <1>4 DEF Accrued
  <2>2. /\ Accrued(b).principal = l.principal /\ Accrued(b).dueAt = l.dueAt
        /\ Accrued(b).lastAccrualAt = now
        /\ Accrued(b).interestAccrued = l.interestAccrued + due
        /\ Accrued(b) \in Loan
    <3>1. /\ WithInterest(l, due).principal = l.principal
          /\ WithInterest(l, due).dueAt = l.dueAt
          /\ WithInterest(l, due).lastAccrualAt = now
          /\ WithInterest(l, due).interestAccrued = l.interestAccrued + due
          /\ WithInterest(l, due) \in Loan
      BY <1>1, <1>2, InterestFields
    <3> QED
      BY <2>1, <3>1
  <2> QED
    BY <1>1, <1>2, <1>4, <2>2 DEF Loan, Owed, OutstandingDebt
<1> QED
  BY <1>3, <1>4

(* What a draw makes of the borrower's loan. *)
LEMMA BorrowedLoan ==
  ASSUME LineInv, NEW b \in Borrower, NEW n \in Amount, NEW d \in DurationArg, Borrow(b, n, d)
  PROVE  /\ n \in Nat \ {0}
         /\ OriginationFee(n) \in Nat /\ n - OriginationFee(n) \in Nat
         /\ \A x \in Borrower \ {b} : loans'[x] = loans[x]
         /\ loans'[b] \in Loan
         /\ Sound(loans'[b], now)
         /\ loans'[b].principal = loans[b].principal + n
         /\ loans'[b].interestAccrued = Accrued(b).interestAccrued
         /\ loans'[b].lastAccrualAt = now
<1> DEFINE due == now + d  l == Accrued(b)
<1>1. n \in Nat \ {0} /\ d \in MIN_DURATION .. MAX_DURATION /\ now \in Nat \ {0}
  <2>1. n # 0 /\ d \in MIN_DURATION .. MAX_DURATION
    BY Zenon DEF Borrow, CanBorrow
  <2>2. n \in Nat
    BY AmountType
  <2>3. now \in Nat \ {0}
    BY NowType DEF LineInv
  <2> QED
    BY <2>1, <2>2, <2>3
<1>2. /\ l \in Loan /\ Sound(loans[b], now) /\ loans \in [Borrower -> Loan]
      /\ l.principal = loans[b].principal /\ l.dueAt = loans[b].dueAt
      /\ loans[b].principal = 0 => l = loans[b]
  BY AccruedLoan, LineInvParts DEF LineTypeOK
<1>3. loans'[b] = WithDraw(l, n, due)
  BY <1>2 DEF Borrow, CanBorrow
<1>4. /\ loans'[b].principal = l.principal + n
      /\ loans'[b].interestAccrued = l.interestAccrued
      /\ loans'[b].lastAccrualAt = now
      /\ loans'[b].dueAt = Latest(l.dueAt, due)
      /\ loans'[b] \in Loan
  <2>1. l \in Loan /\ n \in Nat /\ due \in Nat /\ now \in Nat
    BY <1>1, <1>2
  <2>2. WithDraw(l, n, due) \in Loan
    BY <2>1, DrawFields
  <2>6. WithDraw(l, n, due).lastAccrualAt = now
    BY <2>1, DrawFields
  <2>3. WithDraw(l, n, due).principal = l.principal + n
    BY <2>1, DrawFields
  <2>4. WithDraw(l, n, due).interestAccrued = l.interestAccrued
    BY <2>1, DrawFields
  <2>5. WithDraw(l, n, due).dueAt = Latest(l.dueAt, due)
    BY <2>1, DrawFields
  <2> QED
    BY <1>3, <2>2, <2>3, <2>4, <2>5, <2>6
<1>5. Sound(loans'[b], now)
  BY <1>1, <1>2, <1>4 DEF Sound, Loan, Latest
<1>6. OriginationFee(n) \in Nat /\ n - OriginationFee(n) \in Nat
  BY <1>1, FeeBelowAmount DEF LineInv
<1>7. \A x \in Borrower \ {b} : loans'[x] = loans[x]
  BY <1>2 DEF Borrow, CanBorrow
<1> QED
  BY <1>1, <1>2, <1>4, <1>5, <1>6, <1>7

(* What a repayment is: interest i and principal p, the principal only     *)
(* after all of the interest, moved and burnt under the borrower's         *)
(* approval.                                                               *)
IsRepayment(b, i, p) ==
  LET allowed == Spent(allowance, b, Line, i)
      held == Moved(balance, b, treasury, i)
  IN
  /\ i \in 0 .. Accrued(b).interestAccrued
  /\ p \in 0 .. loans[b].principal
  /\ i + p > 0
  /\ p > 0 => i = Accrued(b).interestAccrued
  /\ CanSpend(allowance, b, Line, i) /\ balance[b] >= i
  /\ CanSpend(allowed, b, Line, p) /\ held[b] >= p
  /\ allowance' = Spent(allowed, b, Line, p)
  /\ balance' = Burned(held, b, p)
  /\ totalSupply' = totalSupply - p
  /\ loans' = [loans EXCEPT ![b] = WithRepayment(Accrued(b), i, p)]

LEMMA RepaymentSplit ==
  ASSUME LineInv, NEW b \in Borrower, NEW n \in Nat \ {0}, TakeRepayment(b, n)
  PROVE  \E i, p \in Nat : IsRepayment(b, i, p)
<1> DEFINE l == Accrued(b)
           applied == Least(n, Owed(l))
           i == InterestPart(l, applied)
           p == applied - i
<1>1. l \in Loan /\ l.principal = loans[b].principal
  BY AccruedLoan
<1>2. l.interestAccrued \in Nat /\ l.principal \in Nat /\ Owed(l) = l.principal + l.interestAccrued
  BY <1>1 DEF Loan, Owed
<1>3. n \in Nat /\ n > 0 /\ Owed(l) \in Nat /\ Owed(l) > 0
  <2>1. n \in Nat /\ n > 0
    OBVIOUS
  <2>2. Owed(l) # 0
    BY DEF TakeRepayment, CanTakeRepayment
  <2> QED
    BY <1>2, <2>1, <2>2
<1>4. applied \in Nat /\ applied > 0 /\ applied <= Owed(l)
  BY <1>3 DEF Least
<1> HIDE DEF applied
<1>5. /\ i \in 0 .. l.interestAccrued /\ p \in Nat /\ i + p = applied
      /\ p > 0 => i = l.interestAccrued
  BY <1>2, <1>4 DEF InterestPart, Least
<1>6. p \in 0 .. loans[b].principal
  BY <1>1, <1>2, <1>4, <1>5
<1>7. i \in Nat
  BY <1>2, <1>5
<1> USE DEF applied
<1>8. /\ CanSpend(allowance, b, Line, i) /\ balance[b] >= i
      /\ CanSpend(Spent(allowance, b, Line, i), b, Line, p)
      /\ Moved(balance, b, treasury, i)[b] >= p
      /\ allowance' = Spent(Spent(allowance, b, Line, i), b, Line, p)
      /\ balance' = Burned(Moved(balance, b, treasury, i), b, p)
      /\ totalSupply' = totalSupply - p
      /\ loans' = [loans EXCEPT ![b] = WithRepayment(l, i, p)]
  BY DEF TakeRepayment, CanTakeRepayment, AppliedInterest, AppliedPrincipal
<1> HIDE DEF applied, i, p, l
<1>9. i + p > 0
  BY <1>4, <1>5
<1>10. IsRepayment(b, i, p)
  BY <1>5, <1>6, <1>8, <1>9 DEF IsRepayment, l
<1> QED
  BY <1>5, <1>7, <1>10

(* What a repayment makes of the borrower's loan. *)
LEMMA RepaidLoan ==
  ASSUME LineInv, NEW b \in Borrower, NEW i \in Nat, NEW p \in Nat, IsRepayment(b, i, p)
  PROVE  /\ \A x \in Borrower \ {b} : loans'[x] = loans[x]
         /\ loans'[b] \in Loan
         /\ Sound(loans'[b], now)
         /\ loans'[b].principal = loans[b].principal - p
         /\ loans'[b].interestAccrued = Accrued(b).interestAccrued - i
         /\ loans'[b].lastAccrualAt = Accrued(b).lastAccrualAt
<1> DEFINE l == Accrued(b)
<1>1. /\ l \in Loan /\ Sound(loans[b], now) /\ loans \in [Borrower -> Loan]
      /\ l.principal = loans[b].principal /\ l.dueAt = loans[b].dueAt
      /\ loans[b].principal > 0 => l.lastAccrualAt = now
      /\ loans[b].principal = 0 => l = loans[b]
  BY AccruedLoan, LineInvParts DEF LineTypeOK
<1>2. loans' = [loans EXCEPT ![b] = WithRepayment(l, i, p)]
  BY DEF IsRepayment
<1>3. loans'[b] = WithRepayment(l, i, p) /\ \A x \in Borrower \ {b} : loans'[x] = loans[x]
  BY <1>1, <1>2
<1>4. i \in 0 .. l.interestAccrued /\ p \in 0 .. l.principal /\ (p > 0 => i = l.interestAccrued)
  BY <1>1 DEF IsRepayment
<1>5. WithRepayment(l, i, p) \in Loan
  BY <1>1, <1>4, RepaymentFields
<1>6. WithRepayment(l, i, p).principal = l.principal - p
  BY <1>1, <1>4, RepaymentFields
<1>7. WithRepayment(l, i, p).interestAccrued = l.interestAccrued - i
  BY <1>1, <1>4, RepaymentFields
<1>8. WithRepayment(l, i, p).lastAccrualAt = l.lastAccrualAt
  BY <1>1, <1>4, RepaymentFields
<1>9. WithRepayment(l, i, p).dueAt = l.dueAt
  BY <1>1, <1>4, RepaymentFields
<1>10. now \in Nat \ {0}
  BY NowType DEF LineInv
<1>11. Sound(loans'[b], now)
  BY <1>1, <1>3, <1>4, <1>6, <1>7, <1>8, <1>9, <1>10 DEF Sound, Loan
<1> QED
  BY <1>1, <1>3, <1>5, <1>6, <1>7, <1>8, <1>11

---------------------------------------------------------------------------
(* A step that replaces the loan of one borrower, or none, by a sound one  *)
(* keeps the loans' part of the invariant.                                 *)
LEMMA OneLoanStep ==
  ASSUME LineInv, NEW b \in Borrower, NEW x,
         x \in Loan, Sound(x, now), loans' = [loans EXCEPT ![b] = x], now' = now
  PROVE  loans' \in [Borrower -> Loan] /\ \A c \in Borrower : Sound(loans'[c], now')
  BY LineInvParts DEF LineTypeOK

LEMMA BorrowStep ==
  ASSUME LineInv, NEW b \in Borrower, NEW n \in Amount, NEW d \in DurationArg, Borrow(b, n, d)
  PROVE  LineInv'
<1> DEFINE fee == OriginationFee(n)
<1>1. n \in Nat \ {0} /\ fee \in Nat /\ n - fee \in Nat
  BY BorrowedLoan
<1>2. loans' = [loans EXCEPT ![b] = loans'[b]]
  BY DEF Borrow, CanBorrow, LineInv, LineTypeOK
<1>3. loans'[b] \in Loan /\ Sound(loans'[b], now) /\ now' = now
  BY BorrowedLoan DEF Borrow, CanBorrow, registryVars
<1>4. loans' \in [Borrower -> Loan] /\ \A c \in Borrower : Sound(loans'[c], now')
  BY <1>2, <1>3, OneLoanStep
<1>5. LineTypeOK
  BY DEF LineInv
<1>6. TokenTypeOK'
  <2>1. b \in Account /\ treasury \in Account /\ balance \in [Account -> Nat]
    BY <1>5 DEF LineTypeOK, TokenTypeOK
  <2>2. Minted(balance, b, n - fee) \in [Account -> Nat]
    BY <1>1, <2>1, MintedType
  <2>3. balance' \in [Account -> Nat]
    BY <1>1, <2>1, <2>2, MintedType DEF Borrow, CanBorrow
  <2>4. totalSupply' \in Int /\ totalSupply' <= MaxUint
    BY <1>1, <1>5 DEF Borrow, CanBorrow, LineTypeOK, TokenTypeOK
  <2> QED
    BY <1>5, <2>3, <2>4 DEF Borrow, CanBorrow, LineTypeOK, TokenTypeOK
<1>7. RegistryTypeOK'
  BY <1>5 DEF Borrow, CanBorrow, LineTypeOK, RegistryTypeOK, registryVars, pohVars
<1>8. LineTypeOK'
  BY <1>4, <1>5, <1>6, <1>7 DEF Borrow, CanBorrow, LineTypeOK
<1> QED
  BY <1>4, <1>8, LineInvParts DEF LineInv, InterestBeforePrincipal, OpenLoanClock, Sound

(* Both repayment paths: the caller only changes who may call. *)
RepaymentFrame ==
  UNCHANGED <<tokenPaused, tokenRole, registryVars, scores, consumedScoreNonces,
              treasury, originationFeeBps, linePaused, lineRole>>

LEMMA RepaymentStep ==
  ASSUME LineInv, NEW b \in Borrower, NEW n \in Nat \ {0},
         TakeRepayment(b, n), RepaymentFrame
  PROVE  LineInv'
<1>1. PICK i \in Nat, p \in Nat : IsRepayment(b, i, p)
  BY RepaymentSplit
<1>2. loans' = [loans EXCEPT ![b] = loans'[b]]
  BY <1>1 DEF IsRepayment, LineInv, LineTypeOK
<1>3. loans'[b] \in Loan /\ Sound(loans'[b], now) /\ now' = now
  BY <1>1, RepaidLoan DEF RepaymentFrame, registryVars
<1>4. loans' \in [Borrower -> Loan] /\ \A c \in Borrower : Sound(loans'[c], now')
  BY <1>2, <1>3, OneLoanStep
<1>5. LineTypeOK
  BY DEF LineInv
<1>6. TokenTypeOK'
  <2> DEFINE allowed == Spent(allowance, b, Line, i)
             held == Moved(balance, b, treasury, i)
  <2>1. /\ b \in Account /\ treasury \in Account /\ Line \in Spender
        /\ balance \in [Account -> Nat]
        /\ allowance \in [Account -> [Spender -> 0 .. MaxUint]]
        /\ totalSupply \in Int /\ totalSupply <= MaxUint
    BY <1>5 DEF LineTypeOK, TokenTypeOK
  <2>2. /\ CanSpend(allowance, b, Line, i) /\ balance[b] >= i
        /\ CanSpend(allowed, b, Line, p) /\ held[b] >= p
        /\ allowance' = Spent(allowed, b, Line, p)
        /\ balance' = Burned(held, b, p)
        /\ totalSupply' = totalSupply - p
    BY <1>1 DEF IsRepayment
  <2>3. allowed \in [Account -> [Spender -> 0 .. MaxUint]]
    BY <2>1, <2>2, SpentType
  <2>4. held \in [Account -> Nat]
    BY <2>1, <2>2, MovedType
  <2> HIDE DEF allowed, held
  <2>5. allowance' \in [Account -> [Spender -> 0 .. MaxUint]]
    BY <2>1, <2>2, <2>3, SpentType
  <2>6. balance' \in [Account -> Nat]
    BY <2>1, <2>2, <2>4, BurnedType
  <2>7. totalSupply' \in Int /\ totalSupply' <= MaxUint
    BY <2>1, <2>2
  <2> QED
    BY <1>5, <2>5, <2>6, <2>7 DEF RepaymentFrame, LineTypeOK, TokenTypeOK
<1>7. RegistryTypeOK'
  BY <1>5 DEF RepaymentFrame, LineTypeOK, RegistryTypeOK, registryVars, pohVars
<1>8. LineTypeOK'
  BY <1>4, <1>5, <1>6, <1>7 DEF RepaymentFrame, LineTypeOK
<1> QED
  BY <1>4, <1>8 DEF LineInv, InterestBeforePrincipal, OpenLoanClock, Sound

(* A step that leaves the loans alone while time does not run backwards.   *)
LEMMA SameLoansStep ==
  ASSUME LineInv, LineTypeOK', UNCHANGED loans, now' >= now
  PROVE  LineInv'
<1>1. now \in Nat /\ now' \in Nat
  BY DEF LineInv, LineTypeOK, RegistryTypeOK
<1>2. \A b \in Borrower : loans[b] \in Loan
  BY DEF LineInv, LineTypeOK
<1>3. ASSUME NEW b \in Borrower
      PROVE  Sound(loans[b], now')
  BY <1>1, <1>2, LineInvParts DEF Sound, Loan
<1> QED
  BY <1>3 DEF LineInv, InterestBeforePrincipal, OpenLoanClock, Sound

(* The steps that touch neither loans nor tokens of the line: they only    *)
(* have to stay well typed.                                                *)
LEMMA ApplyScoreStep ==
  ASSUME LineInv,
         NEW sc \in [scorer : Scorer, borrower : Borrower, tier : Nat, maxLine : Nat, aprBps : Nat,
                     issuedAt : Nat, expiresAt : Nat, nonce : ScoreNonce],
         ApplyScore(sc)
  PROVE  LineInv'
<1>1. sc.scorer \in Scorer /\ sc.borrower \in Borrower /\ sc.nonce \in ScoreNonce
  OBVIOUS
<1>2. [tier |-> sc.tier, maxLine |-> sc.maxLine, aprBps |-> sc.aprBps,
       issuedAt |-> sc.issuedAt, expiresAt |-> sc.expiresAt] \in Score
  BY DEF Score, ApplyScore, CanApplyScore
<1>3. scores' \in [Borrower -> Score]
  BY <1>1, <1>2 DEF ApplyScore, CanApplyScore, LineInv, LineTypeOK
<1>4. consumedScoreNonces' \in [Scorer -> SUBSET ScoreNonce]
  BY <1>1 DEF ApplyScore, CanApplyScore, LineInv, LineTypeOK
<1>5. LineTypeOK'
  BY <1>3, <1>4
     DEF ApplyScore, CanApplyScore, LineInv, LineTypeOK, TokenTypeOK, RegistryTypeOK, tokenVars, registryVars, pohVars
<1>6. UNCHANGED loans /\ now' >= now
  BY NowType DEF ApplyScore, CanApplyScore, registryVars, LineInv
<1> QED
  BY <1>5, <1>6, SameLoansStep

LEMMA SignedScoreType ==
  SignedScore \subseteq [scorer : Scorer, borrower : Borrower, tier : Nat, maxLine : Nat, aprBps : Nat,
                         issuedAt : Nat, expiresAt : Nat, nonce : ScoreNonce]
  BY ScoreAssumption DEF SCORE

LEMMA AdminStep ==
  ASSUME LineInv, AdminNext
  PROVE  LineInv'
<1>1. UNCHANGED <<tokenVars, registryVars, scores, loans, consumedScoreNonces>>
  BY DEF AdminNext, SetTreasury, SetOriginationFeeBps, Pause, Unpause, GrantLineRole, RevokeLineRole
<1>2. LineTypeOK
  BY DEF LineInv
<1>5. treasury' \in Treasury /\ linePaused' \in BOOLEAN
  BY <1>2 DEF AdminNext, SetTreasury, SetOriginationFeeBps, Pause, Unpause, GrantLineRole,
              RevokeLineRole, LineTypeOK
<1>6. originationFeeBps' \in 0 .. MAX_FEE_BPS
  <2>1. ASSUME NEW c \in Caller, NEW f \in FeeArg, SetOriginationFeeBps(c, f)
        PROVE  originationFeeBps' \in 0 .. MAX_FEE_BPS
    <3>1. f \in Nat /\ f <= MAX_FEE_BPS
      BY <2>1 DEF SetOriginationFeeBps
    <3> QED
      BY <2>1, <3>1 DEF SetOriginationFeeBps
  <2> QED
    BY <1>2, <2>1 DEF AdminNext, SetTreasury, Pause, Unpause, GrantLineRole, RevokeLineRole, LineTypeOK
<1>7. lineRole' \in [LineRole -> SUBSET Caller]
  BY <1>2 DEF AdminNext, SetTreasury, SetOriginationFeeBps, Pause, Unpause, GrantLineRole,
              RevokeLineRole, LineTypeOK
<1>3. LineTypeOK'
  BY <1>1, <1>2, <1>5, <1>6, <1>7 DEF LineInv, LineTypeOK, TokenTypeOK, RegistryTypeOK, tokenVars, registryVars, pohVars
<1>4. UNCHANGED loans /\ now' >= now
  BY <1>1, NowType DEF registryVars, LineInv
<1> QED
  BY <1>3, <1>4, SameLoansStep

LEMMA HolderStep ==
  ASSUME LineInv, HolderNext
  PROVE  LineInv'
<1>1. UNCHANGED <<registryVars, lineVars>>
  BY DEF HolderNext
<1>2. WalletNext \/ TokenPauserNext
  <2>1. \A b \in Borrower : b \in Account
    OBVIOUS
  <2> QED
    BY <2>1 DEF HolderNext, WalletNext
<1>3. TokenTypeOK'
  BY <1>2, HolderTypeStep DEF LineInv, LineTypeOK
<1>4. LineTypeOK'
  BY <1>1, <1>3 DEF LineInv, LineTypeOK, RegistryTypeOK, registryVars, pohVars, lineVars
<1>5. UNCHANGED loans /\ now' >= now
  BY <1>1, NowType DEF registryVars, lineVars, LineInv
<1> QED
  BY <1>4, <1>5, SameLoansStep

LEMMA RegistryStep ==
  ASSUME LineInv, AttestationNext \/ ClockNext
  PROVE  LineInv'
<1>1. UNCHANGED <<tokenVars, lineVars>>
  BY DEF AttestationNext, ClockNext
<1>2. RegistryTypeOK'
  BY RegistryTypeStep DEF AttestationNext, ClockNext, LineInv, LineTypeOK
<1>3. LineTypeOK'
  BY <1>1, <1>2 DEF LineInv, LineTypeOK, TokenTypeOK, tokenVars, lineVars
<1>4. UNCHANGED loans
  BY <1>1 DEF lineVars
<1>5. now' >= now
  <2>1. now \in Nat /\ now' \in Nat
    BY <1>2 DEF RegistryTypeOK, LineInv, LineTypeOK
  <2>2. now' = now \/ now' > now
    BY DEF AttestationNext, ClockNext, RegistryNext, RecordAttestation, StoreAttestation, Revoke, GrantAttestor,
           RevokeAttestor, Tick
  <2> QED
    BY <2>1, <2>2
<1> QED
  BY <1>3, <1>4, <1>5, SameLoansStep

LEMMA LineInvStep ==
  ASSUME LineInv, [Next]_vars
  PROVE  LineInv'
<1>1. ASSUME NEW sc \in SignedScore, ApplyScore(sc)
      PROVE  LineInv'
  BY <1>1, SignedScoreType, ApplyScoreStep
<1>2. ASSUME NEW b \in Borrower, NEW n \in Amount, NEW d \in DurationArg, Borrow(b, n, d)
      PROVE  LineInv'
  BY <1>2, BorrowStep
<1>3. ASSUME NEW c \in Caller, NEW b \in Borrower, NEW n \in Amount, OnSaleReceived(c, b, n)
      PROVE  LineInv'
  <2>1. n # 0 /\ TakeRepayment(b, n)
    BY <1>3 DEF OnSaleReceived
  <2>2. RepaymentFrame
    BY <1>3 DEF OnSaleReceived, RepaymentFrame
  <2>3. n \in Nat \ {0}
    BY <2>1, PositiveAmount
  <2> QED
    BY <2>1, <2>2, <2>3, RepaymentStep
<1>4. ASSUME NEW b \in Borrower, NEW n \in Amount, Repay(b, n)
      PROVE  LineInv'
  <2>1. n # 0 /\ TakeRepayment(b, n)
    BY <1>4 DEF Repay, CanRepay
  <2>2. RepaymentFrame
    BY <1>4 DEF Repay, RepaymentFrame
  <2>3. n \in Nat \ {0}
    BY <2>1, PositiveAmount
  <2> QED
    BY <2>1, <2>2, <2>3, RepaymentStep
<1>5. CASE UNCHANGED vars
  <2>1. LineTypeOK'
    BY <1>5 DEF vars, tokenVars, registryVars, pohVars, lineVars, LineInv, LineTypeOK,
                TokenTypeOK, RegistryTypeOK
  <2>2. UNCHANGED loans /\ now' >= now
    BY <1>5, NowType DEF vars, registryVars, lineVars, LineInv
  <2> QED
    BY <2>1, <2>2, SameLoansStep
<1> QED
  BY <1>1, <1>2, <1>3, <1>4, <1>5, HolderStep, AdminStep, RegistryStep DEF Next, DebtNext

LEMMA LineInvInit == LineInit => LineInv
<1> SUFFICES ASSUME LineInit PROVE LineInv
  OBVIOUS
<1>1. RegistryTypeOK
  BY RegistryTypeInit DEF LineInit
<1>2. TokenTypeOK
  <2>1. totalSupply \in Int /\ totalSupply <= MaxUint
    BY DEF LineInit
  <2>2. balance \in [Account -> Nat] /\ allowance \in [Account -> [Spender -> 0 .. MaxUint]]
    BY DEF LineInit
  <2>3. tokenRole \in [TokenRole -> SUBSET RoleHolder]
    BY DEF LineInit, RoleHolder
  <2> QED
    BY <2>1, <2>2, <2>3 DEF LineInit, TokenTypeOK
<1>3. NoScore \in Score /\ NoLoan \in Loan
  BY DEF NoScore, Score, CreditTier, NoLoan, Loan
<1>4. LineTypeOK
  <2>1. scores \in [Borrower -> Score] /\ loans \in [Borrower -> Loan]
    BY <1>3 DEF LineInit
  <2>2. consumedScoreNonces \in [Scorer -> SUBSET ScoreNonce]
    BY DEF LineInit
  <2>3. lineRole \in [LineRole -> SUBSET Caller]
    BY DEF LineInit
  <2>4. treasury \in Treasury /\ linePaused \in BOOLEAN
    BY DEF LineInit
  <2>5. originationFeeBps \in 0 .. MAX_FEE_BPS
    <3>1. DEFAULT_FEE_BPS \in Nat /\ DEFAULT_FEE_BPS <= MAX_FEE_BPS
      OBVIOUS
    <3> QED
      BY <3>1 DEF LineInit
  <2> QED
    BY <1>1, <1>2, <2>1, <2>2, <2>3, <2>4, <2>5 DEF LineTypeOK
<1>5. now \in Nat \ {0}
  BY <1>4, NowType
<1>6. \A b \in Borrower : Sound(loans[b], now)
  BY <1>5 DEF LineInit, NoLoan, Sound
<1> QED
  BY <1>4, <1>6, LineInvParts

(* The credit line with its token and registry is well typed, a closed     *)
(* loan owes no interest, and the clock of an open one is never ahead      *)
(* (_accrue, borrow, repay, onSaleReceived).                               *)
THEOREM LineInvariant == Spec => []LineInv
<1>1. LineInit => LineInv
  BY LineInvInit
<1>2. LineInv /\ [Next]_vars => LineInv'
  BY LineInvStep
<1> QED
  BY <1>1, <1>2, PTL DEF Spec

(* Whoever calls what, every field stays a natural number: no repayment    *)
(* takes a principal, an interest or an allowance below zero.              *)
THEOREM LineTypeCorrect == Spec => []LineTypeOK
<1>1. LineInv => LineTypeOK
  BY DEF LineInv
<1> QED
  BY <1>1, LineInvariant, PTL

(* No repayment, by the borrower or from a sale, leaves interest behind on *)
(* a loan without principal (repay, onSaleReceived).                       *)
THEOREM InterestIsPaidFirst == Spec => []InterestBeforePrincipal
<1>1. LineInv => InterestBeforePrincipal
  BY DEF LineInv
<1> QED
  BY <1>1, LineInvariant, PTL

(* The accrual clock of an open loan is set and never ahead of the block,  *)
(* so no subtraction of _pendingInterest reverts; its maturity is bounded. *)
THEOREM OpenLoansAreClocked == Spec => []OpenLoanClock
<1>1. LineInv => OpenLoanClock
  BY DEF LineInv
<1> QED
  BY <1>1, LineInvariant, PTL

---------------------------------------------------------------------------
(* The origination fee leaves something to mint to the borrower, so no     *)
(* setting the admin can make blocks every draw (setOriginationFeeBps).    *)
THEOREM FeesLeaveNet == Spec => []FeeLeavesNet
<1>1. LineInv => FeeLeavesNet
  BY FeeBelowAmount, AmountType DEF LineInv, FeeLeavesNet
<1> QED
  BY <1>1, LineInvariant, PTL

(* Only draws and repayments change a loan. *)
LEMMA LoanChange ==
  ASSUME LineInv, [Next]_vars, loans' # loans
  PROVE  \/ \E b \in Borrower, n \in Amount, d \in DurationArg : Borrow(b, n, d)
         \/ \E b \in Borrower, i, p \in Nat :
              IsRepayment(b, i, p) /\ RepaymentFrame /\ ~linePaused /\ ~tokenPaused
<1>1. UNCHANGED vars => FALSE
  BY DEF vars, lineVars
<1>2. AdminNext => FALSE
  BY DEF AdminNext, SetTreasury, SetOriginationFeeBps, Pause, Unpause, GrantLineRole, RevokeLineRole
<1>3. HolderNext \/ AttestationNext \/ ClockNext => FALSE
  BY DEF HolderNext, AttestationNext, ClockNext, lineVars
<1>4. ASSUME NEW sc \in SignedScore, ApplyScore(sc)
      PROVE  FALSE
  BY <1>4 DEF ApplyScore, CanApplyScore
<1>5. ASSUME NEW b \in Borrower, NEW n \in Amount, n # 0, TakeRepayment(b, n),
             RepaymentFrame, ~linePaused
      PROVE  \E i, p \in Nat :
               IsRepayment(b, i, p) /\ RepaymentFrame /\ ~linePaused /\ ~tokenPaused
  <2>1. ~tokenPaused
    BY <1>5 DEF TakeRepayment, CanTakeRepayment
  <2>2. \E i, p \in Nat : IsRepayment(b, i, p)
    BY <1>5, PositiveAmount, RepaymentSplit
  <2> QED
    BY <1>5, <2>1, <2>2
<1>6. ASSUME NEW c \in Caller, NEW b \in Borrower, NEW n \in Amount, OnSaleReceived(c, b, n)
      PROVE  \E i, p \in Nat :
               IsRepayment(b, i, p) /\ RepaymentFrame /\ ~linePaused /\ ~tokenPaused
  BY <1>5, <1>6 DEF OnSaleReceived, RepaymentFrame
<1>7. ASSUME NEW b \in Borrower, NEW n \in Amount, Repay(b, n)
      PROVE  \E i, p \in Nat :
               IsRepayment(b, i, p) /\ RepaymentFrame /\ ~linePaused /\ ~tokenPaused
  BY <1>5, <1>7 DEF Repay, CanRepay, RepaymentFrame
<1> QED
  BY <1>1, <1>2, <1>3, <1>4, <1>6, <1>7 DEF Next, DebtNext

(* Either pause freezes every loan (whenNotPaused, and HKDm's paused       *)
(* _update under both mint and burn).                                      *)
THEOREM PausesFreezeLoans == Spec => PauseFreezesLoans
<1>1. ASSUME LineInv, [Next]_vars, linePaused \/ tokenPaused
      PROVE  UNCHANGED loans
  BY <1>1, LoanChange DEF Borrow, CanBorrow
<1>2. LineInv /\ [Next]_vars => [linePaused \/ tokenPaused => UNCHANGED loans]_vars
  BY <1>1
<1> QED
  BY <1>2, LineInvariant, PTL DEF Spec, PauseFreezesLoans

(* The debt a draw and a repayment leave the borrower with: nothing more   *)
(* is pending in the block that touched the loan.                          *)
LEMMA DebtAfterDraw ==
  ASSUME LineInv, NEW b \in Borrower, NEW n \in Amount, NEW d \in DurationArg, Borrow(b, n, d)
  PROVE  OutstandingDebt(b)' = OutstandingDebt(b) + n
<1>1. /\ n \in Nat /\ loans'[b] \in Loan /\ loans'[b].lastAccrualAt = now
      /\ loans'[b].principal = loans[b].principal + n
      /\ loans'[b].interestAccrued = Accrued(b).interestAccrued
  BY BorrowedLoan
<1>2. /\ Accrued(b) \in Loan /\ Accrued(b).principal = loans[b].principal
      /\ Owed(Accrued(b)) = OutstandingDebt(b)
  BY AccruedLoan
<1>3. now' = now /\ scores'[b] = scores[b] /\ now \in Nat /\ scores[b].aprBps \in Nat
  BY NowType DEF Borrow, CanBorrow, registryVars, LineInv, LineTypeOK, Score
<1>4. PendingInterest(loans'[b], scores[b].aprBps, now) = 0
  BY <1>1, <1>3, NothingPending
<1>5. Owed(loans'[b]) = Owed(Accrued(b)) + n
  BY <1>1, <1>2 DEF Owed, Loan
<1>6. Owed(Accrued(b)) + n \in Nat
  BY <1>1, <1>2 DEF Owed, Loan
<1> QED
  BY <1>2, <1>3, <1>4, <1>5, <1>6 DEF OutstandingDebt

LEMMA DebtAfterRepayment ==
  ASSUME LineInv, NEW b \in Borrower, NEW i \in Nat, NEW p \in Nat,
         IsRepayment(b, i, p), RepaymentFrame
  PROVE  OutstandingDebt(b)' = OutstandingDebt(b) - (i + p)
<1>1. /\ loans'[b] \in Loan /\ loans'[b].lastAccrualAt = Accrued(b).lastAccrualAt
      /\ loans'[b].principal = loans[b].principal - p
      /\ loans'[b].interestAccrued = Accrued(b).interestAccrued - i
  BY RepaidLoan
<1>2. /\ Accrued(b) \in Loan /\ Accrued(b).principal = loans[b].principal
      /\ loans[b].principal > 0 => Accrued(b).lastAccrualAt = now
      /\ Owed(Accrued(b)) = OutstandingDebt(b)
  BY AccruedLoan
<1>3. now' = now /\ scores'[b] = scores[b] /\ now \in Nat /\ scores[b].aprBps \in Nat
  BY NowType DEF RepaymentFrame, registryVars, LineInv, LineTypeOK, Score
<1>4. loans'[b].principal = 0 \/ loans'[b].lastAccrualAt = now
  BY <1>1, <1>2 DEF Loan
<1>5. PendingInterest(loans'[b], scores[b].aprBps, now) = 0
  BY <1>1, <1>3, <1>4, NothingPending
<1>6. Owed(loans'[b]) = Owed(Accrued(b)) - (i + p) /\ Owed(loans'[b]) \in Nat
  BY <1>1, <1>2 DEF Owed, Loan
<1> QED
  BY <1>2, <1>3, <1>5, <1>6 DEF OutstandingDebt

(* Every draw was authorised when it was made and stays within the line of *)
(* the score it was made on (borrow, isFullyVerified).                     *)
THEOREM DrawsAreAuthorised == Spec => DrawIsAuthorised
<1>1. ASSUME LineInv, [Next]_vars, NEW b \in Borrower,
             loans'[b].principal > loans[b].principal
      PROVE  /\ IsFullyVerified(b) /\ scores[b].expiresAt > now
             /\ ~linePaused /\ ~tokenPaused
             /\ OutstandingDebt(b)' <= scores[b].maxLine
  <2>1. loans[b] \in Loan
    BY <1>1 DEF LineInv, LineTypeOK
  <2>2. loans' # loans
    BY <1>1, <2>1 DEF Loan
  <2>3. ASSUME NEW c \in Borrower, NEW i \in Nat, NEW p \in Nat, IsRepayment(c, i, p)
        PROVE  FALSE
    <3>1. CASE c = b
      BY <1>1, <2>1, <2>3, <3>1, RepaidLoan DEF Loan
    <3>2. CASE c # b
      BY <1>1, <2>1, <2>3, <3>2, RepaidLoan DEF Loan
    <3> QED
      BY <3>1, <3>2
  <2>4. PICK c \in Borrower, n \in Amount, d \in DurationArg : Borrow(c, n, d)
    BY <1>1, <2>2, <2>3, LoanChange
  <2>5. c = b
    BY <1>1, <2>1, <2>4, BorrowedLoan DEF Loan
  <2>6. OutstandingDebt(b)' = OutstandingDebt(b) + n
    BY <1>1, <2>4, <2>5, DebtAfterDraw
  <2>7. OutstandingDebt(b) = Owed(Accrued(b)) /\ OutstandingDebt(b) \in Nat
    BY <1>1, AccruedLoan
  <2>8. n \in Nat \ {0} /\ scores[b].maxLine \in Nat
    BY <1>1, <2>4, AmountType DEF Borrow, CanBorrow, LineInv, LineTypeOK, Score
  <2>9. OutstandingDebt(b) + n <= scores[b].maxLine
    <3>1. n <= Available(b)
      BY <2>4, <2>5 DEF Borrow, CanBorrow
    <3> QED
      BY <2>7, <2>8, <3>1 DEF Available
  <2> QED
    BY <2>4, <2>5, <2>6, <2>9 DEF Borrow, CanBorrow
<1>2. LineInv /\ [Next]_vars =>
        [\A b \in Borrower :
           loans'[b].principal > loans[b].principal =>
             /\ IsFullyVerified(b) /\ scores[b].expiresAt > now
             /\ ~linePaused /\ ~tokenPaused
             /\ OutstandingDebt(b)' <= scores[b].maxLine]_vars
  BY <1>1
<1> QED
  BY <1>2, LineInvariant, PTL DEF Spec, DrawIsAuthorised

(* Where the tokens of a repayment come from and go to. *)
LEMMA RepaymentTokens ==
  ASSUME LineInv, NEW b \in Borrower, NEW i \in Nat, NEW p \in Nat, IsRepayment(b, i, p)
  PROVE  /\ allowance[b][Line] = MaxUint \/ allowance[b][Line] >= i + p
         /\ b # treasury =>
              /\ balance'[b] = balance[b] - (i + p)
              /\ balance'[treasury] = balance[treasury] + i
         /\ totalSupply' = totalSupply - p
<1> DEFINE allowed == Spent(allowance, b, Line, i)
           held == Moved(balance, b, treasury, i)
<1>1. /\ b \in Account /\ treasury \in Account /\ Line \in Spender
      /\ balance \in [Account -> Nat]
      /\ allowance \in [Account -> [Spender -> 0 .. MaxUint]]
  BY DEF LineInv, LineTypeOK, TokenTypeOK
<1>2. /\ CanSpend(allowance, b, Line, i) /\ CanSpend(allowed, b, Line, p)
      /\ balance[b] >= i /\ held[b] >= p
      /\ balance' = Burned(held, b, p) /\ totalSupply' = totalSupply - p
  BY DEF IsRepayment
<1>3. allowance[b][Line] = MaxUint \/ allowance[b][Line] >= i + p
  <2>1. SUFFICES ASSUME allowance[b][Line] # MaxUint
                 PROVE  allowance[b][Line] >= i + p
    OBVIOUS
  <2>2. allowed[b][Line] = allowance[b][Line] - i
    BY <1>1, <2>1 DEF Spent
  <2>3. allowance[b][Line] \in Nat
    BY <1>1
  <2> QED
    BY <1>2, <2>2, <2>3 DEF CanSpend
<1>4. ASSUME b # treasury
      PROVE  /\ balance'[b] = balance[b] - (i + p)
             /\ balance'[treasury] = balance[treasury] + i
  <2>1. held \in [Account -> Nat]
    BY <1>1, <1>2, MovedType
  <2>2. held[b] = balance[b] - i /\ held[treasury] = balance[treasury] + i
    BY <1>1, <1>4 DEF Moved, Minted, Burned
  <2> HIDE DEF held
  <2>3. balance'[b] = held[b] - p /\ balance'[treasury] = held[treasury]
    BY <1>1, <1>2, <1>4, <2>1 DEF Burned
  <2>4. balance[b] \in Nat
    BY <1>1
  <2> QED
    BY <2>2, <2>3, <2>4
<1> QED
  BY <1>2, <1>3, <1>4

(* While its score stands, a debt falls only by what the borrower pays in  *)
(* that step, out of an approval it gave, into the treasury or the furnace *)
(* (repay, onSaleReceived, _accrue).                                       *)
THEOREM DebtsFallByPayment == Spec => DebtFallsByPayment
<1>1. ASSUME LineInv, LineInv', [Next]_vars, NEW b \in Borrower,
             scores'[b] = scores[b], OutstandingDebt(b) - OutstandingDebt(b)' > 0
      PROVE  LET paid == OutstandingDebt(b) - OutstandingDebt(b)' IN
             /\ ~linePaused /\ ~tokenPaused
             /\ allowance[b][Line] >= paid \/ allowance[b][Line] = MaxUint
             /\ b # treasury =>
                  /\ balance[b] - balance'[b] = paid
                  /\ (balance'[treasury] - balance[treasury]) + (totalSupply - totalSupply') = paid
  <2>1. /\ loans[b] \in Loan /\ scores[b].aprBps \in Nat /\ now \in Nat /\ now' \in Nat
        /\ Sound(loans[b], now)
    BY <1>1, LineInvParts DEF LineInv, LineTypeOK, Score, RegistryTypeOK
  <2>2. OutstandingDebt(b) \in Nat
    BY <1>1, AccruedLoan
  <2>3. now' >= now
    <3>1. now' = now \/ now' > now
      BY <1>1 DEF Next, DebtNext, ApplyScore, CanApplyScore, Borrow, CanBorrow, OnSaleReceived, Repay, CanRepay, HolderNext, AdminNext,
                  SetTreasury, SetOriginationFeeBps, Pause, Unpause, GrantLineRole, RevokeLineRole,
                  AttestationNext, RegistryNext, RecordAttestation, StoreAttestation, Revoke, GrantAttestor,
                  RevokeAttestor, ClockNext, Tick, vars, registryVars
    <3> QED
      BY <2>1, <3>1
  <2>4. loans'[b] # loans[b]
    <3>1. SUFFICES ASSUME loans'[b] = loans[b]
                   PROVE  /\ OutstandingDebt(b)' \in Int
                          /\ OutstandingDebt(b)' >= OutstandingDebt(b)
      BY <1>1, <2>2
    <3>2. loans[b].principal > 0 => loans[b].lastAccrualAt <= now
      BY <2>1 DEF Sound
    <3>3. PendingInterest(loans[b], scores[b].aprBps, now)
            <= PendingInterest(loans[b], scores[b].aprBps, now')
      BY <2>1, <2>3, <3>2, PendingMonotone
    <3>4. PendingInterest(loans[b], scores[b].aprBps, now) \in Nat
      BY <2>1, <3>2, PendingType
    <3>5. PendingInterest(loans[b], scores[b].aprBps, now') \in Nat
      <4>1. loans[b].principal > 0 => loans[b].lastAccrualAt <= now'
        BY <2>1, <2>3, <3>2 DEF Loan
      <4> QED
        BY <2>1, <4>1, PendingType
    <3>6. Owed(loans[b]) \in Nat
      BY <2>1 DEF Owed, Loan
    <3> QED
      BY <1>1, <3>1, <3>3, <3>4, <3>5, <3>6 DEF OutstandingDebt
  <2>5. ASSUME NEW c \in Borrower, NEW n \in Amount, NEW d \in DurationArg, Borrow(c, n, d)
        PROVE  FALSE
    <3>1. c = b
      BY <1>1, <2>4, <2>5, BorrowedLoan
    <3>2. OutstandingDebt(b)' = OutstandingDebt(b) + n /\ n \in Nat
      BY <1>1, <2>5, <3>1, DebtAfterDraw, AmountType
    <3> QED
      BY <1>1, <2>2, <3>2
  <2>5a. ~linePaused /\ ~tokenPaused
    BY <1>1, <2>4, <2>5, LoanChange
  <2>6. PICK c \in Borrower, i \in Nat, p \in Nat : IsRepayment(c, i, p) /\ RepaymentFrame
    BY <1>1, <2>4, <2>5, LoanChange
  <2>7. c = b
    BY <1>1, <2>4, <2>6, RepaidLoan
  <2>8. OutstandingDebt(b)' = OutstandingDebt(b) - (i + p)
    BY <1>1, <2>6, <2>7, DebtAfterRepayment
  <2>9. OutstandingDebt(b) - OutstandingDebt(b)' = i + p
    BY <2>2, <2>8
  <2>10. /\ allowance[b][Line] = MaxUint \/ allowance[b][Line] >= i + p
         /\ b # treasury =>
              /\ balance'[b] = balance[b] - (i + p)
              /\ balance'[treasury] = balance[treasury] + i
         /\ totalSupply' = totalSupply - p
    BY <1>1, <2>6, <2>7, RepaymentTokens
  <2>11. balance[b] \in Nat /\ balance[treasury] \in Nat /\ totalSupply \in Int
    BY <1>1 DEF LineInv, LineTypeOK, TokenTypeOK
  <2> QED
    BY <2>5a, <2>9, <2>10, <2>11
<1>2. LineInv /\ LineInv' /\ [Next]_vars =>
        [\A b \in Borrower :
           LET paid == OutstandingDebt(b) - OutstandingDebt(b)' IN
           scores'[b] = scores[b] /\ paid > 0 =>
             /\ ~linePaused /\ ~tokenPaused
             /\ allowance[b][Line] >= paid \/ allowance[b][Line] = MaxUint
             /\ b # treasury =>
                  /\ balance[b] - balance'[b] = paid
                  /\ (balance'[treasury] - balance[treasury])
                       + (totalSupply - totalSupply') = paid]_vars
  BY <1>1
<1> QED
  BY <1>2, LineInvariant, PTL DEF Spec, DebtFallsByPayment

(* The credit line implements the abstract issuer: HKDm comes and goes     *)
(* only with the principal of one borrower (borrow's mints, the burns).    *)
THEOREM IssuanceIsBacked == Spec => ImplementsBackedIssuance
<1> DEFINE lent == [b \in Borrower |-> loans[b].principal]
<1>1. LineInit => Issuance!IssuanceInit
  BY DEF LineInit, NoLoan, Issuance!IssuanceInit
<1>2. ASSUME LineInv, [Next]_vars
      PROVE  [Issuance!IssuanceNext]_(Issuance!issuanceVars)
  <2>1. CASE loans' = loans
    <3>1. totalSupply' = totalSupply
      <4>1. ASSUME NEW b \in Borrower, NEW i \in Nat, NEW p \in Nat, IsRepayment(b, i, p)
            PROVE  totalSupply' = totalSupply
        <5>1. p = 0
          <6>1. loans'[b].principal = loans[b].principal - p
            BY <1>2, <4>1, RepaidLoan
          <6>2. loans'[b].principal = loans[b].principal
            BY <2>1
          <6>3. loans[b].principal \in Nat
            BY <1>2 DEF LineInv, LineTypeOK, Loan
          <6> QED
            BY <6>1, <6>2, <6>3
        <5> QED
          BY <1>2, <4>1, <5>1 DEF IsRepayment, LineInv, LineTypeOK, TokenTypeOK
      <4>2. ASSUME NEW b \in Borrower, NEW n \in Amount, NEW d \in DurationArg, Borrow(b, n, d)
            PROVE  FALSE
        <5>1. n \in Nat \ {0} /\ loans'[b].principal = loans[b].principal + n
          BY <1>2, <4>2, BorrowedLoan
        <5>2. loans'[b].principal = loans[b].principal
          BY <2>1
        <5>3. loans[b].principal \in Nat
          BY <1>2 DEF LineInv, LineTypeOK, Loan
        <5> QED
          BY <5>1, <5>2, <5>3
      <4>3. ASSUME NEW b \in Borrower, NEW n \in Amount, n # 0, TakeRepayment(b, n)
            PROVE  totalSupply' = totalSupply
        BY <1>2, <4>1, <4>3, PositiveAmount, RepaymentSplit
      <4>4. ASSUME NEW c \in Caller, NEW b \in Borrower, NEW n \in Amount, OnSaleReceived(c, b, n)
            PROVE  totalSupply' = totalSupply
        BY <4>3, <4>4 DEF OnSaleReceived
      <4>5. ASSUME NEW b \in Borrower, NEW n \in Amount, Repay(b, n)
            PROVE  totalSupply' = totalSupply
        BY <4>3, <4>5 DEF Repay, CanRepay
      <4> QED
        BY <1>2, <4>2, <4>4, <4>5
           DEF Next, DebtNext, ApplyScore, CanApplyScore, HolderNext, Transfer, Approve, TokenPauserNext,
               PauseToken, UnpauseToken, AttestationNext, ClockNext, AdminNext, SetTreasury,
               SetOriginationFeeBps, Pause, Unpause, GrantLineRole, RevokeLineRole,
               tokenVars, ledgerVars, vars
    <3> QED
      BY <2>1, <3>1 DEF Issuance!issuanceVars
  <2>2. ASSUME NEW b \in Borrower, NEW n \in Amount, NEW d \in DurationArg, Borrow(b, n, d)
        PROVE  Issuance!Issue(b)
    <3>1. totalSupply' = totalSupply + n /\ n \in Nat \ {0} /\ totalSupply \in Int
      BY <1>2, <2>2, BorrowedLoan DEF Borrow, CanBorrow, LineInv, LineTypeOK, TokenTypeOK
    <3>2. loans'[b].principal = loans[b].principal + n
      BY <1>2, <2>2, BorrowedLoan
    <3>3. \A x \in Borrower \ {b} : loans'[x] = loans[x]
      BY <1>2, <2>2, BorrowedLoan
    <3>4. lent' = [lent EXCEPT ![b] = @ + n]
      BY <3>2, <3>3
    <3>5. totalSupply' > totalSupply /\ totalSupply' - totalSupply = n
      BY <3>1
    <3> QED
      BY <3>4, <3>5 DEF Issuance!Issue
  <2>3. ASSUME NEW b \in Borrower, NEW i \in Nat, NEW p \in Nat, IsRepayment(b, i, p)
        PROVE  Issuance!Redeem(b) \/ UNCHANGED <<lent, totalSupply>>
    <3>1. totalSupply' = totalSupply - p /\ p \in 0 .. loans[b].principal /\ totalSupply \in Int
      BY <1>2, <2>3 DEF IsRepayment, LineInv, LineTypeOK, TokenTypeOK
    <3>2. loans'[b].principal = loans[b].principal - p /\ loans[b].principal \in Nat
      BY <1>2, <2>3, RepaidLoan DEF LineInv, LineTypeOK, Loan
    <3>3. \A x \in Borrower \ {b} : loans'[x] = loans[x]
      BY <1>2, <2>3, RepaidLoan
    <3>4. CASE p = 0
      <4>1. lent' = lent
        BY <3>2, <3>3, <3>4
      <4> QED
        BY <3>1, <3>4, <4>1
    <3>5. CASE p > 0
      <4>1. totalSupply' < totalSupply /\ totalSupply - totalSupply' = p /\ p <= loans[b].principal
        BY <3>1, <3>5
      <4>2. lent' = [lent EXCEPT ![b] = @ - p]
        BY <3>2, <3>3
      <4> QED
        BY <4>1, <4>2 DEF Issuance!Redeem
    <3> QED
      BY <3>1, <3>4, <3>5
  <2> QED
    BY <1>2, <2>1, <2>2, <2>3, LoanChange DEF Issuance!IssuanceNext, Issuance!issuanceVars
<1> QED
  BY <1>1, <1>2, LineInvariant, PTL DEF Spec, ImplementsBackedIssuance, Issuance!IssuanceSpec

---------------------------------------------------------------------------
(* The supply again: the transactions of the line. *)
LEMMA BorrowSupplyStep ==
  ASSUME LineInv, SupplyIsHeld,
         NEW b \in Borrower, NEW n \in Amount, NEW d \in DurationArg, Borrow(b, n, d)
  PROVE  SupplyIsHeld'
<1> DEFINE fee == OriginationFee(n)
           net == n - fee
           once == Minted(balance, b, net)
<1>1. /\ balance \in [Account -> Int] /\ b \in Account /\ treasury \in Account
      /\ totalSupply \in Int
  BY DEF LineInv, LineTypeOK, TokenTypeOK
<1>2. n \in Int /\ fee \in Int
  BY BorrowedLoan
<1>3. balance' = Minted(once, treasury, fee) /\ totalSupply' = totalSupply + n
  BY DEF Borrow, CanBorrow
<1>6. net \in Int /\ net = n - fee
  BY <1>2
<1> HIDE DEF fee, net
<1>4. once \in [Account -> Int] /\ Held(once) = Held(balance) + net
  BY <1>1, <1>6, HeldMinted
<1>7. Held(balance) \in Int
  BY <1>1, HeldChanged
<1> HIDE DEF once
<1>5. Held(balance') = Held(once) + fee
  BY <1>1, <1>2, <1>3, <1>4, HeldMinted
<1> QED
  BY <1>1, <1>2, <1>3, <1>4, <1>5, <1>6, <1>7 DEF SupplyIsHeld

LEMMA RepaymentSupplyStep ==
  ASSUME LineInv, SupplyIsHeld, NEW b \in Borrower, NEW n \in Amount, n # 0, TakeRepayment(b, n)
  PROVE  SupplyIsHeld'
<1>1. PICK i \in Nat, p \in Nat : IsRepayment(b, i, p)
  BY PositiveAmount, RepaymentSplit
<1> DEFINE held == Moved(balance, b, treasury, i)
<1>2. balance \in [Account -> Int] /\ b \in Account /\ treasury \in Account
  BY DEF LineInv, LineTypeOK, TokenTypeOK
<1>3. balance' = Burned(held, b, p) /\ totalSupply' = totalSupply - p
  BY <1>1 DEF IsRepayment
<1>4. held \in [Account -> Int] /\ Held(held) = Held(balance)
  BY <1>1, <1>2, HeldMoved
<1> HIDE DEF held
<1>5. Held(balance') = Held(held) - p
  BY <1>1, <1>2, <1>3, <1>4, HeldBurned
<1> QED
  BY <1>3, <1>4, <1>5 DEF SupplyIsHeld

LEMMA LineSupplyStep ==
  ASSUME LineInv, SupplyIsHeld, [Next]_vars
  PROVE  SupplyIsHeld'
<1>1. ASSUME NEW b \in Borrower, NEW n \in Amount, NEW d \in DurationArg, Borrow(b, n, d)
      PROVE  SupplyIsHeld'
  BY <1>1, BorrowSupplyStep
<1>2. ASSUME NEW c \in Caller, NEW b \in Borrower, NEW n \in Amount, OnSaleReceived(c, b, n)
      PROVE  SupplyIsHeld'
  BY <1>2, RepaymentSupplyStep DEF OnSaleReceived
<1>3. ASSUME NEW b \in Borrower, NEW n \in Amount, Repay(b, n)
      PROVE  SupplyIsHeld'
  BY <1>3, RepaymentSupplyStep DEF Repay, CanRepay
<1>4. CASE HolderNext \/ UNCHANGED tokenVars
  <2>1. totalSupply' = totalSupply
    BY <1>4 DEF HolderNext, Transfer, Approve, TokenPauserNext, PauseToken, UnpauseToken,
                tokenVars, ledgerVars
  <2>2. \/ balance' = balance
        \/ \E from, to \in Account, n \in Amount : balance' = Moved(balance, from, to, n)
    BY <1>4 DEF HolderNext, Transfer, Approve, TokenPauserNext, PauseToken, UnpauseToken,
                tokenVars, ledgerVars
  <2> QED
    BY <2>1, <2>2, TransferSupplyStep DEF LineInv, LineTypeOK
<1> QED
  BY <1>1, <1>2, <1>3, <1>4
     DEF Next, DebtNext, ApplyScore, CanApplyScore, AttestationNext, ClockNext, AdminNext, SetTreasury,
         SetOriginationFeeBps, Pause, Unpause, GrantLineRole, RevokeLineRole, vars

(* Neither do the line's own transactions: the two mints of a draw, the    *)
(* interest that moves and the principal that is burnt.                    *)
THEOREM LineSupplyIsHeld == Spec => []SupplyIsHeld
<1>1. LineInit => SupplyIsHeld
  BY NothingHeld DEF LineInit, SupplyIsHeld
<1>2. LineInv /\ SupplyIsHeld /\ [Next]_vars => SupplyIsHeld'
  BY LineSupplyStep
<1> QED
  BY <1>1, <1>2, LineInvariant, PTL DEF Spec

(* And what circulates is what is lent: the principals, summed over all    *)
(* borrowers, are the supply, hence the sum of all balances. A borrower's  *)
(* principal can be burnt from tokens that exist, though not always from   *)
(* its own.                                                                *)
Lent == [b \in Borrower |-> loans[b].principal]
SupplyIsLent == totalSupply = SumOf(Lent, Borrower)

LEMMA BorrowersAreFinite == IsFiniteSet(Borrower)
  BY AccountAssumption, FS_Subset

LEMMA LentChanged ==
  ASSUME LineInv, LineInv', NEW b \in Borrower, \A x \in Borrower \ {b} : loans'[x] = loans[x]
  PROVE  SumOf(Lent', Borrower)
           = SumOf(Lent, Borrower) - loans[b].principal + loans'[b].principal
<1>1. Lent \in [Borrower -> Int] /\ Lent' \in [Borrower -> Int]
  BY DEF LineInv, LineTypeOK, Loan, Lent
<1>2. Lent[b] = loans[b].principal /\ Lent'[b] = loans'[b].principal
      /\ \A x \in Borrower \ {b} : Lent'[x] = Lent[x]
  BY DEF Lent
<1> QED
  BY <1>1, <1>2, BorrowersAreFinite, SumChanged

THEOREM SupplyIsPrincipal == Spec => []SupplyIsLent
<1>1. LineInit => SupplyIsLent
  <2>1. ASSUME LineInit PROVE Lent = [b \in Borrower |-> 0] /\ totalSupply = 0
    BY <2>1 DEF LineInit, NoLoan, Lent
  <2> QED
    BY <2>1, BorrowersAreFinite, SumOfZeroes DEF SupplyIsLent
<1>2. ASSUME LineInv, LineInv', SupplyIsLent, [Next]_vars
      PROVE  SupplyIsLent'
  <2>0. Lent \in [Borrower -> Int] /\ SumOf(Lent, Borrower) \in Int
    <3>1. Lent \in [Borrower -> Int]
      BY <1>2 DEF LineInv, LineTypeOK, Loan, Lent
    <3> QED
      BY <3>1, BorrowersAreFinite, SumType
  <2>1. ASSUME NEW b \in Borrower, NEW n \in Amount, NEW d \in DurationArg, Borrow(b, n, d)
        PROVE  SupplyIsLent'
    <3>4. loans'[b].principal = loans[b].principal + n /\ n \in Int
      BY <1>2, <2>1, BorrowedLoan
    <3>1. /\ loans'[b].principal = loans[b].principal + n /\ n \in Int
          /\ loans[b].principal \in Int /\ totalSupply' = totalSupply + n
      BY <1>2, <2>1, <3>4 DEF Borrow, CanBorrow, LineInv, LineTypeOK, Loan
    <3>2. \A x \in Borrower \ {b} : loans'[x] = loans[x]
      BY <1>2, <2>1, BorrowedLoan
    <3>3. SumOf(Lent', Borrower)
            = SumOf(Lent, Borrower) - loans[b].principal + loans'[b].principal
      BY <1>2, <3>2, LentChanged
    <3> QED
      BY <1>2, <2>0, <3>1, <3>3 DEF SupplyIsLent
  <2>2. ASSUME NEW b \in Borrower, NEW i \in Nat, NEW p \in Nat, IsRepayment(b, i, p)
        PROVE  SupplyIsLent'
    <3>4. loans'[b].principal = loans[b].principal - p
      BY <1>2, <2>2, RepaidLoan
    <3>1. /\ loans'[b].principal = loans[b].principal - p
          /\ loans[b].principal \in Int /\ totalSupply' = totalSupply - p
      BY <1>2, <2>2, <3>4 DEF IsRepayment, LineInv, LineTypeOK, Loan
    <3>2. \A x \in Borrower \ {b} : loans'[x] = loans[x]
      BY <1>2, <2>2, RepaidLoan
    <3>3. SumOf(Lent', Borrower)
            = SumOf(Lent, Borrower) - loans[b].principal + loans'[b].principal
      BY <1>2, <3>2, LentChanged
    <3> QED
      BY <1>2, <2>0, <2>2, <3>1, <3>3 DEF SupplyIsLent
  <2>3. ASSUME NEW b \in Borrower, NEW n \in Amount, n # 0, TakeRepayment(b, n)
        PROVE  SupplyIsLent'
    BY <1>2, <2>2, <2>3, PositiveAmount, RepaymentSplit
  <2>4. CASE UNCHANGED <<loans, totalSupply>>
    BY <1>2, <2>4 DEF SupplyIsLent, Lent
  <2>5. ASSUME NEW c \in Caller, NEW b \in Borrower, NEW n \in Amount, OnSaleReceived(c, b, n)
        PROVE  SupplyIsLent'
    BY <2>3, <2>5 DEF OnSaleReceived
  <2>6. ASSUME NEW b \in Borrower, NEW n \in Amount, Repay(b, n)
        PROVE  SupplyIsLent'
    BY <2>3, <2>6 DEF Repay, CanRepay
  <2> QED
    BY <1>2, <2>1, <2>4, <2>5, <2>6
       DEF Next, DebtNext, ApplyScore, CanApplyScore, HolderNext, Transfer, Approve, TokenPauserNext,
           PauseToken, UnpauseToken, AttestationNext, ClockNext, AdminNext, SetTreasury,
           SetOriginationFeeBps, Pause, Unpause, GrantLineRole, RevokeLineRole,
           tokenVars, ledgerVars, lineVars, vars
<1> QED
  BY <1>1, <1>2, LineInvariant, PTL DEF Spec

(* Nobody holds more than the supply, the supply stays a uint256, and      *)
(* what one borrower owes in principal never exceeds it.                   *)
Bounded ==
  /\ totalSupply \in 0 .. MaxUint
  /\ \A a \in Account : balance[a] <= totalSupply
  /\ \A b \in Borrower : loans[b].principal <= totalSupply
THEOREM SupplyBoundsAll == Spec => []Bounded
<1>1. ASSUME LineInv, SupplyIsHeld, SupplyIsLent PROVE Bounded
  <2>1. \A a \in Account : totalSupply \in 0 .. MaxUint /\ balance[a] <= totalSupply
    BY <1>1, HeldBounds DEF LineInv, LineTypeOK
  <2>2. treasury \in Account
    BY <1>1 DEF LineInv, LineTypeOK
  <2>3. Lent \in [Borrower -> Nat] /\ \A b \in Borrower : Lent[b] = loans[b].principal
    BY <1>1 DEF LineInv, LineTypeOK, Loan, Lent
  <2> HIDE DEF Lent
  <2>4. \A b \in Borrower : Lent[b] <= SumOf(Lent, Borrower)
    BY <2>3, BorrowersAreFinite, SumBounds
  <2> QED
    BY <1>1, <2>1, <2>2, <2>3, <2>4 DEF Bounded, SupplyIsLent
<1> QED
  BY <1>1, LineInvariant, LineSupplyIsHeld, SupplyIsPrincipal, PTL
============================================================================
