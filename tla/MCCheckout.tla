----------------------------- MODULE MCCheckout -----------------------------
(* Two carts of one borrower, one for a cent and one for nothing; the      *)
(* first is paid once.                                                     *)
EXTENDS Checkout

CONSTANTS alice, cart1, cart2, event1

MCPriceOf == [c \in Cart |-> [int |-> 0, frac |-> IF c = cart1 THEN <<0, 1>> ELSE <<0>>]]
MCAmountOf == [c \in Cart |-> MinorUnits(MCPriceOf[c])]
MCBorrowerOf == [c \in Cart |-> alice]
MCCartOf == [e \in Event |-> cart1]
MCEnv == [appKey |-> "key", appSecret |-> "secret"]
============================================================================
