----------------------------- MODULE MCRelayer -----------------------------
(* Two sales of one merchant against a backlog of one, so the second is    *)
(* refused, sent again and accepted, or never accepted.                    *)
EXTENDS Relayer

CONSTANTS alice, order1, order2

Order(key, m, n) == [key |-> key, borrower |-> m, amount |-> n]
MCSale == {Order(order1, alice, 1), Order(order2, alice, 1)}
============================================================================
