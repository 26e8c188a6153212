---------------------------- MODULE MCZkAttest ----------------------------
(* Two tabs, two identities and one wallet. *)
EXTENDS ZkAttest

CONSTANTS wallet, i1, i2, t1, t2

(* The pair itself stands for its decimal text. *)
MCDecimal == [n \in Nullifier |-> [text |-> n]]
MCMaxCalls == [k \in {wallet} |-> 1]
============================================================================
