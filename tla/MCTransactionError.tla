------------------------- MODULE MCTransactionError -------------------------
(***************************************************************************)
(* Instances of TransactionError for TLC: every name of the tables, the    *)
(* ends of the ranges of the numbers, and messages of length 0, 1 and 300, *)
(* the last with a length that takes two bytes.                            *)
(***************************************************************************)
EXTENDS TransactionError

MCIndex == {0, 3, 255}
MCCustomCode == {0, 22, 255, 256, 6001, 65536, 2147483647}
MCMessage == {<<>>, <<101>>, [i \in 1 .. 300 |-> i % 256]}
=============================================================================
