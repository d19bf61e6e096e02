------------------------------ MODULE MCLedger ------------------------------
(* A purchase of 2 on a card and a deposit of 1 elsewhere: the purchase can  *)
(* be split into two parts, and each part can pair with the deposit.         *)
EXTENDS Ledger, TLC

MCAmount == [b \in Base |-> IF b = "purchase" THEN -2 ELSE 1]
MCAccount == [b \in Base |-> b]
MCParts == {-2, -1}

Symmetry == Permutations(Kids)
=============================================================================
