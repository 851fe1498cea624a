---------------------------- MODULE MCSettlement ---------------------------
(* Small instances of Settlement for TLC.                                  *)
EXTENDS Settlement

CONSTANTS alice, bob, p1, p2

\* p1 goes from alice to bob; p2, where there is one, comes back.
MCInitiator == [p \in Payments |-> IF p = p1 THEN alice ELSE bob]

MCAmount == [p \in Payments |-> 1]

MCDeposit == [n \in Nodes |-> IF n = alice THEN 2 ELSE 1]
=============================================================================
