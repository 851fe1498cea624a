------------------------------ MODULE MCPeers ------------------------------
(* Small instances of Peers for TLC.                                       *)
EXTENDS Peers, TLC

CONSTANTS alice, bob, p1, p2

\* p1 goes from alice to bob; p2, where there is one, comes back.
MCInitiator == [p \in Payments |-> IF p = p1 THEN alice ELSE bob]

MCAmount == [p \in Payments |-> IF p = p1 THEN 2 ELSE 3]

\* bob can send p2 only out of what p1 brought.
MCDeposit == [n \in Nodes |-> IF n = alice THEN 3 ELSE 2]

MCNoTotals == [n \in Nodes |-> {}]

\* alice alone asks, for one withdraw of the tokens p1 does not need.
MCSpareWithdraw == [n \in Nodes |-> IF n = alice THEN {1} ELSE {}]

MCDeposits == [n \in Nodes |-> IF n = alice THEN {4} ELSE {}]
=============================================================================
