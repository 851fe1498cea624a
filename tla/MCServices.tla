----------------------------- MODULE MCServices -----------------------------
(***************************************************************************)
(* Services for TLC: two services, one of them the PFS, three calls of the *)
(* proxy, two payments.                                                    *)
(***************************************************************************)
EXTENDS Services, TLC

CONSTANTS n, s1, s2, t1, t2, t3, q1, q2, p1, p2

MCAddress == n :> 1 @@ s1 :> 1 @@ s2 :> 2

Scenario(calls, pays, prices, failures, opened, proofs, registrations) ==
    [calls |-> calls, payments |-> pays, prices |-> prices, failures |-> failures,
     channels |-> opened, proofs |-> proofs, registrations |-> registrations]

\* Concurrent calls of the proxy; with claims of a PFS; with rewards;
\* concurrent payments; payments while channels change; registrations.
MCScenarios ==
    {Scenario(3, 0, 0, 0, 0, 0, 0), Scenario(2, 1, 0, 0, 0, 0, 0),
     Scenario(2, 0, 0, 0, 0, 1, 0), Scenario(0, 0, 0, 0, 0, 2, 1),
     Scenario(0, 2, 1, 1, 0, 0, 0), Scenario(0, 2, 0, 0, 3, 0, 0),
     Scenario(0, 0, 0, 0, 0, 0, 4)}

Symmetry == Permutations({t1, t2, t3}) \cup Permutations({q1, q2})

=============================================================================
