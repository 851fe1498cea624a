---------------------------- MODULE AtomicPayment ---------------------------
(***************************************************************************)
(* What mediated payments promise to the nodes in the middle.  Hop h of a  *)
(* payment goes from the h-th node of its route to the next.  Each hop is  *)
(* locked after the one before it, and then paid or returned; a node that  *)
(* has paid the next hop can rely on being paid itself.                    *)
(***************************************************************************)
EXTENDS Naturals

CONSTANTS
  Payments,
  Hops          \* the hops of a route are 1 .. Hops

VARIABLE hop    \* hop[p][h]: what has become of payment p at hop h

Init == hop = [p \in Payments |-> [h \in 1 .. Hops |-> "none"]]

Become(p, hs, outcome) ==
  hop'[p] = [h \in 1 .. Hops |-> IF h \in hs THEN outcome ELSE hop[p][h]]

Lock(p, h) ==
  /\ hop[p][h] = "none"
  /\ h > 1 => hop[p][h - 1] = "held"
  /\ Become(p, {h}, "held")

\* Publishing the secret pays several hops at once.
Pay(p, hs) ==
  /\ \A h \in hs : hop[p][h] = "held" /\ \A g \in 1 .. h : hop[p][g] # "returned"
  /\ Become(p, hs, "paid")

Return(p, hs) ==
  /\ \A h \in hs : hop[p][h] = "held" /\ \A g \in h .. Hops : hop[p][g] # "paid"
  /\ Become(p, hs, "returned")

Step(p) ==
  \/ \E h \in 1 .. Hops : Lock(p, h)
  \/ \E hs \in SUBSET (1 .. Hops) : Pay(p, hs) \/ Return(p, hs)

\* One block may settle several payments.
Next ==
  /\ hop' \in [Payments -> [1 .. Hops -> {"none", "held", "paid", "returned"}]]
  /\ \A p \in Payments : Step(p) \/ hop'[p] = hop[p]

Spec == Init /\ [][Next]_hop
=============================================================================
