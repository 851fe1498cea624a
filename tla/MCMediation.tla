---------------------------- MODULE MCMediation ----------------------------
(* Small instances of Mediation for TLC.                                   *)
EXTENDS Mediation, TLC

CONSTANT p1

MCAmount == [p \in Payments |-> 2]

\* The mediator cannot pass the payment on before it has deposited more.
MCDeposit == <<3, 1>>

MCLaterDeposit == <<3, 2>>

=============================================================================
