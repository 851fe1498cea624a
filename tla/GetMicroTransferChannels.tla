---------------------- MODULE GetMicroTransferChannels ----------------------
(***************************************************************************)
(* The contract of the microcoin channels, for one sender and one          *)
(* receiver (GetMicroTransferChannels.sol).  A channel is known by the     *)
(* block it was opened in.  A transaction is                               *)
(* [op, key, amount, by]; a transaction that reverts changes nothing.      *)
(* Signatures are those of the parties, and the tokens that move are the   *)
(* differences of the numbers below.                                       *)
(***************************************************************************)
EXTENDS Integers

CONSTANTS
  ChallengePeriod, \* challenge_period
  DepositLimit,    \* channel_deposit_bugbounty_limit
  MaxBlock         \* bound: block numbers, hence channel keys

ASSUME ContractAssumption ==
  /\ ChallengePeriod \in Nat \ {0}
  /\ DepositLimit \in Nat \ {0}
  /\ MaxBlock \in Nat \ {0}

Keys == 1 .. MaxBlock

\* A channel, its closing request and what the receiver has withdrawn of it.
NoChannel == [open |-> FALSE, deposit |-> 0, settle |-> 0, closing |-> 0, withdrawn |-> 0]

createChannelRequires(c, key, deposit) ==
  /\ deposit <= DepositLimit
  /\ ~c[key].open
  /\ c[key].deposit = 0
  /\ c[key].settle = 0

updateInternalBalanceStructsRequires(c, key, added) ==
  /\ added > 0
  /\ c[key].open
  /\ c[key].settle = 0
  /\ c[key].deposit + added <= DepositLimit

withdrawRequires(c, key, balance) ==
  /\ balance > 0
  /\ c[key].open
  /\ c[key].settle = 0
  /\ balance <= c[key].deposit
  /\ c[key].withdrawn < balance

settleChannelRequires(c, key, balance) ==
  /\ c[key].open
  /\ balance <= c[key].deposit
  /\ c[key].withdrawn <= balance

uncooperativeCloseRequires(c, key, balance) ==
  /\ c[key].open
  /\ c[key].settle = 0
  /\ balance <= c[key].deposit

settleRequires(c, key, block) ==
  /\ c[key].settle > 0
  /\ block > c[key].settle
  /\ settleChannelRequires(c, key, c[key].closing)

Requires(c, tx, block) ==
  CASE tx.op = "create"   -> createChannelRequires(c, block, tx.amount)
    [] tx.op = "topup"    -> updateInternalBalanceStructsRequires(c, tx.key, tx.amount)
    [] tx.op = "withdraw" -> withdrawRequires(c, tx.key, tx.amount)
    [] tx.op = "coop"     -> settleChannelRequires(c, tx.key, tx.amount)
    [] tx.op = "close"    -> uncooperativeCloseRequires(c, tx.key, tx.amount)
    [] tx.op = "settle"   -> settleRequires(c, tx.key, block)

\* withdrawn_balances is not deleted with the channel.
settleChannel(c, key) ==
  [c EXCEPT ![key] = [NoChannel EXCEPT !.withdrawn = c[key].withdrawn]]

Effect(c, tx, block) ==
  CASE tx.op = "create"   -> [c EXCEPT ![block].open = TRUE, ![block].deposit = tx.amount]
    [] tx.op = "topup"    -> [c EXCEPT ![tx.key].deposit = @ + tx.amount]
    [] tx.op = "withdraw" -> [c EXCEPT ![tx.key].withdrawn = tx.amount]
    [] tx.op = "close"    -> [c EXCEPT ![tx.key].settle = block + ChallengePeriod,
                                       ![tx.key].closing = tx.amount]
    [] tx.op \in {"coop", "settle"} -> settleChannel(c, tx.key)
=============================================================================
