------------------------------ MODULE Proxies ------------------------------
(***************************************************************************)
(* The calls a node makes to the contracts, as the proxies of              *)
(* network/proxies judge them: what is refused before anything is sent     *)
(* (the preconditions, at the block the request refers to), and what       *)
(* error is raised when the gas estimation fails (judged at the latest     *)
(* block) or when the transaction was mined and failed (judged at the      *)
(* block it was mined in).                                                 *)
(*                                                                         *)
(* Signatures and amounts of balance proofs are right here, as the state   *)
(* machine makes them, the account has ether, and no block asked for was   *)
(* pruned.  The contracts themselves are in TokenNetwork: this module      *)
(* keeps of them what decides whether a transaction fails.                 *)
(***************************************************************************)
EXTENDS Integers, FiniteSetsExt

CONSTANTS
  Partners,        \* partners of the node, one channel with each
  Secrets,         \* secrets a node may register
  SettleTimeout,   \* blocks between close and settlement
  Expiration,      \* the block at which signed withdraws expire
  PartnerDeposit,  \* deposit of each partner
  DepositLimit     \* token_network_deposit_limit

ASSUME ProxiesAssumption ==
  \A n \in {SettleTimeout, Expiration, PartnerDeposit, DepositLimit} : n \in Nat

NONEXISTENT == 0
OPENED == 1
CLOSED == 2
SETTLED == 3
REMOVED == 4

\* nonce: that of the partner's balance proof on the chain; 1 is the newest.
Channel(state, closer) ==
  [state |-> state, closer |-> closer, settle_block_number |-> SettleTimeout,
   deposit |-> 0, withdrawn |-> 0, nonce |-> 0]

network_total_deposit(c) ==
  MapThenSumSet(LAMBDA p : c.channels[p].deposit - c.channels[p].withdrawn, Partners)

-----------------------------------------------------------------------------
(* The contracts.  c.block is the block a transaction is in; tx.by is 0    *)
(* for the partners and the services.                                      *)

Requires(c, tx) ==
  LET ch == c.channels[tx.partner]
  IN  CASE tx.op = "open" ->
             ch.state = NONEXISTENT /\ ~ c.deprecated /\ network_total_deposit(c) < DepositLimit
        [] tx.op = "deposit" ->
             LET added == tx.amount - ch.deposit
             IN  /\ ch.state = OPENED /\ ~ c.deprecated
                 /\ added > 0 /\ added <= c.balance /\ added <= c.allowance
                 /\ network_total_deposit(c) + added <= DepositLimit
        [] tx.op = "withdraw" ->
             /\ ch.state = OPENED /\ c.block < Expiration
             /\ ch.withdrawn < tx.amount /\ tx.amount <= ch.deposit + PartnerDeposit
        [] tx.op = "coop_settle" -> ch.state = OPENED /\ c.block < Expiration
        [] tx.op = "close" -> ch.state = OPENED
        [] tx.op = "update" ->
             /\ ch.state = CLOSED /\ ch.closer = "partner"
             /\ c.block <= ch.settle_block_number /\ ch.nonce = 0
        [] tx.op = "settle" ->
             ch.state = CLOSED /\ ch.settle_block_number < c.block /\ ch.nonce = tx.amount
        [] tx.op = "unlock" -> ch.state = SETTLED
        [] OTHER -> TRUE

Effect(c, tx) ==
  LET ch == c.channels[tx.partner]
      With(new) == [c EXCEPT !.channels[tx.partner] = new]
      added == tx.amount - ch.deposit
  IN  CASE tx.op = "open" -> With(Channel(OPENED, "none"))
        [] tx.op = "approve" -> [c EXCEPT !.allowance = tx.amount + 1]
        [] tx.op = "deposit" ->
             [With([ch EXCEPT !.deposit = tx.amount])
                EXCEPT !.balance = @ - added, !.allowance = @ - added]
        [] tx.op = "withdraw" -> With([ch EXCEPT !.withdrawn = tx.amount])
        [] tx.op = "coop_settle" -> With([ch EXCEPT !.state = REMOVED])
        [] tx.op = "close" ->
             With([ch EXCEPT !.state = CLOSED,
                             !.closer = IF tx.by = 0 THEN "partner" ELSE "node",
                             !.settle_block_number = c.block + SettleTimeout,
                             !.nonce = IF tx.by = 0 THEN 0 ELSE 1])
        [] tx.op = "update" -> With([ch EXCEPT !.nonce = 1])
        [] tx.op = "settle" -> With([ch EXCEPT !.state = SETTLED, !.closer = "none"])
        [] tx.op = "unlock" -> With([ch EXCEPT !.state = REMOVED])
        [] tx.op = "register" ->
             [c EXCEPT !.secrets = [s \in Secrets |->
                IF s \in tx.secrets /\ @[s] = "none"
                THEN IF tx.by = 0 THEN "other" ELSE "node"
                ELSE @[s]]]
        [] tx.op = "deprecate" -> [c EXCEPT !.deprecated = TRUE]

Run(c, tx) == IF Requires(c, tx) THEN Effect(c, tx) ELSE c

-----------------------------------------------------------------------------
(* Preconditions, at the given block: "ok" lets the call go on.            *)

new_netting_channel(call, given) ==
  IF \/ given.channels[call.partner].state # NONEXISTENT
     \/ network_total_deposit(given) >= DepositLimit
     \/ given.deprecated
  THEN "illegal" ELSE "ok"

amount_to_deposit(call, given) == call.amount - given.channels[call.partner].deposit

approve_and_set_total_deposit(call, given) ==
  LET ch == given.channels[call.partner]
  IN  IF \/ given.deprecated
         \/ ch.state # OPENED
         \/ call.amount <= ch.deposit
         \/ network_total_deposit(given) + amount_to_deposit(call, given) > DepositLimit
         \/ given.balance < amount_to_deposit(call, given)
      THEN "illegal" ELSE "ok"

set_total_withdraw(call, given) ==
  LET ch == given.channels[call.partner]
  IN  CASE ch.state # OPENED -> "illegal"
        [] ch.state = OPENED /\ \/ ch.withdrawn >= call.amount
                                \/ call.amount > ch.deposit + PartnerDeposit -> "recoverable"
        [] OTHER -> IF Expiration <= given.block THEN "illegal" ELSE "ok"

close(call, given) ==
  IF given.channels[call.partner].state # OPENED THEN "illegal" ELSE "ok"

update_transfer(call, given) ==
  LET ch == given.channels[call.partner]
  IN  CASE ch.state # CLOSED \/ ch.settle_block_number < given.block -> "illegal"
        [] OTHER -> IF ch.nonce = 1 THEN "recoverable" ELSE "ok"

unlock(call, given) ==
  IF given.channels[call.partner].state # SETTLED THEN "illegal" ELSE "ok"

settle(call, given) ==
  LET ch == given.channels[call.partner]
  IN  IF given.block < ch.settle_block_number \/ ch.state # CLOSED THEN "illegal" ELSE "ok"

Precondition(call, given) ==
  CASE call.op = "open" -> new_netting_channel(call, given)
    [] call.op = "deposit" -> approve_and_set_total_deposit(call, given)
    [] call.op = "withdraw" -> set_total_withdraw(call, given)
    [] call.op = "close" -> close(call, given)
    [] call.op = "update" -> update_transfer(call, given)
    [] call.op = "unlock" -> unlock(call, given)
    [] call.op = "settle" -> settle(call, given)
    [] OTHER -> "ok"

-----------------------------------------------------------------------------
(* The gas estimation failed: the error, judged at the latest block.       *)

new_netting_channel_estimate(call, latest) ==
  IF /\ latest.channels[call.partner].state = NONEXISTENT
     /\ network_total_deposit(latest) >= DepositLimit
  THEN "error" ELSE "recoverable"

\* The allowance and the balance are looked at before the channel.
set_total_deposit_estimate(call, latest) ==
  LET ch == latest.channels[call.partner]
  IN  IF /\ ~ latest.deprecated
         /\ latest.allowance >= amount_to_deposit(call, latest)
         /\ latest.balance >= amount_to_deposit(call, latest)
         /\ ch.state = NONEXISTENT /\ ch.deposit < call.amount
      THEN "unrecoverable" ELSE "recoverable"

set_total_withdraw_estimate(call, latest) ==
  LET ch == latest.channels[call.partner]
  IN  IF \/ ch.state > OPENED
         \/ ch.state = OPENED /\ Expiration <= latest.block
         \/ ch.state = OPENED /\ ch.withdrawn >= call.amount
      THEN "recoverable" ELSE "unrecoverable"

\* Mutant: a channel that is still open is not told apart.
MutCloseEstimate(call, latest) == "recoverable"

close_estimate(call, latest) ==
  IF latest.channels[call.partner].state >= CLOSED THEN "recoverable" ELSE "unrecoverable"

update_transfer_estimate(call, latest) ==
  LET ch == latest.channels[call.partner]
  IN  IF \/ ch.state >= SETTLED
         \/ ch.state = CLOSED /\ ch.settle_block_number < latest.block
      THEN "recoverable" ELSE "unrecoverable"

\* The locks are there as long as the channel is settled and not removed.
unlock_estimate(call, latest) ==
  IF latest.channels[call.partner].state = REMOVED THEN "recoverable" ELSE "unrecoverable"

settle_judged(call, at) ==
  LET ch == at.channels[call.partner]
      is_settle_window_over == ch.state = CLOSED /\ at.block > ch.settle_block_number
  IN  IF \/ ch.state \in {SETTLED, REMOVED}
         \/ is_settle_window_over /\ ch.nonce = call.amount
      THEN "recoverable" ELSE "unrecoverable"

settle_estimate(call, latest) == settle_judged(call, latest)

EstimateFailed(call, latest) ==
  CASE call.op = "open" -> new_netting_channel_estimate(call, latest)
    [] call.op = "deposit" -> set_total_deposit_estimate(call, latest)
    [] call.op = "withdraw" -> set_total_withdraw_estimate(call, latest)
    [] call.op = "close" -> close_estimate(call, latest)
    [] call.op = "update" -> update_transfer_estimate(call, latest)
    [] call.op = "unlock" -> unlock_estimate(call, latest)
    [] call.op = "settle" -> settle_estimate(call, latest)
    [] call.op = "coop_settle" -> "recoverable"

-----------------------------------------------------------------------------
(* The transaction was mined and failed: the error, judged at its block.   *)

new_netting_channel_mined(call, at) ==
  IF /\ at.channels[call.partner].state = NONEXISTENT
     /\ network_total_deposit(at) >= DepositLimit
  THEN "error" ELSE "recoverable"

\* Every reason is taken for a race, or for a fault of the token.
set_total_deposit_mined(call, at) == "recoverable"

set_total_withdraw_mined(call, at) ==
  LET ch == at.channels[call.partner]
  IN  IF \/ ch.withdrawn >= call.amount
         \/ ch.state > OPENED
         \/ ch.state = OPENED /\ Expiration <= at.block
         \/ ch.state = OPENED /\ call.amount > ch.deposit + PartnerDeposit
      THEN "recoverable" ELSE "unrecoverable"

close_mined(call, at) ==
  IF at.channels[call.partner].closer = "partner" THEN "recoverable" ELSE "unrecoverable"

update_transfer_mined(call, at) ==
  LET ch == at.channels[call.partner]
  IN  IF ch.state >= SETTLED \/ ch.settle_block_number < at.block
      THEN "recoverable" ELSE "unrecoverable"

unlock_mined(call, at) == "recoverable"

settle_mined(call, at) == settle_judged(call, at)

coop_settle_mined(call, at) == "recoverable"

MinedFailed(call, at) ==
  CASE call.op = "open" -> new_netting_channel_mined(call, at)
    [] call.op = "deposit" -> set_total_deposit_mined(call, at)
    [] call.op = "withdraw" -> set_total_withdraw_mined(call, at)
    [] call.op = "close" -> close_mined(call, at)
    [] call.op = "update" -> update_transfer_mined(call, at)
    [] call.op = "unlock" -> unlock_mined(call, at)
    [] call.op = "settle" -> settle_mined(call, at)
    [] call.op = "coop_settle" -> coop_settle_mined(call, at)
=============================================================================
