------------------------------ MODULE Mediator -----------------------------
(***************************************************************************)
(* A node that forwards a payment (mediator.py).  Its state S views two    *)
(* channels, the one the transfer comes in by (payer) and the one it is    *)
(* passed on by (payee), and keeps one task per payment.                   *)
(*                                                                         *)
(* The payment has one route and no node sends a refund, so a task has at  *)
(* most one pair of a received and a sent transfer.                        *)
(***************************************************************************)
EXTENDS Payment

CONSTANT FlatFee   \* what the mediator keeps of a transfer

ASSUME FeeAssumption == FlatFee \in Nat

STATE_TRANSFER_PAID == {"payee_contract_unlock", "payee_balance_proof", "payer_balance_proof"}

STATE_SECRET_KNOWN ==
  {"payee_secret_revealed", "payee_contract_unlock", "payee_balance_proof",
   "payer_secret_revealed", "payer_waiting_unlock", "payer_balance_proof"}

STATE_TRANSFER_FINAL == STATE_TRANSFER_PAID \cup {"payee_expired", "payer_expired"}

NoMediation == [state |-> "none"]

\* paired: the transfer was passed on.  waiting: it was not, so far.
MediatorTransferState(m) ==
  [state |-> "mediating", lock |-> m.lock, has_secret |-> m.has_secret, secret |-> FALSE,
   paired |-> FALSE, waiting |-> "none",
   payer_state |-> "payer_pending", payee_state |-> "payee_pending"]

\* The pair still needs attention.
IsPending(task) ==
  /\ task.paired
  /\ ~ {task.payer_state, task.payee_state} \subseteq STATE_TRANSFER_FINAL

get_amount_without_fees(amount) == amount - FlatFee

-----------------------------------------------------------------------------
(* Passing a transfer on                                                   *)

forward_transfer_pair(S, p) ==
  LET task == S.task[p]
      lock == [task.lock EXCEPT !.amount = get_amount_without_fees(@)]
      bp   == create_sendlockedtransfer(S.payee.our, lock)
  IN  Send([S EXCEPT !.payee.our = WithLockedTransfer(@, bp, lock),
                     !.task[p]   = [task EXCEPT !.paired = TRUE, !.waiting = "none"]],
           [type |-> "LockedTransfer", balance_proof |-> bp, lock |-> lock,
            has_secret |-> task.has_secret])

\* A transfer that cannot be passed on now waits for a later block.
mediate_transfer(S, p) ==
  LET lock   == S.task[p].lock
      amount == get_amount_without_fees(lock.amount)
  IN  IF /\ amount > 0
         /\ is_channel_usable_for_mediation(S.payee, amount, lock.expiration - S.block_number)
      THEN forward_transfer_pair(S, p)
      ELSE [S EXCEPT !.task[p].waiting = "waiting"]

mediator_handle_init(S, m) ==
  LET p == m.lock.secrethash
  IN  IF S.task[p] # NoMediation \/ ~ is_valid_lockedtransfer(S.payer, m.balance_proof, m.lock)
      THEN S
      ELSE mediate_transfer(
             [S EXCEPT !.payer.partner = WithLockedTransfer(@, m.balance_proof, m.lock),
                       !.task[p]       = MediatorTransferState(m)], p)

\* The task ends when its lock is gone from both channels.
clear_if_finalized(S, p) ==
  IF \/ is_lock_pending(S.payer.partner, p)
     \/ S.task[p].paired /\ is_lock_pending(S.payee.our, p)
  THEN S
  ELSE [S EXCEPT !.task[p] = NoMediation]

-----------------------------------------------------------------------------
(* The secret                                                              *)

\* Mutant: a secret revealed off chain counts as registered.
MutRegistrationStarted(S, p) ==
  \/ LockOf(S.payer.partner.onchain_unlockedlocks, p) # {}
  \/ S.task[p].payer_state \in {"payer_waiting_secret_reveal", "payer_secret_revealed"}

has_secret_registration_started(S, p) ==
  \/ LockOf(S.payer.partner.onchain_unlockedlocks, p) # {}
  \/ S.task[p].payer_state = "payer_waiting_secret_reveal"

set_offchain_secret(S, p) ==
  LET Learn(ch) == [ch EXCEPT !.our     = register_secret_endstate(@, p),
                              !.partner = register_secret_endstate(@, p)]
  IN  [S EXCEPT !.task[p].secret = TRUE, !.payer = Learn(@), !.payee = Learn(@)]

set_onchain_secret(S, p, reveal_block) ==
  LET Learn(ch) == [ch EXCEPT !.our     = register_onchain_secret_endstate(@, p, reveal_block),
                              !.partner = register_onchain_secret_endstate(@, p, reveal_block)]
  IN  [S EXCEPT !.task[p].secret = TRUE, !.payer = Learn(@), !.payee = Learn(@)]

events_for_secretreveal(S, p) ==
  IF /\ S.task[p].payee_state \in STATE_SECRET_KNOWN
     /\ S.task[p].payer_state = "payer_pending"
  THEN Send([S EXCEPT !.task[p].payer_state = "payer_secret_revealed"],
            [type |-> "SecretReveal", secrethash |-> p])
  ELSE S
\* Mutant: the payee is paid no matter how close the expiration is.
MutBalanceProof(S, p, block_number) ==
  LET task == S.task[p]
      lock == [task.lock EXCEPT !.amount = get_amount_without_fees(@)]
      bp   == create_unlock(S.payee.our, lock)
  IN  IF /\ task.paired
         /\ S.payee.status = "opened"
         /\ task.payee_state \in STATE_SECRET_KNOWN \ STATE_TRANSFER_PAID
      THEN Send([S EXCEPT !.payee.our = WithUnlock(@, bp, p),
                          !.task[p].payee_state = "payee_balance_proof"],
                [type |-> "Unlock", balance_proof |-> bp, secrethash |-> p])
      ELSE S

\* The payee is paid off chain only while there is time left to collect from
\* the payer on chain.
events_for_balanceproof(S, p, block_number) ==
  LET task == S.task[p]
      lock == [task.lock EXCEPT !.amount = get_amount_without_fees(@)]
      bp   == create_unlock(S.payee.our, lock)
  IN  IF /\ task.paired
         /\ S.payee.status = "opened"
         /\ task.payee_state \in STATE_SECRET_KNOWN \ STATE_TRANSFER_PAID
         /\ is_safe_to_wait(task.lock.expiration, block_number)
      THEN Send([S EXCEPT !.payee.our = WithUnlock(@, bp, p),
                          !.task[p].payee_state = "payee_balance_proof"],
                [type |-> "Unlock", balance_proof |-> bp, secrethash |-> p])
      ELSE S

WaitForRegistration(S, p) == [S EXCEPT !.task[p].payer_state = "payer_waiting_secret_reveal"]

\* No balance proof is exchanged over a closed channel, so the secret is
\* registered at once.
events_for_onchain_secretreveal_if_closed(S, p, at) ==
  IF ~ (IsPending(S.task[p]) /\ S.payer.status = "closed")
  THEN S
  ELSE IF has_secret_registration_started(S, p) \/ ~ is_lock_pending(S.payer.partner, p)
  THEN WaitForRegistration(S, p)
  ELSE RegisterSecret(WaitForRegistration(S, p), S.payer.status, S.task[p].lock, at)

\* The payer's lock is about to expire and the secret is known.
events_for_onchain_secretreveal_if_dangerzone(S, p, at) ==
  IF ~ /\ IsPending(S.task[p])
       /\ ~ is_safe_to_wait(S.task[p].lock.expiration, S.block_number)
       /\ is_secret_known(S.payer.partner, p)
  THEN S
  ELSE IF has_secret_registration_started(S, p)
  THEN WaitForRegistration(S, p)
  ELSE RegisterSecret(WaitForRegistration(S, p), S.payer.status, S.task[p].lock, at)

secret_learned(S, p, at) ==
  LET learned  == [set_offchain_secret(S, p)
                     EXCEPT !.task[p].payee_state = "payee_secret_revealed"]
      onchain  == events_for_onchain_secretreveal_if_closed(learned, p, at)
      revealed == events_for_secretreveal(onchain, p)
  IN  events_for_balanceproof(revealed, p, S.block_number)

mediator_handle_offchain_secretreveal(S, p, at) ==
  IF \/ S.task[p] = NoMediation
     \/ ~ S.task[p].paired
     \/ S.task[p].secret
     \/ is_transfer_expired(S.payer.our, S.task[p].lock, S.block_number)
  THEN S
  ELSE clear_if_finalized(secret_learned(S, p, at), p)

\* The time left is counted from the block of the registration.
mediator_handle_onchain_secretreveal(S, p, reveal_block) ==
  IF S.task[p] = NoMediation
  THEN S
  ELSE clear_if_finalized(
         events_for_balanceproof(set_onchain_secret(S, p, reveal_block), p, reveal_block), p)

-----------------------------------------------------------------------------
(* Expiry and the payer's balance proof                                    *)

\* Mutant: a lock whose secret is known is not taken back.
MutRemoveExpiredLocks(S, p) ==
  LET lock == [S.task[p].lock EXCEPT !.amount = get_amount_without_fees(@)]
      bp   == create_sendexpiredlock(S.payee.our, lock)
  IN  IF /\ S.task[p].paired
         /\ LockOf(S.payee.our.lockedlocks, p) # {}
         /\ is_lock_expired(S.payee.our, lock, S.block_number,
                            get_sender_expiration_threshold(lock.expiration))
         /\ S.payee.status = "opened"
      THEN Report(Send([S EXCEPT !.payee.our = WithLockExpired(@, bp, p),
                                 !.task[p].payee_state = "payee_expired"],
                       [type |-> "LockExpired", balance_proof |-> bp, secrethash |-> p]),
                  "UnlockFailed", p)
      ELSE S

events_to_remove_expired_locks(S, p) ==
  LET lock == [S.task[p].lock EXCEPT !.amount = get_amount_without_fees(@)]
      bp   == create_sendexpiredlock(S.payee.our, lock)
  IN  IF /\ S.task[p].paired
         /\ LockOf(S.payee.our.lockedlocks \cup S.payee.our.unlockedlocks, p) # {}
         /\ is_lock_expired(S.payee.our, lock, S.block_number,
                            get_sender_expiration_threshold(lock.expiration))
         /\ S.payee.status = "opened"
      THEN Report(Send([S EXCEPT !.payee.our = WithLockExpired(@, bp, p),
                                 !.task[p].payee_state = "payee_expired"],
                       [type |-> "LockExpired", balance_proof |-> bp, secrethash |-> p]),
                  "UnlockFailed", p)
      ELSE S

events_for_expired_pairs(S, p) ==
  LET task == S.task[p]
  IN  IF IsPending(task) /\ is_transfer_expired(S.payer.our, task.lock, S.block_number)
      THEN Report([S EXCEPT !.task[p].payer_state = "payer_expired"], "UnlockClaimFailed", p)
      ELSE IF /\ task.waiting = "waiting"
              /\ get_receiver_expiration_threshold(task.lock.expiration) <= S.block_number
      THEN Report([S EXCEPT !.task[p].waiting = "expired"], "UnlockClaimFailed", p)
      ELSE S

\* A waiting transfer is tried again first.
mediator_handle_block(S, p, at) ==
  LET retried  == IF S.task[p].waiting # "none" THEN mediate_transfer(S, p) ELSE S
      removed  == events_to_remove_expired_locks(retried, p)
      revealed == events_for_onchain_secretreveal_if_dangerzone(removed, p, at)
  IN  IF S.task[p] = NoMediation
      THEN S
      ELSE clear_if_finalized(events_for_expired_pairs(revealed, p), p)

\* The Unlock is one the channel accepts.
PayerUnlocks(S, m) ==
  /\ S.task[m.secrethash] # NoMediation
  /\ S.task[m.secrethash].paired
  /\ is_valid_unlock(S.payer, m.balance_proof, m.secrethash)

\* sanity_check: a node that is paid has to know the secret.  If it does not
\* it stops before anything is written.
mediator_handle_unlock(S, m) ==
  LET p == m.secrethash
  IN  IF PayerUnlocks(S, m) /\ S.task[p].secret
      THEN clear_if_finalized(
             Report([S EXCEPT !.payer.partner = WithUnlock(@, m.balance_proof, p),
                              !.task[p].payer_state = "payer_balance_proof"],
                    "UnlockClaimSuccess", p), p)
      ELSE S

mediator_handle_lock_expired(S, m) ==
  LET p       == m.secrethash
      expired == [S EXCEPT !.payer.partner = WithLockExpired(@, m.balance_proof, p)]
  IN  IF \/ S.task[p] = NoMediation
         \/ ~ is_valid_lock_expired(S.payer, m.balance_proof, p, S.block_number)
      THEN S
      ELSE clear_if_finalized(IF S.task[p].paired
                              THEN [expired EXCEPT !.task[p].payer_state = "payer_expired"]
                              ELSE expired, p)
=============================================================================
