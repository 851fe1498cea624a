------------------------------ MODULE Payment ------------------------------
(***************************************************************************)
(* The two ends of a payment: the initiator, who locks the amount and in   *)
(* the end unlocks it or takes it back, and the target (initiator.py,      *)
(* initiator_manager.py, target.py).                                       *)
(*                                                                         *)
(* A handler is an operator from the state S of a node to its next state.  *)
(* S views one channel (status, our, partner) and keeps the tasks of the   *)
(* payments, the messages and transactions sent and the events reported.   *)
(***************************************************************************)
EXTENDS Channel

NoTask == [state |-> "none", amount |-> 0, expiration |-> 0]

\* The lock of payment p that a task of the payment is about.
LockFor(p, task) ==
  [secrethash |-> p, amount |-> task.amount, expiration |-> task.expiration]

-----------------------------------------------------------------------------
(* Effects                                                                 *)

Send(S, m) == [S EXCEPT !.sent = @ \cup {m}]

Report(S, event, p) == [S EXCEPT !.events = @ \cup {<<event, p>>}]

\* A transaction carries the block it was sent at.
Submit(S, tx) == [S EXCEPT !.submitted = @ \cup {tx}]

-----------------------------------------------------------------------------
(* Initiator of a payment (initiator.py, initiator_manager.py)             *)

\* The payment has one route, over the channel S views.  A payment that finds
\* it unusable fails at once.  The lock covers the amount the target is to get
\* and the fee estimated for the route.  With an encrypted secret the transfer
\* carries the secret.
handle_init(S, p, amount, fee, has_secret) ==
  LET task == [state |-> "transfer_pending", received_secret_request |-> FALSE,
               amount |-> amount + fee, payment_amount |-> amount,
               expiration |-> get_safe_initial_expiration(S.block_number)]
      lock == LockFor(p, task)
      bp   == create_sendlockedtransfer(S.our, lock)
  IN  IF is_channel_usable_for_new_transfer(S, amount + fee)
      THEN Send([S EXCEPT !.our = WithLockedTransfer(@, bp, lock), !.initiator[p] = task],
                [type |-> "LockedTransfer", balance_proof |-> bp, lock |-> lock,
                 has_secret |-> has_secret])
      ELSE Report(S, "PaymentSentFailed", p)

events_for_unlock_lock(S, p) ==
  LET bp == create_unlock(S.our, LockFor(p, S.initiator[p]))
  IN  Report(Send([S EXCEPT !.our = WithUnlock(@, bp, p), !.initiator[p] = NoTask],
                  [type |-> "Unlock", balance_proof |-> bp, secrethash |-> p]),
             "PaymentSentSuccess", p)

\* Only the first request is answered, and only if it names the lock's
\* expiration and at least the amount the target is to get.
handle_secretrequest(S, p, m) ==
  LET valid == /\ m.amount >= S.initiator[p].payment_amount
               /\ m.expiration = S.initiator[p].expiration
  IN  IF S.initiator[p] = NoTask \/ S.initiator[p].received_secret_request
      THEN S
      ELSE LET asked == [S EXCEPT !.initiator[p].received_secret_request = TRUE]
           IN  IF valid
               THEN Send([asked EXCEPT !.initiator[p].state = "transfer_secret_revealed"],
                         [type |-> "SecretReveal", secrethash |-> p])
               ELSE asked

initiator_handle_offchain_secretreveal(S, p) ==
  LET lock == LockFor(p, S.initiator[p])
  IN  IF S.initiator[p] = NoTask \/ S.status # "opened"
           \/ is_lock_expired(S.our, lock, S.block_number, lock.expiration)
      THEN S
      ELSE events_for_unlock_lock(S, p)

initiator_handle_onchain_secretreveal(S, p, reveal_block) ==
  LET lock == LockFor(p, S.initiator[p])
      seen == [S EXCEPT !.our     = register_onchain_secret_endstate(@, p, reveal_block),
                        !.partner = register_onchain_secret_endstate(@, p, reveal_block)]
  IN  IF S.initiator[p] = NoTask \/ reveal_block > lock.expiration
      THEN S
      ELSE IF \/ S.status # "opened"
              \/ is_lock_expired(seen.our, lock, S.block_number, lock.expiration)
      THEN seen
      ELSE events_for_unlock_lock(seen, p)
\* Mutant: the lock is taken back as soon as it is no longer safe to wait.
MutHastyExpiry(S, p) ==
  LET lock == LockFor(p, S.initiator[p])
      bp   == create_sendexpiredlock(S.our, lock)
  IN  IF /\ S.initiator[p] # NoTask
         /\ lock \in S.our.lockedlocks
         /\ ~ is_safe_to_wait(lock.expiration, S.block_number)
      THEN Report(Send([S EXCEPT !.our = WithLockExpired(@, bp, p), !.initiator[p] = NoTask],
                       [type |-> "LockExpired", balance_proof |-> bp, secrethash |-> p]),
                  "PaymentSentFailed", p)
      ELSE S

\* A new block: an expired lock is taken back and the payment has failed.  In
\* a channel that is no longer open the lock has to stay, and the task with it.
\* The partner has a lock under the same secrethash only after a refund, which
\* no node sends.
initiator_handle_block(S, p) ==
  LET lock    == LockFor(p, S.initiator[p])
      bp      == create_sendexpiredlock(S.our, lock)
      expired == is_lock_expired(S.our, lock, S.block_number,
                                 get_sender_expiration_threshold(lock.expiration))
  IN  IF S.initiator[p] = NoTask
      THEN S
      ELSE IF lock \notin S.our.lockedlocks
      THEN [S EXCEPT !.initiator[p] = NoTask]
      ELSE IF ~ expired \/ S.initiator[p].state = "transfer_expired"
      THEN S
      ELSE IF S.status = "opened"
      THEN Report(Send([S EXCEPT !.our = WithLockExpired(@, bp, p), !.initiator[p] = NoTask],
                       [type |-> "LockExpired", balance_proof |-> bp, secrethash |-> p]),
                  "PaymentSentFailed", p)
      ELSE Report([S EXCEPT !.initiator[p].state = "transfer_expired"], "PaymentSentFailed", p)

-----------------------------------------------------------------------------
(* Target of a payment (target.py)                                         *)

\* learned is a history variable: the block at which the secret first came
\* off chain, -1 before that.
TargetTask(lock) ==
  [state |-> "secret_request", amount |-> lock.amount, expiration |-> lock.expiration,
   learned |-> -1]

SecretRequest(lock) ==
  [type |-> "SecretRequest", secrethash |-> lock.secrethash, amount |-> lock.amount,
   expiration |-> lock.expiration]
\* Mutant: a transfer that is too close to its expiration is refused.
MutInitTarget(S, m) ==
  LET p == m.lock.secrethash
  IN  IF /\ S.target[p] = NoTask
         /\ is_valid_lockedtransfer(S, m.balance_proof, m.lock)
         /\ is_safe_to_wait(m.lock.expiration, S.block_number)
      THEN Send([S EXCEPT !.partner = WithLockedTransfer(@, m.balance_proof, m.lock),
                          !.target[p] = TargetTask(m.lock)],
                SecretRequest(m.lock))
      ELSE S

\* A transfer is accepted even when its lock is about to expire, or has.
handle_inittarget(S, m) ==
  LET p        == m.lock.secrethash
      valid    == is_valid_lockedtransfer(S, m.balance_proof, m.lock)
      accepted == [S EXCEPT !.partner = WithLockedTransfer(@, m.balance_proof, m.lock),
                            !.target[p] = TargetTask(m.lock)]
  IN  IF S.target[p] # NoTask
      THEN S
      ELSE IF ~ valid
      THEN Report(S, "UnlockClaimFailed", p)
      ELSE IF ~ m.has_secret /\ is_safe_to_wait(m.lock.expiration, S.block_number)
      THEN Send(accepted, SecretRequest(m.lock))
      ELSE accepted

target_handle_offchain_secretreveal(S, p) ==
  LET task == S.target[p]
  IN  IF task = NoTask \/ is_transfer_expired(S.our, LockFor(p, task), S.block_number)
      THEN S
      ELSE Send([S EXCEPT !.our       = register_secret_endstate(@, p),
                          !.partner   = register_secret_endstate(@, p),
                          !.target[p] = [task EXCEPT !.state   = "reveal_secret",
                                                     !.learned = IF @ = -1 THEN S.block_number
                                                                           ELSE @]],
                [type |-> "SecretReveal", secrethash |-> p])

target_handle_onchain_secretreveal(S, p, reveal_block) ==
  IF S.target[p] = NoTask
  THEN S
  ELSE [S EXCEPT !.our             = register_onchain_secret_endstate(@, p, reveal_block),
                 !.partner         = register_onchain_secret_endstate(@, p, reveal_block),
                 !.target[p].state = "onchain_unlock"]
\* Mutant: the secret is looked up among the locks still locked.
MutOnchainSecretReveal(S, p, at) ==
  IF /\ ~ is_safe_to_wait(S.target[p].expiration, S.block_number)
     /\ LockOf(S.partner.lockedlocks, p) # {}
     /\ S.target[p].state # "onchain_secret_reveal"
  THEN Submit([S EXCEPT !.target[p].state = "onchain_secret_reveal"],
              [type |-> "registerSecret", secrethash |-> p, expiration |-> S.target[p].expiration,
               at |-> at])
  ELSE S

\* The transaction that registers a secret, while the channel is not settled.
RegisterSecret(S, status, lock, at) ==
  IF status \in CHANNEL_STATES_UP_TO_CLOSED
  THEN Submit(S, [type |-> "registerSecret", secrethash |-> lock.secrethash,
                  expiration |-> lock.expiration, at |-> at])
  ELSE S

\* With the lock about to expire and the secret known only off chain, the
\* secret is registered.
events_for_onchain_secretreveal(S, p, at) ==
  IF /\ ~ is_safe_to_wait(S.target[p].expiration, S.block_number)
     /\ LockOf(S.partner.unlockedlocks, p) # {}
     /\ S.target[p].state # "onchain_secret_reveal"
  THEN RegisterSecret([S EXCEPT !.target[p].state = "onchain_secret_reveal"], S.status,
                      LockFor(p, S.target[p]), at)
  ELSE S

target_handle_block(S, p, at) ==
  LET lock == LockFor(p, S.target[p])
      lock_has_expired == is_lock_expired(S.our, lock, S.block_number,
                            get_receiver_expiration_threshold(lock.expiration))
  IN  IF S.target[p] = NoTask
      THEN S
      ELSE IF lock_has_expired /\ S.target[p].state # "expired"
      THEN Report([S EXCEPT !.target[p].state = "expired"], "UnlockClaimFailed", p)
      ELSE IF is_secret_known(S.partner, p)
      THEN events_for_onchain_secretreveal(S, p, at)
      ELSE S

handle_unlock(S, m) ==
  LET p == m.secrethash
  IN  IF S.target[p] # NoTask /\ is_valid_unlock(S, m.balance_proof, p)
      THEN Report([S EXCEPT !.partner   = WithUnlock(@, m.balance_proof, p),
                            !.target[p] = NoTask],
                  "PaymentReceivedSuccess", p)
      ELSE S
\* Mutant: the balance proof is stored and the lock is not removed.
MutHandleLockExpired(S, m) ==
  LET p == m.secrethash
  IN  IF /\ S.target[p] # NoTask
         /\ is_valid_lock_expired(S, m.balance_proof, p, S.block_number)
      THEN [S EXCEPT !.partner = WithProof(@, m.balance_proof), !.target[p] = NoTask]
      ELSE S

handle_lock_expired(S, m) ==
  LET p == m.secrethash
  IN  IF /\ S.target[p] # NoTask
         /\ is_valid_lock_expired(S, m.balance_proof, p, S.block_number)
      THEN Report([S EXCEPT !.partner   = WithLockExpired(@, m.balance_proof, p),
                            !.target[p] = NoTask],
                  "UnlockClaimFailed", p)
      ELSE S
=============================================================================
