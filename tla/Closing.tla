------------------------------ MODULE Closing ------------------------------
(***************************************************************************)
(* How a node leaves a channel: it closes the channel or answers the       *)
(* partner's close, settles it when the challenge period is over and       *)
(* unlocks what was still locked (channel.py, gatcoin_event_handler.py).   *)
(*                                                                         *)
(* S.submitted is the list pending_transactions of the node's state: a     *)
(* transaction stays in it until an event of the chain shows that it was   *)
(* done, or can no longer be (node.py).  S.stored_sent and                 *)
(* S.stored_received are the balance proofs in the node's database, oldest *)
(* first, each with the end state of its sender right after the state      *)
(* change that carried it.  The status "removed" is that of a channel the  *)
(* node has deleted.                                                       *)
(***************************************************************************)
EXTENDS Withdraw

NoLocks == <<>>

-----------------------------------------------------------------------------
(* The database (restore.py, wal.py)                                       *)

\* Records found by a query, the latest one last.
WithLocksroot(records, locksroot) ==
  SelectSeq(records, LAMBDA r : r.balance_proof.locksroot = locksroot)

WithBalance(records, transferred, locked, locksroot) ==
  SelectSeq(records, LAMBDA r : /\ r.balance_proof.transferred_amount = transferred
                                /\ r.balance_proof.locked_amount = locked
                                /\ r.balance_proof.locksroot = locksroot)

\* A balance proof that comes again is stored again.
Store(records, balance_proof, end) ==
  Append(SelectSeq(records, LAMBDA r : r.balance_proof # balance_proof),
         [balance_proof |-> balance_proof, end |-> end])

\* The state change that took the node from S to T is written with the events
\* it caused.
write_events(S, T) ==
  LET new == {m \in T.sent \ S.sent : "balance_proof" \in DOMAIN m}
  IN  [T EXCEPT !.stored_sent =
         FoldSet(LAMBDA m, records : Store(records, m.balance_proof, T.our), @, new)]

\* A received balance proof is written whether or not it was accepted.
write_state_change(S, T, m) ==
  [write_events(S, T) EXCEPT !.stored_received = Store(@, m.balance_proof, T.partner)]

-----------------------------------------------------------------------------
(* Handlers of the channel (channel.py)                                    *)

\* The node closes with the latest balance proof of its partner, if any.
events_for_close(S, at) ==
  IF S.status \in CHANNEL_STATES_PRIOR_TO_CLOSED
  THEN Submit([S EXCEPT !.status = "closing"],
              [type |-> "closeChannel", balance_proof |-> S.partner.balance_proof, at |-> at])
  ELSE S

\* Mutant: the node does not answer a close that crossed its own.
MutChannelClosed(S, e, by_us, at) ==
  IF S.status \notin CHANNEL_STATES_PRIOR_TO_CLOSED
  THEN S
  ELSE LET closed == [S EXCEPT !.status = "closed", !.closed_block = e.block]
       IN  IF by_us \/ S.partner.balance_proof = NoBalanceProof \/ S.status = "closing"
           THEN closed
           ELSE Submit([closed EXCEPT !.updated = TRUE],
                       [type |-> "updateNonClosingBalanceProof", at |-> at,
                        balance_proof |-> S.partner.balance_proof,
                        expiration |-> e.block + SETTLE_TIMEOUT])

\* A close by the partner is answered with the partner's latest balance proof.
handle_channel_closed(S, e, by_us, at) ==
  IF S.status \notin CHANNEL_STATES_PRIOR_TO_CLOSED
  THEN S
  ELSE LET closed == [S EXCEPT !.status = "closed", !.closed_block = e.block]
       IN  IF by_us \/ S.partner.balance_proof = NoBalanceProof \/ S.updated
           THEN closed
           ELSE Submit([closed EXCEPT !.updated = TRUE],
                       [type |-> "updateNonClosingBalanceProof", at |-> at,
                        balance_proof |-> S.partner.balance_proof,
                        expiration |-> e.block + SETTLE_TIMEOUT])

handle_channel_updated_transfer(S) == [S EXCEPT !.updated = TRUE]

\* Mutant: the state is changed and the transaction is not sent.
MutSettlement(S, at) ==
  IF S.status = "closed" /\ S.block_number > S.closed_block + SETTLE_TIMEOUT
  THEN [S EXCEPT !.status = "settling"]
  ELSE S

\* The part of a new block that concerns a closed channel.
events_for_settlement(S, at) ==
  IF S.status = "closed" /\ S.block_number > S.closed_block + SETTLE_TIMEOUT
  THEN Submit([S EXCEPT !.status = "settling"], [type |-> "settleChannel", at |-> at])
  ELSE S

\* A channel that was settled with nothing locked is done with.  Otherwise the
\* locksroots the contract keeps are recorded and the locks are looked into.
handle_channel_settled(S, our_locksroot, partner_locksroot, at) ==
  IF our_locksroot = NoLocks /\ partner_locksroot = NoLocks
  THEN [S EXCEPT !.status = "removed"]
  ELSE Submit([S EXCEPT !.status = "settled",
                        !.onchain_locksroot = [our |-> our_locksroot,
                                               partner |-> partner_locksroot]],
              [type |-> "unlock", at |-> at])

handle_channel_batch_unlock(S, by_us) ==
  LET left == IF by_us THEN [S.onchain_locksroot EXCEPT !.our = NoLocks]
                       ELSE [S.onchain_locksroot EXCEPT !.partner = NoLocks]
  IN  IF S.status # "settled"
      THEN S
      ELSE [S EXCEPT !.onchain_locksroot = left,
                     !.status = IF left.our = NoLocks /\ left.partner = NoLocks
                                THEN "removed" ELSE @]

-----------------------------------------------------------------------------
(* The queue of transactions (node.py)                                     *)

is_transaction_effect_satisfied(S, tx, e) ==
  \/ /\ tx.type = "updateNonClosingBalanceProof" /\ e.type = "NonClosingBalanceProofUpdated"
     /\ e.nonce = tx.balance_proof.nonce
  \/ tx.type = "closeChannel" /\ e.type = "ChannelClosed"
  \/ tx.type = "settleChannel" /\ e.type = "ChannelSettled"
  \/ tx.type = "registerSecret" /\ e.type = "SecretRevealed" /\ e.secrethash = tx.secrethash
  \/ tx.type = "unlock" /\ e.type = "ChannelUnlocked" /\ S.status = "removed"

is_transaction_invalidated(tx, e) ==
  \/ tx.type = "updateNonClosingBalanceProof" /\ e.type = "ChannelSettled"
  \/ tx.type = "setTotalWithdraw" /\ e.type = "ChannelClosed"

is_transaction_expired(tx, block_number) ==
  /\ tx.type \in {"updateNonClosingBalanceProof", "registerSecret"}
  /\ tx.expiration < block_number

is_transaction_pending(S, tx, e) ==
  ~ (\/ is_transaction_effect_satisfied(S, tx, e)
     \/ is_transaction_invalidated(tx, e)
     \/ is_transaction_expired(tx, S.block_number))

\* T is the state after the event e: of the transactions queued before, those
\* still to be done remain.
update_queues(S, T, e) ==
  [T EXCEPT !.submitted = {tx \in S.submitted : is_transaction_pending(T, tx, e)}
                            \cup (T.submitted \ S.submitted)]

-----------------------------------------------------------------------------
(* What a transaction asks of the contract (gatcoin_event_handler.py)      *)

HasTask(S, lock) ==
  S.initiator[lock.secrethash] # NoTask \/ S.target[lock.secrethash] # NoTask

\* The locks of an earlier end state, as they stand after the settlement: a
\* lock counts as unlocked if its secret is on chain, and as locked only if
\* the payment still has a task.
update_lock_info(S, old, new) ==
  LET locked  == old.lockedlocks \cup old.unlockedlocks
      onchain == {lock \in new.onchain_unlockedlocks : LockOf(locked, lock.secrethash) # {}}
  IN  [old EXCEPT !.onchain_unlockedlocks = @ \cup onchain,
                  !.lockedlocks = {lock \in locked : /\ LockOf(onchain, lock.secrethash) = {}
                                                     /\ HasTask(S, lock)},
                  !.unlockedlocks = {}]

\* The end states that the database gives for an on-chain locksroot: none or one.
Restored(records, locksroot) ==
  LET found == WithLocksroot(records, locksroot)
  IN  IF locksroot = NoLocks \/ found = <<>> THEN {} ELSE {Last(found).end}

\* The locks to unlock, those the partner sent and those the node sent itself:
\* a side is left alone unless the node gains by it.
PartnerLocks(S) ==
  {end.pending_locks : end \in
     {x \in Restored(S.stored_received, S.onchain_locksroot.partner) :
        TotalAmount(update_lock_info(S, x, S.partner).onchain_unlockedlocks) > 0}}

OurLocks(S) ==
  {end.pending_locks : end \in
     {x \in Restored(S.stored_sent, S.onchain_locksroot.our) :
        TotalAmount(update_lock_info(S, x, S.our).lockedlocks) > 0}}
=============================================================================
