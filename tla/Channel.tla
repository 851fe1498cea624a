------------------------------ MODULE Channel ------------------------------
(***************************************************************************)
(* The state of one payment channel as a node keeps it (channel.py): the   *)
(* two end states, the checks a received message has to pass and the new   *)
(* end state that sending or accepting a message leaves behind.            *)
(*                                                                         *)
(* Identifiers and signatures are not represented: a message is authentic  *)
(* and names this channel.  keccak is injective, so a locksroot is the     *)
(* list of pending locks itself.  The three dictionaries from secrethash   *)
(* to lock are sets of locks.  A lock knows its secrethash, and the        *)
(* secrethash stands for the secret wherever the secret is at hand.        *)
(***************************************************************************)
EXTENDS Integers, Sequences, FiniteSets, SequencesExt

CONSTANTS
  UINT256_MAX,                 \* largest amount the contracts can hold
  MAXIMUM_PENDING_TRANSFERS,   \* locks a balance proof may carry
  CONFIRMATIONS,               \* DEFAULT_NUMBER_OF_BLOCK_CONFIRMATIONS
  REVEAL_TIMEOUT,              \* reveal_timeout of the channel
  SETTLE_TIMEOUT               \* settle_timeout of the channel

ASSUME ChannelAssumption ==
  /\ UINT256_MAX \in Nat
  /\ MAXIMUM_PENDING_TRANSFERS \in Nat \ {0}
  /\ CONFIRMATIONS \in Nat \ {0}
  /\ REVEAL_TIMEOUT \in Nat \ {0}
  /\ SETTLE_TIMEOUT \in Nat \ {0}

CHANNEL_STATES_PRIOR_TO_CLOSED == {"opened", "closing"}

CHANNEL_STATES_UP_TO_CLOSED == CHANNEL_STATES_PRIOR_TO_CLOSED \cup {"closed"}

NoBalanceProof ==
  [nonce |-> 0, transferred_amount |-> 0, locked_amount |-> 0, locksroot |-> <<>>]

\* A cooperative settlement one side has started: the totals the two withdraw
\* and whether the partner's request and confirmation have arrived.
CoopSettle(initiator, partner, expiration, request) ==
  [total_withdraw_initiator |-> initiator, total_withdraw_partner |-> partner,
   expiration |-> expiration, request |-> request, confirmation |-> FALSE]

NoCoopSettle == CoopSettle(0, 0, 0, FALSE)

NettingChannelEndState(deposit) ==
  [contract_balance       |-> deposit,
   onchain_total_withdraw |-> 0,
   withdraws_pending      |-> <<>>,
   withdraws_expired      |-> <<>>,
   initiated_coop_settle  |-> NoCoopSettle,
   lockedlocks            |-> {},
   unlockedlocks          |-> {},
   onchain_unlockedlocks  |-> {},
   balance_proof          |-> NoBalanceProof,
   pending_locks          |-> <<>>,
   nonce                  |-> 0]

-----------------------------------------------------------------------------
(* Block arithmetic                                                        *)

get_safe_initial_expiration(block_number) == block_number + REVEAL_TIMEOUT * 2 - 1

get_sender_expiration_threshold(expiration) == expiration + CONFIRMATIONS * 2
get_receiver_expiration_threshold(expiration) == expiration + CONFIRMATIONS

is_safe_to_wait(expiration, block_number) == expiration - block_number > REVEAL_TIMEOUT

-----------------------------------------------------------------------------
(* Amounts of an end state                                                 *)

TotalAmount(locks) == MapThenSumSet(LAMBDA lock : lock.amount, locks)

get_amount_locked(end) ==
  TotalAmount(end.lockedlocks) + TotalAmount(end.unlockedlocks)
    + TotalAmount(end.onchain_unlockedlocks)
total_withdraw(end) ==
  Max({end.onchain_total_withdraw}
        \cup {w.total_withdraw : w \in ToSet(end.withdraws_pending)})

get_balance(sender, receiver) ==
  sender.contract_balance - total_withdraw(sender)
    - sender.balance_proof.transferred_amount + receiver.balance_proof.transferred_amount

get_distributable(sender, receiver) ==
  LET overflow_limit == UINT256_MAX - sender.balance_proof.transferred_amount
                                    - get_amount_locked(sender)
  IN  Min({Max({overflow_limit, 0}),
           get_balance(sender, receiver) - get_amount_locked(sender)})

is_valid_amount(end, amount) ==
  end.balance_proof.transferred_amount + get_amount_locked(end) + amount <= UINT256_MAX

get_next_nonce(end) == end.nonce + 1

\* ch is a view of a channel: its status and the two end states.
is_channel_usable_for_new_transfer(ch, amount) ==
  /\ ch.status = "opened"
  /\ SETTLE_TIMEOUT >= REVEAL_TIMEOUT * 2
  /\ Len(ch.our.pending_locks) < MAXIMUM_PENDING_TRANSFERS
  /\ amount <= get_distributable(ch.our, ch.partner)
  /\ is_valid_amount(ch.our, amount)

is_channel_usable_for_mediation(ch, amount, lock_timeout) ==
  /\ is_channel_usable_for_new_transfer(ch, amount)
  /\ REVEAL_TIMEOUT < lock_timeout /\ lock_timeout <= SETTLE_TIMEOUT

-----------------------------------------------------------------------------
(* Locks                                                                   *)

\* The locks of one of the dictionaries that are filed under a secrethash.
LockOf(locks, secrethash) == {lock \in locks : lock.secrethash = secrethash}

KnownLocks(end) == end.lockedlocks \cup end.unlockedlocks \cup end.onchain_unlockedlocks

is_lock_pending(end, secrethash) == LockOf(KnownLocks(end), secrethash) # {}

is_secret_known(end, secrethash) ==
  LockOf(end.unlockedlocks \cup end.onchain_unlockedlocks, secrethash) # {}

is_lock_expired(end, lock, block_number, threshold) ==
  /\ LockOf(end.onchain_unlockedlocks, lock.secrethash) = {}
  /\ block_number >= threshold

is_transfer_expired(our, lock, block_number) ==
  is_lock_expired(our, lock, block_number, get_sender_expiration_threshold(lock.expiration))

compute_locks_with(locks, lock) == Append(locks, lock)

compute_locks_without(locks, lock) == SelectSeq(locks, LAMBDA l : l # lock)

del_unclaimed_lock(end, secrethash) ==
  [end EXCEPT !.lockedlocks   = @ \ LockOf(@, secrethash),
              !.unlockedlocks = @ \ LockOf(@, secrethash)]

del_lock(end, secrethash) ==
  [del_unclaimed_lock(end, secrethash)
     EXCEPT !.onchain_unlockedlocks = @ \ LockOf(@, secrethash)]

register_secret_endstate(end, secrethash) ==
  LET locks == LockOf(end.lockedlocks, secrethash)
  IN  [end EXCEPT !.lockedlocks = @ \ locks, !.unlockedlocks = @ \cup locks]
\* Mutant: the lock is filed a second time.
MutRegisterOnchain(end, secrethash, secret_reveal_block_number) ==
  [end EXCEPT !.onchain_unlockedlocks = @ \cup
     {lock \in LockOf(end.lockedlocks \cup end.unlockedlocks, secrethash) :
        lock.expiration >= secret_reveal_block_number}]

register_onchain_secret_endstate(end, secrethash, secret_reveal_block_number) ==
  LET locks == {lock \in LockOf(end.lockedlocks \cup end.unlockedlocks, secrethash) :
                  lock.expiration >= secret_reveal_block_number}
  IN  IF locks = {}
      THEN end
      ELSE [del_lock(end, secrethash) EXCEPT !.onchain_unlockedlocks = @ \cup locks]

-----------------------------------------------------------------------------
(* Balance proofs: what a message carries, and the state it leaves         *)

BalanceProof(end, transferred_amount, locked_amount, locks) ==
  [nonce |-> get_next_nonce(end), transferred_amount |-> transferred_amount,
   locked_amount |-> locked_amount, locksroot |-> locks]

create_sendlockedtransfer(our, lock) ==
  BalanceProof(our, our.balance_proof.transferred_amount,
               get_amount_locked(our) + lock.amount,
               compute_locks_with(our.pending_locks, lock))

create_unlock(our, lock) ==
  BalanceProof(our, our.balance_proof.transferred_amount + lock.amount,
               get_amount_locked(our) - lock.amount,
               compute_locks_without(our.pending_locks, lock))

create_sendexpiredlock(our, lock) ==
  BalanceProof(our, our.balance_proof.transferred_amount,
               get_amount_locked(our) - lock.amount,
               compute_locks_without(our.pending_locks, lock))

\* The end state of the sender of a balance proof, in the sender's own copy
\* and, once the receiver has checked the message, in the receiver's.
WithProof(end, balance_proof) ==
  [end EXCEPT !.balance_proof = balance_proof,
              !.nonce         = balance_proof.nonce,
              !.pending_locks = balance_proof.locksroot]

WithLockedTransfer(end, balance_proof, lock) ==
  [WithProof(end, balance_proof)
     EXCEPT !.lockedlocks = (@ \ LockOf(@, lock.secrethash)) \cup {lock}]
WithUnlock(end, balance_proof, secrethash) ==
  del_lock(WithProof(end, balance_proof), secrethash)

WithLockExpired(end, balance_proof, secrethash) ==
  del_unclaimed_lock(WithProof(end, balance_proof), secrethash)

-----------------------------------------------------------------------------
(* Checks on a received balance proof                                      *)

is_balance_proof_usable_onchain(ch, balance_proof) ==
  /\ ch.status = "opened"
  /\ balance_proof.transferred_amount + balance_proof.locked_amount <= UINT256_MAX
  /\ balance_proof.nonce = get_next_nonce(ch.partner)

is_valid_lockedtransfer(ch, balance_proof, lock) ==
  LET sender == ch.partner
  IN  /\ is_balance_proof_usable_onchain(ch, balance_proof)
      /\ lock \notin ToSet(sender.pending_locks)
      /\ Len(sender.pending_locks) < MAXIMUM_PENDING_TRANSFERS
      /\ balance_proof.locksroot = compute_locks_with(sender.pending_locks, lock)
      /\ balance_proof.transferred_amount = sender.balance_proof.transferred_amount
      /\ balance_proof.locked_amount = get_amount_locked(sender) + lock.amount
      /\ lock.amount <= get_distributable(sender, ch.our)

is_valid_unlock(ch, balance_proof, secrethash) ==
  LET sender == ch.partner
  IN  \E lock \in LockOf(KnownLocks(sender), secrethash) :
        /\ lock \in ToSet(sender.pending_locks)
        /\ is_balance_proof_usable_onchain(ch, balance_proof)
        /\ balance_proof.locksroot = compute_locks_without(sender.pending_locks, lock)
        /\ balance_proof.transferred_amount = sender.balance_proof.transferred_amount + lock.amount
        /\ balance_proof.locked_amount = get_amount_locked(sender) - lock.amount

is_valid_lock_expired(ch, balance_proof, secrethash, block_number) ==
  LET sender == ch.partner
  IN  /\ LockOf(sender.onchain_unlockedlocks, secrethash) = {}
      /\ \E lock \in LockOf(sender.lockedlocks \cup sender.unlockedlocks, secrethash) :
           /\ is_balance_proof_usable_onchain(ch, balance_proof)
           /\ lock \in ToSet(sender.pending_locks)
           /\ is_lock_expired(ch.our, lock, block_number,
                              get_receiver_expiration_threshold(lock.expiration))
           /\ balance_proof.locksroot = compute_locks_without(sender.pending_locks, lock)
           /\ balance_proof.transferred_amount = sender.balance_proof.transferred_amount
           /\ balance_proof.locked_amount = get_amount_locked(sender) - lock.amount

-----------------------------------------------------------------------------
(* Deposits and withdraws                                                  *)
handle_channel_deposit(end, total) == [end EXCEPT !.contract_balance = Max({@, total})]

is_withdraw_expired(block_number, threshold) == block_number >= threshold

WithdrawState(total, expiration) == [total_withdraw |-> total, expiration |-> expiration]

\* The position of a total in withdraws_pending: at most one index.
PendingAt(end, total) ==
  {i \in DOMAIN end.withdraws_pending : end.withdraws_pending[i].total_withdraw = total}

\* Assignment to withdraws_pending[total]: a known key keeps its position.
PutPending(end, w) ==
  LET at == PendingAt(end, w.total_withdraw)
  IN  IF at = {}
      THEN [end EXCEPT !.withdraws_pending = Append(@, w)]
      ELSE [end EXCEPT !.withdraws_pending = [i \in DOMAIN @ |-> IF i \in at THEN w ELSE @[i]]]

DropPending(end, total) ==
  [end EXCEPT !.withdraws_pending = SelectSeq(@, LAMBDA w : w.total_withdraw # total)]

\* What a side can withdraw in total until the channel has nothing left for it.
get_max_withdraw_amount(sender, receiver) == get_balance(sender, receiver) + total_withdraw(sender)

PendingWithdraws(end, total) == {end.withdraws_pending[i] : i \in PendingAt(end, total)}

\* The settlement ends when the withdraw it started with is among the expired.
EndCoopSettle(end, expired) ==
  LET coop == end.initiated_coop_settle
  IN  IF WithdrawState(coop.total_withdraw_initiator, coop.expiration) \in expired
      THEN [end EXCEPT !.initiated_coop_settle = NoCoopSettle]
      ELSE end

is_valid_total_withdraw(ch, total, allow_zero) ==
  /\ ch.status = "opened"
  /\ \/ total > total_withdraw(ch.our)
     \/ allow_zero /\ total = total_withdraw(ch.our)
  /\ get_balance(ch.our, ch.partner) >= total - total_withdraw(ch.our)
  /\ total + total_withdraw(ch.partner) <= UINT256_MAX

\* Mutant: only the locks with a known secret are counted.
MutPendingTransfers(end) == Cardinality(end.unlockedlocks)

get_number_of_pending_transfers(end) == Len(end.pending_locks)

is_valid_action_coopsettle(ch, total) ==
  /\ is_valid_total_withdraw(ch, total, TRUE)
  /\ \A end \in {ch.our, ch.partner} :
       /\ get_number_of_pending_transfers(end) = 0
       /\ \A w \in ToSet(end.withdraws_pending) : w.total_withdraw = 0

is_valid_withdraw_request(our, partner, m) ==
  /\ m.total_withdraw >= total_withdraw(partner)
  /\ get_balance(partner, our) >= m.total_withdraw - total_withdraw(partner)
  /\ m.nonce = get_next_nonce(partner)
  /\ m.total_withdraw + total_withdraw(our) <= UINT256_MAX

\* The withdraw a confirmation is about: a pending one, else the first
\* expired one with that total.
WithdrawOf(our, total) ==
  LET known == our.withdraws_pending \o our.withdraws_expired
      match == {i \in DOMAIN known : known[i].total_withdraw = total}
  IN  IF match = {} THEN {} ELSE {known[Min(match)]}

is_valid_withdraw_confirmation(our, partner, m) ==
  \E w \in WithdrawOf(our, m.total_withdraw) :
    /\ m.total_withdraw = total_withdraw(our)
    /\ m.nonce = get_next_nonce(partner)
    /\ m.expiration = w.expiration
    /\ m.total_withdraw + total_withdraw(partner) <= UINT256_MAX

is_valid_withdraw_expired(partner, m, block_number) ==
  \E i \in PendingAt(partner, m.total_withdraw) :
    /\ is_withdraw_expired(block_number,
         get_receiver_expiration_threshold(partner.withdraws_pending[i].expiration))
    /\ m.nonce = get_next_nonce(partner)

\* How many of the withdraws we requested have expired: the loop stops at
\* the first one that has not.
ExpiredCount(our, block_number) ==
  LET live == {i \in DOMAIN our.withdraws_pending :
                 ~ is_withdraw_expired(block_number,
                     get_sender_expiration_threshold(our.withdraws_pending[i].expiration))}
  IN  IF live = {} THEN Len(our.withdraws_pending) ELSE Min(live) - 1

-----------------------------------------------------------------------------
(* The assertions a node makes about a channel after every change          *)

\* The mappings of an end state agree with its balance proof and its list
\* of pending locks.
EndStateSane(end) ==
  /\ get_amount_locked(end) = end.balance_proof.locked_amount
  /\ end.balance_proof.locksroot = end.pending_locks
  /\ KnownLocks(end) \subseteq ToSet(end.pending_locks)

sanity_check(our, partner) ==
  /\ our.initiated_coop_settle = NoCoopSettle /\ partner.initiated_coop_settle = NoCoopSettle =>
       \A i, j \in DOMAIN our.withdraws_pending :
         i < j => our.withdraws_pending[i].total_withdraw < our.withdraws_pending[j].total_withdraw
  /\ get_balance(our, partner) >= 0
  /\ get_balance(partner, our) >= 0
  /\ EndStateSane(our)
  /\ EndStateSane(partner)
  /\ get_distributable(our, partner) + get_amount_locked(our) <= get_balance(our, partner)
  /\ get_distributable(partner, our) + get_amount_locked(partner) <= get_balance(partner, our)
=============================================================================
