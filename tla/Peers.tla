------------------------------- MODULE Peers -------------------------------
(***************************************************************************)
(* Two nodes that share one open channel: direct payments, settled off     *)
(* chain or by registering the secret, lock expiry, withdraws and the      *)
(* cooperative settlement that removes the channel.  The nodes talk over a *)
(* network that delays, loses, repeats and reorders, and each follows the  *)
(* chain at its own pace, CONFIRMATIONS blocks behind.                     *)
(*                                                                         *)
(* A handler of the node is an operator from the node's state to its next  *)
(* state, and an action applies it to the state of one node; the whole     *)
(* batch of a handler is one write to the node's state (handle_state_      *)
(* changes in gatcoin_service.py).                                         *)
(***************************************************************************)
EXTENDS Withdraw

CONSTANTS
  Nodes,            \* the two channel participants
  Payments,         \* payments, each with a secret of its own
  Initiator,        \* Initiator[p]: the node that sends payment p
  Amount,           \* Amount[p]: tokens payment p transfers
  Deposit,          \* Deposit[n]: total deposit of n when the channel starts
  DepositTotals,    \* DepositTotals[n]: total deposits n may make later
  WithdrawTotals,   \* WithdrawTotals[n]: total withdraws n may ask for
  CoopSettlers,     \* the nodes that may start a cooperative settlement
  MaxBlock,         \* bound: the chain stops growing at this block
  LastStart,        \* bound: no payment or withdraw starts after this block
  MaxLag,           \* blocks a node may be behind the confirmed block
  MineDelay         \* blocks within which a secret registration is mined

ASSUME PeersAssumption ==
  /\ Cardinality(Nodes) = 2
  /\ Initiator \in [Payments -> Nodes]
  /\ Amount \in [Payments -> Nat \ {0}]
  /\ Deposit \in [Nodes -> Nat]
  /\ \A n \in Nodes : /\ DepositTotals[n] \subseteq Nat
                       /\ WithdrawTotals[n] \subseteq Nat \ {0}
  /\ CoopSettlers \subseteq Nodes
  /\ \A b \in {MaxBlock, LastStart, MaxLag} : b \in Nat
  /\ MineDelay \in Nat \ {0}

VARIABLES
  head,   \* number of the latest block
  log,    \* contract events, oldest first; those of block head + 1 are still to come
  node    \* node[n]: the state of node n

vars == <<head, log, node>>

Peer(n) == CHOOSE m \in Nodes : m # n

Target(p) == Peer(Initiator[p])

-----------------------------------------------------------------------------
(* Following the chain (gatcoin_service.py, node.py)                       *)

SecretRevealed(p, upto) ==
  \E i \in DOMAIN log : /\ log[i].type = "SecretRevealed"
                        /\ log[i].secrethash = p
                        /\ log[i].block <= upto

OnchainDeposit(n) ==
  Max({Deposit[n]} \cup {log[i].total_deposit : i \in {j \in DOMAIN log :
                            log[j].type = "ChannelNewDeposit" /\ log[j].participant = n}})

OnchainWithdraw(n) ==
  Max({0} \cup {log[i].total_withdraw : i \in {j \in DOMAIN log :
                   log[j].type = "ChannelWithdraw" /\ log[j].participant = n}})

CoopSettled == \E i \in DOMAIN log : log[i].type = "ChannelSettled"

\* A settled channel is removed; later events and blocks find nothing to change.
handle_contract_event(S, n, e) ==
  CASE S.status = "settled"         -> S
    [] e.type = "ChannelSettled"    -> [S EXCEPT !.status = "settled"]
    [] e.type = "SecretRevealed" /\ n = Initiator[e.secrethash] ->
         initiator_handle_onchain_secretreveal(S, e.secrethash, e.block)
    [] e.type = "SecretRevealed" /\ n # Initiator[e.secrethash] ->
         target_handle_onchain_secretreveal(S, e.secrethash, e.block)
    [] e.type = "ChannelNewDeposit" /\ n = e.participant ->
         [S EXCEPT !.our = handle_channel_deposit(@, e.total_deposit)]
    [] e.type = "ChannelNewDeposit" /\ n # e.participant ->
         [S EXCEPT !.partner = handle_channel_deposit(@, e.total_deposit)]
    [] e.type = "ChannelWithdraw" /\ n = e.participant ->
         [S EXCEPT !.our = handle_channel_withdraw(@, e.total_withdraw)]
    [] e.type = "ChannelWithdraw" /\ n # e.participant ->
         [S EXCEPT !.partner = handle_channel_withdraw(@, e.total_withdraw)]

\* The channel sees the block first, then the payment tasks, those of our
\* own payments in the order they were started.
handle_block(S, block_number, at) ==
  LET seen    == events_for_expired_withdraws([S EXCEPT !.block_number = block_number])
      expired == FoldLeft(LAMBDA T, lock : initiator_handle_block(T, lock.secrethash),
                          seen, seen.our.pending_locks)
  IN  IF S.status = "settled"
      THEN [S EXCEPT !.block_number = block_number]
      ELSE FoldSet(LAMBDA p, T : target_handle_block(initiator_handle_block(T, p), p, at),
                   expired, Payments)

\* The events up to a confirmed block are handled while the node still
\* stands at the block before, then the block itself.
synchronize(S, n, block_number, at) ==
  LET events == SelectSeq(log, LAMBDA e : S.block_number < e.block /\ e.block <= block_number)
  IN  handle_block(FoldLeft(LAMBDA T, e : handle_contract_event(T, n, e), S, events),
                   block_number, at)

-----------------------------------------------------------------------------
(* The system                                                              *)

Init ==
  /\ head = CONFIRMATIONS + 1
  /\ log = <<>>
  /\ node = [n \in Nodes |->
               [block_number |-> 1,
                status       |-> "opened",
                our          |-> NettingChannelEndState(Deposit[n]),
                partner      |-> NettingChannelEndState(Deposit[Peer(n)]),
                initiator    |-> [p \in Payments |-> NoTask],
                target       |-> [p \in Payments |-> NoTask],
                sent         |-> {},
                submitted    |-> {},
                events       |-> {}]]

\* A handler of node n leaves the chain and the other node alone.
Handle(n, S) ==
  /\ node' = [node EXCEPT ![n] = S]
  /\ UNCHANGED <<head, log>>

\* A message of some type that the other node has sent, at any time since.  It
\* is dropped if the channel is gone.
Receives(n, type) ==
  {m \in node[Peer(n)].sent : m.type = type /\ node[n].status # "settled"}

Unstarted(S, p) ==
  /\ <<"PaymentSentFailed", p>> \notin S.events
  /\ \A m \in S.sent : m.type = "LockedTransfer" => m.lock.secrethash # p

InitPayment(p, has_secret) ==
  LET n == Initiator[p]
  IN  /\ node[n].block_number <= LastStart
      /\ Unstarted(node[n], p)
      /\ Handle(n, handle_init(node[n], p, Amount[p], 0, has_secret))

\* A transfer is dropped if the latest block already has its secret.  The
\* secret that comes with a transfer is handled right after it.
ReceiveLockedTransfer(n) ==
  \E m \in Receives(n, "LockedTransfer") :
    LET p == m.lock.secrethash
        S == handle_inittarget(node[n], m)
    IN  /\ ~ SecretRevealed(p, head)
        /\ Handle(n, IF m.has_secret THEN target_handle_offchain_secretreveal(S, p) ELSE S)

ReceiveSecretRequest(n) ==
  \E m \in Receives(n, "SecretRequest") :
    Handle(n, handle_secretrequest(node[n], m.secrethash, m))

ReceiveSecretReveal(n) ==
  \E m \in Receives(n, "SecretReveal") :
    Handle(n, IF n = Initiator[m.secrethash]
              THEN initiator_handle_offchain_secretreveal(node[n], m.secrethash)
              ELSE target_handle_offchain_secretreveal(node[n], m.secrethash))

ReceiveUnlock(n) ==
  \E m \in Receives(n, "Unlock") : Handle(n, handle_unlock(node[n], m))

ReceiveLockExpired(n) ==
  \E m \in Receives(n, "LockExpired") : Handle(n, handle_lock_expired(node[n], m))

ActionChannelWithdraw(n) ==
  /\ node[n].block_number <= LastStart
  /\ \E total \in WithdrawTotals[n] : Handle(n, handle_action_withdraw(node[n], total))

ActionChannelCoopSettle(n) ==
  /\ n \in CoopSettlers
  /\ node[n].block_number <= LastStart
  /\ Handle(n, handle_action_coop_settle(node[n]))

ReceiveWithdrawRequest(n) ==
  \E m \in Receives(n, "WithdrawRequest") :
    Handle(n, handle_receive_withdraw_request(node[n], m, head))

ReceiveWithdrawConfirmation(n) ==
  \E m \in Receives(n, "WithdrawConfirmation") :
    Handle(n, handle_receive_withdraw_confirmation(node[n], m, head))

ReceiveWithdrawExpired(n) ==
  \E m \in Receives(n, "WithdrawExpired") :
    Handle(n, handle_receive_withdraw_expired(node[n], m))

\* A node polls and handles everything up to some confirmed block.
Synchronize(n) ==
  \E b \in node[n].block_number + 1 .. head - CONFIRMATIONS :
    Handle(n, synchronize(node[n], n, b, head))

-----------------------------------------------------------------------------
(* The chain.  Transactions go into block head + 1.                        *)

\* A registered secret keeps its first block; doing it again has no effect.
MineRegisterSecret(n) ==
  \E tx \in node[n].submitted :
    /\ tx.type = "registerSecret"
    /\ log' = IF SecretRevealed(tx.secrethash, head + 1)
              THEN log
              ELSE Append(log, [type |-> "SecretRevealed", secrethash |-> tx.secrethash,
                                block |-> head + 1])
    /\ node' = [node EXCEPT ![n].submitted = @ \ {tx}]
    /\ UNCHANGED head

MineSetTotalDeposit(n) ==
  \E total \in DepositTotals[n] :
    /\ ~ CoopSettled
    /\ total > OnchainDeposit(n)
    /\ log' = Append(log, [type |-> "ChannelNewDeposit", participant |-> n,
                           total_deposit |-> total, block |-> head + 1])
    /\ UNCHANGED <<head, node>>

\* A withdraw that is late, does not increase the total or exceeds the
\* deposits reverts.
MineSetTotalWithdraw(n) ==
  \E tx \in node[n].submitted :
    /\ tx.type = "setTotalWithdraw"
    /\ ~ CoopSettled
    /\ head + 1 < tx.expiration
    /\ tx.total_withdraw > OnchainWithdraw(n)
    /\ tx.total_withdraw + OnchainWithdraw(Peer(n)) <= OnchainDeposit(n) + OnchainDeposit(Peer(n))
    /\ log' = Append(log, [type |-> "ChannelWithdraw", participant |-> n,
                           total_withdraw |-> tx.total_withdraw, block |-> head + 1])
    /\ node' = [node EXCEPT ![n].submitted = @ \ {tx}]
    /\ UNCHANGED head

\* The contract settles the channel if the two totals share out the deposits
\* and neither withdraw is late or below what was withdrawn before.
MayCoopSettle(n, tx) ==
  LET Late(total, m) == total > 0 /\ (head + 1 >= tx.expiration \/ total <= OnchainWithdraw(m))
  IN  /\ ~ CoopSettled
      /\ tx.our_total + tx.partner_total = OnchainDeposit(n) + OnchainDeposit(Peer(n))
      /\ ~ Late(tx.our_total, n)
      /\ ~ Late(tx.partner_total, Peer(n))

MineCooperativeSettle(n) ==
  \E tx \in node[n].submitted :
    /\ tx.type = "cooperativeSettle"
    /\ MayCoopSettle(n, tx)
    /\ log' = Append(log, [type |-> "ChannelSettled", block |-> head + 1])
    /\ node' = [node EXCEPT ![n].submitted = @ \ {tx}]
    /\ UNCHANGED head

\* Blocks do not outrun the nodes by more than MaxLag, and a registration
\* is in the block at most MineDelay after the one it was sent at.
NewBlock ==
  /\ head < MaxBlock
  /\ \A n \in Nodes :
       /\ head + 1 - CONFIRMATIONS - node[n].block_number <= MaxLag
       /\ \A tx \in node[n].submitted :
            tx.type = "registerSecret" => head + 1 < tx.at + MineDelay
  /\ head' = head + 1
  /\ UNCHANGED <<log, node>>

Next ==
  \/ \E p \in Payments, has_secret \in BOOLEAN : InitPayment(p, has_secret)
  \/ \E n \in Nodes :
       \/ ReceiveLockedTransfer(n)
       \/ ReceiveSecretRequest(n)
       \/ ReceiveSecretReveal(n)
       \/ ReceiveUnlock(n)
       \/ ReceiveLockExpired(n)
       \/ ActionChannelWithdraw(n)
       \/ ActionChannelCoopSettle(n)
       \/ ReceiveWithdrawRequest(n)
       \/ ReceiveWithdrawConfirmation(n)
       \/ ReceiveWithdrawExpired(n)
       \/ Synchronize(n)
       \/ MineRegisterSecret(n)
       \/ MineSetTotalDeposit(n)
       \/ MineSetTotalWithdraw(n)
       \/ MineCooperativeSettle(n)
  \/ NewBlock

Spec == Init /\ [][Next]_vars

-----------------------------------------------------------------------------
(* Properties                                                              *)

\* The assertions of sanity_check hold of both nodes' view of the channel after
\* every step: no balance is negative, and the amounts and the list of pending
\* locks agree with the locks on record.
SanityCheck ==
  \A n \in Nodes : sanity_check(node[n].our, node[n].partner)

NonceOf(m) ==
  CASE "balance_proof" \in DOMAIN m -> m.balance_proof.nonce
    [] "nonce" \in DOMAIN m         -> m.nonce
    [] OTHER                        -> 0

\* The state of a node that receives a message with a nonce.
Received(S, m) ==
  CASE m.type = "LockedTransfer" ->
         IF SecretRevealed(m.lock.secrethash, head) THEN S ELSE handle_inittarget(S, m)
    [] m.type = "Unlock"               -> handle_unlock(S, m)
    [] m.type = "LockExpired"          -> handle_lock_expired(S, m)
    [] m.type = "WithdrawRequest"      -> handle_receive_withdraw_request(S, m, head)
    [] m.type = "WithdrawConfirmation" -> handle_receive_withdraw_confirmation(S, m, head)
    [] m.type = "WithdrawExpired"      -> handle_receive_withdraw_expired(S, m)

\* How far the receiver may be behind the sender: a transfer or a withdraw may
\* spend a deposit that only the sender has seen, an expiry is announced
\* CONFIRMATIONS blocks after the receiver agrees that it is due.
Slack(m) == IF m.type \in {"LockedTransfer", "WithdrawRequest"} THEN 0 ELSE CONFIRMATIONS

\* The peer's message with the next nonce is always one the receiver accepts:
\* whatever was lost, repeated or reordered, the channel never reaches a state
\* in which the next balance proof is refused for good (channel.py, nonce and
\* expiry checks of every receive handler).
NextMessageAccepted ==
  \A n \in Nodes : \A m \in node[Peer(n)].sent :
    ( /\ NonceOf(m) = get_next_nonce(node[n].partner)
      /\ node[n].block_number + Slack(m) >= node[Peer(n)].block_number )
    => Received(node[n], m).partner.nonce = NonceOf(m)

\* Once a node has accepted all its peer has sent, its copy of the peer's end
\* state is the peer's own: the same balance proof, locks and reserved
\* withdraws, however the messages arrived.
CopiesAgree ==
  \A n \in Nodes :
    LET own == node[n].our
        copy == node[Peer(n)].partner
    IN  own.nonce = copy.nonce =>
          /\ own.balance_proof = copy.balance_proof
          /\ own.pending_locks = copy.pending_locks
          /\ KnownLocks(own) = KnownLocks(copy)
          /\ total_withdraw(own) = total_withdraw(copy)

\* The initiator takes a lock back only when the contract would no longer pay
\* it out: the secret was not registered before the lock's expiration, in any
\* block, seen or not (initiator.handle_block, DEFAULT_WAIT_BEFORE_LOCK_REMOVAL).
ExpiryIsFinal ==
  \A p \in Payments : \A t, x \in node[Initiator[p]].sent :
    ( /\ t.type = "LockedTransfer" /\ t.lock.secrethash = p
      /\ x.type = "LockExpired" /\ x.secrethash = p )
    => ~ SecretRevealed(p, t.lock.expiration - 1)

\* A target that learns the secret while it is safe to wait is paid: the
\* initiator never takes that lock back.  reveal_timeout is long enough for the
\* target to see the block, register the secret and have it mined.
TimelySecretIsPaid ==
  \A p \in Payments :
    LET task == node[Target(p)].target[p]
    IN  (/\ task # NoTask
         /\ task.learned # -1
         /\ is_safe_to_wait(task.expiration, task.learned))
        => \A m \in node[Initiator[p]].sent : m.type = "LockExpired" => m.secrethash # p

\* A withdraw the contract has paid out is one both nodes have already taken off
\* the withdrawer's balance, so neither the payer nor the payee spends it again
\* (total_withdraw of NettingChannelEndState).
WithdrawReserved ==
  \A n \in Nodes :
    /\ OnchainWithdraw(n) <= total_withdraw(node[n].our)
    /\ OnchainWithdraw(n) <= total_withdraw(node[Peer(n)].partner)

\* A cooperative settlement the contract would carry out pays both nodes all they
\* own: no lock is pending in either view, and each total is what that node can
\* withdraw at most, by its own account.  Nothing either node does after giving
\* its signature, and no message still on its way, makes the totals outdated
\* (_handle_action_coop_settle, _handle_receive_withdraw_request).
CoopSettlePaysAll ==
  \A n \in Nodes : \A tx \in node[n].submitted :
    (tx.type = "cooperativeSettle" /\ MayCoopSettle(n, tx)) =>
      /\ \A m \in Nodes : node[m].our.pending_locks = <<>> /\ node[m].partner.pending_locks = <<>>
      /\ tx.our_total = get_max_withdraw_amount(node[n].our, node[n].partner)
      /\ tx.partner_total = get_max_withdraw_amount(node[Peer(n)].our, node[Peer(n)].partner)
=============================================================================
