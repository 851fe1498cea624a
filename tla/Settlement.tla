----------------------------- MODULE Settlement ----------------------------
(***************************************************************************)
(* Two nodes and the contract of their channel, from the payments over the *)
(* channel to the last token paid out: closing by either side or by both   *)
(* at once, the challenge period, settlement and unlocking, with nodes     *)
(* that stop at any moment and come back later.                            *)
(*                                                                         *)
(* The contract is TokenNetwork itself.  Its timestamp is the number of    *)
(* the block that is being filled, one more than the latest block.         *)
(***************************************************************************)
EXTENDS Closing, TLC

CONSTANTS
  Nodes,            \* the two channel participants
  Payments,         \* payments, each with a secret of its own
  Initiator,        \* Initiator[p]: the node that sends payment p
  Amount,           \* Amount[p]: tokens payment p transfers
  Deposit,          \* Deposit[n]: total deposit of n
  Closers,          \* the nodes that may close the channel
  MaxBlock,         \* bound: the chain stops growing at this block
  LastStart,        \* bound: no payment starts after this block
  LastClose,        \* bound: no node decides to close after this block
  MaxLag,           \* blocks a running node may be behind the confirmed block
  MaxDown,          \* blocks a node may be down for
  MaxCrashes        \* bound: how often a node stops

ASSUME SettlementAssumption ==
  /\ Cardinality(Nodes) = 2
  /\ Initiator \in [Payments -> Nodes]
  /\ Amount \in [Payments -> Nat \ {0}]
  /\ Deposit \in [Nodes -> Nat]
  /\ Closers \subseteq Nodes
  /\ \A b \in {MaxBlock, LastStart, LastClose, MaxLag, MaxDown, MaxCrashes} : b \in Nat

VARIABLES
  timestamp, reserve, wallet, deprecated, limits, channel_counter, channel_of, state,
  settleable_after, parts, unlock_data, revealed_at,   \* the contract
  log,       \* contract events, oldest first
  node,      \* node[n]: the state of node n, as its database has it
  running,   \* running[n]: the transactions that node n is about to send
  down,      \* down[n]: the block at which node n stopped, 0 while it runs
  crashes    \* how often a node has stopped

contractVars == <<timestamp, reserve, wallet, deprecated, limits, channel_counter, channel_of,
                  state, settleable_after, parts, unlock_data, revealed_at>>
vars == <<contractVars, log, node, running, down, crashes>>

\* The hash of balance data is the data; no data hash to EMPTY_BALANCE_HASH.
EmptyBalanceHash == [transferred |-> 0, locked |-> 0, locksroot |-> NoLocks]

TN == INSTANCE TokenNetwork
        WITH Participants <- Nodes, MAX_SAFE_UINT256 <- UINT256_MAX,
             SettleTimeout <- SETTLE_TIMEOUT, ParticipantLimit <- UINT256_MAX,
             NetworkLimit <- UINT256_MAX, Supply <- 0, SecretHashes <- Payments,
             LockLists <- {}, BalanceHashes <- {}, MaxChannels <- 1, MaxNonce <- 0,
             MaxTime <- MaxBlock + 1

Channel1 == 1

head == timestamp - 1

Peer(n) == CHOOSE m \in Nodes : m # n

hash_balance_data(bp) ==
  [transferred |-> bp.transferred_amount, locked |-> bp.locked_amount, locksroot |-> bp.locksroot]

-----------------------------------------------------------------------------
(* Following the chain                                                     *)

\* What an event of the chain makes of the state of node n.
contract_event(S, n, e, at) ==
  CASE e.type = "SecretRevealed" /\ n = Initiator[e.secrethash] ->
         initiator_handle_onchain_secretreveal(S, e.secrethash, e.block)
    [] e.type = "SecretRevealed" /\ n # Initiator[e.secrethash] ->
         target_handle_onchain_secretreveal(S, e.secrethash, e.block)
    [] S.status = "removed" /\ e.type # "SecretRevealed" -> S
    [] e.type = "ChannelClosed" -> handle_channel_closed(S, e, e.by = n, at)
    [] e.type = "NonClosingBalanceProofUpdated" -> handle_channel_updated_transfer(S)
    [] e.type = "ChannelSettled" ->
         handle_channel_settled(S, e.locksroot[n], e.locksroot[Peer(n)], at)
    [] e.type = "ChannelUnlocked" -> handle_channel_batch_unlock(S, e.sender = n)

handle_contract_event(S, n, e, at) ==
  LET T == contract_event(S, n, e, at)
  IN  write_events(S, update_queues(S, T, e))

handle_block(S, block_number, at) ==
  LET seen == events_for_settlement(
                events_for_expired_withdraws([S EXCEPT !.block_number = block_number]), at)
      T == FoldSet(LAMBDA p, U : target_handle_block(initiator_handle_block(U, p), p, at),
                   IF S.status = "removed" THEN [S EXCEPT !.block_number = block_number] ELSE seen,
                   Payments)
  IN  write_events(S, T)

synchronize(S, n, block_number, at) ==
  LET events == SelectSeq(log, LAMBDA e : S.block_number < e.block /\ e.block <= block_number)
  IN  handle_block(FoldLeft(LAMBDA T, e : handle_contract_event(T, n, e, at), S, events),
                   block_number, at)

-----------------------------------------------------------------------------
(* The system                                                              *)

\* The channel is open and the deposits are made.
Init ==
  /\ timestamp = CONFIRMATIONS + 2
  /\ reserve = MapThenSumSet(LAMBDA n : Deposit[n], Nodes)
  /\ wallet = [n \in Nodes |-> 0]
  /\ deprecated = FALSE
  /\ limits = [participant |-> UINT256_MAX, network |-> UINT256_MAX]
  /\ channel_counter = 1
  /\ channel_of = [pair \in SUBSET Nodes |-> IF pair = Nodes THEN Channel1 ELSE 0]
  /\ state = [id \in {Channel1} |-> "Opened"]
  /\ settleable_after = [id \in {Channel1} |-> 0]
  /\ parts = [id \in {Channel1} |-> [n \in Nodes |-> [TN!NoParticipant EXCEPT !.deposit = Deposit[n]]]]
  /\ unlock_data = [k \in TN!UnlockKeys |-> TN!NoUnlockData]
  /\ revealed_at = [p \in Payments |-> 0]
  /\ log = <<>>
  /\ node = [n \in Nodes |->
               [block_number |-> 1, status |-> "opened",
                our |-> NettingChannelEndState(Deposit[n]),
                partner |-> NettingChannelEndState(Deposit[Peer(n)]),
                initiator |-> [p \in Payments |-> NoTask],
                target |-> [p \in Payments |-> NoTask],
                closed_block |-> 0, updated |-> FALSE,
                onchain_locksroot |-> [our |-> NoLocks, partner |-> NoLocks],
                stored_sent |-> <<>>, stored_received |-> <<>>,
                sent |-> {}, submitted |-> {}, events |-> {}]]
  /\ running = [n \in Nodes |-> {}]
  /\ down = [n \in Nodes |-> 0]
  /\ crashes = 0

\* A running node n writes its next state, and sets out to send the
\* transactions that are new in it.
Handle(n, T) ==
  /\ down[n] = 0
  /\ node' = [node EXCEPT ![n] = T]
  /\ running' = [running EXCEPT ![n] = @ \cup (T.submitted \ node[n].submitted)]
  /\ UNCHANGED <<contractVars, log, down, crashes>>

HandleMessage(n, T, m) == Handle(n, write_state_change(node[n], T, m))

Receives(n, type) == {m \in node[Peer(n)].sent : m.type = type /\ node[n].status # "removed"}

InitPayment(p) ==
  LET n == Initiator[p]
      S == node[n]
  IN  /\ S.block_number <= LastStart
      /\ <<"PaymentSentFailed", p>> \notin S.events
      /\ \A m \in S.sent : m.type = "LockedTransfer" => m.lock.secrethash # p
      /\ Handle(n, write_events(S, handle_init(S, p, Amount[p], 0, FALSE)))

ReceiveLockedTransfer(n) ==
  \E m \in Receives(n, "LockedTransfer") :
    /\ revealed_at[m.lock.secrethash] \in {0, timestamp}
    /\ HandleMessage(n, handle_inittarget(node[n], m), m)

ReceiveSecretRequest(n) ==
  \E m \in Receives(n, "SecretRequest") :
    Handle(n, handle_secretrequest(node[n], m.secrethash, m))

ReceiveSecretReveal(n) ==
  \E m \in Receives(n, "SecretReveal") :
    LET p == m.secrethash
    IN  Handle(n, write_events(node[n],
                    IF n = Initiator[p] THEN initiator_handle_offchain_secretreveal(node[n], p)
                                        ELSE target_handle_offchain_secretreveal(node[n], p)))

ReceiveUnlock(n) ==
  \E m \in Receives(n, "Unlock") : HandleMessage(n, handle_unlock(node[n], m), m)

ReceiveLockExpired(n) ==
  \E m \in Receives(n, "LockExpired") : HandleMessage(n, handle_lock_expired(node[n], m), m)

\* The API closes open channels only.
ActionChannelClose(n) ==
  /\ n \in Closers
  /\ head <= LastClose
  /\ node[n].status = "opened"
  /\ Handle(n, events_for_close(node[n], head))

Synchronize(n) ==
  \E b \in node[n].block_number + 1 .. head - CONFIRMATIONS :
    Handle(n, synchronize(node[n], n, b, head))

-----------------------------------------------------------------------------
(* Sending transactions.  A transaction is mined in the block being filled. *)
(* One the contract refuses ends in an error the node goes on after, and    *)
(* the transaction stays in the queue.                                     *)

\* The thread of transaction tx is done, or goes on with another call.
Done(n, tx, more) ==
  /\ running' = [running EXCEPT ![n] = (@ \ {tx}) \cup more]
  /\ UNCHANGED <<node, down, crashes>>

Refused == UNCHANGED <<contractVars, log>>

\* The thread ends in an error of the proxy or of the event handler.
Fail(n, tx) == Refused /\ Done(n, tx, {})

Emit(e) == log' = Append(log, e @@ [block |-> timestamp])

SendRegisterSecret(n, tx) ==
  /\ tx.type = "registerSecret"
  /\ IF revealed_at[tx.secrethash] = 0
     THEN /\ TN!registerSecret(tx.secrethash)
          /\ Emit([type |-> "SecretRevealed", secrethash |-> tx.secrethash])
     ELSE Refused
  /\ Done(n, tx, {})

SendCloseChannel(n, tx) ==
  /\ tx.type = "closeChannel"
  /\ IF state[Channel1] = "Opened"
     THEN /\ TN!closeChannel(Channel1, n, Peer(n), tx.balance_proof.nonce,
                             hash_balance_data(tx.balance_proof))
          /\ Emit([type |-> "ChannelClosed", by |-> n])
     ELSE Refused
  /\ Done(n, tx, {})

\* The proxy takes no balance proof that commits to nothing.
SendUpdate(n, tx) ==
  /\ tx.type = "updateNonClosingBalanceProof"
  /\ IF hash_balance_data(tx.balance_proof) = EmptyBalanceHash
     THEN Fail(n, tx)
     ELSE /\ IF /\ state[Channel1] = "Closed"
                /\ tx.balance_proof.nonce > parts[Channel1][Peer(n)].nonce
             THEN /\ TN!updateNonClosingBalanceProof(Channel1, Peer(n), n, tx.balance_proof.nonce,
                                                     hash_balance_data(tx.balance_proof))
                  /\ Emit([type |-> "NonClosingBalanceProofUpdated", nonce |-> tx.balance_proof.nonce])
             ELSE Refused
          /\ Done(n, tx, {})

\* The balance data behind a hash of the contract, from the database.
BalanceData(records, hash) ==
  IF hash = EmptyBalanceHash
  THEN {hash}
  ELSE LET found == WithBalance(records, hash.transferred, hash.locked, hash.locksroot)
       IN  {hash_balance_data(r.balance_proof) : r \in ToSet(found)}

\* The side that has sent less goes first.
SendSettle(n, tx) ==
  LET ours   == BalanceData(node[n].stored_sent, parts[Channel1][n].balance_hash)
      theirs == BalanceData(node[n].stored_received, parts[Channel1][Peer(n)].balance_hash)
  IN  /\ tx.type = "settleChannel"
      /\ IF state[Channel1] # "Closed" \/ settleable_after[Channel1] >= timestamp
         THEN Refused /\ Done(n, tx, {})
         ELSE IF ours = {} \/ theirs = {}
         THEN Fail(n, tx)
         ELSE /\ \E s1 \in ours, s2 \in theirs :
                   /\ IF TN!TransfersOrdered(s1, s2)
                      THEN TN!settleChannel(Channel1, n, s1, Peer(n), s2)
                      ELSE TN!settleChannel(Channel1, Peer(n), s2, n, s1)
                   /\ Emit([type |-> "ChannelSettled",
                            locksroot |-> [m \in Nodes |-> IF m = n THEN s1.locksroot
                                                                    ELSE s2.locksroot]])
              /\ Done(n, tx, {})

\* The two sides are unlocked one after the other.
UnlockSide(n, tx, sender, receiver, locks, more) ==
  IF locks = {}
  THEN Refused /\ Done(n, tx, more)
  ELSE IF unlock_data[<<Channel1, sender, receiver>>].locked_amount = 0
  THEN Refused /\ Done(n, tx, {})
  ELSE /\ \E l \in locks : TN!unlock(Channel1, receiver, sender, l)
       /\ Emit([type |-> "ChannelUnlocked", sender |-> sender])
       /\ Done(n, tx, more)

\* The database has no balance proof with the locksroot of the contract.
Lost(records, locksroot) == locksroot # NoLocks /\ WithLocksroot(records, locksroot) = <<>>

SendUnlock(n, tx) ==
  LET S == node[n]
  IN  /\ tx.type = "unlock"
      /\ IF Lost(S.stored_received, S.onchain_locksroot.partner)
         THEN Fail(n, tx)
         ELSE UnlockSide(n, tx, Peer(n), n, PartnerLocks(S), {[type |-> "unlock_ours", at |-> tx.at]})

SendUnlockOurs(n, tx) ==
  LET S == node[n]
  IN  /\ tx.type = "unlock_ours"
      /\ IF Lost(S.stored_sent, S.onchain_locksroot.our)
         THEN Fail(n, tx)
         ELSE UnlockSide(n, tx, n, Peer(n), OurLocks(S), {})

\* A transaction for a channel that is gone is an error.
SendTransaction(n) ==
  \E tx \in running[n] :
    IF node[n].status = "removed" /\ tx.type # "registerSecret"
    THEN Fail(n, tx)
    ELSE
    \/ SendRegisterSecret(n, tx)
    \/ SendCloseChannel(n, tx)
    \/ SendUpdate(n, tx)
    \/ SendSettle(n, tx)
    \/ SendUnlock(n, tx)
    \/ SendUnlockOurs(n, tx)

-----------------------------------------------------------------------------
(* Stopping and starting                                                   *)

Crash(n) ==
  /\ down[n] = 0
  /\ crashes < MaxCrashes
  /\ down' = [down EXCEPT ![n] = head]
  /\ crashes' = crashes + 1
  /\ running' = [running EXCEPT ![n] = {}]
  /\ UNCHANGED <<contractVars, log, node>>

\* The state comes back from the database and catches up with the chain; only
\* then are the transactions of the queue sent, all of them.
Restart(n) ==
  LET S == node[n]
      T == IF S.block_number < head - CONFIRMATIONS
           THEN synchronize(S, n, head - CONFIRMATIONS, head) ELSE S
  IN  /\ down[n] # 0
      /\ node' = [node EXCEPT ![n] = T]
      /\ running' = [running EXCEPT ![n] = T.submitted]
      /\ down' = [down EXCEPT ![n] = 0]
      /\ UNCHANGED <<contractVars, log, crashes>>

\* Running nodes keep up with the chain and send their transactions in time.
NewBlock ==
  /\ head < MaxBlock
  /\ \A n \in Nodes :
       IF down[n] = 0
       THEN head - CONFIRMATIONS - node[n].block_number <= MaxLag /\ running[n] = {}
       ELSE head + 1 - down[n] <= MaxDown
  /\ TN!Tick
  /\ UNCHANGED <<log, node, running, down, crashes>>

Next ==
  \/ \E p \in Payments : InitPayment(p)
  \/ \E n \in Nodes :
       \/ ReceiveLockedTransfer(n)
       \/ ReceiveSecretRequest(n)
       \/ ReceiveSecretReveal(n)
       \/ ReceiveUnlock(n)
       \/ ReceiveLockExpired(n)
       \/ ActionChannelClose(n)
       \/ Synchronize(n)
       \/ SendTransaction(n)
       \/ Crash(n)
       \/ Restart(n)
  \/ NewBlock

Spec == Init /\ [][Next]_vars

CaughtUp(n) == down[n] = 0 /\ node[n].block_number = head - CONFIRMATIONS /\ running[n] = {}

\* The chain grows, and a node always comes back and catches up with it.
FairSpec == Spec /\ WF_vars(NewBlock) /\ \A n \in Nodes : []<>CaughtUp(n)

-----------------------------------------------------------------------------
(* Properties                                                              *)

Settled == \E i \in DOMAIN log : log[i].type = "ChannelSettled"

\* What the latest balance proof n has from its partner is worth: the amount
\* transferred, and its locks whose secrets were registered in time.
Received(n) ==
  LET balance_proof == node[n].partner.balance_proof
  IN  balance_proof.transferred_amount + TN!getUnlockedAmount(balance_proof.locksroot)

\* What unlocking brings n: registered locks it received, the rest of those it sent.
Claimable(n) ==
  LET received == unlock_data[<<Channel1, Peer(n), n>>]
      sent     == unlock_data[<<Channel1, n, Peer(n)>>]
  IN  TN!getUnlockedAmount(received.locksroot)
        + sent.locked_amount - TN!getUnlockedAmount(sent.locksroot)

\* Whoever closes, and whichever node was down meanwhile, the settlement pays
\* each node its deposit and what its latest balance proof is worth, less what
\* its partner's is worth (close, update_transfer and settle of the proxies,
\* driven by _handle_channel_closed and _handle_block of channel.py).
PaidByLatest ==
  Settled => \A n \in Nodes :
    wallet[n] + Claimable(n) = Deposit[n] + Received(n) - Received(Peer(n))

Closed == \E i \in DOMAIN log : log[i].type = "ChannelClosed"

\* A closed channel is settled, although the nodes may stop on the way and
\* each of them sends the transaction once per start (_handle_block).
ClosedIsSettled == (state[Channel1] = "Closed") ~> Settled

\* The tokens of locks that expired come back to their sender: a lock without a
\* payment task "can't be relevant to us, anymore" (_update_lock_info).
ExpiredIsRefunded ==
  \A n \in Nodes :
    LET data == unlock_data[<<Channel1, n, Peer(n)>>]
    IN  (data.locked_amount > TN!getUnlockedAmount(data.locksroot)) ~> (data.locked_amount = 0)

=============================================================================
