----------------------------- MODULE Mediation -----------------------------
(***************************************************************************)
(* A payment over two channels: an initiator, a mediator and a target.     *)
(* The network and the chain are those of Peers: messages are delayed,     *)
(* lost, repeated and reordered, every node follows the chain at its own   *)
(* pace, and either channel may be closed by its far end while the payment *)
(* is under way.                                                           *)
(***************************************************************************)
EXTENDS Mediator

CONSTANTS
  Payments,       \* payments, each with a secret of its own
  Amount,         \* Amount[p]: tokens the target is to get
  EstimatedFee,   \* what the initiator adds for the mediator
  Deposit,        \* Deposit[h]: what the sending side of hop h starts with
  LaterDeposit,   \* LaterDeposit[h]: what that side may raise its deposit to
  Closers,        \* the nodes that may close their channel
  MaxCloses,      \* bound: how many of them do
  MaxBlock,       \* bound: the chain stops growing at this block
  LastStart,      \* bound: no payment starts after this block
  MaxLag,         \* blocks a node may be behind the confirmed block
  MineDelay       \* blocks within which a transaction is mined

ASSUME MediationAssumption ==
  /\ Amount \in [Payments -> Nat \ {0}]
  /\ Closers \subseteq {"initiator", "target"}
  /\ \A h \in 1 .. 2 : Deposit[h] \in Nat /\ LaterDeposit[h] \in Nat
  /\ \A b \in {EstimatedFee, MaxCloses, MaxBlock, LastStart, MaxLag} : b \in Nat
  /\ MineDelay \in Nat \ {0}

VARIABLES
  head,   \* number of the latest block
  log,    \* contract events, oldest first; those of block head + 1 are still to come
  node    \* the state of the three nodes

vars == <<head, log, node>>

Nodes == {"initiator", "mediator", "target"}

\* The hop that a node at the end of the route has its channel on.
HopOf(n) == IF n = "initiator" THEN 1 ELSE 2

-----------------------------------------------------------------------------
(* Following the chain                                                     *)

SecretRevealed(p, upto) ==
  \E i \in DOMAIN log : log[i].type = "SecretRevealed" /\ log[i].secrethash = p /\ log[i].block <= upto

ChannelClosed(hop) == \E i \in DOMAIN log : log[i].type = "ChannelClosed" /\ log[i].hop = hop

\* What a view of a channel becomes; sender: the view is that of the sending side.
ChannelEvent(ch, e, sender) ==
  CASE e.type = "ChannelNewDeposit" /\ sender   ->
         [ch EXCEPT !.our = handle_channel_deposit(@, e.total_deposit)]
    [] e.type = "ChannelNewDeposit" /\ ~ sender ->
         [ch EXCEPT !.partner = handle_channel_deposit(@, e.total_deposit)]
    [] e.type = "ChannelClosed"                 -> [ch EXCEPT !.status = "closed"]

handle_contract_event(S, n, e) ==
  CASE e.type = "SecretRevealed" /\ n = "initiator" ->
         initiator_handle_onchain_secretreveal(S, e.secrethash, e.block)
    [] e.type = "SecretRevealed" /\ n = "mediator" ->
         mediator_handle_onchain_secretreveal(S, e.secrethash, e.block)
    [] e.type = "SecretRevealed" /\ n = "target" ->
         target_handle_onchain_secretreveal(S, e.secrethash, e.block)
    [] e.type # "SecretRevealed" /\ n = "mediator" ->
         IF e.hop = 1 THEN [S EXCEPT !.payer = ChannelEvent(@, e, FALSE)]
                      ELSE [S EXCEPT !.payee = ChannelEvent(@, e, TRUE)]
    [] e.type # "SecretRevealed" /\ n # "mediator" ->
         IF e.hop = HopOf(n) THEN ChannelEvent(S, e, n = "initiator") ELSE S

handle_block(S, n, at) ==
  LET Step(p, T) == CASE n = "initiator" -> initiator_handle_block(T, p)
                      [] n = "mediator"  -> mediator_handle_block(T, p, at)
                      [] n = "target"    -> target_handle_block(T, p, at)
  IN  FoldSet(Step, S, Payments)

synchronize(S, n, block_number, at) ==
  LET events == SelectSeq(log, LAMBDA e : S.block_number < e.block /\ e.block <= block_number)
      seen   == FoldLeft(LAMBDA T, e : handle_contract_event(T, n, e), S, events)
  IN  handle_block([seen EXCEPT !.block_number = block_number], n, at)

-----------------------------------------------------------------------------
(* The system                                                              *)

View(our, partner) ==
  [status |-> "opened", our |-> NettingChannelEndState(our),
   partner |-> NettingChannelEndState(partner)]

EndNode(view) ==
  [block_number |-> 1, status |-> "opened", our |-> view.our, partner |-> view.partner,
   initiator |-> [p \in Payments |-> NoTask], target |-> [p \in Payments |-> NoTask],
   sent |-> {}, submitted |-> {}, events |-> {}]

Init ==
  /\ head = CONFIRMATIONS + 1
  /\ log = <<>>
  /\ node = [n \in Nodes |->
               CASE n = "initiator" -> EndNode(View(Deposit[1], 0))
                 [] n = "mediator"  ->
                      [block_number |-> 1, payer |-> View(0, Deposit[1]),
                       payee |-> View(Deposit[2], 0),
                       task |-> [p \in Payments |-> NoMediation],
                       sent |-> {}, submitted |-> {}, events |-> {}]
                 [] n = "target"    -> EndNode(View(0, Deposit[2]))]

Handle(n, S) ==
  /\ node' = [node EXCEPT ![n] = S]
  /\ UNCHANGED <<head, log>>

\* A message that a node has sent, at any time since.  The type of a message
\* tells which of the other two nodes it goes to.
From(n, type) == {m \in node[n].sent : m.type = type}

InitPayment(p, has_secret) ==
  LET S == node["initiator"]
  IN  /\ S.block_number <= LastStart
      /\ <<"PaymentSentFailed", p>> \notin S.events
      /\ \A m \in From("initiator", "LockedTransfer") : m.lock.secrethash # p
      /\ Handle("initiator", handle_init(S, p, Amount[p], EstimatedFee, has_secret))

MediateTransfer ==
  \E m \in From("initiator", "LockedTransfer") :
    /\ ~ SecretRevealed(m.lock.secrethash, head)
    /\ Handle("mediator", mediator_handle_init(node["mediator"], m))

ReceiveLockedTransfer ==
  \E m \in From("mediator", "LockedTransfer") :
    LET p == m.lock.secrethash
        S == handle_inittarget(node["target"], m)
    IN  /\ ~ SecretRevealed(p, head)
        /\ Handle("target", IF m.has_secret THEN target_handle_offchain_secretreveal(S, p) ELSE S)

ReceiveSecretRequest ==
  \E m \in From("target", "SecretRequest") :
    Handle("initiator", handle_secretrequest(node["initiator"], m.secrethash, m))

TargetReceivesSecret ==
  \E m \in From("initiator", "SecretReveal") :
    Handle("target", target_handle_offchain_secretreveal(node["target"], m.secrethash))

MediatorReceivesSecret ==
  \E m \in From("target", "SecretReveal") :
    Handle("mediator", mediator_handle_offchain_secretreveal(node["mediator"], m.secrethash, head))

InitiatorReceivesSecret ==
  \E m \in From("mediator", "SecretReveal") :
    Handle("initiator", initiator_handle_offchain_secretreveal(node["initiator"], m.secrethash))

MediatorReceivesUnlock ==
  \E m \in From("initiator", "Unlock") :
    Handle("mediator", mediator_handle_unlock(node["mediator"], m))

TargetReceivesUnlock ==
  \E m \in From("mediator", "Unlock") :
    Handle("target", handle_unlock(node["target"], m))

MediatorReceivesLockExpired ==
  \E m \in From("initiator", "LockExpired") :
    Handle("mediator", mediator_handle_lock_expired(node["mediator"], m))

TargetReceivesLockExpired ==
  \E m \in From("mediator", "LockExpired") :
    Handle("target", handle_lock_expired(node["target"], m))

\* The status changes with the decision to close, before the transaction.
ActionClose(n) ==
  /\ n \in Closers
  /\ Cardinality({c \in Closers : node[c].status # "opened"}) < MaxCloses
  /\ node[n].status = "opened"
  /\ Handle(n, Submit([node[n] EXCEPT !.status = "closing"], [type |-> "closeChannel", at |-> head]))

Synchronize(n) ==
  \E b \in node[n].block_number + 1 .. head - CONFIRMATIONS :
    Handle(n, synchronize(node[n], n, b, head))

-----------------------------------------------------------------------------
(* The chain.  Transactions go into block head + 1.                        *)

Mine(n, tx, events) ==
  /\ log' = log \o events
  /\ node' = [node EXCEPT ![n].submitted = @ \ {tx}]
  /\ UNCHANGED head

MineRegisterSecret(n) ==
  \E tx \in node[n].submitted :
    /\ tx.type = "registerSecret"
    /\ Mine(n, tx, IF SecretRevealed(tx.secrethash, head + 1)
                   THEN <<>>
                   ELSE <<[type |-> "SecretRevealed", secrethash |-> tx.secrethash,
                           block |-> head + 1]>>)

MineCloseChannel(n) ==
  \E tx \in node[n].submitted :
    /\ tx.type = "closeChannel"
    /\ Mine(n, tx, <<[type |-> "ChannelClosed", hop |-> HopOf(n), block |-> head + 1]>>)

MineSetTotalDeposit(hop) ==
  /\ LaterDeposit[hop] > Deposit[hop]
  /\ ~ ChannelClosed(hop)
  /\ \A i \in DOMAIN log : ~ (log[i].type = "ChannelNewDeposit" /\ log[i].hop = hop)
  /\ log' = Append(log, [type |-> "ChannelNewDeposit", hop |-> hop,
                         total_deposit |-> LaterDeposit[hop], block |-> head + 1])
  /\ UNCHANGED <<head, node>>

NewBlock ==
  /\ head < MaxBlock
  /\ \A n \in Nodes :
       /\ head + 1 - CONFIRMATIONS - node[n].block_number <= MaxLag
       /\ \A tx \in node[n].submitted : head + 1 < tx.at + MineDelay
  /\ head' = head + 1
  /\ UNCHANGED <<log, node>>

Next ==
  \/ \E p \in Payments, has_secret \in BOOLEAN : InitPayment(p, has_secret)
  \/ MediateTransfer
  \/ ReceiveLockedTransfer
  \/ ReceiveSecretRequest
  \/ TargetReceivesSecret
  \/ MediatorReceivesSecret
  \/ InitiatorReceivesSecret
  \/ MediatorReceivesUnlock
  \/ TargetReceivesUnlock
  \/ MediatorReceivesLockExpired
  \/ TargetReceivesLockExpired
  \/ \E n \in Nodes : ActionClose(n) \/ Synchronize(n) \/ MineRegisterSecret(n) \/ MineCloseChannel(n)
  \/ \E hop \in 1 .. 2 : MineSetTotalDeposit(hop)
  \/ NewBlock

Spec == Init /\ [][Next]_vars

\* The chain goes on: a transaction is mined or a block is added.
ChainStep ==
  \/ NewBlock
  \/ \E n \in Nodes : MineRegisterSecret(n) \/ MineCloseChannel(n)

\* Every node polls the chain for as long as it runs, so that it catches up
\* again and again.  No message need ever arrive.
FairSpec ==
  /\ Spec
  /\ WF_vars(ChainStep)
  /\ \A n \in Nodes : []<>(node[n].block_number = head - CONFIRMATIONS)

-----------------------------------------------------------------------------
(* Properties                                                              *)

\* The node that sends the payment over hop h, and the status its channel has there.
Sender(h) == IF h = 1 THEN "initiator" ELSE "mediator"

\* The locks of payment p that were sent over hop h.
HopLocks(h, p) == {m.lock : m \in {x \in From(Sender(h), "LockedTransfer") : x.lock.secrethash = p}}

SentFor(h, type, p) == \E m \in From(Sender(h), type) : m.secrethash = p

\* What became of payment p at hop h.  A registration in time pays every hop,
\* a lock of a closed channel is lost to the receiver once it has expired.
HopState(h, p) ==
  IF HopLocks(h, p) = {}
  THEN "none"
  ELSE LET lock == CHOOSE l \in HopLocks(h, p) : TRUE
       IN  CASE SentFor(h, "Unlock", p) \/ SecretRevealed(p, lock.expiration) -> "paid"
             [] SentFor(h, "LockExpired", p) \/ (ChannelClosed(h) /\ head >= lock.expiration) -> "returned"
             [] OTHER -> "held"

Promise == INSTANCE AtomicPayment
             WITH Hops <- 2, hop <- [p \in Payments |-> [h \in 1 .. 2 |-> HopState(h, p)]]

\* The three nodes implement AtomicPayment: the mediator locks its own tokens
\* only while it holds the payer's lock, and once it has paid the target its
\* own payment is never taken back, however messages, blocks, registrations
\* and the closing of either channel interleave.
MediatorNeverLoses == Promise!Spec

\* No hop stays locked: whenever a payment holds tokens it comes to hold none.
LocksAreResolved == \A p \in Payments : []<>(\A h \in 1 .. 2 : HopState(h, p) # "held")

\* A mediator that pays the target is paid.
MediatorIsPaid == \A p \in Payments : HopState(2, p) = "paid" ~> HopState(1, p) = "paid"
=============================================================================
