-------------------------------- MODULE Node -------------------------------
(***************************************************************************)
(* What keeps a node's word across crashes: the write-ahead log and its    *)
(* snapshots (wal.py, sqlite.py), the effects that follow a committed      *)
(* state change and the start of the service (gatcoin_service.py), the     *)
(* queues of messages in the state (node.py), and the retry queues, the    *)
(* broadcast queue and the acknowledgements of the transport               *)
(* (transport.py), over a network that loses and reorders.                 *)
(*                                                                         *)
(* Two nodes share a channel.  The payer sends transfers, which go in the  *)
(* ordered queue of the channel; each one is answered by a Processed,      *)
(* which goes in the unordered queue.  What the transfers do to the        *)
(* channel is in Channel and Payment: here a transfer is its nonce, and a  *)
(* node accepts the next nonce only.                                       *)
(***************************************************************************)
EXTENDS Integers, Sequences, FiniteSetsExt, Functions

CONSTANTS
  Nodes,                         \* the two nodes
  Payer,                         \* the one that sends transfers
  MaxTransfers,                  \* bound: transfers of the payer
  MaxBatch,                      \* bound: messages handled together
  SNAPSHOT_STATE_CHANGES_COUNT,
  MaxCrashes,                    \* bound: how often a node stops
  MaxWork                        \* bound: transfers and stops together

ASSUME NodeAssumption ==
  /\ Cardinality(Nodes) = 2 /\ Payer \in Nodes
  /\ \A b \in {MaxTransfers, MaxBatch, SNAPSHOT_STATE_CHANGES_COUNT, MaxCrashes, MaxWork} :
       b \in Nat

VARIABLES
  wire,        \* messages on their way; one that is never received is lost
  closed,      \* the channel was closed, in a confirmed block
  monitored,   \* monitored[n]: nonce of the balance proof the monitoring service has from n
  crashes,     \* how often a node has stopped
  db,          \* db[n]: the latest snapshot of n and the state changes after it
  up,          \* up[n]: n is running
  state,       \* state[n]: the state in the memory of n
  transaction, \* transaction[n]: what is written under the lock and not yet committed
  retrier,     \* retrier[n]: the retry queue of n
  broadcasts,  \* broadcasts[n]: requests for the monitoring service
  prioritize,  \* prioritize[n]: _prioritize_broadcast_messages
  started      \* started[n]: what n knew at its last start, and whether it has sent since

environment == <<wire, closed, monitored, crashes>>
service == <<up, state, transaction, started>>
transport == <<retrier, broadcasts, prioritize>>
vars == <<environment, db, service, transport>>

Peer(n) == CHOOSE m \in Nodes : m # n

Nonces == 1 .. MaxTransfers

\* The Processed for a transfer has its identifier, and the Delivered for a
\* message has the message's.
Message(type, id, from) == [type |-> type, id |-> id, from |-> from]

IsTransfer(m) == m.type = "LockedTransfer"

-----------------------------------------------------------------------------
(* The state machine and its message queues (node.py)                      *)

InitialState ==
  [sent |-> 0, received |-> 0, closed |-> FALSE,
   ordered |-> <<>>, unordered |-> <<>>]

\* The messages of a queue that are in a set, in their order.
Only(queue, messages) ==
  LET kept[k \in 0 .. Len(queue)] ==
        IF k = 0 THEN <<>>
        ELSE IF queue[k] \in messages THEN Append(kept[k - 1], queue[k])
        ELSE kept[k - 1]
  IN  kept[Len(queue)]

\* Messages leave a queue by their identifier.
inplace_delete_message(queue, id) == Only(queue, {m \in Range(queue) : m.id # id})

\* The events of a state change, and the state before they are queued.
handle_state_change(n, S, change) ==
  CASE change.type = "ActionInitInitiator" /\ ~ S.closed ->
         [state |-> [S EXCEPT !.sent = @ + 1],
          events |-> <<Message("LockedTransfer", S.sent + 1, n)>>]
    [] change.type = "LockedTransfer" /\ ~ S.closed /\ change.id = S.received + 1 ->
         [state |-> [S EXCEPT !.received = @ + 1],
          events |-> <<Message("Processed", change.id, n)>>]
    [] change.type = "Processed" ->
         [state |-> [S EXCEPT !.ordered = inplace_delete_message(@, change.id),
                              !.unordered = inplace_delete_message(@, change.id)],
          events |-> <<>>]
    [] change.type = "Delivered" ->
         [state |-> [S EXCEPT !.unordered = inplace_delete_message(@, change.id)],
          events |-> <<>>]
    [] change.type = "ContractReceiveChannelClosed" ->
         [state |-> [S EXCEPT !.closed = TRUE, !.ordered = <<>>], events |-> <<>>]
    [] OTHER -> [state |-> S, events |-> <<>>]

update_queues(iteration) ==
  LET S == iteration.state
      transfers == {m \in Range(iteration.events) : IsTransfer(m)}
      others == Range(iteration.events) \ transfers
  IN  [state |-> [S EXCEPT !.ordered = S.ordered \o Only(iteration.events, transfers),
                           !.unordered = S.unordered \o Only(iteration.events, others)],
       events |-> iteration.events]

state_transition(n, S, change) == update_queues(handle_state_change(n, S, change))

-----------------------------------------------------------------------------
(* The write-ahead log (wal.py)                                            *)

NoTransaction == [open |-> FALSE]

\* A list of state changes applied to a clone of the state, and written.
dispatch(n, S, changes) ==
  LET after[k \in 0 .. Len(changes)] ==
        IF k = 0 THEN [state |-> S, events |-> <<>>]
        ELSE LET iteration == state_transition(n, after[k - 1].state, changes[k])
             IN  [state |-> iteration.state,
                  events |-> after[k - 1].events \o iteration.events]
  IN  [open |-> TRUE, state |-> after[Len(changes)].state, changes |-> changes,
       events |-> after[Len(changes)].events]

\* What the database makes of the state: the snapshot, and the state changes
\* that came after it applied again.
replay_state_changes(n, database) == dispatch(n, database.snapshot, database.changes).state

\* The lock is taken, the state is cloned, the state changes are applied to the
\* clone and written with their events, in a transaction of the database.
process_state_change_atomically(n, changes) ==
  /\ up[n] /\ ~ transaction[n].open
  /\ transaction' = [transaction EXCEPT ![n] = dispatch(n, state[n], changes)]
  /\ UNCHANGED <<closed, monitored, crashes, db, up, state, started, broadcasts, prioritize>>

Committed(database, t) == [database EXCEPT !.changes = @ \o t.changes]

\* Mutant: the snapshot is filed under the last state change, but it holds the
\* state the node started with.
MutMaybeSnapshot(database, S) ==
  IF Len(database.changes) > SNAPSHOT_STATE_CHANGES_COUNT
  THEN [snapshot |-> database.snapshot, changes |-> <<>>]
  ELSE database

\* A snapshot is due after so many state changes.  It holds the state, and a
\* restart will apply again what comes after the last state change applied to it.
maybe_snapshot(database, S) ==
  IF Len(database.changes) > SNAPSHOT_STATE_CHANGES_COUNT
  THEN [snapshot |-> S, changes |-> <<>>]
  ELSE database

\* The balance proofs among the state changes are for the monitoring service;
\* only the last one is sent.
MonitoringUpdates(changes) ==
  LET proofs == {i \in DOMAIN changes : changes[i].type = "LockedTransfer"}
  IN  IF proofs = {} THEN {} ELSE {changes[Max(proofs)].id}

message_is_in_queue(S, m) == m \in Range(S.ordered) \cup Range(S.unordered)

\* What the retry queue keeps: a message that left its queue of the state is
\* dropped without being sent.
Pending(S, messages) == {m \in messages : m.type = "Delivered" \/ message_is_in_queue(S, m)}

\* The transaction is committed, the clone becomes the state and the lock is
\* released.  The effects follow: the monitoring service is told of a new
\* balance proof, a snapshot may be taken, and the messages among the events go
\* to the retry queue.
trigger_state_change_effects(n) ==
  LET t == transaction[n]
  IN  /\ t.open
      /\ state' = [state EXCEPT ![n] = t.state]
      /\ db' = [db EXCEPT ![n] = maybe_snapshot(Committed(@, t), t.state)]
      /\ transaction' = [transaction EXCEPT ![n] = NoTransaction]
      /\ broadcasts' = [broadcasts EXCEPT ![n] = @ \cup MonitoringUpdates(t.changes)]
      /\ retrier' = [retrier EXCEPT ![n] = Pending(t.state, @ \cup Range(t.events))]
      /\ UNCHANGED <<environment, up, started, prioritize>>

\* The user starts a payment.
InitTransfer(n) ==
  /\ n = Payer /\ state[n].sent < MaxTransfers /\ ~ state[n].closed
  /\ state[n].sent + crashes < MaxWork
  /\ process_state_change_atomically(n, <<[type |-> "ActionInitInitiator"]>>)
  /\ UNCHANGED <<wire, retrier>>

\* The alarm task sees that the channel was closed.
Alarm(n) ==
  /\ closed /\ ~ state[n].closed
  /\ process_state_change_atomically(n, <<[type |-> "ContractReceiveChannelClosed"]>>)
  /\ UNCHANGED <<wire, retrier>>

-----------------------------------------------------------------------------
(* The transport (transport.py)                                            *)

\* Mutant: the retry queue does not wait for the broadcasts.
MutCheckAndSend(n) ==
  LET retried == {m \in retrier[n] : message_is_in_queue(state[n], m)}
      once == {m \in retrier[n] : m.type = "Delivered"}
  IN  /\ up[n] /\ retrier[n] # {}
      /\ wire' = wire \cup retried \cup once
      /\ retrier' = [retrier EXCEPT ![n] = retried]
      /\ started' = [started EXCEPT ![n].has_sent = @ \/ retried # {}]
      /\ UNCHANGED <<closed, monitored, crashes, db, up, state, transaction, broadcasts, prioritize>>

\* A message is sent again and again as long as it is in a queue of the state;
\* a Delivered is sent once.  Right after a start the broadcasts go first.
check_and_send(n) ==
  LET retried == {m \in retrier[n] : message_is_in_queue(state[n], m)}
      once == {m \in retrier[n] : m.type = "Delivered"}
  IN  /\ up[n] /\ retrier[n] # {}
      /\ prioritize[n] => broadcasts[n] = {}
      /\ wire' = wire \cup retried \cup once
      /\ retrier' = [retrier EXCEPT ![n] = retried]
      /\ started' = [started EXCEPT ![n].has_sent = @ \/ retried # {}]
      /\ UNCHANGED <<closed, monitored, crashes, db, up, state, transaction, broadcasts, prioritize>>

\* Everything in the broadcast queue goes out.
broadcast_worker(n) ==
  /\ up[n]
  /\ broadcasts[n] # {} \/ prioritize[n]
  /\ monitored' = [monitored EXCEPT ![n] = Max({@} \cup broadcasts[n])]
  /\ broadcasts' = [broadcasts EXCEPT ![n] = {}]
  /\ prioritize' = [prioritize EXCEPT ![n] = FALSE]
  /\ UNCHANGED <<wire, closed, crashes, db, service, retrier>>

\* The state changes for some of the messages that have arrived are sorted: the
\* balance proofs come last, by nonce.  The others keep the order of their
\* arrival, which may be any.
on_messages(arrived) ==
  {changes \in UNION {[1 .. k -> arrived] : k \in 1 .. MaxBatch} :
     /\ IsInjective(changes)
     /\ \A i, j \in DOMAIN changes : i < j /\ IsTransfer(changes[i]) =>
          IsTransfer(changes[j]) /\ changes[i].id < changes[j].id}

\* Messages that arrive together: a Delivered for each one is queued, and the
\* state changes are applied.  The Delivered for a transfer, which is not in the
\* unordered queue of its sender, has no effect and is left out.
process_gatecoin_messages(n, changes) ==
  /\ wire' = wire \ Range(changes)
  /\ retrier' = [retrier EXCEPT ![n] = @ \cup
       {Message("Delivered", m.id, n) : m \in {k \in Range(changes) : k.type = "Processed"}}]
  /\ process_state_change_atomically(n, changes)

Receive(n) ==
  \E changes \in on_messages({m \in wire : m.from = Peer(n)}) :
    process_gatecoin_messages(n, changes)

-----------------------------------------------------------------------------
(* Stopping and starting                                                   *)

\* The state of n, with what it is writing.
Latest(n) == IF transaction[n].open THEN transaction[n].state ELSE state[n]

\* A node stops.  A transaction that is open is lost, or it was committed and
\* its effects are lost.
Crash(n) ==
  /\ up[n] /\ crashes < MaxCrashes
  /\ \A k \in {state[Payer].sent, Latest(n).sent} : k + crashes < MaxWork
  /\ crashes' = crashes + 1
  /\ up' = [up EXCEPT ![n] = FALSE]
  /\ db' \in {db} \cup {[db EXCEPT ![n] = Committed(@, t)] : t \in {u \in {transaction[n]} : u.open}}
  /\ transaction' = [transaction EXCEPT ![n] = NoTransaction]
  /\ state' = [state EXCEPT ![n] = InitialState]
  /\ retrier' = [retrier EXCEPT ![n] = {}]
  /\ broadcasts' = [broadcasts EXCEPT ![n] = {}]
  /\ prioritize' = [prioritize EXCEPT ![n] = TRUE]
  /\ UNCHANGED <<wire, closed, monitored, started>>

\* What happened on the chain since the last run.
synchronize_with_blockchain(S) ==
  IF closed /\ ~ S.closed THEN <<[type |-> "ContractReceiveChannelClosed"]>> ELSE <<>>

\* Mutant: the messages that were not acknowledged are not sent again.
MutMessagesQueues(S) == {}

initialize_messages_queues(S) == Range(S.ordered) \cup Range(S.unordered)

initialize_monitoring_services_queue(S) == IF S.received = 0 THEN {} ELSE {S.received}

\* The state is read from the database and brought up to date with the chain,
\* while no event is handled.  Then the messages in the queues of the state
\* and the balance proofs received are queued, and the transport starts.
start(n) ==
  LET restored == replay_state_changes(n, db[n])
      changes == synchronize_with_blockchain(restored)
      t == dispatch(n, restored, changes)
  IN  /\ ~ up[n]
      /\ up' = [up EXCEPT ![n] = TRUE]
      /\ state' = [state EXCEPT ![n] = t.state]
      /\ db' = [db EXCEPT ![n] = IF changes = <<>> THEN @ ELSE maybe_snapshot(Committed(@, t), t.state)]
      /\ retrier' = [retrier EXCEPT ![n] = initialize_messages_queues(t.state)]
      /\ broadcasts' = [broadcasts EXCEPT ![n] = initialize_monitoring_services_queue(t.state)]
      /\ started' = [started EXCEPT ![n] =
           [received |-> t.state.received, has_sent |-> FALSE]]
      /\ UNCHANGED <<environment, transaction, prioritize>>

-----------------------------------------------------------------------------
(* The system                                                              *)

Init ==
  /\ wire = {} /\ closed = FALSE /\ crashes = 0
  /\ monitored = [n \in Nodes |-> 0]
  /\ db = [n \in Nodes |-> [snapshot |-> InitialState, changes |-> <<>>]]
  /\ up = [n \in Nodes |-> TRUE]
  /\ state = [n \in Nodes |-> InitialState]
  /\ transaction = [n \in Nodes |-> NoTransaction]
  /\ retrier = [n \in Nodes |-> {}]
  /\ broadcasts = [n \in Nodes |-> {}]
  /\ prioritize = [n \in Nodes |-> FALSE]
  /\ started = [n \in Nodes |-> [received |-> 0, has_sent |-> TRUE]]

\* The channel is closed on the chain.
ChannelClosed ==
  /\ ~ closed /\ closed' = TRUE
  /\ \E n \in Nodes : ~ up[n]
  /\ UNCHANGED <<wire, monitored, crashes, db, service, transport>>

Next ==
  \/ \E n \in Nodes : \/ trigger_state_change_effects(n) \/ InitTransfer(n) \/ Alarm(n)
                      \/ check_and_send(n) \/ broadcast_worker(n) \/ Receive(n)
                      \/ Crash(n) \/ start(n)
  \/ ChannelClosed

Spec == Init /\ [][Next]_vars

\* A node that stopped is started, and its threads run.  What is in its retry
\* queue is sent again and again: a transfer that stays there is received.
FairSpec ==
  /\ Spec
  /\ \A n \in Nodes : []<>(up[n] /\ ~ transaction[n].open) /\ []<>(broadcasts[n] = {})
  /\ \A k \in Nonces :
       LET m == Message("LockedTransfer", k, Payer)
           t == transaction[Peer(Payer)]
       IN  []<>(m \notin retrier[Payer] \/ (t.open /\ m \in Range(t.changes)))

-----------------------------------------------------------------------------
(* Properties                                                              *)

\* A node never forgets what it said: when a transfer or a Processed of a node
\* has been on its way, the node has it in its state, however often it stopped
\* since.  This rests on the order of commit, effects and sending
\* (handle_state_changes), and on replay_state_changes.
NeverForgets ==
  \A m \in wire :
    up[m.from] => /\ m.type = "LockedTransfer" => state[m.from].sent >= m.id
                  /\ m.type = "Processed" => state[m.from].received >= m.id

\* After a start nothing is sent again before the monitoring service has the
\* balance proofs the node knew at the start (_check_and_send,
\* _initialize_monitoring_services_queue).
RestartMonitorsFirst ==
  \A n \in Nodes : up[n] /\ started[n].has_sent => monitored[n] >= started[n].received

\* A transfer that was started arrives unless the channel is closed, although
\* messages are lost and reordered and nodes stop and start.
TransfersArrive ==
  \A k \in Nonces : (state[Payer].sent >= k) ~> (closed \/ state[Peer(Payer)].received >= k)

=============================================================================
