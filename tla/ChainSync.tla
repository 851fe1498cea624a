----------------------------- MODULE ChainSync -----------------------------
(***************************************************************************)
(* How a node follows the chain: the alarm task notices new blocks, the    *)
(* logs up to the confirmed head are fetched in batches whose size adapts, *)
(* the filters of contracts created inside a batch are queried in the same *)
(* batch, and the events of a batch are dispatched together with its Block *)
(* in one transaction.  The node may stop at any step and restarts from    *)
(* what it has stored; requests time out; the last blocks may be replaced. *)
(*                                                                         *)
(* The chain is that of one token network, of the channels between the     *)
(* node and one partner, and of the secret registry.  Each block keeps its *)
(* logs and the state of the contracts after it.  The effects of state     *)
(* changes are triggered at the end of a synchronisation and are modelled  *)
(* in Settlement and Node; RegisteredService events are left out, they do  *)
(* not touch channels.                                                     *)
(***************************************************************************)
EXTENDS Integers, FiniteSets, SequencesExt

CONSTANTS
    CONFIRMATIONS,                  \* confirmation_blocks
    MinScale, InitialScale, MaxScale,   \* log2 of min, initial and max batch size
    Totals,                         \* amounts of total deposits and withdraws
    Secrets,                        \* secrets that may be registered
    MaxChannels,                    \* bound on the channels opened
    Scenarios                       \* the budgets of an instance

ASSUME ChainSyncAssumption ==
    /\ CONFIRMATIONS \in Nat
    /\ MinScale \in Nat /\ MaxScale \in Nat /\ InitialScale \in MinScale..MaxScale
    /\ Totals \subseteq Nat \ {0}
    /\ MaxChannels \in Nat

VARIABLES
    chain,              \* the blocks after the genesis block
    peak,               \* the highest number a head has had
    view,               \* the stored ChainState: block, network, channels...
    event_filter,       \* of BlockchainEvents
    last_fetched_block, \* of BlockchainEvents
    scale,              \* _scale_current of the BlockBatchSizeAdjuster
    known_block_number, \* of AlarmTask, 0 for None
    sync,               \* the call of _best_effort_synchronize that runs
    work                \* what is left of the scenario

followVars == <<event_filter, last_fetched_block, scale, known_block_number, sync>>

Participants == {"node", "partner"}

Spend(kind) == work[kind] > 0 /\ work' = [work EXCEPT ![kind] = @ - 1]

\* Failures end with the blocks in which others send transactions.
Fail(kind) == work.blocks > 0 /\ Spend(kind)

-----------------------------------------------------------------------------
(* The chain: contracts and their logs.                                    *)

\* opened counts the channels ever opened; current is the channel of the pair.
NoContract == [network |-> FALSE, opened |-> 0, current |-> 0, channels |-> <<>>, secrets |-> {}]

NewChannel == [status |-> "opened", deposit |-> [p \in Participants |-> 0],
               withdraw |-> [p \in Participants |-> 0]]

HeadNumber == Len(chain)
After(b) == IF b = 0 THEN NoContract ELSE chain[b].contract
Latest == After(HeadNumber)

Event(type, id, by, amount) == [type |-> type, id |-> id, by |-> by, amount |-> amount]

Without(channels, id) == [i \in DOMAIN channels \ {id} |-> channels[i]]

ChannelEvents == {"ChannelClosed", "ChannelSettled", "ChannelNewDeposit", "ChannelWithdraw",
                  "ChannelUnlocked"}

\* The state of the contracts after the transaction that emits e.  The
\* amount of ChannelSettled is 1 if locks are left to unlock.
Emit(c, e) ==
    LET set(channel) == [c EXCEPT !.channels = [i \in DOMAIN @ |-> IF i = e.id THEN channel ELSE @[i]]]
    IN CASE e.type = "TokenNetworkCreated" -> [c EXCEPT !.network = TRUE]
         [] e.type = "ChannelOpened" ->
              [c EXCEPT !.opened = e.id, !.current = e.id,
                        !.channels = [i \in DOMAIN @ \cup {e.id} |-> IF i = e.id THEN NewChannel ELSE @[i]]]
         [] e.type = "ChannelNewDeposit" ->
              set([c.channels[e.id] EXCEPT !.deposit[e.by] = e.amount])
         [] e.type = "ChannelWithdraw" ->
              set([c.channels[e.id] EXCEPT !.withdraw[e.by] = e.amount])
         [] e.type = "ChannelClosed" -> set([c.channels[e.id] EXCEPT !.status = "closed"])
         [] e.type = "ChannelSettled" /\ e.amount = 0 ->
              [c EXCEPT !.current = 0, !.channels = Without(@, e.id)]
         [] e.type = "ChannelSettled" /\ e.amount = 1 ->
              [set([c.channels[e.id] EXCEPT !.status = "settled"]) EXCEPT !.current = 0]
         [] e.type = "ChannelUnlocked" -> [c EXCEPT !.channels = Without(@, e.id)]
         [] e.type = "SecretRevealed" -> [c EXCEPT !.secrets = @ \cup {e.by}]

IsOpen(c, id) == c.current = id /\ c.channels[id].status = "opened"

\* The contracts accept the transaction that emits e; a channel closed in a
\* block is settled in a later one.
Requires(c, e) ==
    CASE e.type = "TokenNetworkCreated" -> ~c.network
      [] e.type = "ChannelOpened" -> c.network /\ c.current = 0 /\ e.id = c.opened + 1
      [] e.type = "ChannelNewDeposit" ->
           IsOpen(c, e.id) /\ c.channels[e.id].deposit[e.by] < e.amount
      [] e.type = "ChannelWithdraw" ->
           /\ IsOpen(c, e.id) /\ c.channels[e.id].withdraw[e.by] < e.amount
           /\ e.amount <= c.channels[e.id].deposit["node"] + c.channels[e.id].deposit["partner"]
      [] e.type = "ChannelClosed" -> IsOpen(c, e.id)
      [] e.type = "ChannelSettled" ->
           c.current = e.id /\ (IsOpen(c, e.id) => e.amount = 0)
      [] e.type = "ChannelUnlocked" ->
           e.id \in DOMAIN c.channels /\ c.channels[e.id].status = "settled"
      [] e.type = "SecretRevealed" -> e.by \notin c.secrets

\* What needs the signature of the node (a withdraw, a cooperative
\* settlement, a lock) needs a channel that the node knows.
NodeSigned(c, e) ==
    CASE e.type = "ChannelWithdraw" -> e.id \in DOMAIN view.channels
      [] e.type = "ChannelSettled" ->
           /\ (e.amount = 1 \/ IsOpen(c, e.id)) => e.id \in DOMAIN view.channels
           /\ ~IsOpen(c, e.id) => e.id \in DOMAIN Latest.channels /\ ~IsOpen(Latest, e.id)
      [] e.type = "SecretRevealed" -> DOMAIN view.channels \cap DOMAIN c.channels # {}
      [] OTHER -> TRUE

Logs ==
    LET ids == 1..MaxChannels
    IN {Event("TokenNetworkCreated", 0, "partner", 0)}
       \cup {Event(type, id, "partner", 0) : type \in {"ChannelOpened", "ChannelClosed", "ChannelUnlocked"},
                                             id \in ids}
       \cup {Event("ChannelSettled", id, "partner", locks) : id \in ids, locks \in {0, 1}}
       \cup {Event("ChannelNewDeposit", id, "partner", total) : id \in ids, total \in Totals}
       \cup {Event("ChannelWithdraw", id, by, total) : id \in ids, by \in Participants, total \in Totals}
       \cup {Event("SecretRevealed", 0, s, 0) : s \in Secrets}

\* The logs that others can append, of the types in the scenario.  Nobody
\* but the node deposits for it.
Appendable(c) == {e \in Logs : e.type \in work.types /\ Requires(c, e) /\ NodeSigned(c, e)}

Block(evs) == [events |-> evs, contract |-> FoldLeft(Emit, Latest, evs)]

AppendBlock(evs) ==
    /\ chain' = Append(chain, Block(evs))
    /\ peak' = IF HeadNumber + 1 > peak THEN HeadNumber + 1 ELSE peak

\* The last blocks are dropped; no block with CONFIRMATIONS successors ever
\* is, nor the first block.
Reorg ==
    /\ Fail("reorgs")
    /\ \E b \in 1..(HeadNumber - 1) : b >= peak - CONFIRMATIONS /\ chain' = SubSeq(chain, 1, b)
    /\ UNCHANGED <<peak, view, followVars>>

-----------------------------------------------------------------------------
(* The filters.                                                            *)

\* token_network_addresses and channels_of_token_network of the one network;
\* registries says that the registry and the secret registry are in it.
GatecoinContractFilter(registries, network, channels, ignore) ==
    [registries |-> registries, network |-> network, channels |-> channels,
     ignore_secret_registry_until_channel_found |-> ignore]

\* __bool__
NonEmpty(f) == f.registries \/ f.network \/ f.channels # {}

union(f, g) ==
    GatecoinContractFilter(f.registries \/ g.registries, f.network \/ g.network,
        f.channels \cup g.channels,
        f.ignore_secret_registry_until_channel_found /\ g.ignore_secret_registry_until_channel_found)

\* The position of the filter sent to the client that matches e, 0 for none.
to_web3_filters(f, e) ==
    CASE e.type = "TokenNetworkCreated" /\ f.registries -> 1
      [] /\ e.type = "SecretRevealed" /\ f.registries
         /\ ~f.ignore_secret_registry_until_channel_found -> 2
      [] e.type = "ChannelOpened" /\ f.network -> 3
      [] e.type \in ChannelEvents /\ e.id \in f.channels -> 4
      [] OTHER -> 0

\* The answers to the filters, one after the other, then sorted by block
\* number (sort_events; the sort is stable).
QueryLogs(f, from, to) ==
    FlattenSeq([i \in 1..(to - from + 1) |->
        FlattenSeq([k \in 1..4 |->
            SelectSeq(chain[from + i - 1].events, LAMBDA e : to_web3_filters(f, e) = k)])])

new_filters_from_events(logs) ==
    LET opened == {e.id : e \in {f \in Range(logs) : f.type = "ChannelOpened"}}
        created == \E e \in Range(logs) : e.type = "TokenNetworkCreated"
    IN GatecoinContractFilter(FALSE, created, opened, opened = {})

smart_contract_filters_from_node_state(v) ==
    GatecoinContractFilter(TRUE, v.network, DOMAIN v.channels, DOMAIN v.channels = {})

-----------------------------------------------------------------------------
(* From logs to the state of the node.                                     *)

NoView == [block |-> 0, network |-> FALSE, channels |-> <<>>, ids |-> <<>>, secrets |-> {}]

\* initiated is the expiration of the cooperative settlement the node has
\* initiated, 0 for none.
NewChannelState == [status |-> "opened", deposit |-> [p \in Participants |-> 0],
                    withdraw |-> [p \in Participants |-> 0], initiated |-> 0]

handle_channelnew(v, e) ==
    IF e.id \in DOMAIN v.channels THEN v
    ELSE [v EXCEPT !.channels = [i \in DOMAIN @ \cup {e.id} |->
                                   IF i = e.id THEN NewChannelState ELSE @[i]],
                   !.ids = Append(@, e.id)]

RemoveChannel(v, id) ==
    [v EXCEPT !.channels = Without(@, id), !.ids = SelectSeq(@, LAMBDA i : i # id)]

\* The state transition of the channel, if the channel is known.
subdispatch_to_channel_by_id(v, e) ==
    LET channel == v.channels[e.id]
        Becomes(new) == [v EXCEPT !.channels[e.id] = new]
    IN IF e.id \notin DOMAIN v.channels THEN v
       ELSE CASE e.type = "ChannelNewDeposit" ->
                   Becomes([channel EXCEPT !.deposit[e.by] = IF e.amount > @ THEN e.amount ELSE @])
              [] e.type = "ChannelWithdraw" -> Becomes([channel EXCEPT !.withdraw[e.by] = e.amount])
              [] e.type = "ChannelClosed" ->
                   IF channel.status \in {"opened", "closing"}
                   THEN Becomes([channel EXCEPT !.status = "closed"]) ELSE v
              [] e.type = "ChannelSettled" ->
                   IF e.amount = 0 THEN RemoveChannel(v, e.id)
                   ELSE Becomes([channel EXCEPT !.status = "settled"])
              [] e.type = "ChannelUnlocked" ->
                   IF channel.status = "settled" THEN RemoveChannel(v, e.id) ELSE v

\* A log is decoded and the state change dispatched.
blockchainevent_to_statechange(v, e) ==
    CASE e.type = "TokenNetworkCreated" -> [v EXCEPT !.network = TRUE]
      [] e.type = "ChannelOpened" -> handle_channelnew(v, e)
      [] e.type = "SecretRevealed" -> [v EXCEPT !.secrets = @ \cup {e.by}]
      [] OTHER -> subdispatch_to_channel_by_id(v, e)

\* events_for_expired_withdraws, with the grace period of
\* get_sender_expiration_threshold.
ExpireCoopSettle(channel, block) ==
    IF /\ channel.status = "opened" /\ channel.initiated # 0
       /\ block >= channel.initiated + 2 * CONFIRMATIONS
    THEN [channel EXCEPT !.initiated = 0] ELSE channel

handle_block(v, block) ==
    [v EXCEPT !.block = block,
              !.channels = [i \in DOMAIN @ |-> ExpireCoopSettle(@[i], block)]]

-----------------------------------------------------------------------------
(* Batches.                                                                *)

\* scale stays in the range of the configuration, the clamp is the identity.
batch_size(s) == 2 ^ s

ConfirmedHead(latest) == IF latest > CONFIRMATIONS THEN latest - CONFIRMATIONS ELSE 0

NoFilter == GatecoinContractFilter(FALSE, FALSE, {}, TRUE)
Idle == [phase |-> "idle", starting |-> FALSE, latest |-> 0, to |-> 0,
         filter |-> NoFilter, result |-> <<>>]
Down == [Idle EXCEPT !.phase = "down"]

\* The process ends and loses what it has not stored.
Stop ==
    /\ sync' = Down /\ event_filter' = NoFilter /\ last_fetched_block' = 0
    /\ scale' = InitialScale /\ known_block_number' = 0

\* _synchronize_with_blockchain: BlockchainEvents is created from the stored state.
Restart ==
    /\ sync.phase = "down" /\ (work.restarts = 0 => work.blocks = 0 /\ work.quiet = 0)
    /\ work' = [work EXCEPT !.restarts = IF @ = 0 THEN 0 ELSE @ - 1]
    /\ event_filter' = smart_contract_filters_from_node_state(view)
    /\ last_fetched_block' = view.block
    /\ sync' = [Idle EXCEPT !.phase = "loop", !.starting = TRUE, !.latest = HeadNumber]
    /\ UNCHANGED <<chain, peak, view, scale, known_block_number>>

\* Mutant: an off-by-one, a single new block is not noticed.
MutRunCallbacks ==
    /\ sync.phase = "idle"
    /\ known_block_number = 0 \/ HeadNumber > known_block_number + 1
    /\ known_block_number' = HeadNumber
    /\ sync' = [Idle EXCEPT !.phase = "loop", !.latest = HeadNumber]
    /\ UNCHANGED <<chain, peak, view, event_filter, last_fetched_block, scale, work>>

\* The alarm task sees a head it has not seen and calls _best_effort_synchronize.
maybe_run_callbacks ==
    /\ sync.phase = "idle"
    /\ known_block_number = 0 \/ HeadNumber > known_block_number
    /\ known_block_number' = HeadNumber
    /\ sync' = [Idle EXCEPT !.phase = "loop", !.latest = HeadNumber]
    /\ UNCHANGED <<chain, peak, view, event_filter, last_fetched_block, scale, work>>

\* should_continue of SyncTimeout, then fetch_logs_in_batch fixes the range.
fetch_logs_in_batch ==
    LET target == ConfirmedHead(sync.latest)
        to == last_fetched_block + 1 + batch_size(scale)
    IN /\ sync.phase = "loop" /\ last_fetched_block < target
       /\ sync' = [sync EXCEPT !.phase = "query", !.to = IF to < target THEN to ELSE target,
                               !.filter = event_filter, !.result = <<>>]
       /\ UNCHANGED <<chain, peak, view, event_filter, last_fetched_block, scale,
                      known_block_number, work>>

\* Mutant: the filters found in a batch are used from the next batch on.
MutQueryAndTrack ==
    LET logs == QueryLogs(sync.filter, last_fetched_block + 1, sync.to)
        new == new_filters_from_events(logs)
    IN /\ sync.phase = "query" /\ NonEmpty(sync.filter)
       /\ sync' = [sync EXCEPT !.filter = NoFilter, !.result = @ \o logs]
       /\ event_filter' = IF logs = <<>> THEN event_filter ELSE union(event_filter, new)
       /\ UNCHANGED <<chain, peak, view, last_fetched_block, scale, known_block_number, work>>

\* One round of the loop of _query_and_track.
query_and_track ==
    LET logs == QueryLogs(sync.filter, last_fetched_block + 1, sync.to)
        new == new_filters_from_events(logs)
    IN /\ sync.phase = "query" /\ NonEmpty(sync.filter)
       /\ sync' = [sync EXCEPT !.filter = IF logs = <<>> THEN NoFilter ELSE new,
                               !.result = @ \o logs]
       /\ event_filter' = IF logs = <<>> THEN event_filter ELSE union(event_filter, new)
       /\ UNCHANGED <<chain, peak, view, last_fetched_block, scale, known_block_number, work>>

\* EthGetLogsTimeout in some round: the batch is given up, but not the
\* filters it has found.  BlockBatchSizeTooSmall ends the process.
EthGetLogsTimeout ==
    /\ sync.phase = "query" /\ NonEmpty(sync.filter) /\ Fail("timeouts")
    /\ IF scale = MinScale THEN Stop
       ELSE /\ scale' = scale - 1
            /\ sync' = [sync EXCEPT !.phase = "loop", !.to = 0, !.filter = NoFilter, !.result = <<>>]
            /\ UNCHANGED <<event_filter, last_fetched_block, known_block_number>>
    /\ UNCHANGED <<chain, peak, view>>

\* The events of the batch and its Block are one transaction of the WAL.
process_state_change_atomically(v, logs, to) ==
    handle_block(FoldLeft(blockchainevent_to_statechange, v, logs), to)

\* The rest of fetch_logs_in_batch, and the dispatch of the batch.
FinishBatch(speed) ==
    LET bigger == ConfirmedHead(sync.latest) - (last_fetched_block + 1) > batch_size(scale)
    IN /\ sync.phase = "query" /\ ~NonEmpty(sync.filter)
       /\ IF speed = "slow" THEN Fail("timeouts") ELSE UNCHANGED work
       /\ IF speed = "slow" /\ scale = MinScale THEN Stop /\ UNCHANGED view
          ELSE /\ scale' = CASE speed = "fast" /\ bigger /\ scale < MaxScale -> scale + 1
                             [] speed = "slow" -> scale - 1
                             [] OTHER -> scale
               /\ last_fetched_block' = sync.to
               /\ view' = process_state_change_atomically(view, sync.result, sync.to)
               /\ sync' = [sync EXCEPT !.phase = "loop", !.to = 0, !.result = <<>>]
               /\ UNCHANGED <<event_filter, known_block_number>>
       /\ UNCHANGED <<chain, peak>>

\* The loop ends, because the target is reached or the time is up; at the
\* start the node synchronises again until it has reached the target.
EndSync ==
    LET target == ConfirmedHead(sync.latest)
    IN /\ sync.phase = "loop"
       /\ IF last_fetched_block < target THEN Fail("timeouts") ELSE UNCHANGED work
       /\ IF view.block > target THEN Stop
          ELSE /\ sync' = IF sync.starting /\ view.block < target
                          THEN [sync EXCEPT !.latest = HeadNumber] ELSE Idle
               /\ UNCHANGED <<event_filter, last_fetched_block, scale, known_block_number>>
       /\ UNCHANGED <<chain, peak, view>>

Crash ==
    /\ sync.phase # "down" /\ Fail("crashes") /\ Stop
    /\ UNCHANGED <<chain, peak, view>>

Follow ==
    \/ Restart
    \/ maybe_run_callbacks
    \/ fetch_logs_in_batch
    \/ query_and_track
    \/ EthGetLogsTimeout
    \/ \E speed \in {"fast", "normal", "slow"} : FinishBatch(speed)
    \/ EndSync
    \/ Crash

-----------------------------------------------------------------------------
(* Properties.                                                             *)

\* What the stored state of a channel says of the contract.
OnChain(channel) ==
    [status |-> IF channel.status = "closing" THEN "opened" ELSE channel.status,
     deposit |-> channel.deposit, withdraw |-> channel.withdraw]

\* The stored state is the state of the contracts at the block it is
\* confirmed to, whatever batches the logs came in, whatever filters were
\* found inside a batch or queried again after a timeout, and wherever the
\* node stopped: no event is missed or has an effect twice.
ViewIsChain ==
    LET c == After(view.block)
    IN /\ view.network = c.network /\ view.secrets = c.secrets
       /\ DOMAIN view.channels = DOMAIN c.channels
       /\ \A id \in DOMAIN c.channels : OnChain(view.channels[id]) = c.channels[id]

=============================================================================
