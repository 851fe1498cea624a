-------------------------------- MODULE Api --------------------------------
(***************************************************************************)
(* The calls of the Python and REST API that change channels: registering  *)
(* a token, opening a channel (with or without a deposit), depositing,     *)
(* withdrawing, closing, and leaving a network.  A call checks the state   *)
(* of the node, uses a proxy that checks the same at the confirmed block,  *)
(* sends a transaction that races with those of others, and waits until    *)
(* the node, which follows the chain as ChainSync says, has seen what it   *)
(* waits for.                                                              *)
(*                                                                         *)
(* Every transaction in the pool is in the next block, after what others   *)
(* have sent.  The checks of amounts, allowances, limits and deprecation   *)
(* are those of Proxies and ChainAccess and are left out.  Calls and       *)
(* failures of the node happen in different instances.                     *)
(***************************************************************************)
EXTENDS ChainSync

CONSTANTS
    MaxCallers,     \* bound on the calls that run at the same time
    CoopTimeout     \* blocks until a request to settle cooperatively expires

ASSUME ApiAssumption == CoopTimeout \in Nat \ {0} /\ MaxCallers \in Nat

VARIABLES calls     \* of each greenlet of the API, its call

Callers == 1..MaxCallers

vars == <<chain, peak, view, followVars, work, calls>>

\* block is the confirmed block when the call has read the state, channel
\* the channel that it is about, at the block of its transaction; result is
\* that of the last call.
NoCall == [op |-> "none", amount |-> 0, pc |-> "idle", block |-> 0, channel |-> 0,
           at |-> 0, result |-> "ok"]

\* A node that has followed the chain of the scenario up to its last block.
Init ==
    /\ work \in Scenarios
    /\ LET contract == FoldLeft(Emit, NoContract, work.history)
           blocks == (IF work.history = <<>> THEN 0 ELSE 1) + CONFIRMATIONS
       IN /\ chain = [b \in 1..blocks |->
                        IF b = 1 /\ work.history # <<>>
                        THEN [events |-> work.history, contract |-> contract]
                        ELSE [events |-> <<>>, contract |-> contract]]
          /\ peak = blocks /\ known_block_number = blocks
          /\ view = process_state_change_atomically(NoView, work.history, blocks - CONFIRMATIONS)
          /\ last_fetched_block = blocks - CONFIRMATIONS
    /\ event_filter = smart_contract_filters_from_node_state(view)
    /\ scale = InitialScale /\ sync = Idle
    /\ calls = [t \in Callers |-> NoCall]

Becomes(t, call) == calls' = [calls EXCEPT ![t] = call]
Raise(t, error) == Becomes(t, [NoCall EXCEPT !.result = error])
Return(t) == Becomes(t, NoCall)
Proceed(t, call, pc) == Becomes(t, [call EXCEPT !.pc = pc])

-----------------------------------------------------------------------------
(* What the calls read.                                                    *)

\* The last channel with the partner, also if it is settled and waits for
\* its unlock.
HasChannel(v) == v.ids # <<>>
get_channelstate_for(v) == v.channels[Last(v.ids)]

\* The preconditions of the proxies, at the confirmed block.
Precondition(call) ==
    LET c == After(call.block)
    IN CASE call.op = "register" -> ~c.network
         [] call.op = "open" -> c.current = 0
         [] call.op = "deposit" ->
              IsOpen(c, call.channel) /\ c.channels[call.channel].deposit["node"] < call.amount
         [] call.op \in {"close", "leave"} -> IsOpen(c, call.channel)

\* The proxy is called, and checks its preconditions.
CallProxy(t, call) ==
    IF Precondition(call) THEN Proceed(t, call, "called") ELSE Raise(t, "broken")

-----------------------------------------------------------------------------
(* The checks of the calls.                                                *)

token_network_register(t, call) ==
    IF view.network THEN Raise(t, "registered") ELSE CallProxy(t, call)

\* Mutant: the status of the channel is not looked at.
MutSetDeposit(t, call) ==
    IF ~HasChannel(view) THEN Raise(t, "nonexisting")
    ELSE IF call.amount <= get_channelstate_for(view).deposit["node"] THEN Raise(t, "conflict")
    ELSE CallProxy(t, [call EXCEPT !.op = "deposit", !.channel = Last(view.ids)])

\* Of the channel that is open, or that open has waited for.
set_total_channel_deposit(t, call) ==
    LET deposit == [call EXCEPT !.op = "deposit", !.channel = Last(view.ids)]
    IN CASE ~HasChannel(view) -> Raise(t, "nonexisting")
         [] HasChannel(view) ->
              IF \/ get_channelstate_for(view).status # "opened"
                 \/ call.amount <= get_channelstate_for(view).deposit["node"]
              THEN Raise(t, "conflict")
              ELSE CallProxy(t, deposit)

\* open of the REST API: a channel that exists and is open is used.
channel_open(t, call) ==
    CASE ~After(call.block).network -> Raise(t, "unregistered")
      [] After(call.block).network /\ After(call.block).current = 0 -> CallProxy(t, call)
      [] After(call.block).network /\ After(call.block).current # 0 ->
           IF get_channelstate_for(view).status # "opened" THEN Raise(t, "conflict")
           ELSE IF call.amount > 0 THEN set_total_channel_deposit(t, call)
           ELSE Return(t)

\* _withdraw and set_total_channel_withdraw: the request is sent to the
\* partner, who may confirm it.
set_total_channel_withdraw(t, call) ==
    LET channel == get_channelstate_for(view)
    IN IF ~HasChannel(view) THEN Raise(t, "nonexisting")
       ELSE IF \/ channel.status # "opened" \/ call.amount <= channel.withdraw["node"]
               \/ \E u \in Callers : /\ calls[u].pc = "requested" /\ call.amount <= calls[u].amount
                                     /\ calls[u].channel = Last(view.ids)
               \/ call.amount > channel.deposit["node"] + channel.deposit["partner"]
       THEN Raise(t, "conflict")
       ELSE Proceed(t, [call EXCEPT !.channel = Last(view.ids)], "requested")

\* events_for_close, of a channel that has not been closed.
ClosesChannel(v, id) ==
    id \in DOMAIN v.channels /\ v.channels[id].status \in {"opened", "closing"}

\* channel_batch_close, once it is known that the channel is not settled.
ActionChannelClose(t, call) ==
    LET closing == [call EXCEPT !.block = view.block]
    IN IF ClosesChannel(view, call.channel)
       THEN /\ view' = [view EXCEPT !.channels[call.channel].status = "closing"]
            /\ CallProxy(t, closing)
       ELSE /\ Proceed(t, call, "closed") /\ UNCHANGED view

\* _batch_coop_settle starts a cooperative settlement if the partner is
\* online and the channel has no locks and no withdraws.
channel_batch_close(t, call) ==
    LET close == [call EXCEPT !.channel = Last(view.ids)]
    IN CASE ~HasChannel(view) ->
              /\ IF call.op = "leave" /\ view.network THEN Return(t)
                 ELSE Raise(t, "nonexisting")
              /\ UNCHANGED view
         [] HasChannel(view) /\ call.op = "close" /\ get_channelstate_for(view).status # "opened" ->
              Raise(t, "conflict") /\ UNCHANGED view
         [] HasChannel(view) /\ (call.op = "leave" \/ get_channelstate_for(view).status = "opened") ->
              \/ ActionChannelClose(t, close)
              \/ /\ get_channelstate_for(view).initiated = 0
                 /\ get_channelstate_for(view).status = "opened"
                 /\ view' = [view EXCEPT !.channels[Last(view.ids)].initiated = view.block + CoopTimeout]
                 /\ Proceed(t, close, "coop")
              \/ /\ get_channelstate_for(view).initiated # 0
                 /\ Proceed(t, close, "coop") /\ UNCHANGED view

Call(t, op, amount) ==
    LET call == [NoCall EXCEPT !.op = op, !.amount = amount, !.block = view.block]
    IN /\ calls[t].pc = "idle" /\ t = Min({u \in Callers : calls[u].pc = "idle"})
       /\ sync.phase # "down" /\ ~sync.starting
       /\ work.blocks > 0 /\ Spend("calls")
       /\ \/ op = "register" /\ token_network_register(t, call) /\ UNCHANGED view
          \/ op = "open" /\ channel_open(t, call) /\ UNCHANGED view
          \/ op = "deposit" /\ set_total_channel_deposit(t, call) /\ UNCHANGED view
          \/ op = "withdraw" /\ set_total_channel_withdraw(t, call) /\ UNCHANGED view
          \/ op \in {"close", "leave"} /\ channel_batch_close(t, call)
       /\ UNCHANGED <<chain, peak, followVars>>

-----------------------------------------------------------------------------
(* Transactions.                                                           *)

\* What the transaction of a call emits.
TxLog(call, c) ==
    CASE call.op = "register" -> Event("TokenNetworkCreated", 0, "node", 0)
      [] call.op = "open" -> Event("ChannelOpened", c.opened + 1, "node", 0)
      [] call.op = "deposit" -> Event("ChannelNewDeposit", call.channel, "node", call.amount)
      [] call.op \in {"close", "leave"} -> Event("ChannelClosed", call.channel, "node", 0)

\* The transaction was not executed, or reverted.  A lost race to open is a
\* success, a failed deposit is only logged.
Failed(t, call, c) ==
    CASE call.op = "register" -> Raise(t, "recoverable")
      [] call.op = "open" ->
           IF c.current # 0 \/ Latest.current # 0 THEN Proceed(t, call, "wait")
           ELSE Raise(t, "recoverable")
      [] call.op = "deposit" -> Proceed(t, call, "wait")
      [] call.op \in {"close", "leave"} -> Proceed(t, call, "closed")

\* The lock of the operations on the channel: one transaction at a time.
channel_operations_lock(t) ==
    calls[t].op # "register" =>
        \A u \in Callers : calls[u].op # "register" => calls[u].pc \notin {"sent", "mined", "reverted"}

\* The gas is estimated on the pending block.
estimate_gas(t) ==
    LET call == calls[t]
    IN /\ call.pc = "called" /\ channel_operations_lock(t)
       /\ IF Requires(Latest, TxLog(call, Latest)) THEN Proceed(t, call, "sent")
          ELSE Failed(t, call, Latest)
       /\ UNCHANGED <<chain, peak, view, followVars, work>>

Sent == {t \in Callers : calls[t].pc = "sent"}

\* The pool executes in some order; the calls that fail are noted.
ExecutePool(order, c) ==
    FoldLeft(LAMBDA acc, t :
                LET e == TxLog(calls[t], acc.contract)
                IN IF Requires(acc.contract, e)
                   THEN [acc EXCEPT !.contract = Emit(@, e), !.events = Append(@, e)]
                   ELSE [acc EXCEPT !.failed = @ \cup {t}],
             [contract |-> c, events |-> <<>>, failed |-> {}], order)

\* A withdraw of the node is the one of a call.
Requested(e) ==
    (e.type = "ChannelWithdraw" /\ e.by = "node") =>
        \E t \in Callers : /\ calls[t].pc = "requested" /\ calls[t].channel = e.id
                           /\ calls[t].amount = e.amount

Others(c) == {e \in Appendable(c) : Requested(e)}

\* What others send: nothing once the blocks of the scenario are used up,
\* two transactions in a block only if the scenario says so.
OthersLogs ==
    {<<>>} \cup (IF work.blocks = 0 THEN {}
                 ELSE {<<e>> : e \in Others(Latest)}
                      \cup (IF ~work.pairs THEN {}
                            ELSE UNION {{<<e, f>> : f \in Others(Emit(Latest, e))} : e \in Others(Latest)}))

\* poll_transaction waits for the confirmation.  closeChannel fails if the
\* channel was settled cooperatively, and the node stops.
poll_transaction(t) ==
    LET call == calls[t]
        c == After(call.at)
        settled == call.op \in {"close", "leave"} /\ c.current # call.channel
    IN /\ call.pc \in {"mined", "reverted"} /\ HeadNumber >= call.at + CONFIRMATIONS
       /\ CASE call.pc = "mined" ->
                 /\ Proceed(t, call, IF call.op \in {"close", "leave"} THEN "closed" ELSE "wait")
                 /\ UNCHANGED followVars
            [] call.pc = "reverted" /\ ~settled -> Failed(t, call, c) /\ UNCHANGED followVars
            [] call.pc = "reverted" /\ settled ->
                 /\ calls' = [u \in Callers |->
                                IF calls[u].pc = "idle" THEN calls[u] ELSE [NoCall EXCEPT !.result = "stopped"]]
                 /\ Stop
       /\ UNCHANGED <<chain, peak, view, work>>

-----------------------------------------------------------------------------
(* Waiting.                                                                *)

Seen(e) == \E b \in 1..view.block : e \in Range(chain[b].events)

wait_for_token_network(t) ==
    calls[t].op = "register" /\ calls[t].pc = "wait" /\ view.network /\ Return(t)

\* The channel is read again; the REST API then deposits.
wait_for_newchannel(t) ==
    LET call == calls[t]
    IN /\ call.op = "open" /\ call.pc = "wait" /\ HasChannel(view)
       /\ IF call.amount = 0 THEN Return(t)
          ELSE set_total_channel_deposit(t, [call EXCEPT !.block = view.block])

wait_for_participant_deposit(t) ==
    /\ calls[t].op = "deposit" /\ calls[t].pc = "wait" /\ HasChannel(view)
    /\ get_channelstate_for(view).deposit["node"] >= calls[t].amount
    /\ Return(t)

\* Any withdraw of that total in the log.
wait_for_withdraw_complete(t) ==
    /\ calls[t].pc = "requested"
    /\ \E p \in Participants : Seen(Event("ChannelWithdraw", calls[t].channel, p, calls[t].amount))
    /\ Return(t)

\* Mutant: the wait ends when the node has decided to close.
MutWaitForClose(t) ==
    LET call == calls[t]
    IN \/ /\ call.pc = "closed"
          /\ IF call.channel \in DOMAIN view.channels THEN Proceed(t, call, "closing") ELSE Return(t)
       \/ /\ call.pc = "closing"
          /\ HasChannel(view) => get_channelstate_for(view).status \in {"closing", "closed", "settled"}
          /\ Return(t)

wait_for_close(t) ==
    LET call == calls[t]
    IN \/ /\ call.pc = "closed"
          /\ IF call.channel \in DOMAIN view.channels THEN Proceed(t, call, "closing") ELSE Return(t)
       \/ /\ call.pc = "closing"
          /\ HasChannel(view) => get_channelstate_for(view).status \in {"closed", "settled"}
          /\ Return(t)

\* ChannelExpiredCoopSettle, then ChannelCoopSettleSuccess, of the last
\* channel with the partner.  Unless it settles, the channel is closed; the
\* channels are those read before the wait, none of which is settled.
wait_for_coop_settle(t) ==
    LET call == calls[t]
        gone == HasChannel(view) /\ get_channelstate_for(view).initiated = 0
        expired == HasChannel(view) /\ view.block > get_channelstate_for(view).initiated
        success == \E by \in Participants : Seen(Event("ChannelSettled", call.channel, by, 0))
    IN /\ call.pc = "coop"
       /\ \/ gone /\ Raise(t, "assertion") /\ UNCHANGED view
          \/ ~gone /\ (expired \/ success) /\ ActionChannelClose(t, call)

Wait(t) ==
    /\ \/ wait_for_token_network(t) /\ UNCHANGED view
       \/ wait_for_newchannel(t) /\ UNCHANGED view
       \/ wait_for_participant_deposit(t) /\ UNCHANGED view
       \/ wait_for_withdraw_complete(t) /\ UNCHANGED view
       \/ wait_for_close(t) /\ UNCHANGED view
       \/ wait_for_coop_settle(t)
    /\ UNCHANGED <<chain, peak, followVars, work>>

-----------------------------------------------------------------------------

\* The node has seen the head, and no call can go on.
KeptUp ==
    /\ sync.phase \in {"idle", "down"} /\ known_block_number \in {0, HeadNumber}
    /\ \A t \in Callers : ~ENABLED (estimate_gas(t) \/ poll_transaction(t) \/ Wait(t))

\* A block with transactions of others and those of the pool.  The node keeps
\* up with the blocks after those of the scenario, in which no call starts.
MineBlock ==
    /\ \/ Spend("blocks")
       \/ work.blocks = 0 /\ Spend("quiet") /\ KeptUp
    /\ \E others \in OthersLogs, order \in SetToSeqs(Sent) :
          LET mined == ExecutePool(order, FoldLeft(Emit, Latest, others))
          IN /\ AppendBlock(others \o mined.events)
             /\ calls' = [t \in Callers |->
                            IF t \in Sent
                            THEN [calls[t] EXCEPT !.pc = IF t \in mined.failed THEN "reverted" ELSE "mined",
                                                  !.at = HeadNumber + 1]
                            ELSE calls[t]]
    /\ UNCHANGED <<view, followVars>>

Amounts(op) ==
    CASE op \in {"deposit", "withdraw"} -> Totals
      [] op = "open" -> Totals \cup {0}
      [] OTHER -> {0}

\* In an instance with calls the steps of a synchronisation come one after
\* the other: only the dispatch of its batch is visible to the calls.
BetweenSyncs == work.ops = {} \/ sync.phase \in {"idle", "down"}

Next ==
    \/ Follow /\ UNCHANGED calls
    \/ /\ BetweenSyncs
       /\ \E t \in Callers :
             \/ \E op \in work.ops, amount \in {0} \cup Totals : amount \in Amounts(op) /\ Call(t, op, amount)
             \/ estimate_gas(t)
             \/ poll_transaction(t)
             \/ Wait(t)
    \/ BetweenSyncs /\ MineBlock
    \/ Reorg /\ UNCHANGED calls

Spec == Init /\ [][Next]_vars

\* Blocks are mined, the alarm task polls, and greenlets are scheduled, as
\* long as one of them can go on.  Every step uses up a part of the scenario:
\* this is WF_vars(Next), in a form that TLC evaluates once per state.
FairSpec == Spec /\ []<>~ENABLED Next

-----------------------------------------------------------------------------
(* Properties.                                                             *)

\* A proxy is never called when its preconditions do not hold at the
\* confirmed block: the node has seen all events up to the block whose hash
\* it passes on, and none after it.  The comment on the dispatch of Block
\* says that anything else "breaks a proxy precondition which crashes the
\* client".
PreconditionsHold == \A t \in Callers : calls[t].result # "broken"

\* What a call has achieved when it returns, on the confirmed chain.  A call
\* to open a channel may return a channel that was settled before the call
\* and waits for its unlock, the deposit may be that of another call to a
\* channel that has replaced the one of this call, and a withdraw may be that
\* of the partner.
Achieved(call) ==
    LET c == After(view.block)
        id == Last(view.ids)
    IN CASE call.op = "register" -> c.network
         [] call.op = "open" -> id > After(call.block).opened \/ id \in DOMAIN After(call.block).channels
         [] call.op = "deposit" ->
              \E total \in Totals : /\ total >= call.amount /\ id >= call.channel
                                    /\ Seen(Event("ChannelNewDeposit", id, "node", total))
         [] call.op = "withdraw" -> TRUE
         [] call.op \in {"close", "leave"} -> ~IsOpen(c, call.channel)

\* A call that returns without an error has achieved what it was made for,
\* whatever others have done to the channel in the meantime and whichever
\* channel with the partner its wait has looked at.
ReturnedIsDone ==
    [][\A t \in Callers :
         (calls[t].pc # "idle" /\ calls'[t].pc = "idle" /\ calls'[t].result = "ok") => Achieved(calls[t])]_vars

\* The channel of a call is no longer the one on which it can succeed: a
\* deposit or a withdraw after the channel is closed, a withdraw that the
\* partner has not confirmed, an opened channel that is settled before the
\* node has seen it, a closed channel that has been replaced by a new one.
Overtaken(call) ==
    CASE call.op \in {"deposit", "withdraw"} ->
           ~IsOpen(Latest, call.channel) \/ call.op = "withdraw"
      [] call.op = "open" -> Latest.current = 0
      [] call.op \in {"close", "leave"} -> Latest.current \notin {0, call.channel}
      [] OTHER -> FALSE

\* Every call returns or raises, unless it was overtaken.
CallsReturn ==
    <>[](\A t \in Callers : calls[t].pc = "idle" \/ Overtaken(calls[t]))

=============================================================================
