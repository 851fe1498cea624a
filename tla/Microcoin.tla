----------------------------- MODULE Microcoin ------------------------------
(***************************************************************************)
(* The microcoin system: one client with one HTTP session (client.py,      *)
(* channel.py, session.py), one proxy with its channel manager, the tools  *)
(* of the receiver (withdraw_tokens.py, close_all_channels.py), and the    *)
(* chain between them, with reorganisations of its last block.             *)
(*                                                                         *)
(* A request and its answer are one step: the client waits for the answer, *)
(* and nobody else pays in its channels.  An answer may be lost.  A client *)
(* call that sends a transaction then waits for its event, or gives up.    *)
(* A transaction is known by its contents: a second one with the same      *)
(* contents is the same transaction.                                       *)
(***************************************************************************)
EXTENDS ChannelManager, FiniteSetsExt

CONSTANTS
  InitialDeposit,  \* initial_deposit(Price)
  TopupDeposit,    \* topup_deposit(Price)
  MaxRequests,     \* bound: requests of the session
  MaxIncidents,    \* bound: lost answers and connections, timeouts, restarts, reorganisations, tools
  MaxReorgs        \* bound: reorganisations; at most NConfirmations

ASSUME SystemAssumption ==
  /\ {InitialDeposit, TopupDeposit} \subseteq Nat \ {0}
  /\ Price <= InitialDeposit /\ Price <= TopupDeposit
  /\ MaxReorgs <= NConfirmations

VARIABLES
  chain,     \* the blocks, each with the contract after it
  forks,     \* reorganisations so far
  pool,      \* transactions not mined
  manager,   \* the channel manager, see ChannelManager
  client,    \* the client and its session
  ether,     \* the receiver has ether for a transaction
  requests,  \* requests so far
  incidents  \* incidents so far

vars == <<chain, forks, pool, manager, client, ether, requests, incidents>>

NoTx == [op |-> "none", key |-> 0, amount |-> 0, by |-> "none"]

contract == Last(chain).contract

NoClientChannel == [state |-> "none", deposit |-> 0, balance |-> 0]

\* want: a request is under way; op: the transaction the client waits for, sent at
\* block from.
NewClient ==
  [chans |-> [k \in Keys |-> NoClientChannel], current |-> 0, want |-> FALSE,
   op |-> NoTx, from |-> 0]

Incident == incidents < MaxIncidents /\ incidents' = incidents + 1

-----------------------------------------------------------------------------
(***************************************************************************)
(* The client.                                                             *)
(***************************************************************************)

Capacity(c, k) == c.chans[k].deposit - c.chans[k].balance

is_suitable(c, k) == Capacity(c, k) >= Price

create_transfer(c) ==
  IF ~is_suitable(c, c.current) \/ c.chans[c.current].state = "closed" THEN c
  ELSE [c EXCEPT !.chans[c.current].balance = @ + Price]

get_open_channels(c) == {k \in Keys : c.chans[k].state = "open"}

Send(c, op, key, amount) ==
  [c EXCEPT !.op = [op |-> op, key |-> key, amount |-> amount, by |-> "client"],
            !.from = Len(chain)]

\* The clients c that get_suitable_channel and what follows it may lead to.
get_suitable_channel(c) ==
  LET open == get_open_channels(c)
      suitable == {k \in open : is_suitable(c, k)}
      Least == {k \in suitable : \A l \in suitable : Capacity(c, k) <= Capacity(c, l)}
      Greatest == {k \in open : \A l \in open : Capacity(c, k) >= Capacity(c, l)}
  IN IF suitable # {} THEN {create_transfer([c EXCEPT !.current = k]) : k \in Least}
     ELSE IF open # {}
     THEN {[Send(c, "topup", k, Max({Price, TopupDeposit}) - Capacity(c, k))
            EXCEPT !.current = 0] : k \in Greatest}
     ELSE {[Send(c, "create", 0, InitialDeposit) EXCEPT !.current = 0]}

on_payment_requested(c) ==
  IF c.current = 0 \/ c.chans[c.current].state # "open" THEN get_suitable_channel(c)
  ELSE IF ~is_suitable(c, c.current)
  THEN {Send(c, "topup", c.current, TopupDeposit)}
  ELSE {create_transfer(c)}

\* A mutant: the balance the server shows is not adopted.
MutOnInvalidAmount(c, last) ==
  IF last > 0 /\ last = c.chans[c.current].balance THEN {[c EXCEPT !.want = FALSE]}
  ELSE on_payment_requested(c)

\* The server shows the last proof it has; without one the client starts from 0.
\* A proof of the client's own balance is taken as an attempt to cheat.
on_invalid_amount(c, last) ==
  IF last > 0 /\ last = c.chans[c.current].balance THEN {[c EXCEPT !.want = FALSE]}
  ELSE on_payment_requested([c EXCEPT !.chans[c.current].balance = last])

Answered(c, answer) ==
  CASE answer = "ok" -> {[c EXCEPT !.want = FALSE]}
    [] answer \in {"insufficient_confirmations", "nonexisting_channel"} -> {c}
    [] answer = "invalid_amount" -> on_invalid_amount(c, manager.rows[c.current].balance)
    [] answer = "payment_required" -> on_payment_requested(c)
    [] answer = "error" -> {[c EXCEPT !.want = FALSE]}

StartRequest ==
  /\ ~client.want
  /\ client.op = NoTx
  /\ requests < MaxRequests
  /\ requests' = requests + 1
  /\ client' = [client EXCEPT !.want = TRUE]
  /\ UNCHANGED <<chain, forks, pool, manager, ether, incidents>>

\* The answer to what the session sends now.
Answer ==
  LET k == client.current IN
  IF access(manager, ether) = "error" THEN "error"
  ELSE IF k = 0 THEN "payment_required"
  ELSE paywall_check(manager, k, client.chans[k].balance)

Sent(c) == IF c.op = NoTx \/ c.op = client.op THEN pool ELSE pool \union {c.op}

Registered ==
  IF Answer = "ok"
  THEN register_payment(manager, client.current, client.chans[client.current].balance)
  ELSE manager

_request_resource ==
  /\ client.want
  /\ client.op = NoTx
  /\ \/ /\ client' \in Answered(client, Answer)
        /\ manager' = Registered
        /\ UNCHANGED incidents
     \/ \* the request or its answer is lost, the call of the session fails
        /\ Incident
        /\ client' = [client EXCEPT !.want = FALSE]
        /\ manager' \in {manager, Registered}
  /\ pool' = Sent(client')
  /\ UNCHANGED <<chain, forks, ether, requests>>

\* The event a call waits for, in the blocks after it was made.
Happened(tx) ==
  {i \in client.from + 1 .. Len(chain) :
     /\ chain[i].ok
     /\ IF tx.op \in {"coop", "settle"} THEN chain[i].tx.op \in {"coop", "settle"}
        ELSE chain[i].tx.op = tx.op
     /\ tx.op # "create" => chain[i].tx.key = tx.key}

\* The channel the client holds once it has seen the event in block i.
Confirmed(c, i) ==
  LET k == c.op.key
      d == [c EXCEPT !.op = NoTx, !.from = 0]
  IN CASE c.op.op = "create" ->
            create_transfer([d EXCEPT !.current = i,
                                      !.chans[i] = [state |-> "open", balance |-> 0,
                                                    deposit |-> chain[i].tx.amount]])
       [] c.op.op = "topup" ->
            create_transfer([d EXCEPT !.current = k, !.chans[k].deposit = @ + c.op.amount])
       [] c.op.op = "close" -> [d EXCEPT !.chans[k].state = "settling"]
       [] c.op.op \in {"coop", "settle"} -> [d EXCEPT !.chans[k].state = "closed"]

get_event_blocking ==
  /\ client.op # NoTx
  /\ Happened(client.op) # {}
  /\ client' = Confirmed(client, Min(Happened(client.op)))
  /\ UNCHANGED <<chain, forks, pool, manager, ether, requests, incidents>>

\* Channel.close(0)
close(c, k) ==
  IF c.chans[k].state # "open" THEN c
  ELSE Send([c EXCEPT !.chans[k].balance = 0], "close", k, 0)

\* No event in time.  A session that tops up its channel goes on, a new channel is
\* given up with the request; a cooperative closing is followed by an uncooperative.
GiveUp ==
  /\ client.op # NoTx
  /\ Incident
  /\ LET c == [client EXCEPT !.op = NoTx, !.from = 0]
     IN client' = CASE client.op.op = "coop" -> close(c, client.op.key)
                    [] client.op.op = "topup" /\ c.current # 0 -> create_transfer(c)
                    [] client.op.op \in {"create", "topup"} /\ c.current = 0 ->
                         [c EXCEPT !.want = FALSE]
                    [] client.op.op \in {"close", "settle"} -> c
  /\ pool' = Sent(client')
  /\ UNCHANGED <<chain, forks, manager, ether, requests>>

\* Session.close_channel: without a closing signature the channel is closed on 0.
close_channel_session ==
  LET k == client.current
      signed == MaySignClose(manager, k, client.chans[k].balance)
      coop == Send(client, "coop", k, client.chans[k].balance)
  IN /\ k # 0
     /\ ~client.want
     /\ client.op = NoTx
     /\ client.chans[k].state = "open"
     /\ \/ \* no endpoint, the request is lost, or the signature is denied
           /\ client' = close(client, k)
           /\ UNCHANGED <<manager, incidents>>
        \/ /\ signed
           /\ manager' = sign_close(manager, k)
           /\ \/ /\ client' = coop
                 /\ UNCHANGED incidents
              \/ \* the answer is lost
                 /\ Incident
                 /\ client' = close(client, k)
     /\ pool' = Sent(client')
     /\ UNCHANGED <<chain, forks, ether, requests>>

\* Channel.settle
settle ==
  \E k \in Keys :
    /\ ~client.want
    /\ client.op = NoTx
    /\ client.chans[k].state = "settling"
    /\ contract[k].open
    /\ Len(chain) >= contract[k].settle
    /\ client' = Send(client, "settle", k, 0)
    /\ pool' = Sent(client')
    /\ UNCHANGED <<chain, forks, manager, ether, requests, incidents>>

\* A new client process: the channels of the logs, on the balances closed with.
sync_channels ==
  LET Made(k) == k <= Len(chain) /\ chain[k].ok /\ chain[k].tx.op = "create"
      Topups(k) == {i \in 1 .. Len(chain) : /\ chain[i].ok
                                            /\ chain[i].tx.op = "topup"
                                            /\ chain[i].tx.key = k}
  IN [NewClient EXCEPT !.chans =
        [k \in Keys |->
           IF ~(Made(k) /\ contract[k].open) THEN NoClientChannel
           ELSE [state |-> IF contract[k].settle > 0 THEN "settling" ELSE "open",
                 balance |-> contract[k].closing,
                 deposit |-> chain[k].tx.amount
                             + MapThenSumSet(LAMBDA i : chain[i].tx.amount, Topups(k))]]]

ClientRestart ==
  /\ Incident
  /\ client' = sync_channels
  /\ UNCHANGED <<chain, forks, pool, manager, ether, requests>>

-----------------------------------------------------------------------------
(***************************************************************************)
(* The receiver.                                                           *)
(***************************************************************************)

Step(m) == /\ manager' = [m EXCEPT !.out = {}]
           /\ pool' = pool \union m.out

Update ==
  /\ manager.alive
  /\ Step(_update(manager, chain, ether))
  /\ UNCHANGED <<chain, forks, client, ether, requests, incidents>>

\* A call of the update fails.  One that sends a closing has saved the state by then.
ConnectionError ==
  /\ manager.alive
  /\ Incident
  /\ \/ manager' = connection_error(manager)
     \/ /\ manager.stage = "settled"
        /\ \E i \in DOMAIN CloseLogs(manager, chain) :
             LET tx == CloseLogs(manager, chain)[i].tx IN
             /\ tx.key \in channels(manager)
             /\ manager.rows[tx.key].balance > tx.amount
             /\ manager' = [connection_error(manager) EXCEPT !.rows[tx.key].state = "CLOSED"]
  /\ UNCHANGED <<chain, forks, pool, client, ether, requests>>

Restart ==
  /\ Incident
  /\ manager' = Restarted(manager)
  /\ UNCHANGED <<chain, forks, pool, client, ether, requests>>

\* The ether of the receiver is spent, or comes back.
Ether ==
  /\ ether' = ~ether
  /\ IF ether THEN Incident ELSE UNCHANGED incidents
  /\ UNCHANGED <<chain, forks, pool, manager, client, requests>>

\* An administrator removes a channel (management.py).
ForceClose ==
  /\ Incident
  /\ \E k \in channels(manager) : Step(force_close_channel(manager, k, ether))
  /\ UNCHANGED <<chain, forks, client, ether, requests>>

\* The rows a tool finds worth a transaction.
Collectable ==
  {k \in channels(manager) : /\ manager.rows[k].balance > 0
                             /\ contract[k].open
                             /\ manager.rows[k].balance <= contract[k].deposit}

close_open_channels ==
  /\ Incident
  /\ ether
  /\ Collectable # {}
  /\ pool' = pool \union {CoopClose(manager, k, "tool") : k \in Collectable}
  /\ UNCHANGED <<chain, forks, manager, client, ether, requests>>

withdraw_from_channels ==
  LET worth == {k \in Collectable : manager.rows[k].balance - contract[k].withdrawn >= 1}
  IN /\ Incident
     /\ ether
     /\ worth # {}
     /\ pool' = pool \union {[CoopClose(manager, k, "tool") EXCEPT !.op = "withdraw"] : k \in worth}
     /\ UNCHANGED <<chain, forks, manager, client, ether, requests>>

-----------------------------------------------------------------------------
(***************************************************************************)
(* The chain.                                                              *)
(***************************************************************************)

EmptyBlock(c) == [fork |-> forks, tx |-> NoTx, ok |-> FALSE, contract |-> c]

NewBlock ==
  LET number == Len(chain) + 1 IN
  /\ number <= MaxBlock
  /\ \/ /\ chain' = Append(chain, EmptyBlock(contract))
        /\ UNCHANGED pool
     \/ \E tx \in pool :
          LET ok == Requires(contract, tx, number) IN
          /\ chain' = Append(chain,
               [fork |-> forks, ok |-> ok,
                tx |-> IF tx.op = "create" THEN [tx EXCEPT !.key = number] ELSE tx,
                contract |-> IF ok THEN Effect(contract, tx, number) ELSE contract])
          /\ pool' = pool \ {tx}
  /\ UNCHANGED <<forks, manager, client, ether, requests, incidents>>

\* The last block is replaced: its transaction is back in the pool.
Reorg ==
  LET tx == Last(chain).tx IN
  /\ forks < MaxReorgs
  /\ Incident
  /\ Len(chain) > 2
  /\ forks' = forks + 1
  /\ chain' = Front(chain)
  /\ pool' = IF tx = NoTx THEN pool
             ELSE pool \union {IF tx.op = "create" THEN [tx EXCEPT !.key = 0] ELSE tx}
  /\ UNCHANGED <<manager, client, ether, requests>>

Init ==
  /\ forks = 0
  /\ \/ /\ chain = [i \in 1 .. 2 |-> EmptyBlock([k \in Keys |-> NoChannel])]
        /\ client = NewClient
        /\ requests = 0
     \/ \* a client that has just opened a channel
        LET tx == [op |-> "create", key |-> 1, amount |-> InitialDeposit, by |-> "client"]
            c == Effect([k \in Keys |-> NoChannel], tx, 1)
        IN /\ chain = <<[EmptyBlock(c) EXCEPT !.tx = tx, !.ok = TRUE], EmptyBlock(c)>>
           /\ client = [NewClient EXCEPT !.current = 1, !.want = TRUE,
                          !.chans[1] = [state |-> "open", deposit |-> InitialDeposit,
                                        balance |-> Price]]
           /\ requests = 1
  /\ pool = {}
  /\ manager = NewManager
  /\ ether = TRUE
  /\ incidents = 0

Next ==
  \/ StartRequest \/ _request_resource \/ get_event_blocking \/ GiveUp
  \/ close_channel_session \/ settle \/ ClientRestart
  \/ Update \/ ConnectionError \/ Restart \/ Ether \/ ForceClose
  \/ close_open_channels \/ withdraw_from_channels
  \/ NewBlock \/ Reorg

Spec == Init /\ [][Next]_vars

-----------------------------------------------------------------------------
\* Nothing the chain may still take back is taken as confirmed: every channel the
\* manager accepts payments in was opened on the chain as it is now, whatever
\* reorganisations fell between the calls of an update (blockchain.py, _update).
ConfirmedIsFinal ==
  \A k \in channels(manager) :
    k <= Len(chain) /\ chain[k].ok /\ chain[k].tx.op = "create"

\* A confirmed top up is counted, whatever connection is lost and whatever restart
\* happens in the middle of an update: the deposit of an open channel is at least that
\* of the contract at the confirmed head (manager.py, event_channel_topup and set_head).
TopupsCounted ==
  \A k \in channels(manager) :
    LET c == chain[manager.chead].contract[k] IN
    manager.chead > 0 /\ manager.rows[k].state = "OPEN" /\ c.open
      => manager.rows[k].deposit >= c.deposit

\* A close request below what was paid is answered: once the head is past it, the manager
\* has sent a closing for more, or waits for ether to send it, although the row is saved
\* as closed before the transaction is sent (manager.py, close_channel).
Challenged ==
  \A k \in channels(manager) :
    LET asked == {i \in 1 .. manager.chead : /\ chain[i].ok
                                            /\ chain[i].tx.op = "close"
                                            /\ chain[i].tx.key = k}
        sent == pool \union {chain[i].tx : i \in DOMAIN chain}
    IN asked # {} /\ contract[k].closing < manager.rows[k].balance /\ contract[k].open
         => \/ manager.rows[k].state = "CLOSE_PENDING"
            \/ \E tx \in sent : /\ tx.op = "coop" /\ tx.key = k /\ tx.by # "client"
                               /\ tx.amount > contract[k].closing

\* The session never signs for more than two prices above what the manager has
\* registered, although an answer without a reason makes it sign again (session.py,
\* on_payment_requested; paywall_decorator.py, paywall_check).
ClientExposure ==
  \A k \in channels(manager) :
    client.chans[k].balance <= manager.rows[k].balance + 2 * Price

=============================================================================
