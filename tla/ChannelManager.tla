--------------------------- MODULE ChannelManager ---------------------------
(***************************************************************************)
(* The receiver's side of microcoin: the channel manager (manager.py), its *)
(* database (state.py), the loop that follows the chain (blockchain.py)    *)
(* and the paywall of the proxy (paywall_decorator.py), as operators from  *)
(* a manager record m to a manager record.                                 *)
(*                                                                         *)
(* m.rows is the table of channels: last_signature is there once balance   *)
(* is positive.  settle_timeout, the times and the unconfirmed top ups,    *)
(* which only a display reads, are left out.  m.out holds the transactions *)
(* a step sends.  A failed assertion, or an exception no handler expects,  *)
(* ends the loop: m.alive becomes FALSE.  The chain is a sequence of       *)
(* blocks [fork, tx, ok, contract].                                        *)
(***************************************************************************)
EXTENDS GetMicroTransferChannels, SequencesExt

CONSTANTS
  NConfirmations,  \* n_confirmations
  Price            \* of the resource

ASSUME ManagerAssumption ==
  /\ NConfirmations \in Nat \ {0}
  /\ Price \in Nat \ {0}

States == {"OPEN", "CLOSED", "CLOSE_PENDING"}

NoRow == [confirmed |-> FALSE, state |-> "none", deposit |-> 0, balance |-> 0]

NewManager ==
  [rows |-> [k \in Keys |-> NoRow], chead |-> 0, chash |-> 0, uhead |-> 0, uhash |-> 0,
   stage |-> "check", target |-> 0, synced |-> FALSE, insufficient |-> FALSE,
   connected |-> FALSE, alive |-> TRUE, out |-> {}]

\* The database survives a restart.
Restarted(m) == [NewManager EXCEPT !.rows = m.rows, !.chead = m.chead, !.chash = m.chash,
                                   !.uhead = m.uhead, !.uhash = m.uhash]

channels(m) == {k \in Keys : m.rows[k].state # "none" /\ m.rows[k].confirmed}
unconfirmed_channels(m) == {k \in Keys : m.rows[k].state # "none" /\ ~m.rows[k].confirmed}
pending_channels(m) == {k \in Keys : m.rows[k].state = "CLOSE_PENDING"}

is_closed(row) == row.state \in {"CLOSED", "CLOSE_PENDING"}

Died(m) == [m EXCEPT !.alive = FALSE, !.stage = "check", !.target = 0]

\* The logs of some operations in the blocks from + 1 .. to of the chain.
Logs(chain, ops, from, to) ==
  SelectSeq(SubSeq(chain, from + 1, IF to < Len(chain) THEN to ELSE Len(chain)),
            LAMBDA b : b.ok /\ b.tx.op \in ops)

ForEach(Handler(_, _), m, logs) ==
  FoldLeft(LAMBDA x, b : IF x.alive THEN Handler(x, b.tx) ELSE x, m, logs)

-----------------------------------------------------------------------------
(***************************************************************************)
(* Closing, by the manager.                                                *)
(***************************************************************************)

CoopClose(m, k, by) == [op |-> "coop", key |-> k, amount |-> m.rows[k].balance, by |-> by]

\* The state is saved before the transaction is sent; without ether that fails.
close_channel(m, k, ether) ==
  IF k \notin channels(m) THEN m
  ELSE IF ether THEN [m EXCEPT !.rows[k].state = "CLOSED",
                               !.out = @ \union {CoopClose(m, k, "manager")}]
  ELSE [m EXCEPT !.rows[k].state = "CLOSE_PENDING"]

force_close_channel(m, k, ether) ==
  IF k \in channels(m) /\ m.rows[k].balance = 0
  THEN [m EXCEPT !.rows[k].state = "CLOSED"]
  ELSE close_channel(m, k, ether)

close_pending_channels(m) ==
  LET closed == pending_channels(m)
  IN [m EXCEPT !.rows = [k \in Keys |-> IF k \in closed THEN [@[k] EXCEPT !.state = "CLOSED"]
                                                        ELSE @[k]],
               !.out = @ \union {CoopClose(m, k, "manager") : k \in closed}]

insufficient_balance_recover(m, ether) ==
  IF m.insufficient /\ ether
  THEN [close_pending_channels(m) EXCEPT !.insufficient = FALSE]
  ELSE m

\* The cooperative closing that the client asks for.
MaySignClose(m, k, balance) ==
  /\ k \in channels(m)
  /\ ~is_closed(m.rows[k])
  /\ m.rows[k].balance > 0
  /\ balance = m.rows[k].balance

sign_close(m, k) == [m EXCEPT !.rows[k].state = "CLOSED"]

-----------------------------------------------------------------------------
(***************************************************************************)
(* Events of the contract.                                                 *)
(***************************************************************************)

NewRow(deposit, confirmed) ==
  [confirmed |-> confirmed, state |-> "OPEN", deposit |-> deposit, balance |-> 0]

unconfirmed_event_channel_opened(m, tx) ==
  IF m.rows[tx.key].state # "none" THEN m
  ELSE [m EXCEPT !.rows[tx.key] = NewRow(tx.amount, FALSE)]

event_channel_opened(m, tx) ==
  IF tx.key \in channels(m) THEN m
  ELSE [m EXCEPT !.rows[tx.key] = NewRow(tx.amount, TRUE)]

unconfirmed_event_channel_topup(m, tx) ==
  IF tx.key \in channels(m) \union unconfirmed_channels(m) THEN m ELSE Died(m)

event_channel_topup(m, tx) ==
  IF tx.key \notin channels(m) THEN Died(m)
  ELSE IF is_closed(m.rows[tx.key]) THEN m
  ELSE [m EXCEPT !.rows[tx.key].deposit = @ + tx.amount]

event_channel_settled(m, tx) ==
  IF m.rows[tx.key].state = "none" THEN Died(m)
  ELSE [m EXCEPT !.rows[tx.key] = NoRow]

\* A mutant: a close request at or above the half of the balance is let pass.
MutCloseRequested(m, tx, ether) ==
  LET c == m.rows[tx.key] IN
  IF c.balance > 2 * tx.amount + 1
  THEN close_channel(m, tx.key, ether)
  ELSE [m EXCEPT !.rows[tx.key].state = "CLOSED"]

\* The row read before close_channel is written back after it, unless an
\* exception is raised in between.
event_channel_close_requested(m, tx, ether) ==
  LET c == m.rows[tx.key] IN
  IF c.balance > tx.amount
  THEN IF ether THEN [close_channel(m, tx.key, ether) EXCEPT !.rows[tx.key] = c]
       ELSE [close_channel(m, tx.key, ether) EXCEPT !.insufficient = TRUE]
  ELSE [m EXCEPT !.rows[tx.key].state = "CLOSED"]

\* A close request that the loop finds: contract is that of the latest block.
\* Nothing catches the lack of ether when the channel is already gone.
CloseRequested(m, tx, contract, ether) ==
  IF tx.key \notin channels(m) THEN m
  ELSE IF contract[tx.key].open THEN event_channel_close_requested(m, tx, ether)
  ELSE LET forced == force_close_channel(m, tx.key, ether)
       IN IF forced.rows[tx.key].state = "CLOSE_PENDING" THEN Died(forced) ELSE forced

-----------------------------------------------------------------------------
(***************************************************************************)
(* The loop that follows the chain, _update, in four stages: requests are  *)
(* served, and blocks come, between its remote calls.                      *)
(***************************************************************************)

reset_unconfirmed(m) ==
  [m EXCEPT !.rows = [k \in Keys |-> IF @[k].confirmed THEN @[k] ELSE NoRow],
            !.uhead = m.chead, !.uhash = m.chash]

Reorganised(chain, number, hash) ==
  \/ Len(chain) < number
  \/ chain[number].fork # hash

\* A mutant: blocks count as confirmed one block too early.
MutConfirmedTarget(m) == m.target - NConfirmations + 1

\* new_confirmed_head_number
confirmed_target(m) == m.target - NConfirmations

check(m, chain, ether) ==
  LET recovered == insufficient_balance_recover(m, ether)
      reset == IF m.synced /\ Reorganised(chain, m.uhead, m.uhash)
               THEN reset_unconfirmed(recovered) ELSE recovered
      next == [reset EXCEPT !.target = Len(chain), !.stage = "opened"]
  IN IF m.synced /\ Reorganised(chain, m.chead, m.chash) THEN Died(reset)
     ELSE IF reset.chead >= confirmed_target(next) /\ reset.uhead >= next.target
     THEN [reset EXCEPT !.connected = TRUE]
     ELSE next

opened_and_topped_up(m, chain) ==
  LET confirmed == confirmed_target(m)
      unconfirmed_opened == ForEach(unconfirmed_event_channel_opened, m,
                                    Logs(chain, {"create"}, m.uhead, m.target))
      opened == ForEach(event_channel_opened, unconfirmed_opened,
                        Logs(chain, {"create"}, m.chead, confirmed))
      unconfirmed_topups == ForEach(unconfirmed_event_channel_topup, opened,
                                    Logs(chain, {"topup"}, m.uhead, m.target))
      topups == ForEach(event_channel_topup, unconfirmed_topups,
                        Logs(chain, {"topup"}, m.chead, confirmed))
  IN IF topups.alive THEN [topups EXCEPT !.stage = "settled"] ELSE topups

CloseLogs(m, chain) == Logs(chain, {"close"}, m.chead, confirmed_target(m))

settled_and_closing(m, chain, ether) ==
  LET gone == ForEach(event_channel_settled, m,
                      Logs(chain, {"coop", "settle"}, m.chead, confirmed_target(m)))
      asked == ForEach(LAMBDA x, tx : CloseRequested(x, tx, Last(chain).contract, ether),
                       gone, CloseLogs(m, chain))
  IN IF asked.alive THEN [asked EXCEPT !.stage = "head"] ELSE asked

\* A block that a reorganisation has removed has no hash: the process exits, and is
\* started again.
set_head(m, chain) ==
  IF m.target > Len(chain) THEN Restarted(m)
  ELSE IF confirmed_target(m) <= 0 THEN Died(m)
  ELSE [m EXCEPT !.uhead = m.target, !.uhash = chain[m.target].fork,
                 !.chead = confirmed_target(m), !.chash = chain[confirmed_target(m)].fork,
                 !.target = 0, !.stage = "check",
                 !.synced = @ \/ m.target = Len(chain), !.connected = TRUE]

_update(m, chain, ether) ==
  CASE m.stage = "check"   -> check(m, chain, ether)
    [] m.stage = "opened"  -> opened_and_topped_up(m, chain)
    [] m.stage = "settled" -> settled_and_closing(m, chain, ether)
    [] m.stage = "head"    -> set_head(m, chain)

\* A mutant: the head is moved although the update did not come to its end.
MutConnectionError(m) ==
  [m EXCEPT !.stage = "check", !.connected = FALSE, !.target = 0,
            !.chead = IF m.stage = "check" THEN @ ELSE confirmed_target(m)]

\* The node refuses a connection: the update starts again at the next poll.
connection_error(m) == [m EXCEPT !.stage = "check", !.connected = FALSE, !.target = 0]

-----------------------------------------------------------------------------
(***************************************************************************)
(* The paywall.                                                            *)
(***************************************************************************)

\* The answer to a request that carries a balance proof.
paywall_check(m, k, balance) ==
  IF k \in unconfirmed_channels(m) THEN "insufficient_confirmations"
  ELSE IF k \notin channels(m) THEN "nonexisting_channel"
  ELSE IF is_closed(m.rows[k]) THEN "nonexisting_channel"
  ELSE IF balance - m.rows[k].balance \notin {0, Price} THEN "invalid_amount"
  ELSE IF balance <= m.rows[k].balance \/ balance > m.rows[k].deposit THEN "payment_required"
  ELSE "ok"

\* What the proxy answers without a look at the channel.
access(m, ether) == IF m.connected /\ ether THEN "check" ELSE "error"

register_payment(m, k, balance) == [m EXCEPT !.rows[k].balance = balance]
=============================================================================
