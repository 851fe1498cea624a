------------------------------ MODULE Withdraw -----------------------------
(***************************************************************************)
(* Withdraws and cooperative settlement (channel.py).  Both are an         *)
(* exchange of requests and confirmations: a withdraw confirmed by the     *)
(* partner may go on chain, and two withdraws that empty the channel, both *)
(* confirmed, settle it.                                                   *)
(***************************************************************************)
EXTENDS Payment

send_withdraw_request(S, total, expiration, coop_settle) ==
  IF S.status \notin CHANNEL_STATES_PRIOR_TO_CLOSED
  THEN S
  ELSE Send([S EXCEPT !.our = [PutPending(@, WithdrawState(total, expiration))
                                 EXCEPT !.nonce = @ + 1]],
            [type |-> "WithdrawRequest", total_withdraw |-> total, expiration |-> expiration,
             nonce |-> get_next_nonce(S.our), coop_settle |-> coop_settle])

handle_action_withdraw(S, total) ==
  IF is_valid_total_withdraw(S, total, FALSE)
  THEN send_withdraw_request(S, total, get_safe_initial_expiration(S.block_number), FALSE)
  ELSE S

handle_action_coop_settle(S) ==
  LET ours       == get_max_withdraw_amount(S.our, S.partner)
      expiration == get_safe_initial_expiration(S.block_number)
  IN  IF is_valid_action_coopsettle(S, ours)
      THEN send_withdraw_request(
             [S EXCEPT !.our.initiated_coop_settle =
                CoopSettle(ours, get_max_withdraw_amount(S.partner, S.our), expiration, FALSE)],
             ours, expiration, TRUE)
      ELSE S

\* With the partner's request and the partner's confirmation at hand, the
\* node that started the settlement sends it to the contract.
events_for_coop_settle(S, at) ==
  LET coop == S.our.initiated_coop_settle
  IN  IF coop.request /\ coop.confirmation /\ coop.expiration >= S.block_number - REVEAL_TIMEOUT
      THEN Submit(S, [type |-> "cooperativeSettle", our_total |-> coop.total_withdraw_initiator,
                      partner_total |-> coop.total_withdraw_partner,
                      expiration |-> coop.expiration, at |-> at])
      ELSE S

SendConfirmation(S, m) ==
  Send([S EXCEPT !.our.nonce = @ + 1],
       [type |-> "WithdrawConfirmation", total_withdraw |-> m.total_withdraw,
        expiration |-> m.expiration, nonce |-> get_next_nonce(S.our)])

\* The total the node expects of the partner is not the one requested: the
\* assertion on our_initiated_coop_settle.total_withdraw_partner.
UnexpectedTotal(S, m) ==
  /\ S.our.initiated_coop_settle.expiration = m.expiration
  /\ S.our.initiated_coop_settle.total_withdraw_partner # m.total_withdraw

\* A request that passes the first check is recorded with its nonce even if a
\* later check refuses it.  A node that fails the assertion stops before
\* anything is written, and is as it was when it comes back.
handle_receive_withdraw_request(S, m, at) ==
  LET taken == [S EXCEPT !.partner = [PutPending(@, WithdrawState(m.total_withdraw, m.expiration))
                                        EXCEPT !.nonce = m.nonce]]
      coop  == S.our.initiated_coop_settle
      theirs == get_max_withdraw_amount(taken.partner, taken.our)
      ours   == get_max_withdraw_amount(taken.our, taken.partner)
  IN  IF ~ is_valid_withdraw_request(S.our, S.partner, m)
      THEN S
      ELSE IF coop = NoCoopSettle /\ ~ m.coop_settle
      THEN SendConfirmation(taken, m)
      ELSE IF theirs # m.total_withdraw \/ get_number_of_pending_transfers(S.partner) > 0
      THEN taken
      ELSE IF coop # NoCoopSettle
      THEN IF coop.expiration # m.expiration
           THEN taken
           ELSE IF UnexpectedTotal(S, m)
           THEN S
           ELSE SendConfirmation(
                  events_for_coop_settle([taken EXCEPT !.our.initiated_coop_settle.request = TRUE],
                                         at), m)
      ELSE IF get_number_of_pending_transfers(S.our) > 0
      THEN taken
      ELSE SendConfirmation(
             send_withdraw_request(
               [taken EXCEPT !.partner.initiated_coop_settle =
                  CoopSettle(m.total_withdraw, ours, m.expiration, TRUE)],
               ours, m.expiration, FALSE), m)

\* Only a node that stands in no cooperative settlement sends the withdraw.
\* Both having started one fails an assertion.
handle_receive_withdraw_confirmation(S, m, at) ==
  LET accepted == [S EXCEPT !.partner.nonce = m.nonce]
      ours     == S.our.initiated_coop_settle
      theirs   == S.partner.initiated_coop_settle
  IN  IF ~ is_valid_withdraw_confirmation(S.our, S.partner, m)
      THEN S
      ELSE IF ours # NoCoopSettle /\ theirs # NoCoopSettle
      THEN S
      ELSE IF ours # NoCoopSettle
      THEN events_for_coop_settle(
             [accepted EXCEPT !.our.initiated_coop_settle.confirmation = TRUE], at)
      ELSE IF theirs = NoCoopSettle /\ m.expiration >= S.block_number - REVEAL_TIMEOUT
      THEN Submit(accepted, [type |-> "setTotalWithdraw", total_withdraw |-> m.total_withdraw,
                             expiration |-> m.expiration, at |-> at])
      ELSE accepted
\* A cooperative settlement expires with the withdraw it started with.
handle_receive_withdraw_expired(S, m) ==
  IF is_valid_withdraw_expired(S.partner, m, S.block_number)
  THEN [S EXCEPT !.partner = [EndCoopSettle(DropPending(@, m.total_withdraw),
                                            PendingWithdraws(@, m.total_withdraw))
                                EXCEPT !.nonce = m.nonce]]
  ELSE S
\* Mutant: the withdraw is no longer pending and was never made.
MutChannelWithdraw(end, total) == DropPending(end, total)

handle_channel_withdraw(end, total) ==
  [DropPending(end, total) EXCEPT !.onchain_total_withdraw = total]

\* Every withdraw of ours that has expired is announced, in order, while the
\* channel is open.
events_for_expired_withdraws(S) ==
  LET count   == IF S.status = "opened" THEN ExpiredCount(S.our, S.block_number) ELSE 0
      expired == SubSeq(S.our.withdraws_pending, 1, count)
  IN  [S EXCEPT !.our = [EndCoopSettle(@, ToSet(expired))
                           EXCEPT !.withdraws_pending = SubSeq(@, count + 1, Len(@)),
                                  !.withdraws_expired = @ \o expired,
                                  !.nonce             = @ + count],
                !.sent = @ \cup {[type |-> "WithdrawExpired",
                                  total_withdraw |-> expired[i].total_withdraw,
                                  expiration |-> expired[i].expiration,
                                  nonce |-> S.our.nonce + i] : i \in 1 .. count}]
=============================================================================
