---------------------------- MODULE UserDeposit -----------------------------
(***************************************************************************)
(* The node's proxy for the UserDeposit contract,                          *)
(* network/proxies/user_deposit.py: the checks a call makes before it      *)
(* sends its transaction, and the error it reports when the transaction    *)
(* cannot be sent or fails.  All the errors are recoverable ones; only     *)
(* their reasons are kept.  A query of a pruned block, and the overflow of *)
(* whole_balance, are left out.                                            *)
(***************************************************************************)
EXTENDS ServiceContracts

\* Deposits approve one token more than they need.
amount_to_deposit(c, total_deposit) == total_deposit - c.total_deposit

_deposit_preconditions(c, total_deposit) ==
    LET amount == amount_to_deposit(c, total_deposit) IN
    /\ c.whole_balance + amount <= WholeBalanceLimit
    /\ amount > 0
    /\ c.wallet[Node] >= amount

_plan_withdraw_preconditions(c, amount) == amount > 0 /\ amount <= c.balances[Node]

_withdraw_preconditions(c, amount) ==
    /\ amount <= c.withdraw_plan.amount
    /\ c.withdraw_plan.withdrawable_after <= c.time
    /\ amount <= c.whole_balance

Preconditions(c, t) ==
    CASE t.op = "deposit"      -> _deposit_preconditions(c, t.amount)
      [] t.op = "planWithdraw" -> _plan_withdraw_preconditions(c, t.amount)
      [] t.op = "withdraw"     -> _withdraw_preconditions(c, t.amount)

\* _deposit_check_result when the gas estimation failed, c being the latest
\* block; t.allowance is what was approved.
_deposit_not_sent(c, t) ==
    LET amount == amount_to_deposit(c, t.amount) IN
    CASE t.allowance < amount                          -> "allowance"
      [] t.allowance >= amount /\ c.wallet[Node] < amount -> "balance"
      [] OTHER -> IF c.total_deposit < t.amount THEN "not increased" ELSE "unknown"

\* ... and when the transaction was mined and failed, c being that block.
_deposit_failed(c, t) ==
    LET amount == amount_to_deposit(c, t.amount) IN
    CASE c.total_deposit >= t.amount                   -> "increased"
      [] c.total_deposit < t.amount /\ t.allowance < amount -> "allowance"
      [] OTHER -> IF c.wallet[Node] < amount THEN "balance"
                  ELSE IF c.whole_balance + amount > WholeBalanceLimit THEN "limit"
                  ELSE "not increased"

_plan_withdraw_failed(c, t) == IF c.balances[Node] < t.amount THEN "balance" ELSE "unknown"

_withdraw_failed(c, t) ==
    IF t.amount > c.withdraw_plan.amount THEN "plan"
    ELSE IF c.withdraw_plan.withdrawable_after > c.time THEN "early"
    ELSE IF t.amount > c.whole_balance THEN "underflow"
    ELSE "unknown"

NotSent(c, t) == IF t.op = "deposit" THEN _deposit_not_sent(c, t) ELSE "unknown"

Failed(c, t) ==
    CASE t.op = "deposit"      -> _deposit_failed(c, t)
      [] t.op = "planWithdraw" -> _plan_withdraw_failed(c, t)
      [] t.op = "withdraw"     -> _withdraw_failed(c, t)

=============================================================================
