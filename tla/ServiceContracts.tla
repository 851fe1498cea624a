-------------------------- MODULE ServiceContracts --------------------------
(***************************************************************************)
(* The contracts through which a node pays for services: UserDeposit (the  *)
(* node's deposit for fees), OneToN (fees of path finding services),       *)
(* MonitoringService (rewards of monitoring services) and ServiceRegistry  *)
(* (which services there are), of                                          *)
(* contracts/gatecoin_contracts/data/source/services.                      *)
(*                                                                         *)
(* c is the storage of the four contracts, as far as it concerns one node, *)
(* the token balances they hold, and what MonitoringService reads of one   *)
(* channel of the node in TokenNetwork.  A transaction is a record; it     *)
(* reverts when Requires is false, and is Effect otherwise.  Signatures    *)
(* are those of the parties named.  Time is counted in one unit for        *)
(* timestamps and blocks, as in the node, which works with the block       *)
(* numbers of the older contracts.  256-bit overflow is out of reach: the  *)
(* amounts are bounded by WholeBalanceLimit and by the supply.             *)
(***************************************************************************)
EXTENDS Integers, FiniteSetsExt

CONSTANTS
    Node, Services,         \* the account of the node, those of the services
    Address,                \* the addresses, as numbers
    WholeBalanceLimit, WithdrawTimeout,                    \* UserDeposit
    DecayConstant, MinPrice, PriceBump, RegistrationDuration,  \* ServiceRegistry
    SettleTimeout,          \* of the token network
    MaxNonce                \* bound: of the balance proofs of the partner

\* What the constructors and changeParameters require of the parameters.
ASSUME ContractsAssumption ==
    /\ Node \notin Services /\ IsFiniteSet(Services)
    /\ Address \in [Services \cup {Node} -> Nat]
    /\ WholeBalanceLimit \in Nat \ {0} /\ WithdrawTimeout \in Nat
    /\ DecayConstant \in Nat \ {0} /\ MinPrice \in Nat
    /\ PriceBump \in Nat \ {0} /\ RegistrationDuration \in Nat \ {0}
    /\ SettleTimeout \in Nat \ {0, 1} /\ MaxNonce \in Nat

Accounts == Services \cup {Node}

NoPlan == [amount |-> 0, withdrawable_after |-> 0]

NoReward == [amount |-> 0, nonce |-> 0, service |-> Node]

\* A transaction; amount and number stand for its arguments.
Tx(op, by, amount, number) == [op |-> op, by |-> by, amount |-> amount, number |-> number]

-----------------------------------------------------------------------------
(* UserDeposit.                                                            *)

\* deposit of a new total, with transferFrom of what the node has approved.
depositRequires(c, tx) ==
    LET added == tx.amount - c.total_deposit IN
    /\ added > 0
    /\ c.whole_balance + added <= WholeBalanceLimit
    /\ added <= c.wallet[Node] /\ added <= tx.number

deposit(c, tx) ==
    LET added == tx.amount - c.total_deposit IN
    [c EXCEPT !.balances[Node] = @ + added, !.total_deposit = @ + added,
              !.whole_balance = @ + added,
              !.wallet[Node] = @ - added, !.held = @ + added]

planWithdrawRequires(c, tx) == tx.amount > 0 /\ c.balances[tx.by] >= tx.amount

planWithdraw(c, tx) ==
    [c EXCEPT !.withdraw_plan = [amount |-> tx.amount,
                                 withdrawable_after |-> c.time + WithdrawTimeout]]

MutWithdrawRequires(c, tx) == c.withdraw_plan.withdrawable_after <= c.time

withdrawRequires(c, tx) ==
    /\ tx.amount <= c.withdraw_plan.amount
    /\ c.withdraw_plan.withdrawable_after <= c.time

\* The plan is a maximum: services may have taken part of it meanwhile.
MutWithdrawHelper(c, tx) ==
    LET withdrawable == Min({tx.amount, c.balances[Node]}) IN
    [c EXCEPT !.balances[Node] = @ - withdrawable,
              !.whole_balance = @ - tx.amount,
              !.withdraw_plan = NoPlan,
              !.wallet[Node] = @ + withdrawable, !.held = @ - withdrawable]

withdrawHelper(c, tx) ==
    LET withdrawable == Min({tx.amount, c.balances[Node]}) IN
    [c EXCEPT !.balances[Node] = @ - withdrawable,
              !.whole_balance = @ - withdrawable,
              !.withdraw_plan = NoPlan,
              !.wallet[Node] = @ + withdrawable, !.held = @ - withdrawable]

effectiveBalance(c) ==
    IF c.withdraw_plan.amount > c.balances[Node] THEN 0
    ELSE c.balances[Node] - c.withdraw_plan.amount

\* transfer returns false, and its callers revert, when this fails.
transferRequires(c, sender, amount) == c.balances[sender] >= amount /\ amount > 0

transfer(c, sender, receiver, amount) ==
    [c EXCEPT !.balances[sender] = @ - amount, !.balances[receiver] = @ + amount]

-----------------------------------------------------------------------------
(* ServiceRegistry.                                                        *)

hasValidRegistration(c, service) == c.time < c.valid_till[service]

decayedPrice(price, X) ==
    LET A == DecayConstant
        P == 24 * A^4
        Q == P + 24 * A^3 * X + 12 * A^2 * X^2 + 4 * A * X^3 + X^4
    IN Max({MinPrice, (price * P) \div Q})

currentPrice(c) == decayedPrice(c.set_price, c.time - c.set_price_at)

\* deposit(_limit_amount): tx.amount is the limit.
registerRequires(c, tx) ==
    /\ ~c.deprecated
    /\ tx.amount >= currentPrice(c)
    /\ c.wallet[tx.by] >= currentPrice(c)

\* The tokens are locked in a Deposit of their own, until the registration
\* they paid for ends.
register(c, tx) ==
    LET price == currentPrice(c)
        until == Max({c.valid_till[tx.by], c.time}) + RegistrationDuration
    IN [c EXCEPT !.valid_till[tx.by] = until,
                 !.set_price = price * PriceBump, !.set_price_at = c.time,
                 !.deposits = @ \cup {[owner |-> tx.by, until |-> until, amount |-> price]},
                 !.wallet[tx.by] = @ - price]

\* Deposit.withdraw, of the Deposit that is locked until tx.number.
releaseRequires(c, tx) ==
    /\ \E d \in c.deposits : d.owner = tx.by /\ d.until = tx.number
    /\ c.time >= tx.number \/ c.deprecated

release(c, tx) ==
    LET mine == {d \in c.deposits : d.owner = tx.by /\ d.until = tx.number} IN
    [c EXCEPT !.deposits = @ \ mine,
              !.wallet[tx.by] = @ + SumFunction([d \in mine |-> d.amount])]

-----------------------------------------------------------------------------
(* OneToN: tx.number is claimable_until, which names the session.          *)

claimRequires(c, tx) ==
    /\ hasValidRegistration(c, tx.by)
    /\ c.time <= tx.number
    /\ [receiver |-> tx.by, until |-> tx.number] \notin c.settled_sessions

MutClaim(c, tx) ==
    LET transferable == Min({tx.amount, c.balances[Node]}) IN
    IF transferable = 0 THEN c
    ELSE transfer([c EXCEPT !.charged = @ + transferable], Node, tx.by, transferable)

\* Nothing is settled when nothing can be claimed.
claim(c, tx) ==
    LET transferable == Min({tx.amount, c.balances[Node]}) IN
    IF transferable = 0 THEN c
    ELSE transfer([c EXCEPT !.settled_sessions =
                                @ \cup {[receiver |-> tx.by, until |-> tx.number]},
                            !.charged = @ + transferable],
                  Node, tx.by, transferable)

-----------------------------------------------------------------------------
(* The channel in TokenNetwork, which the partner closes, and              *)
(* MonitoringService, where tx.number is the nonce of the partner's        *)
(* balance proof and tx.amount the reward.                                 *)

MutUpdateNonClosing(c, tx) == c.channel.state = "closed" /\ tx.number >= c.channel.nonce

updateNonClosingBalanceProofRequires(c, tx) ==
    c.channel.state = "closed" /\ tx.number > c.channel.nonce

firstTimestampAllowedToMonitor(c, service) ==
    LET closed_at == c.channel.settleable_after - SettleTimeout
        range_length == (50 * SettleTimeout) \div 100
    IN closed_at + (30 * SettleTimeout) \div 100
         + ((Address[Node] + Address[service]) % range_length)

monitorRequires(c, tx) ==
    /\ c.reward.nonce < tx.number
    /\ hasValidRegistration(c, tx.by)
    /\ updateNonClosingBalanceProofRequires(c, tx)
    /\ c.time >= firstTimestampAllowedToMonitor(c, tx.by)

monitor(c, tx) ==
    [c EXCEPT !.reward = [amount |-> tx.amount, nonce |-> tx.number, service |-> tx.by],
              !.channel.nonce = tx.number]

claimRewardRequires(c, tx) ==
    /\ c.channel.state \in {"closed", "settled"}
    /\ c.channel.settleable_after < c.time
    /\ c.reward # NoReward
    /\ transferRequires(c, Node, c.reward.amount)

claimReward(c, tx) ==
    LET paid == transfer(c, Node, c.reward.service, c.reward.amount) IN
    [paid EXCEPT !.reward = NoReward, !.rewarded[c.reward.nonce] = @ + 1]

-----------------------------------------------------------------------------

Requires(c, tx) ==
    CASE tx.op = "deposit"      -> depositRequires(c, tx)
      [] tx.op = "planWithdraw" -> planWithdrawRequires(c, tx)
      [] tx.op = "withdraw"     -> withdrawRequires(c, tx)
      [] tx.op = "register"     -> registerRequires(c, tx)
      [] tx.op = "release"      -> releaseRequires(c, tx)
      [] tx.op = "deprecate"    -> ~c.deprecated
      [] tx.op = "claim"        -> claimRequires(c, tx)
      [] tx.op = "close"        -> c.channel.state = "opened"
      [] tx.op = "update"       -> updateNonClosingBalanceProofRequires(c, tx)
      [] tx.op = "settle"       -> /\ c.channel.state = "closed"
                                   /\ c.channel.settleable_after < c.time
      [] tx.op = "monitor"      -> monitorRequires(c, tx)
      [] tx.op = "claimReward"  -> claimRewardRequires(c, tx)

Effect(c, tx) ==
    CASE tx.op = "deposit"      -> deposit(c, tx)
      [] tx.op = "planWithdraw" -> planWithdraw(c, tx)
      [] tx.op = "withdraw"     -> withdrawHelper(c, tx)
      [] tx.op = "register"     -> register(c, tx)
      [] tx.op = "release"      -> release(c, tx)
      [] tx.op = "deprecate"    -> [c EXCEPT !.deprecated = TRUE]
      [] tx.op = "claim"        -> claim(c, tx)
      [] tx.op = "close"        ->
           [c EXCEPT !.channel = [state |-> "closed", nonce |-> 0,
                                  settleable_after |-> c.time + SettleTimeout]]
      [] tx.op = "update"       -> [c EXCEPT !.channel.nonce = tx.number]
      [] tx.op = "settle"       -> [c EXCEPT !.channel.state = "settled",
                                             !.channel.settleable_after = 0]
      [] tx.op = "monitor"      -> monitor(c, tx)
      [] tx.op = "claimReward"  -> claimReward(c, tx)

=============================================================================
