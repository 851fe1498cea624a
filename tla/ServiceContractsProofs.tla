----------------------- MODULE ServiceContractsProofs -----------------------
(***************************************************************************)
(* What every transaction of the service contracts preserves, for any      *)
(* number of services, any prices, amounts and timeouts.  The lemmas speak *)
(* of a storage s and the storage a transaction makes of it.               *)
(***************************************************************************)
EXTENDS ServiceContracts, SumProofs

-----------------------------------------------------------------------------
(* The contracts.                                                          *)

Fields == {"time", "wallet", "balances", "total_deposit", "whole_balance", "held",
           "withdraw_plan", "settled_sessions", "charged", "valid_till", "set_price",
           "set_price_at", "deprecated", "deposits", "channel", "reward", "rewarded"}

Plan == [amount : Nat, withdrawable_after : Nat]

ChannelRecord ==
  [state : {"opened", "closed", "settled"}, nonce : Nat, settleable_after : Nat]

RewardRecord == [amount : Nat, nonce : Nat, service : Accounts]

HasFields(s) == s = [x \in Fields |-> s[x]]

(* The storage has its fields, with the types that matter.                 *)
Stored(s) ==
  /\ HasFields(s)
  /\ s.time \in Nat /\ s.balances \in [Accounts -> Nat]
  /\ s.total_deposit \in Nat /\ s.whole_balance \in Nat /\ s.held \in Nat
  /\ s.withdraw_plan \in Plan /\ s.charged \in Nat
  /\ s.valid_till \in [Services -> Nat] /\ s.deprecated \in BOOLEAN
  /\ s.channel \in ChannelRecord /\ s.reward \in RewardRecord
  /\ s.rewarded \in [1..MaxNonce -> Nat]

(* UDCSolvent, of a storage.                                               *)
Solvent(s) ==
  /\ s.held = SumFunction(s.balances)
  /\ s.whole_balance = s.held /\ s.whole_balance <= WholeBalanceLimit

(* The nonces above the one TokenNetwork knows were never rewarded, nor    *)
(* was the one whose reward is not claimed yet; before the channel is      *)
(* closed there are no rewards.                                            *)
RewardsInOrder(s) ==
  /\ \A n \in 1..MaxNonce : s.rewarded[n] <= 1
  /\ \A n \in 1..MaxNonce : n > s.channel.nonce => s.rewarded[n] = 0
  /\ s.reward # NoReward =>
       /\ s.reward.service \in Services
       /\ s.reward.nonce \in 1..MaxNonce /\ s.reward.nonce <= s.channel.nonce
       /\ s.rewarded[s.reward.nonce] = 0
  /\ s.channel.state = "opened" =>
       s.reward = NoReward /\ \A n \in 1..MaxNonce : s.rewarded[n] = 0

Backed(s) ==
  \A x \in Services :
    hasValidRegistration(s, x) /\ ~s.deprecated
    => \E d \in s.deposits : d.owner = x /\ d.until = s.valid_till[x]

ContractInv(s) == Stored(s) /\ Solvent(s) /\ RewardsInOrder(s) /\ Backed(s)

(* What no transaction does: reduce the total deposit, or the effective    *)
(* balance without a payment to a service or a new plan.                   *)
Keeps(s, r) ==
  /\ r.total_deposit >= s.total_deposit
  /\ effectiveBalance(r) < effectiveBalance(s)
     => \/ \E x \in Services : r.balances[x] > s.balances[x]
        \/ r.withdraw_plan.amount > 0 /\ r.withdraw_plan # s.withdraw_plan

(* ... and who else charges the node for path finding.                     *)
NoCharge(s, r) == r.charged = s.charged /\ r.settled_sessions = s.settled_sessions

-----------------------------------------------------------------------------
(* What the constructors require of the parameters.                        *)
LEMMA Limits ==
  /\ Node \notin Services /\ Node \in Accounts /\ Services \subseteq Accounts
  /\ IsFiniteSet(Accounts)
  /\ WholeBalanceLimit \in Nat /\ WithdrawTimeout \in Nat /\ RegistrationDuration \in Nat
  /\ RegistrationDuration > 0 /\ SettleTimeout \in Nat
<1>1. IsFiniteSet(Accounts)
  BY ContractsAssumption, FS_AddElement DEF Accounts
<1> QED BY <1>1, ContractsAssumption DEF Accounts

(* The bound on the nonces.                                                *)
LEMMA MonitorBound == MaxNonce \in Nat
BY ContractsAssumption

(* Min and Max of two numbers.                                             *)
LEMMA MinOfTwo ==
  ASSUME NEW a \in Int, NEW b \in Int
  PROVE  Min({a, b}) = IF a <= b THEN a ELSE b
BY DEF Min

(* Max of two numbers, with which registrations are extended.              *)
LEMMA MaxOfTwo ==
  ASSUME NEW a \in Int, NEW b \in Int
  PROVE  Max({a, b}) = IF a >= b THEN a ELSE b
BY DEF Max

(* r is s with these fields changed.                                       *)
Changes(s, r, changed) ==
  HasFields(r) /\ \A x \in Fields \ changed : r[x] = s[x]

(* Invariants of fields that a transaction does not change.                *)
LEMMA SameBalances ==
  ASSUME NEW s, NEW r, Solvent(s), r.balances = s.balances, r.held = s.held,
         r.whole_balance = s.whole_balance
  PROVE  Solvent(r)
BY DEF Solvent

(* Transactions that leave the channel and its rewards alone.              *)
LEMMA SameRewards ==
  ASSUME NEW s, NEW r, RewardsInOrder(s), r.reward = s.reward, r.rewarded = s.rewarded,
         r.channel = s.channel
  PROVE  RewardsInOrder(r)
BY DEF RewardsInOrder

(* Transactions that leave the registrations alone.                        *)
LEMMA SameBacking ==
  ASSUME NEW s, NEW r, Backed(s), r.deposits = s.deposits, r.valid_till = s.valid_till,
         r.time = s.time, r.deprecated = s.deprecated
  PROVE  Backed(r)
BY DEF Backed, hasValidRegistration

(* One balance changes by d, and so does the sum of the balances.          *)
LEMMA PointChange ==
  ASSUME NEW f \in [Accounts -> Nat], NEW g \in [Accounts -> Nat], NEW a \in Accounts,
         NEW d \in Int, g[a] = f[a] + d, \A y \in Accounts \ {a} : f[y] = g[y]
  PROVE  SumFunction(g) = SumFunction(f) + d /\ SumFunction(f) \in Int
<1>1. f \in [Accounts -> Int] /\ g \in [Accounts -> Int]
  OBVIOUS
<1>2. SumFunction(g) = SumFunction(f) + (g[a] - f[a])
  BY <1>1, Limits, SumChange
<1>3. SumFunction(f) \in Int /\ f[a] \in Int
  BY <1>1, Limits, SumType
<1> QED BY <1>2, <1>3

(* The same of an assignment to one balance.                               *)
LEMMA BalanceChange ==
  ASSUME NEW f \in [Accounts -> Nat], NEW a \in Accounts, NEW d \in Int, f[a] + d >= 0
  PROVE  LET g == [f EXCEPT ![a] = @ + d]
         IN  /\ g \in [Accounts -> Nat] /\ SumFunction(g) = SumFunction(f) + d
             /\ SumFunction(f) \in Int
<1> DEFINE g == [f EXCEPT ![a] = @ + d]
<1>1. g \in [Accounts -> Nat] /\ g[a] = f[a] + d /\ \A y \in Accounts \ {a} : f[y] = g[y]
  OBVIOUS
<1> HIDE DEF g
<1>2. SumFunction(g) = SumFunction(f) + d /\ SumFunction(f) \in Int
  BY <1>1, PointChange
<1> QED BY <1>1, <1>2 DEF g

(* A deposit, of tokens that were counted nowhere before.                  *)
LEMMA DepositEffect ==
  ASSUME NEW s, ContractInv(s), NEW tx, tx.amount \in Nat, depositRequires(s, tx)
  PROVE  /\ ContractInv(deposit(s, tx)) /\ Keeps(s, deposit(s, tx))
         /\ NoCharge(s, deposit(s, tx))
         /\ deposit(s, tx).total_deposit = tx.amount
<1> DEFINE r == deposit(s, tx)
           added == tx.amount - s.total_deposit
<1>1. Stored(s) /\ added \in Nat /\ added > 0 /\ s.whole_balance + added <= WholeBalanceLimit
  BY DEF ContractInv, Stored, depositRequires
<1>2. /\ Changes(s, r, {"balances", "total_deposit", "whole_balance", "held", "wallet"})
      /\ r.balances = [s.balances EXCEPT ![Node] = @ + added]
      /\ r.total_deposit = s.total_deposit + added
      /\ r.whole_balance = s.whole_balance + added
      /\ r.held = s.held + added
  BY <1>1 DEF deposit, Stored, HasFields, Fields, Changes
<1> HIDE DEF r, added
<1>3. /\ HasFields(r) /\ r.time = s.time /\ r.withdraw_plan = s.withdraw_plan
      /\ r.settled_sessions = s.settled_sessions /\ r.charged = s.charged
      /\ r.valid_till = s.valid_till /\ r.deprecated = s.deprecated
      /\ r.deposits = s.deposits /\ r.channel = s.channel
      /\ r.reward = s.reward /\ r.rewarded = s.rewarded
  BY <1>2 DEF Changes, Fields
<1>4. /\ r.balances \in [Accounts -> Nat] /\ SumFunction(s.balances) \in Int
      /\ SumFunction(r.balances) = SumFunction(s.balances) + added
  <2>1. s.balances \in [Accounts -> Nat] /\ s.balances[Node] + added >= 0 /\ added \in Int
    BY <1>1, Limits DEF Stored
  <2> QED BY <1>2, <2>1, Limits, BalanceChange
<1>5. Stored(r)
  <2>1. r.total_deposit \in Nat /\ r.whole_balance \in Nat /\ r.held \in Nat
    BY <1>1, <1>2 DEF Stored
  <2> QED BY <1>1, <1>3, <1>4, <2>1 DEF Stored
<1>6. Solvent(r)
  BY <1>1, <1>2, <1>4 DEF Solvent, ContractInv, Stored
<1>7. RewardsInOrder(r) /\ Backed(r)
  BY <1>3, SameRewards, SameBacking DEF ContractInv
<1>8. r.total_deposit = tx.amount /\ r.total_deposit >= s.total_deposit
  BY <1>1, <1>2 DEF Stored, added
<1>9. ~ (effectiveBalance(r) < effectiveBalance(s))
  <2>1. /\ r.balances[Node] = s.balances[Node] + added /\ s.balances[Node] \in Nat
        /\ s.withdraw_plan.amount \in Nat
    BY <1>1, <1>2, Limits DEF Stored, Plan
  <2> QED BY <1>1, <1>3, <2>1 DEF effectiveBalance
<1> QED BY <1>3, <1>5, <1>6, <1>7, <1>8, <1>9 DEF r, ContractInv, Keeps, NoCharge

(* Transactions that leave balances and plan alone.                        *)
LEMMA SameKeeps ==
  ASSUME NEW s, NEW r, Stored(s), r.total_deposit = s.total_deposit,
         r.balances = s.balances, r.withdraw_plan = s.withdraw_plan
  PROVE  Keeps(s, r)
<1>1. effectiveBalance(s) \in Int /\ effectiveBalance(r) = effectiveBalance(s)
  BY Limits DEF effectiveBalance, Stored, Plan
<1> QED BY <1>1 DEF Keeps, Stored

(* A planned withdraw announces itself, and moves no tokens.               *)
LEMMA PlanEffect ==
  ASSUME NEW s, ContractInv(s), NEW tx, tx.amount \in Nat, planWithdrawRequires(s, tx)
  PROVE  /\ ContractInv(planWithdraw(s, tx)) /\ Keeps(s, planWithdraw(s, tx))
         /\ NoCharge(s, planWithdraw(s, tx))
<1> DEFINE r == planWithdraw(s, tx)
           plan == [amount |-> tx.amount, withdrawable_after |-> s.time + WithdrawTimeout]
<1>1. Stored(s) /\ tx.amount > 0
  BY DEF ContractInv, planWithdrawRequires
<1>2. Changes(s, r, {"withdraw_plan"}) /\ r.withdraw_plan = plan
  BY <1>1 DEF planWithdraw, Stored, HasFields, Fields, Changes
<1>3. plan \in Plan /\ plan.amount > 0
  BY <1>1, Limits DEF Stored, Plan
<1> HIDE DEF r, plan
<1>4. /\ HasFields(r) /\ r.time = s.time /\ r.balances = s.balances
      /\ r.total_deposit = s.total_deposit /\ r.whole_balance = s.whole_balance
      /\ r.held = s.held /\ r.settled_sessions = s.settled_sessions
      /\ r.charged = s.charged /\ r.valid_till = s.valid_till
      /\ r.deprecated = s.deprecated /\ r.deposits = s.deposits
      /\ r.channel = s.channel /\ r.reward = s.reward /\ r.rewarded = s.rewarded
  BY <1>2 DEF Changes, Fields
<1>5. Stored(r)
  BY <1>1, <1>2, <1>3, <1>4 DEF Stored
<1>6. Solvent(r) /\ RewardsInOrder(r) /\ Backed(r)
  BY <1>4, SameBalances, SameRewards, SameBacking DEF ContractInv
<1>7. Keeps(s, r)
  <2>1. CASE plan = s.withdraw_plan
    BY <1>1, <1>2, <1>4, <2>1, SameKeeps
  <2>2. CASE plan # s.withdraw_plan
    BY <1>1, <1>2, <1>3, <1>4, <2>2 DEF Keeps, Stored
  <2> QED BY <2>1, <2>2
<1> QED BY <1>4, <1>5, <1>6, <1>7 DEF r, ContractInv, NoCharge

(* A withdraw takes out what is left of its plan; what the plan does not   *)
(* cover stays.                                                            *)
LEMMA WithdrawEffect ==
  ASSUME NEW s, ContractInv(s), NEW tx, tx.amount \in Nat, withdrawRequires(s, tx)
  PROVE  /\ ContractInv(withdrawHelper(s, tx)) /\ Keeps(s, withdrawHelper(s, tx))
         /\ NoCharge(s, withdrawHelper(s, tx))
<1> DEFINE r == withdrawHelper(s, tx)
           gone == Min({tx.amount, s.balances[Node]})
<1>1. /\ Stored(s) /\ s.balances \in [Accounts -> Nat] /\ s.balances[Node] \in Nat
      /\ tx.amount <= s.withdraw_plan.amount /\ s.withdraw_plan.amount \in Nat
  BY Limits DEF ContractInv, Stored, Plan, withdrawRequires
<1>2. gone \in Nat /\ gone <= tx.amount /\ gone <= s.balances[Node]
  BY <1>1, MinOfTwo
<1>3. /\ Changes(s, r, {"balances", "whole_balance", "withdraw_plan", "wallet", "held"})
      /\ r.balances = [s.balances EXCEPT ![Node] = @ - gone]
      /\ r.whole_balance = s.whole_balance - gone /\ r.held = s.held - gone
      /\ r.withdraw_plan = NoPlan
  BY <1>1 DEF withdrawHelper, Stored, HasFields, Fields, Changes
<1> HIDE DEF r, gone
<1>4. /\ HasFields(r) /\ r.time = s.time /\ r.total_deposit = s.total_deposit
      /\ r.settled_sessions = s.settled_sessions
      /\ r.charged = s.charged /\ r.valid_till = s.valid_till
      /\ r.deprecated = s.deprecated /\ r.deposits = s.deposits
      /\ r.channel = s.channel /\ r.reward = s.reward /\ r.rewarded = s.rewarded
  BY <1>3 DEF Changes, Fields
<1>5. /\ r.balances \in [Accounts -> Nat] /\ SumFunction(s.balances) \in Int
      /\ SumFunction(r.balances) = SumFunction(s.balances) - gone
  <2> DEFINE d == 0 - gone
  <2>1. d \in Int /\ s.balances[Node] + d >= 0
    BY <1>1, <1>2
  <2>2. r.balances = [s.balances EXCEPT ![Node] = @ + d]
    BY <1>1, <1>2, <1>3
  <2> HIDE DEF d
  <2>3. /\ r.balances \in [Accounts -> Nat] /\ SumFunction(s.balances) \in Int
        /\ SumFunction(r.balances) = SumFunction(s.balances) + d
    BY <1>1, <2>1, <2>2, Limits, BalanceChange
  <2> QED BY <1>2, <2>3 DEF d
<1>6. SumFunction(r.balances) >= 0
  BY <1>5, Limits, SumNat
<1>7. Solvent(r) /\ r.whole_balance \in Nat /\ r.held \in Nat
  BY <1>2, <1>3, <1>5, <1>6, Limits DEF Solvent, ContractInv, Stored
<1>8. Stored(r)
  <2>1. r.withdraw_plan \in Plan
    BY <1>3 DEF NoPlan, Plan
  <2> QED BY <1>1, <1>4, <1>5, <1>7, <2>1 DEF Stored
<1>9. RewardsInOrder(r) /\ Backed(r)
  BY <1>4, SameRewards, SameBacking DEF ContractInv
<1>10. Keeps(s, r)
  <2>1. r.balances[Node] = s.balances[Node] - gone /\ r.withdraw_plan.amount = 0
    BY <1>1, <1>3, Limits DEF NoPlan
  <2>2. ~ (effectiveBalance(r) < effectiveBalance(s))
    BY <1>1, <1>2, <2>1, MinOfTwo DEF effectiveBalance, gone
  <2> QED BY <1>1, <1>4, <2>2 DEF Keeps, Stored
<1> QED BY <1>4, <1>7, <1>8, <1>9, <1>10 DEF r, ContractInv, NoCharge

(* Steps that do not touch UserDeposit.                                    *)
Quiet(s, r) ==
  /\ HasFields(r) /\ r.balances = s.balances /\ r.total_deposit = s.total_deposit
  /\ r.whole_balance = s.whole_balance /\ r.held = s.held
  /\ r.withdraw_plan = s.withdraw_plan /\ NoCharge(s, r)

(* Transactions that move no tokens of UserDeposit and change no plan.     *)
LEMMA QuietEffect ==
  ASSUME NEW s, ContractInv(s), NEW r, Quiet(s, r), r.time \in Nat,
         r.valid_till \in [Services -> Nat], r.deprecated \in BOOLEAN,
         r.channel \in ChannelRecord, r.reward \in RewardRecord,
         r.rewarded \in [1..MaxNonce -> Nat], RewardsInOrder(r), Backed(r)
  PROVE  ContractInv(r) /\ Keeps(s, r)
<1>1. Stored(r)
  BY DEF ContractInv, Stored, Quiet, NoCharge
<1>2. Solvent(r)
  BY SameBalances DEF ContractInv, Quiet
<1>3. Keeps(s, r)
  BY SameKeeps DEF ContractInv, Quiet
<1> QED BY <1>1, <1>2, <1>3 DEF ContractInv

(* The registration that is extended is backed by a new deposit.           *)
LEMMA RegisterEffect ==
  ASSUME NEW s, ContractInv(s), NEW tx, tx.by \in Services
  PROVE  /\ ContractInv(register(s, tx)) /\ Keeps(s, register(s, tx))
         /\ NoCharge(s, register(s, tx))
<1> DEFINE r == register(s, tx)
           until == Max({s.valid_till[tx.by], s.time}) + RegistrationDuration
           new == [owner |-> tx.by, until |-> until, amount |-> currentPrice(s)]
<1>1. Stored(s) /\ s.valid_till \in [Services -> Nat] /\ s.time \in Nat
  BY DEF ContractInv, Stored
<1>2. until \in Nat
  <2>1. s.valid_till[tx.by] \in Nat
    BY <1>1
  <2>2. Max({s.valid_till[tx.by], s.time}) \in Nat
    BY <1>1, <2>1, MaxOfTwo
  <2> QED BY <2>2, Limits
<1>3. /\ Changes(s, r, {"valid_till", "set_price", "set_price_at", "deposits", "wallet"})
      /\ r.valid_till = [s.valid_till EXCEPT ![tx.by] = until]
      /\ r.deposits = s.deposits \cup {new}
  BY <1>1 DEF register, Stored, HasFields, Fields, Changes
<1>4. new.owner = tx.by /\ new.until = until
  OBVIOUS
<1> HIDE DEF r, until, new
<1>5. /\ Quiet(s, r) /\ r.time = s.time /\ r.deprecated = s.deprecated
      /\ r.channel = s.channel /\ r.reward = s.reward /\ r.rewarded = s.rewarded
  BY <1>3 DEF Changes, Fields, Quiet, NoCharge
<1>6. r.valid_till \in [Services -> Nat]
  BY <1>1, <1>2, <1>3
<1>7. Backed(r)
  <2> SUFFICES ASSUME NEW x \in Services, hasValidRegistration(r, x), ~r.deprecated
               PROVE  \E d \in r.deposits : d.owner = x /\ d.until = r.valid_till[x]
    BY DEF Backed
  <2>1. CASE x = tx.by
    BY <1>1, <1>3, <1>4, <2>1
  <2>2. CASE x # tx.by
    <3>1. r.valid_till[x] = s.valid_till[x]
      BY <1>1, <1>3, <2>2
    <3> QED BY <1>3, <1>5, <3>1 DEF ContractInv, Backed, hasValidRegistration
  <2> QED BY <2>1, <2>2
<1>8. RewardsInOrder(r)
  BY <1>5, SameRewards DEF ContractInv
<1>9. /\ r.time \in Nat /\ r.deprecated \in BOOLEAN /\ r.channel \in ChannelRecord
      /\ r.reward \in RewardRecord /\ r.rewarded \in [1..MaxNonce -> Nat]
  BY <1>1, <1>5 DEF Stored
<1>10. ContractInv(r) /\ Keeps(s, r)
  BY <1>5, <1>6, <1>7, <1>8, <1>9, QuietEffect
<1> QED BY <1>5, <1>10 DEF r, Quiet

(* Only deposits whose registration is over, or all if deprecated, are     *)
(* released.                                                               *)
LEMMA ReleaseEffect ==
  ASSUME NEW s, ContractInv(s), NEW tx, releaseRequires(s, tx)
  PROVE  /\ ContractInv(release(s, tx)) /\ Keeps(s, release(s, tx))
         /\ NoCharge(s, release(s, tx))
<1> DEFINE r == release(s, tx)
           mine == {d \in s.deposits : d.owner = tx.by /\ d.until = tx.number}
<1>1. Stored(s)
  BY DEF ContractInv
<1>2. Changes(s, r, {"deposits", "wallet"}) /\ r.deposits = s.deposits \ mine
  BY <1>1 DEF release, Stored, HasFields, Fields, Changes
<1> HIDE DEF r
<1>3. /\ Quiet(s, r) /\ r.time = s.time /\ r.deprecated = s.deprecated
      /\ r.channel = s.channel /\ r.reward = s.reward /\ r.rewarded = s.rewarded
      /\ r.valid_till = s.valid_till
  BY <1>2 DEF Changes, Fields, Quiet, NoCharge
<1>4. Backed(r)
  <2> SUFFICES ASSUME NEW x \in Services, hasValidRegistration(r, x), ~r.deprecated
               PROVE  \E d \in r.deposits : d.owner = x /\ d.until = r.valid_till[x]
    BY DEF Backed
  <2>1. PICK d \in s.deposits : d.owner = x /\ d.until = s.valid_till[x]
    BY <1>3 DEF ContractInv, Backed, hasValidRegistration
  <2>2. s.time < s.valid_till[x] /\ s.time >= tx.number
    BY <1>3 DEF hasValidRegistration, releaseRequires
  <2>3. s.time \in Nat /\ s.valid_till[x] \in Nat
    BY <1>1 DEF Stored
  <2>4. d \notin mine
    BY <2>1, <2>2, <2>3
  <2> QED BY <1>2, <1>3, <2>1, <2>4
<1>5. RewardsInOrder(r)
  BY <1>3, SameRewards DEF ContractInv
<1>6. /\ r.time \in Nat /\ r.deprecated \in BOOLEAN /\ r.channel \in ChannelRecord
      /\ r.reward \in RewardRecord /\ r.rewarded \in [1..MaxNonce -> Nat]
      /\ r.valid_till \in [Services -> Nat]
  BY <1>1, <1>3 DEF Stored
<1>7. ContractInv(r) /\ Keeps(s, r)
  BY <1>3, <1>4, <1>5, <1>6, QuietEffect
<1> QED BY <1>3, <1>7 DEF r, Quiet

(* Deprecating the registry, and a new block.                              *)
LEMMA DeprecateEffect ==
  ASSUME NEW s, ContractInv(s)
  PROVE  LET r == [s EXCEPT !.deprecated = TRUE]
         IN  ContractInv(r) /\ Keeps(s, r) /\ NoCharge(s, r)
<1> DEFINE r == [s EXCEPT !.deprecated = TRUE]
<1>1. Stored(s)
  BY DEF ContractInv
<1>2. Changes(s, r, {"deprecated"}) /\ r.deprecated = TRUE
  BY <1>1 DEF Stored, HasFields, Fields, Changes
<1> HIDE DEF r
<1>3. /\ Quiet(s, r) /\ r.time = s.time /\ r.valid_till = s.valid_till
      /\ r.channel = s.channel /\ r.reward = s.reward /\ r.rewarded = s.rewarded
  BY <1>2 DEF Changes, Fields, Quiet, NoCharge
<1>4. Backed(r)
  BY <1>2 DEF Backed
<1>5. RewardsInOrder(r)
  BY <1>3, SameRewards DEF ContractInv
<1>6. /\ r.time \in Nat /\ r.deprecated \in BOOLEAN /\ r.channel \in ChannelRecord
      /\ r.reward \in RewardRecord /\ r.rewarded \in [1..MaxNonce -> Nat]
      /\ r.valid_till \in [Services -> Nat]
  BY <1>1, <1>2, <1>3 DEF Stored
<1>7. ContractInv(r) /\ Keeps(s, r)
  BY <1>3, <1>4, <1>5, <1>6, QuietEffect
<1> QED BY <1>3, <1>7 DEF r, Quiet

(* Time passes: a registration may end, and its deposit be released.       *)
LEMMA BlockEffect ==
  ASSUME NEW s, ContractInv(s)
  PROVE  LET r == [s EXCEPT !.time = @ + 1]
         IN  ContractInv(r) /\ Keeps(s, r) /\ NoCharge(s, r)
<1> DEFINE r == [s EXCEPT !.time = @ + 1]
<1>1. Stored(s)
  BY DEF ContractInv
<1>2. Changes(s, r, {"time"}) /\ r.time = s.time + 1
  BY <1>1 DEF Stored, HasFields, Fields, Changes
<1> HIDE DEF r
<1>3. /\ Quiet(s, r) /\ r.deprecated = s.deprecated /\ r.valid_till = s.valid_till
      /\ r.channel = s.channel /\ r.reward = s.reward /\ r.rewarded = s.rewarded
      /\ r.deposits = s.deposits
  BY <1>2 DEF Changes, Fields, Quiet, NoCharge
<1>4. Backed(r)
  <2> SUFFICES ASSUME NEW x \in Services, hasValidRegistration(r, x), ~r.deprecated
               PROVE  \E d \in r.deposits : d.owner = x /\ d.until = r.valid_till[x]
    BY DEF Backed
  <2>1. hasValidRegistration(s, x)
    BY <1>1, <1>2, <1>3 DEF hasValidRegistration, Stored
  <2> QED BY <1>3, <2>1 DEF ContractInv, Backed
<1>5. RewardsInOrder(r)
  BY <1>3, SameRewards DEF ContractInv
<1>6. /\ r.time \in Nat /\ r.deprecated \in BOOLEAN /\ r.channel \in ChannelRecord
      /\ r.reward \in RewardRecord /\ r.rewarded \in [1..MaxNonce -> Nat]
      /\ r.valid_till \in [Services -> Nat]
  BY <1>1, <1>2, <1>3 DEF Stored
<1>7. ContractInv(r) /\ Keeps(s, r)
  BY <1>3, <1>4, <1>5, <1>6, QuietEffect
<1> QED BY <1>3, <1>7 DEF r, Quiet

(* A transaction of TokenNetwork or MonitoringService that pays nobody.    *)
LEMMA ChannelEffect ==
  ASSUME NEW s, ContractInv(s), NEW r, Changes(s, r, {"channel", "reward"}),
         r.channel \in ChannelRecord, r.reward \in RewardRecord, RewardsInOrder(r)
  PROVE  ContractInv(r) /\ Keeps(s, r) /\ NoCharge(s, r)
<1>1. Stored(s)
  BY DEF ContractInv
<1>2. /\ Quiet(s, r) /\ r.time = s.time /\ r.deprecated = s.deprecated
      /\ r.valid_till = s.valid_till /\ r.deposits = s.deposits /\ r.rewarded = s.rewarded
  BY DEF Changes, Fields, Quiet, NoCharge
<1>3. Backed(r)
  BY <1>2, SameBacking DEF ContractInv
<1>4. /\ r.time \in Nat /\ r.deprecated \in BOOLEAN
      /\ r.rewarded \in [1..MaxNonce -> Nat] /\ r.valid_till \in [Services -> Nat]
  BY <1>1, <1>2 DEF Stored
<1>5. ContractInv(r) /\ Keeps(s, r)
  BY <1>2, <1>3, <1>4, QuietEffect
<1> QED BY <1>2, <1>5 DEF Quiet

(* The partner closes the channel.                                         *)
LEMMA CloseEffect ==
  ASSUME NEW s, ContractInv(s), s.channel.state = "opened"
  PROVE  LET r == [s EXCEPT !.channel = [state |-> "closed", nonce |-> 0,
                                         settleable_after |-> s.time + SettleTimeout]]
         IN  ContractInv(r) /\ Keeps(s, r) /\ NoCharge(s, r)
<1> DEFINE ch == [state |-> "closed", nonce |-> 0, settleable_after |-> s.time + SettleTimeout]
           r == [s EXCEPT !.channel = ch]
<1>1. Stored(s) /\ RewardsInOrder(s)
  BY DEF ContractInv
<1>2. ch \in ChannelRecord /\ ch.nonce = 0 /\ ch.state = "closed"
  BY <1>1, Limits DEF ChannelRecord, Stored
<1> HIDE DEF ch
<1>3. Changes(s, r, {"channel", "reward"}) /\ r.channel = ch /\ r.reward = s.reward
      /\ r.rewarded = s.rewarded
  BY <1>1 DEF Stored, HasFields, Fields, Changes
<1> HIDE DEF r
<1>4. RewardsInOrder(r)
  BY <1>1, <1>2, <1>3 DEF RewardsInOrder
<1>5. r.channel \in ChannelRecord /\ r.reward \in RewardRecord
  BY <1>1, <1>2, <1>3 DEF Stored
<1>6. ContractInv(r) /\ Keeps(s, r) /\ NoCharge(s, r)
  BY <1>3, <1>4, <1>5, ChannelEffect
<1> QED BY <1>6 DEF r, ch

(* The node submits the partner's balance proof itself.                    *)
LEMMA UpdateEffect ==
  ASSUME NEW s, ContractInv(s), NEW tx, tx.number \in Nat,
         updateNonClosingBalanceProofRequires(s, tx)
  PROVE  LET r == [s EXCEPT !.channel.nonce = tx.number]
         IN  ContractInv(r) /\ Keeps(s, r) /\ NoCharge(s, r)
<1> DEFINE ch == [s.channel EXCEPT !.nonce = tx.number]
           r == [s EXCEPT !.channel = ch]
<1>1. /\ Stored(s) /\ RewardsInOrder(s) /\ s.channel \in ChannelRecord
      /\ s.channel.state = "closed" /\ tx.number > s.channel.nonce
  BY DEF ContractInv, Stored, updateNonClosingBalanceProofRequires
<1>2. /\ ch \in ChannelRecord /\ ch.nonce = tx.number /\ ch.state = "closed"
      /\ s.channel.nonce \in Nat
  BY <1>1 DEF ChannelRecord
<1> HIDE DEF ch
<1>3. Changes(s, r, {"channel", "reward"}) /\ r.channel = ch /\ r.reward = s.reward
      /\ r.rewarded = s.rewarded
  BY <1>1 DEF Stored, HasFields, Fields, Changes
<1> HIDE DEF r
<1>4. RewardsInOrder(r)
  BY <1>1, <1>2, <1>3, MonitorBound DEF RewardsInOrder
<1>5. r.channel \in ChannelRecord /\ r.reward \in RewardRecord
  BY <1>1, <1>2, <1>3 DEF Stored
<1>6. ContractInv(r) /\ Keeps(s, r) /\ NoCharge(s, r)
  BY <1>3, <1>4, <1>5, ChannelEffect
<1> QED BY <1>6 DEF r, ch

(* The channel is settled.                                                 *)
LEMMA SettleEffect ==
  ASSUME NEW s, ContractInv(s), s.channel.state = "closed"
  PROVE  LET r == [s EXCEPT !.channel.state = "settled", !.channel.settleable_after = 0]
         IN  ContractInv(r) /\ Keeps(s, r) /\ NoCharge(s, r)
<1> DEFINE r == [s EXCEPT !.channel.state = "settled", !.channel.settleable_after = 0]
           ch == r.channel
<1>1. Stored(s) /\ RewardsInOrder(s) /\ s.channel \in ChannelRecord
  BY DEF ContractInv, Stored
<1>2. /\ Changes(s, r, {"channel", "reward"}) /\ r.reward = s.reward
      /\ r.rewarded = s.rewarded
      /\ ch = [[s.channel EXCEPT !.state = "settled"] EXCEPT !.settleable_after = 0]
  BY <1>1 DEF Stored, HasFields, Fields, Changes
<1> HIDE DEF r
<1>3. ch \in ChannelRecord /\ ch.nonce = s.channel.nonce /\ ch.state = "settled"
  <2> HIDE DEF ch
  <2> QED BY <1>1, <1>2 DEF ChannelRecord
<1>4. RewardsInOrder(r)
  BY <1>1, <1>2, <1>3 DEF RewardsInOrder
<1>5. r.channel \in ChannelRecord /\ r.reward \in RewardRecord
  BY <1>1, <1>2, <1>3 DEF Stored
<1>6. ContractInv(r) /\ Keeps(s, r) /\ NoCharge(s, r)
  BY <1>2, <1>4, <1>5, ChannelEffect
<1> QED BY <1>6 DEF r

(* A balance proof that is submitted for a reward is newer than any that   *)
(* was rewarded.                                                           *)
LEMMA MonitorEffect ==
  ASSUME NEW s, ContractInv(s), NEW tx, tx.number \in 1..MaxNonce, tx.amount \in Nat,
         tx.by \in Services, monitorRequires(s, tx)
  PROVE  /\ ContractInv(monitor(s, tx)) /\ Keeps(s, monitor(s, tx))
         /\ NoCharge(s, monitor(s, tx))
<1> DEFINE r == monitor(s, tx)
           ch == [s.channel EXCEPT !.nonce = tx.number]
           new == [amount |-> tx.amount, nonce |-> tx.number, service |-> tx.by]
<1>1. /\ Stored(s) /\ RewardsInOrder(s) /\ s.channel \in ChannelRecord
      /\ s.channel.state = "closed" /\ tx.number > s.channel.nonce
  BY DEF ContractInv, Stored, monitorRequires, updateNonClosingBalanceProofRequires
<1>2. /\ ch \in ChannelRecord /\ ch.nonce = tx.number /\ ch.state = "closed"
      /\ s.channel.nonce \in Nat
  BY <1>1, MonitorBound DEF ChannelRecord
<1>3. /\ new \in RewardRecord /\ new.nonce = tx.number /\ new.service = tx.by
  BY Limits, MonitorBound DEF RewardRecord
<1>4. /\ Changes(s, r, {"channel", "reward"}) /\ r.channel = ch /\ r.reward = new
      /\ r.rewarded = s.rewarded
  BY <1>1 DEF monitor, Stored, HasFields, Fields, Changes
<1> HIDE DEF r, ch, new
<1>5. RewardsInOrder(r)
  BY <1>1, <1>2, <1>3, <1>4, MonitorBound DEF RewardsInOrder
<1>6. ContractInv(r) /\ Keeps(s, r) /\ NoCharge(s, r)
  BY <1>2, <1>3, <1>4, <1>5, ChannelEffect
<1> QED BY <1>6 DEF r

(* Tokens move inside UserDeposit, from the node to a service.             *)
LEMMA TransferEffect ==
  ASSUME NEW s, Stored(s), Solvent(s), NEW x \in Services, NEW amount \in Nat,
         amount > 0, amount <= s.balances[Node]
  PROVE  LET r == transfer(s, Node, x, amount)
         IN  /\ Changes(s, r, {"balances"}) /\ Stored(r) /\ Solvent(r) /\ Keeps(s, r)
<1> DEFINE r == transfer(s, Node, x, amount)
           mid == [s.balances EXCEPT ![Node] = @ - amount]
<1>1. /\ s.balances \in [Accounts -> Nat] /\ s.balances[Node] \in Nat
      /\ Node \in Accounts /\ x \in Accounts /\ x # Node
  BY Limits DEF Stored
<1>2. Changes(s, r, {"balances"}) /\ r.balances = [mid EXCEPT ![x] = @ + amount]
  <2> DEFINE new == [mid EXCEPT ![x] = @ + amount]
  <2>1. r = [s EXCEPT !.balances = new]
    BY <1>1 DEF transfer
  <2> HIDE DEF new, r, mid
  <2>2. Changes(s, r, {"balances"}) /\ r.balances = new
    BY <2>1 DEF Stored, HasFields, Fields, Changes
  <2> QED BY <2>2 DEF new
<1>3. /\ mid \in [Accounts -> Nat] /\ SumFunction(s.balances) \in Int
      /\ SumFunction(mid) = SumFunction(s.balances) - amount
      /\ mid[x] = s.balances[x]
  <2> DEFINE d == 0 - amount
  <2>1. d \in Int /\ s.balances[Node] + d >= 0
    BY <1>1
  <2>2. mid = [s.balances EXCEPT ![Node] = @ + d] /\ mid[x] = s.balances[x]
    BY <1>1
  <2> HIDE DEF d, mid
  <2>3. /\ mid \in [Accounts -> Nat] /\ SumFunction(s.balances) \in Int
        /\ SumFunction(mid) = SumFunction(s.balances) + d
    BY <1>1, <2>1, <2>2, BalanceChange
  <2> QED BY <2>2, <2>3 DEF d
<1> HIDE DEF r, mid
<1>4. /\ r.balances \in [Accounts -> Nat]
      /\ SumFunction(r.balances) = SumFunction(mid) + amount
  <2>1. /\ r.balances \in [Accounts -> Nat] /\ r.balances[x] = mid[x] + amount
        /\ \A y \in Accounts \ {x} : mid[y] = r.balances[y]
    BY <1>1, <1>2, <1>3
  <2> DEFINE d == amount
             new == r.balances
  <2>2. /\ d \in Int /\ new \in [Accounts -> Nat] /\ new[x] = mid[x] + d
        /\ \A y \in Accounts \ {x} : mid[y] = new[y]
    BY <2>1
  <2> HIDE DEF d, new
  <2>3. SumFunction(new) = SumFunction(mid) + d
    BY <1>1, <1>3, <2>2, PointChange
  <2> QED BY <2>1, <2>3 DEF d, new
<1>5. SumFunction(r.balances) = SumFunction(s.balances)
  BY <1>3, <1>4
<1>6. /\ HasFields(r) /\ r.time = s.time /\ r.total_deposit = s.total_deposit
      /\ r.whole_balance = s.whole_balance /\ r.held = s.held
      /\ r.withdraw_plan = s.withdraw_plan
      /\ r.charged = s.charged /\ r.valid_till = s.valid_till
      /\ r.deprecated = s.deprecated
      /\ r.channel = s.channel /\ r.reward = s.reward /\ r.rewarded = s.rewarded
  BY <1>2 DEF Changes, Fields
<1>7. Stored(r)
  BY <1>4, <1>6 DEF Stored
<1>8. Solvent(r)
  BY <1>5, <1>6 DEF Solvent
<1>9. Keeps(s, r)
  <2>1. r.balances[x] > s.balances[x]
    BY <1>1, <1>2, <1>3
  <2> QED BY <1>6, <2>1 DEF Keeps, Stored
<1> QED BY <1>2, <1>7, <1>8, <1>9 DEF r

(* A claim of an IOU charges the node at most its amount, once a session.  *)
LEMMA ClaimEffect ==
  ASSUME NEW s, ContractInv(s), NEW tx, tx.by \in Services, tx.amount \in Nat
  PROVE  /\ ContractInv(claim(s, tx)) /\ Keeps(s, claim(s, tx))
         /\ \/ claim(s, tx) = s
            \/ /\ claim(s, tx).charged <= s.charged + tx.amount
               /\ claim(s, tx).settled_sessions
                    = s.settled_sessions \cup {[receiver |-> tx.by, until |-> tx.number]}
<1> DEFINE r == claim(s, tx)
           paid == Min({tx.amount, s.balances[Node]})
           sessions == s.settled_sessions \cup {[receiver |-> tx.by, until |-> tx.number]}
           mid == [s EXCEPT !.settled_sessions = sessions, !.charged = @ + paid]
<1>1. /\ Stored(s) /\ Solvent(s) /\ RewardsInOrder(s) /\ Backed(s)
      /\ s.balances \in [Accounts -> Nat] /\ s.balances[Node] \in Nat
  BY Limits DEF ContractInv, Stored
<1>2. paid \in Nat /\ paid <= tx.amount /\ paid <= s.balances[Node]
  BY <1>1, MinOfTwo
<1>3. CASE paid = 0
  <2>1. r = s
    BY <1>3 DEF claim
  <2>2. Keeps(s, s)
    BY <1>1, SameKeeps
  <2> QED BY <2>1, <2>2
<1>4. CASE paid > 0
  <2>1. r = transfer(mid, Node, tx.by, paid)
    BY <1>2, <1>4 DEF claim
  <2>2. /\ Changes(s, mid, {"settled_sessions", "charged"})
        /\ mid.settled_sessions = sessions /\ mid.charged = s.charged + paid
    BY <1>1 DEF Stored, HasFields, Fields, Changes
  <2> HIDE DEF mid, paid, sessions, r
  <2>3. /\ HasFields(mid) /\ mid.time = s.time /\ mid.total_deposit = s.total_deposit
        /\ mid.balances = s.balances
        /\ mid.whole_balance = s.whole_balance /\ mid.held = s.held
        /\ mid.withdraw_plan = s.withdraw_plan
        /\ mid.valid_till = s.valid_till /\ mid.deposits = s.deposits
        /\ mid.deprecated = s.deprecated
        /\ mid.channel = s.channel /\ mid.reward = s.reward /\ mid.rewarded = s.rewarded
    BY <2>2 DEF Changes, Fields
  <2>4. mid.charged \in Nat
    BY <1>1, <1>2, <2>2 DEF Stored
  <2>5. Stored(mid) /\ Solvent(mid)
    BY <1>1, <2>3, <2>4, SameBalances DEF Stored
  <2>6. Changes(mid, r, {"balances"}) /\ Stored(r) /\ Solvent(r) /\ Keeps(mid, r)
    BY <1>2, <1>4, <2>1, <2>3, <2>5, TransferEffect
  <2>7. /\ r.time = mid.time /\ r.total_deposit = mid.total_deposit
        /\ r.charged = mid.charged /\ r.valid_till = mid.valid_till
        /\ r.deprecated = mid.deprecated /\ r.deposits = mid.deposits
        /\ r.channel = mid.channel /\ r.reward = mid.reward /\ r.rewarded = mid.rewarded
        /\ r.settled_sessions = mid.settled_sessions
    BY <2>6 DEF Changes, Fields
  <2>8. RewardsInOrder(r) /\ Backed(r)
    BY <1>1, <2>3, <2>7, SameRewards, SameBacking
  <2>9. Keeps(s, r)
    BY <2>3, <2>6 DEF Keeps, effectiveBalance
  <2>10. r.charged <= s.charged + tx.amount
    BY <1>1, <1>2, <2>2, <2>7 DEF Stored
  <2> QED BY <2>2, <2>6, <2>7, <2>8, <2>9, <2>10 DEF r, sessions, ContractInv
<1> QED BY <1>2, <1>3, <1>4

(* A reward is paid once, and only for the balance proof it was for.       *)
LEMMA RewardEffect ==
  ASSUME NEW s, ContractInv(s), NEW tx, claimRewardRequires(s, tx)
  PROVE  /\ ContractInv(claimReward(s, tx)) /\ Keeps(s, claimReward(s, tx))
         /\ NoCharge(s, claimReward(s, tx))
<1> DEFINE r == claimReward(s, tx)
           n == s.reward.nonce
           mid == transfer(s, Node, s.reward.service, s.reward.amount)
<1>1. /\ Stored(s) /\ Solvent(s) /\ RewardsInOrder(s) /\ Backed(s)
      /\ s.reward # NoReward /\ s.channel.state # "opened"
      /\ s.reward.amount \in Nat /\ s.reward.amount > 0
      /\ s.reward.amount <= s.balances[Node]
      /\ s.rewarded \in [1..MaxNonce -> Nat]
  BY Limits DEF ContractInv, Stored, claimRewardRequires, transferRequires, RewardRecord
<1>2. /\ s.reward.service \in Services /\ n \in 1..MaxNonce
      /\ n <= s.channel.nonce /\ s.rewarded[n] = 0
  BY <1>1 DEF RewardsInOrder
<1>3. Changes(s, mid, {"balances"}) /\ Stored(mid) /\ Solvent(mid) /\ Keeps(s, mid)
  BY <1>1, <1>2, TransferEffect
<1>4. r = [mid EXCEPT !.reward = NoReward, !.rewarded[n] = @ + 1]
  BY DEF claimReward
<1> HIDE DEF mid, r
<1>5. /\ mid.time = s.time /\ mid.total_deposit = s.total_deposit
      /\ mid.valid_till = s.valid_till /\ mid.deposits = s.deposits
      /\ mid.deprecated = s.deprecated /\ mid.charged = s.charged
      /\ mid.channel = s.channel /\ mid.rewarded = s.rewarded
      /\ mid.settled_sessions = s.settled_sessions
  BY <1>3 DEF Changes, Fields
<1>6. /\ Changes(mid, r, {"reward", "rewarded"}) /\ r.reward = NoReward
      /\ r.rewarded = [mid.rewarded EXCEPT ![n] = @ + 1]
  BY <1>3, <1>4 DEF Stored, HasFields, Fields, Changes
<1>7. /\ HasFields(r) /\ r.time = mid.time /\ r.total_deposit = mid.total_deposit
      /\ r.balances = mid.balances
      /\ r.whole_balance = mid.whole_balance /\ r.held = mid.held
      /\ r.withdraw_plan = mid.withdraw_plan
      /\ r.valid_till = mid.valid_till /\ r.deposits = mid.deposits
      /\ r.deprecated = mid.deprecated /\ r.charged = mid.charged
      /\ r.channel = mid.channel /\ r.settled_sessions = mid.settled_sessions
  BY <1>6 DEF Changes, Fields
<1> HIDE DEF n
<1>8. r.rewarded \in [1..MaxNonce -> Nat] /\ r.reward \in RewardRecord
  BY <1>1, <1>2, <1>5, <1>6, Limits DEF RewardRecord, NoReward
<1>9. Stored(r)
  BY <1>3, <1>7, <1>8 DEF Stored
<1>10. Solvent(r)
  BY <1>3, <1>7, SameBalances
<1>11. RewardsInOrder(r)
  <2>1. \A k \in 1..MaxNonce : r.rewarded[k] = IF k = n THEN 1 ELSE s.rewarded[k]
    <3>1. r.rewarded = [s.rewarded EXCEPT ![n] = s.rewarded[n] + 1]
      BY <1>5, <1>6
    <3>2. s.rewarded[n] + 1 = 1
      BY <1>2
    <3> QED BY <1>1, <1>2, <3>1, <3>2
  <2>2. r.channel = s.channel /\ s.channel.nonce \in Nat
    BY <1>1, <1>5, <1>7 DEF Stored, ChannelRecord
  <2>3. \A k \in 1..MaxNonce : k > s.channel.nonce => s.rewarded[k] = 0 /\ k # n
    BY <1>1, <1>2, <2>2, MonitorBound DEF RewardsInOrder
  <2>4. \A k \in 1..MaxNonce : s.rewarded[k] <= 1
    BY <1>1 DEF RewardsInOrder
  <2> QED BY <1>1, <1>6, <2>1, <2>2, <2>3, <2>4 DEF RewardsInOrder
<1>12. Backed(r)
  BY <1>1, <1>5, <1>7, SameBacking
<1>13. Keeps(s, r)
  BY <1>3, <1>7 DEF Keeps, effectiveBalance
<1>14. NoCharge(s, r)
  BY <1>5, <1>7 DEF NoCharge
<1> QED BY <1>9, <1>10, <1>11, <1>12, <1>13, <1>14 DEF r, ContractInv

-----------------------------------------------------------------------------
(* All of them together.                                                   *)

Operations == {"deposit", "planWithdraw", "withdraw", "register", "release", "deprecate",
               "claim", "close", "update", "settle", "monitor", "claimReward"}

WellFormed(tx) ==
  /\ tx.op \in Operations /\ tx.amount \in Nat
  /\ tx.op \in {"register", "claim", "monitor"} => tx.by \in Services
  /\ tx.op = "update" => tx.number \in Nat
  /\ tx.op = "monitor" => tx.number \in 1..MaxNonce

(* A transaction that does not revert preserves the invariant of the       *)
(* contracts, and only the claim of an IOU charges the node.               *)
LEMMA TxEffect ==
  ASSUME NEW s, ContractInv(s), NEW tx, WellFormed(tx), Requires(s, tx)
  PROVE  /\ ContractInv(Effect(s, tx)) /\ Keeps(s, Effect(s, tx))
         /\ tx.op # "claim" => NoCharge(s, Effect(s, tx))
<1>0. tx.op \in Operations /\ tx.amount \in Nat
  BY DEF WellFormed
<1>1. CASE tx.op = "deposit"
  <2>1. depositRequires(s, tx) /\ Effect(s, tx) = deposit(s, tx)
    BY <1>1 DEF Requires, Effect
  <2> QED BY <1>0, <2>1, DepositEffect
<1>2. CASE tx.op = "planWithdraw"
  <2>1. planWithdrawRequires(s, tx) /\ Effect(s, tx) = planWithdraw(s, tx)
    BY <1>2 DEF Requires, Effect
  <2> QED BY <1>0, <2>1, PlanEffect
<1>3. CASE tx.op = "withdraw"
  <2>1. withdrawRequires(s, tx) /\ Effect(s, tx) = withdrawHelper(s, tx)
    BY <1>3 DEF Requires, Effect
  <2> QED BY <1>0, <2>1, WithdrawEffect
<1>4. CASE tx.op = "register"
  <2>1. tx.by \in Services /\ Effect(s, tx) = register(s, tx)
    BY <1>4 DEF WellFormed, Effect
  <2> QED BY <2>1, RegisterEffect
<1>5. CASE tx.op = "release"
  <2>1. releaseRequires(s, tx) /\ Effect(s, tx) = release(s, tx)
    BY <1>5 DEF Requires, Effect
  <2> QED BY <2>1, ReleaseEffect
<1>6. CASE tx.op = "deprecate"
  <2>1. Effect(s, tx) = [s EXCEPT !.deprecated = TRUE]
    BY <1>6 DEF Effect
  <2> QED BY <2>1, DeprecateEffect
<1>7. CASE tx.op = "claim"
  <2>1. tx.by \in Services /\ Effect(s, tx) = claim(s, tx)
    BY <1>7 DEF WellFormed, Effect
  <2> QED BY <1>0, <1>7, <2>1, ClaimEffect
<1>8. CASE tx.op = "close"
  <2>1. /\ s.channel.state = "opened"
        /\ Effect(s, tx) = [s EXCEPT !.channel = [state |-> "closed", nonce |-> 0,
                                                  settleable_after |-> s.time + SettleTimeout]]
    BY <1>8 DEF Requires, Effect
  <2> QED BY <2>1, CloseEffect
<1>9. CASE tx.op = "update"
  <2>1. /\ tx.number \in Nat /\ updateNonClosingBalanceProofRequires(s, tx)
        /\ Effect(s, tx) = [s EXCEPT !.channel.nonce = tx.number]
    BY <1>9 DEF WellFormed, Requires, Effect
  <2> QED BY <2>1, UpdateEffect
<1>10. CASE tx.op = "settle"
  <2>1. /\ s.channel.state = "closed"
        /\ Effect(s, tx) = [s EXCEPT !.channel.state = "settled", !.channel.settleable_after = 0]
    BY <1>10 DEF Requires, Effect
  <2> QED BY <2>1, SettleEffect
<1>11. CASE tx.op = "monitor"
  <2>1. /\ tx.number \in 1..MaxNonce /\ tx.by \in Services /\ monitorRequires(s, tx)
        /\ Effect(s, tx) = monitor(s, tx)
    BY <1>11 DEF WellFormed, Requires, Effect
  <2> QED BY <1>0, <2>1, MonitorEffect
<1>12. CASE tx.op = "claimReward"
  <2>1. claimRewardRequires(s, tx) /\ Effect(s, tx) = claimReward(s, tx)
    BY <1>12 DEF Requires, Effect
  <2> QED BY <2>1, RewardEffect
<1> QED BY <1>0, <1>1, <1>2, <1>3, <1>4, <1>5, <1>6, <1>7, <1>8, <1>9, <1>10, <1>11, <1>12
        DEF Operations
=============================================================================
