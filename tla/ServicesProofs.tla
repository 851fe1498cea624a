--------------------------- MODULE ServicesProofs ---------------------------
(***************************************************************************)
(* The properties of Services, for any number of services, greenlets and   *)
(* payments, any prices, deposits and timeouts, and any scenario.          *)
(***************************************************************************)
EXTENDS Services, ServiceContractsProofs

IOUs == [amount : Nat, until : Nat]

Results == {"none", "broken", "success", "increased", "allowance", "balance",
            "not increased", "limit", "plan", "early", "underflow", "unknown"}

Calls ==
  [op : {"none", "deposit", "planWithdraw", "withdraw"}, amount : Nat, allowance : Int,
   pc : {"idle", "called", "joined", "sent", "done"}, on : SUBSET Threads, result : Results]

(* A deposit of at least this total was called for in o.                   *)
DepositOf(calls, o, total) ==
  calls[o].op = "deposit" /\ calls[o].pc # "idle" /\ calls[o].amount >= total

(* The calls of the proxy: a call that joined another one joined a deposit *)
(* that includes its own, and so is what _inflight_deposits names.         *)
ThreadsInv ==
  /\ threads \in [Threads -> Calls]
  /\ \A t \in Threads : threads[t].op = "none" => threads[t].pc = "idle"
  /\ pool \in Seq(Threads)
  /\ \A i \in 1..Len(pool) : threads[pool[i]].op # "none"
  /\ \A t \in Threads : threads[t].pc = "joined" =>
       \A o \in threads[t].on : DepositOf(threads, o, threads[t].amount)
  /\ inflight.by \subseteq Threads /\ inflight.total \in Nat
  /\ \A o \in inflight.by : DepositOf(threads, o, inflight.total)

(* The PFS keeps one IOU per session, of what the node has paid for.       *)
PFSInv ==
  /\ pfs \in [ious : SUBSET IOUs, price : Nat, confirmed : Nat]
  /\ IsFiniteSet(pfs.ious)
  /\ \A o, x \in pfs.ious : o.until = x.until => o = x
  /\ known_price \in Nat /\ earned \in Nat

PaymentFields == {"pc", "view", "started", "fee", "retries", "scrap", "iou", "code", "routes",
                  "result"}

GoodPayment(p) ==
  /\ p = [x \in PaymentFields |-> p[x]]
  /\ p.fee \in Nat /\ p.retries \in Nat /\ p.started \in Nat /\ p.iou \in IOUs

(* What these IOUs promise for the session of this one.                    *)
Due(ious, iou) == Promised({o \in ious : o.until = iou.until})

(* One payment at a time posts an IOU, and with it adds its fee, no more,  *)
(* to what it has promised already.                                        *)
PaymentsInv ==
  /\ payments = [q \in Payments |-> payments[q]]
  /\ \A q \in Payments : GoodPayment(payments[q])
  /\ \A q, o \in Payments : payments[q].pc = "posting" /\ payments[o].pc = "posting" => q = o
  /\ \A q \in Payments : payments[q].pc = "posting" =>
       \/ payments[q].iou = NoIOU
       \/ payments[q].iou.amount <= Due(pfs.ious, payments[q].iou) + payments[q].fee

MonitorInv == proof \in 0..MaxNonce /\ requests \subseteq 1..MaxNonce

IInv ==
  /\ ContractInv(c) /\ ThreadsInv /\ DepositOutcome
  /\ PFSInv /\ PaymentsInv /\ FeesAreEarned /\ MonitorInv

-----------------------------------------------------------------------------
(* Sums of IOUs.                                                           *)

(* Finitely many IOUs promise a natural number of tokens.                  *)
LEMMA PromisedNat ==
  ASSUME NEW S \in SUBSET IOUs, IsFiniteSet(S)
  PROVE  Promised(S) \in Nat
<1> DEFINE f == [iou \in S |-> iou.amount]
<1>1. f \in [S -> Nat]
  BY DEF IOUs
<1> HIDE DEF f
<1>2. SumFunction(f) \in Nat
  BY <1>1, SumNat
<1> QED BY <1>2 DEF f, Promised

(* No IOUs promise nothing.                                                *)
LEMMA PromisedNothing == Promised({}) = 0
<1> DEFINE f == [iou \in {} |-> iou.amount]
<1>1. f \in [{} -> Int] /\ \A x \in {} : f[x] = 0
  OBVIOUS
<1> HIDE DEF f
<1>2. SumFunction(f) = 0
  BY <1>1, SumZero, FS_EmptySet
<1> QED BY <1>2 DEF f, Promised

(* An IOU taken apart from the others.                                     *)
LEMMA PromisedSplit ==
  ASSUME NEW S \in SUBSET IOUs, IsFiniteSet(S), NEW x \in S
  PROVE  Promised(S) = x.amount + Promised(S \ {x})
<1> DEFINE f == [iou \in S |-> iou.amount]
           g == [iou \in S \ {x} |-> iou.amount]
<1>1. f \in [S -> Int] /\ f[x] = x.amount /\ g = [iou \in S \ {x} |-> f[iou]]
  BY DEF IOUs
<1> HIDE DEF f, g
<1>2. f \in [S -> Int]
  BY <1>1
<1>3. SumFunction(f) = f[x] + SumFunction([iou \in S \ {x} |-> f[iou]])
  BY <1>2, SumSplit
<1>4. SumFunction(f) = x.amount + SumFunction(g)
  BY <1>1, <1>3
<1> QED BY <1>4 DEF f, g, Promised

(* One IOU more.                                                           *)
LEMMA PromisedMore ==
  ASSUME NEW S \in SUBSET IOUs, IsFiniteSet(S), NEW x \in IOUs, x \notin S
  PROVE  Promised(S \cup {x}) = x.amount + Promised(S)
<1> DEFINE R == S \cup {x}
<1>1. R \in SUBSET IOUs /\ IsFiniteSet(R) /\ x \in R /\ R \ {x} = S
  BY FS_AddElement
<1> HIDE DEF R
<1>2. Promised(R) = x.amount + Promised(R \ {x})
  BY <1>1, PromisedSplit
<1> QED BY <1>1, <1>2 DEF R

(* The PFS has a latest IOU as soon as it has one.                         *)
Latest(S) == \E x \in S : \A y \in S : y.until <= x.until

(* ... because a finite set of block numbers has a greatest one.           *)
LEMMA LatestExists ==
  ASSUME NEW S \in SUBSET IOUs, IsFiniteSet(S), S # {}
  PROVE  Latest(S)
<1> DEFINE T == {s \in SUBSET S : s = {} \/ Latest(s)}
<1>1. ASSUME NEW s \in SUBSET S, \A r \in SUBSET s : r # s => r \in T
      PROVE  s \in T
  <2>1. CASE s = {}
    BY <2>1
  <2>2. CASE s # {}
    <3>1. PICK x \in s : TRUE
      BY <2>2
    <3>2. s \ {x} \in T
      BY <1>1, <3>1
    <3>3. CASE s \ {x} = {}
      BY <3>1, <3>3 DEF Latest, IOUs
    <3>4. CASE s \ {x} # {}
      <4>1. PICK y \in s \ {x} : \A z \in s \ {x} : z.until <= y.until
        BY <3>2, <3>4 DEF Latest
      <4>2. x.until \in Nat /\ y.until \in Nat /\ \A z \in s : z.until \in Nat
        BY <3>1, <4>1 DEF IOUs
      <4>3. CASE x.until <= y.until
        BY <3>1, <4>1, <4>2, <4>3 DEF Latest
      <4>4. CASE y.until < x.until
        BY <3>1, <4>1, <4>2, <4>4 DEF Latest
      <4> QED BY <4>2, <4>3, <4>4
    <3> QED BY <3>3, <3>4
  <2> QED BY <2>1, <2>2
<1> HIDE DEF T
<1>2. \A s \in SUBSET S : s \in T
  BY <1>1, FiniteInduction
<1> QED BY <1>2 DEF T

-----------------------------------------------------------------------------
(* The initial state.                                                      *)

(* What the assumptions say of the constants.                              *)
LEMMA Constants ==
  /\ PFS \in Services /\ InitialPrice \in Nat /\ Reward \in Nat /\ MaxNonce \in Nat
  /\ InitialDeposit \in Nat /\ InitialDeposit <= WholeBalanceLimit /\ IOUTimeout \in Nat
  /\ IOUTimeout > 0 /\ MinPrice \in Nat /\ PriceBump \in Nat
BY ServicesAssumption, ContractsAssumption, PathFindingAssumption

(* At first UserDeposit holds the node's deposit and nothing else.         *)
LEMMA InitialContracts == Init => ContractInv(c)
<1> SUFFICES ASSUME Init PROVE ContractInv(c)
  OBVIOUS
<1> DEFINE f == [a \in Accounts |-> IF a = Node THEN InitialDeposit ELSE 0]
           z == [a \in Accounts |-> 0]
           ds == {[owner |-> x, until |-> RegistrationDuration, amount |-> MinPrice]
                    : x \in Services}
           w == [a \in Accounts |-> IF a = Node THEN Wallet ELSE MinPrice]
           v == [x \in Services |-> RegistrationDuration]
           rw == [n \in 1..MaxNonce |-> 0]
           ch == [state |-> "opened", nonce |-> 0, settleable_after |-> 0]
<1>1. c = [time |-> 0, wallet |-> w, balances |-> f,
           total_deposit |-> InitialDeposit, whole_balance |-> InitialDeposit,
           held |-> InitialDeposit, withdraw_plan |-> NoPlan,
           settled_sessions |-> {}, charged |-> 0, valid_till |-> v,
           set_price |-> MinPrice, set_price_at |-> 0, deprecated |-> FALSE,
           deposits |-> ds, channel |-> ch, reward |-> NoReward, rewarded |-> rw]
  BY DEF Init
<1>2. /\ f \in [Accounts -> Nat] /\ v \in [Services -> Nat] /\ rw \in [1..MaxNonce -> Nat]
      /\ ch \in ChannelRecord /\ NoPlan \in Plan /\ NoReward \in RewardRecord
  BY Constants, Limits DEF ChannelRecord, Plan, NoPlan, RewardRecord, NoReward
<1>3. SumFunction(f) = InitialDeposit
  <2>1. /\ z \in [Accounts -> Int] /\ \A a \in Accounts : z[a] = 0
        /\ z \in [Accounts -> Nat] /\ f[Node] = z[Node] + InitialDeposit
        /\ \A y \in Accounts \ {Node} : z[y] = f[y]
    BY Limits, Constants
  <2> HIDE DEF z, f
  <2>2. SumFunction(z) = 0
    BY <2>1, Limits, SumZero
  <2>3. SumFunction(f) = SumFunction(z) + InitialDeposit
    BY <1>2, <2>1, Constants, Limits, PointChange
  <2> QED BY <2>2, <2>3, Constants
<1>4. ASSUME NEW x \in Services PROVE \E d \in ds : d.owner = x /\ d.until = v[x]
  <2> DEFINE d == [owner |-> x, until |-> RegistrationDuration, amount |-> MinPrice]
  <2>1. d \in ds /\ d.owner = x /\ d.until = RegistrationDuration
    OBVIOUS
  <2>2. v[x] = RegistrationDuration
    OBVIOUS
  <2> QED BY <2>1, <2>2
<1>5. /\ \A n \in 1..MaxNonce : rw[n] = 0
      /\ ch.state = "opened"
  OBVIOUS
<1> HIDE DEF f, z, ds, w, v, rw, ch
<1>6. Stored(c)
  <2>1. HasFields(c)
    BY <1>1 DEF HasFields, Fields
  <2> QED BY <1>1, <1>2, <2>1, Constants DEF Stored
<1>7. Solvent(c)
  BY <1>1, <1>3, Constants DEF Solvent
<1>8. RewardsInOrder(c)
  BY <1>1, <1>5, Constants DEF RewardsInOrder
<1>9. Backed(c)
  BY <1>1, <1>4 DEF Backed
<1> QED BY <1>6, <1>7, <1>8, <1>9 DEF ContractInv

(* A payment that has not started.                                         *)
LEMMA FreshPayment ==
  GoodPayment(NewPayment) /\ NewPayment.pc = "idle" /\ NewPayment.iou = NoIOU
<1> DEFINE view == [p \in Partners |-> NoChannel]
<1>1. NewPayment = [pc |-> "idle", view |-> view, started |-> 0, fee |-> 0, retries |-> 1,
                    scrap |-> FALSE, iou |-> NoIOU, code |-> "none", routes |-> <<>>,
                    result |-> "none"]
  BY DEF NewPayment, MAX_PATHS_QUERY_ATTEMPTS
<1> HIDE DEF view
<1>2. NoIOU \in IOUs
  BY DEF NoIOU, IOUs
<1> QED BY <1>1, <1>2 DEF GoodPayment, PaymentFields

(* The invariant holds at first.                                           *)
LEMMA InitialInv == Init => IInv
<1> SUFFICES ASSUME Init PROVE IInv
  OBVIOUS
<1>1. ThreadsInv /\ DepositOutcome
  <2>1. /\ threads = [t \in Threads |-> NoCall] /\ pool = <<>> /\ inflight = NoDeposit
    BY DEF Init
  <2>2. NoCall \in Calls /\ NoCall.pc = "idle" /\ NoCall.op = "none"
    BY DEF NoCall, Calls, Results
  <2>3. pool \in Seq(Threads) /\ Len(pool) = 0
    BY <2>1
  <2>4. inflight.by = {} /\ inflight.total = 0
    BY <2>1 DEF NoDeposit
  <2> QED BY <2>1, <2>2, <2>3, <2>4 DEF ThreadsInv, DepositOutcome
<1>2. PFSInv /\ c.charged = 0 /\ earned = 0 /\ pfs.ious = {}
  BY Constants, FS_EmptySet DEF Init, PFSInv
<1>3. PaymentsInv
  <2>1. payments = [q \in Payments |-> NewPayment]
    BY DEF Init
  <2> QED BY <2>1, FreshPayment DEF PaymentsInv
<1>4. FeesAreEarned
  <2>1. {o \in pfs.ious : ~Settled(o)} = {}
    BY <1>2
  <2> QED BY <1>2, <2>1, PromisedNothing DEF FeesAreEarned
<1>5. MonitorInv
  BY Constants DEF Init, MonitorInv
<1> QED BY <1>1, <1>2, <1>3, <1>4, <1>5, InitialContracts DEF IInv

-----------------------------------------------------------------------------
(* Steps that leave a part of the node alone.                              *)

(* The proxy does nothing; total_deposit never shrinks meanwhile.          *)
LEMMA UdcFrame ==
  ASSUME IInv, Keeps(c, c'), ContractInv(c'), UNCHANGED udcVars
  PROVE  ThreadsInv' /\ DepositOutcome'
<1>1. threads' = threads /\ pool' = pool /\ inflight' = inflight
  BY DEF udcVars
<1>2. c.total_deposit \in Nat /\ c'.total_deposit \in Nat
      /\ c'.total_deposit >= c.total_deposit
  BY DEF IInv, ContractInv, Stored, Keeps
<1>3. ThreadsInv'
  BY <1>1 DEF IInv, ThreadsInv, DepositOf
<1>4. DepositOutcome'
  <2>1. \A t \in Threads : threads[t].amount \in Nat
    BY DEF IInv, ThreadsInv, Calls
  <2> QED BY <1>1, <1>2, <2>1 DEF IInv, DepositOutcome
<1> QED BY <1>3, <1>4

(* Nothing of the payments and the PFS changes, and no IOU is claimed.     *)
LEMMA PathFrame ==
  ASSUME IInv, NoCharge(c, c'), UNCHANGED <<payments, known_price, pfs, earned>>
  PROVE  PFSInv' /\ PaymentsInv' /\ FeesAreEarned'
<1>1. PFSInv' /\ PaymentsInv'
  BY DEF IInv, PFSInv, PaymentsInv
<1>2. {o \in pfs.ious : ~Settled(o)}' = {o \in pfs.ious : ~Settled(o)}
  BY DEF Settled, NoCharge
<1>3. FeesAreEarned'
  BY <1>2 DEF IInv, FeesAreEarned, NoCharge
<1> QED BY <1>1, <1>3

(* No balance proof arrives.                                               *)
LEMMA MonitorFrame ==
  ASSUME IInv, UNCHANGED monitorVars
  PROVE  MonitorInv'
BY DEF IInv, MonitorInv, monitorVars

(* The contracts do not change.                                            *)
LEMMA SameContracts ==
  ASSUME IInv, c' = c
  PROVE  ContractInv(c') /\ Keeps(c, c') /\ NoCharge(c, c')
<1>1. Keeps(c, c)
  BY SameKeeps DEF IInv, ContractInv
<1> QED BY <1>1 DEF IInv, NoCharge

(* A transaction of somebody else.                                         *)
LEMMA ExecuteStep ==
  ASSUME IInv, NEW tx, WellFormed(tx), tx.op # "claim", Execute(tx),
         UNCHANGED <<udcVars, pathVars, monitorVars>>
  PROVE  IInv' /\ Keeps(c, c')
<1>1. ContractInv(c') /\ Keeps(c, c') /\ NoCharge(c, c')
  BY TxEffect DEF IInv, Execute
<1>2. ThreadsInv' /\ DepositOutcome'
  BY <1>1, UdcFrame
<1>3. PFSInv' /\ PaymentsInv' /\ FeesAreEarned'
  BY <1>1, PathFrame DEF pathVars
<1>4. MonitorInv'
  BY MonitorFrame
<1> QED BY <1>1, <1>2, <1>3, <1>4 DEF IInv

-----------------------------------------------------------------------------
(* Calls of the user deposit proxy.                                        *)

Good == {"success", "increased", "unknown"}

(* What the proxy reports of a deposit that was not sent, or failed.       *)
LEMMA Reports ==
  ASSUME IInv, NEW call \in Calls, call.op # "none"
  PROVE  /\ NotSent(c, call) \in Results /\ Failed(c, call) \in Results
         /\ call.op = "deposit" /\ NotSent(c, call) \in Good => c.total_deposit >= call.amount
         /\ call.op = "deposit" /\ Failed(c, call) \in Good => c.total_deposit >= call.amount
<1>1. c.total_deposit \in Nat /\ call.amount \in Nat
      /\ call.op \in {"deposit", "planWithdraw", "withdraw"}
  BY DEF IInv, ContractInv, Stored, Calls
<1>2. /\ _deposit_not_sent(c, call) \in {"allowance", "balance", "not increased", "unknown"}
      /\ _deposit_not_sent(c, call) = "unknown" => c.total_deposit >= call.amount
  BY <1>1 DEF _deposit_not_sent
<1>3. /\ _deposit_failed(c, call) \in {"increased", "allowance", "balance", "limit",
                                       "not increased"}
      /\ _deposit_failed(c, call) = "increased" => c.total_deposit >= call.amount
  BY <1>1 DEF _deposit_failed
<1>4. NotSent(c, call) = IF call.op = "deposit" THEN _deposit_not_sent(c, call) ELSE "unknown"
  BY DEF NotSent
<1>5. CASE call.op = "deposit"
  <2>1. Failed(c, call) = _deposit_failed(c, call)
    BY <1>5 DEF Failed
  <2>2. NotSent(c, call) = _deposit_not_sent(c, call)
    BY <1>4, <1>5
  <2>3. NotSent(c, call) \in Results /\ Failed(c, call) \in Results
    BY <1>2, <1>3, <2>1, <2>2 DEF Results
  <2>4. NotSent(c, call) \in Good => c.total_deposit >= call.amount
    BY <1>2, <2>2 DEF Good
  <2>5. Failed(c, call) \in Good => c.total_deposit >= call.amount
    BY <1>3, <2>1 DEF Good
  <2> QED BY <2>3, <2>4, <2>5
<1>6. CASE call.op = "planWithdraw"
  <2>1. Failed(c, call) = _plan_withdraw_failed(c, call)
    BY <1>6 DEF Failed
  <2>2. _plan_withdraw_failed(c, call) \in {"balance", "unknown"}
    BY DEF _plan_withdraw_failed
  <2> QED BY <1>4, <1>6, <2>1, <2>2 DEF Results
<1>7. CASE call.op = "withdraw"
  <2>1. Failed(c, call) = _withdraw_failed(c, call)
    BY <1>7 DEF Failed
  <2>2. _withdraw_failed(c, call) \in {"plan", "early", "underflow", "unknown"}
    BY DEF _withdraw_failed
  <2> QED BY <1>4, <1>7, <2>1, <2>2 DEF Results
<1> QED BY <1>1, <1>5, <1>6, <1>7

(* The threads of a pool that has lost or gained calls.                    *)
GoodPool(p) == p \in Seq(Threads) /\ \A i \in 1..Len(p) : threads[p[i]].op # "none"

(* A call of the proxy returns; a result that stands for a deposit is true.*)
LEMMA ReturnStep ==
  ASSUME IInv, ContractInv(c'), Keeps(c, c'), NEW t \in Threads, NEW result \in Results,
         threads[t].op # "none",
         Return(t, result), GoodPool(pool'),
         threads[t].op = "deposit" /\ result \in Good => c'.total_deposit >= threads[t].amount
  PROVE  ThreadsInv' /\ DepositOutcome'
<1>1. /\ threads \in [Threads -> Calls]
      /\ c.total_deposit \in Nat /\ c'.total_deposit \in Nat
      /\ c'.total_deposit >= c.total_deposit
  BY DEF IInv, ThreadsInv, ContractInv, Stored, Keeps
<1> DEFINE call == [threads[t] EXCEPT !.pc = "done", !.result = result]
<1>2. threads' = [threads EXCEPT ![t] = call]
  BY <1>1 DEF Return, Calls
<1>3. call \in Calls /\ call.op = threads[t].op /\ call.amount = threads[t].amount
      /\ call.pc = "done" /\ call.result = result
  <2>1. threads[t] \in Calls
    BY <1>1
  <2> QED BY <2>1 DEF Calls
<1> HIDE DEF call
<1>4. threads' \in [Threads -> Calls]
  BY <1>1, <1>2, <1>3
<1>5. \A o \in Threads : /\ threads'[o].op = threads[o].op /\ threads'[o].amount = threads[o].amount
                         /\ o # t => threads'[o] = threads[o]
  BY <1>1, <1>2, <1>3
<1>6. threads'[t] = call
  BY <1>1, <1>2
<1>7. ASSUME NEW o \in Threads, NEW total, DepositOf(threads, o, total)
      PROVE  DepositOf(threads', o, total)
  BY <1>3, <1>5, <1>6, <1>7 DEF DepositOf
<1>8. \A x \in Threads : threads'[x].pc = "joined" =>
         \A o \in threads'[x].on : DepositOf(threads', o, threads'[x].amount)
  <2> SUFFICES ASSUME NEW x \in Threads, threads'[x].pc = "joined", NEW o \in threads'[x].on
               PROVE  DepositOf(threads', o, threads'[x].amount)
    OBVIOUS
  <2>1. x # t /\ threads'[x] = threads[x]
    BY <1>3, <1>5, <1>6
  <2>2. o \in Threads
    BY <1>1, <2>1 DEF Calls
  <2>3. DepositOf(threads, o, threads[x].amount)
    BY <2>1 DEF IInv, ThreadsInv
  <2> QED BY <1>7, <2>1, <2>2, <2>3
<1>9. /\ inflight'.by \subseteq Threads /\ inflight'.total \in Nat
      /\ \A o \in inflight'.by : DepositOf(threads', o, inflight'.total)
  <2>1. CASE inflight' = inflight
    <3>1. /\ inflight.by \subseteq Threads /\ inflight.total \in Nat
          /\ \A o \in inflight.by : DepositOf(threads, o, inflight.total)
      BY DEF IInv, ThreadsInv
    <3> QED BY <1>7, <2>1, <3>1
  <2>2. CASE inflight' = NoDeposit
    BY <2>2 DEF NoDeposit
  <2> QED BY <2>1, <2>2 DEF Return
<1>10. pool' \in Seq(Threads) /\ \A i \in 1..Len(pool') : threads'[pool'[i]].op # "none"
  BY <1>5 DEF GoodPool
<1>11. ThreadsInv'
  <2>1. \A x \in Threads : threads'[x].op = "none" => threads'[x].pc = "idle"
    BY <1>5 DEF IInv, ThreadsInv
  <2> QED BY <1>4, <1>8, <1>9, <1>10, <2>1 DEF ThreadsInv
<1>12. DepositOutcome'
  <2> SUFFICES ASSUME NEW x \in Threads, threads'[x].op = "deposit",
                      threads'[x].result \in Good
               PROVE  c'.total_deposit >= threads'[x].amount
    BY DEF DepositOutcome, Good
  <2>1. CASE x = t
    BY <1>3, <1>5, <1>6, <2>1
  <2>2. CASE x # t
    <3>1. c.total_deposit >= threads[x].amount
      BY <1>5, <2>2 DEF IInv, DepositOutcome, Good
    <3>2. threads[x].amount \in Nat
      BY <1>1 DEF Calls
    <3> QED BY <1>1, <1>5, <2>2, <3>1, <3>2
  <2> QED BY <2>1, <2>2
<1> QED BY <1>11, <1>12

(* A call starts: it is refused, joins a larger deposit, or goes on.       *)
LEMMA CallStep ==
  ASSUME IInv, NEW t \in Threads, NEW op \in {"deposit", "planWithdraw", "withdraw"},
         NEW amount \in Nat, Call(t, op, amount)
  PROVE  ThreadsInv' /\ DepositOutcome' /\ c' = c
<1> DEFINE al == amount_to_deposit(c, amount) + 1
           call == [NoCall EXCEPT !.op = op, !.amount = amount, !.allowance = al]
           broken == [call EXCEPT !.pc = "done", !.result = "broken"]
           joined == [call EXCEPT !.pc = "joined", !.on = inflight.by]
           called == [call EXCEPT !.pc = "called"]
<1>1. /\ threads \in [Threads -> Calls] /\ threads[t].pc = "idle" /\ c' = c /\ pool' = pool
      /\ inflight.by \subseteq Threads /\ inflight.total \in Nat
      /\ \A o \in inflight.by : DepositOf(threads, o, inflight.total)
      /\ c.total_deposit \in Nat
  BY DEF IInv, ThreadsInv, Call, ContractInv, Stored
<1>2. \E new \in {broken, joined, called} :
         /\ threads' = [threads EXCEPT ![t] = new]
         /\ new = joined => op = "deposit" /\ inflight.total >= amount
         /\ \/ inflight' = inflight
            \/ op = "deposit" /\ new = called /\ inflight' = [total |-> amount, by |-> {t}]
  <2>1. joined # called /\ joined # broken
    BY DEF NoCall
  <2> QED BY <2>1 DEF Call, Joins
<1>3. /\ {broken, joined, called} \subseteq Calls
      /\ \A new \in {broken, joined, called} :
           /\ new.op = op /\ new.amount = amount /\ new.pc # "idle" /\ new.result \notin Good
           /\ new.pc = "joined" => new = joined
      /\ joined.on = inflight.by
  <2>1. amount_to_deposit(c, amount) + 1 \in Int
    BY <1>1 DEF amount_to_deposit
  <2> HIDE DEF al
  <2>2. NoCall \in Calls /\ NoCall.result = "none" /\ al \in Int
    BY <2>1 DEF NoCall, Calls, Results, al
  <2>3. call \in Calls /\ call.op = op /\ call.amount = amount /\ call.result = "none"
    BY <2>2 DEF Calls
  <2> HIDE DEF call
  <2>4. /\ broken \in Calls /\ broken.op = op /\ broken.amount = amount
        /\ broken.pc = "done" /\ broken.result = "broken"
    BY <2>3 DEF Calls, Results
  <2>5. /\ joined \in Calls /\ joined.op = op /\ joined.amount = amount
        /\ joined.pc = "joined" /\ joined.on = inflight.by /\ joined.result = "none"
    BY <1>1, <2>3 DEF Calls
  <2>6. /\ called \in Calls /\ called.op = op /\ called.amount = amount
        /\ called.pc = "called" /\ called.result = "none"
    BY <2>3 DEF Calls
  <2> HIDE DEF broken, joined, called
  <2> QED BY <2>4, <2>5, <2>6 DEF Good
<1> HIDE DEF al, call, broken, joined, called
<1>4. PICK new \in {broken, joined, called} :
         /\ threads' = [threads EXCEPT ![t] = new]
         /\ new = joined => op = "deposit" /\ inflight.total >= amount
         /\ \/ inflight' = inflight
            \/ op = "deposit" /\ new = called /\ inflight' = [total |-> amount, by |-> {t}]
  BY <1>2
<1>5. /\ new \in Calls /\ new.op = op /\ new.amount = amount /\ new.pc # "idle"
      /\ new.result \notin Good /\ (new.pc = "joined" => new = joined)
  BY <1>3, <1>4
<1>6. /\ threads' \in [Threads -> Calls] /\ threads'[t] = new
      /\ \A o \in Threads \ {t} : threads'[o] = threads[o]
  BY <1>1, <1>4, <1>5
<1>7. ASSUME NEW o \in Threads, NEW total, DepositOf(threads, o, total)
      PROVE  DepositOf(threads', o, total)
  <2>1. o # t
    BY <1>1, <1>7 DEF DepositOf
  <2> QED BY <1>6, <1>7, <2>1 DEF DepositOf
<1>8. \A x \in Threads : threads'[x].pc = "joined" =>
         \A o \in threads'[x].on : DepositOf(threads', o, threads'[x].amount)
  <2> SUFFICES ASSUME NEW x \in Threads, threads'[x].pc = "joined", NEW o \in threads'[x].on
               PROVE  DepositOf(threads', o, threads'[x].amount)
    OBVIOUS
  <2>1. CASE x # t
    <3>1. threads'[x] = threads[x]
      BY <1>6, <2>1
    <3>2. o \in Threads
      BY <1>1, <3>1 DEF Calls
    <3>3. DepositOf(threads, o, threads[x].amount)
      BY <3>1 DEF IInv, ThreadsInv
    <3> QED BY <1>7, <3>1, <3>2, <3>3
  <2>2. CASE x = t
    <3>1. new = joined /\ o \in inflight.by
      BY <1>3, <1>5, <1>6, <2>2
    <3>2. o \in Threads /\ DepositOf(threads, o, inflight.total) /\ inflight.total >= amount
      BY <1>1, <1>4, <3>1
    <3>3. DepositOf(threads', o, inflight.total)
      BY <1>7, <3>2
    <3>4. threads'[x].amount = amount /\ threads'[o].amount \in Nat
      BY <1>5, <1>6, <2>2, <3>2 DEF Calls
    <3>5. threads'[o].amount >= amount
      BY <1>1, <3>2, <3>3, <3>4 DEF DepositOf
    <3> QED BY <3>3, <3>4, <3>5 DEF DepositOf
  <2> QED BY <2>1, <2>2
<1>9. /\ inflight'.by \subseteq Threads /\ inflight'.total \in Nat
      /\ \A o \in inflight'.by : DepositOf(threads', o, inflight'.total)
  <2>1. CASE inflight' = inflight
    BY <1>1, <1>7, <2>1
  <2>2. CASE op = "deposit" /\ inflight' = [total |-> amount, by |-> {t}]
    BY <1>5, <1>6, <2>2 DEF DepositOf
  <2> QED BY <1>4, <2>1, <2>2
<1>10. pool' \in Seq(Threads) /\ \A i \in 1..Len(pool') : threads'[pool'[i]].op # "none"
  <2>1. pool \in Seq(Threads) /\ \A i \in 1..Len(pool) : threads[pool[i]].op # "none"
    BY DEF IInv, ThreadsInv
  <2>2. \A o \in Threads : threads[o].op # "none" => threads'[o].op # "none"
    BY <1>5, <1>6
  <2>3. \A i \in 1..Len(pool) : pool[i] \in Threads
    BY <2>1
  <2> QED BY <1>1, <2>1, <2>2, <2>3
<1>11. ThreadsInv'
  <2>1. \A x \in Threads : threads'[x].op = "none" => threads'[x].pc = "idle"
    BY <1>5, <1>6 DEF IInv, ThreadsInv
  <2> QED BY <1>6, <1>8, <1>9, <1>10, <2>1 DEF ThreadsInv
<1>12. DepositOutcome'
  BY <1>1, <1>5, <1>6 DEF IInv, DepositOutcome, Good
<1> QED BY <1>1, <1>11, <1>12

(* A call that waited for another one has its result.                     *)
LEMMA JoinStep ==
  ASSUME IInv, NEW t \in Threads, JoinDeposit(t)
  PROVE  ThreadsInv' /\ DepositOutcome' /\ c' = c
<1>1. PICK o \in threads[t].on : threads[o].pc = "done" /\ Return(t, threads[o].result)
  BY DEF JoinDeposit
<1>2. /\ threads \in [Threads -> Calls] /\ threads[t].pc = "joined" /\ c' = c /\ pool' = pool
      /\ DepositOf(threads, o, threads[t].amount) /\ o \in Threads
  BY <1>1 DEF JoinDeposit, IInv, ThreadsInv, Calls
<1>3. threads[o].result \in Results /\ threads[o].amount \in Nat /\ threads[t].amount \in Nat
  BY <1>2 DEF Calls
<1>4. threads[o].result \in Good => c'.total_deposit >= threads[t].amount
  <2>1. c.total_deposit \in Nat
    BY DEF IInv, ContractInv, Stored
  <2>2. threads[o].op = "deposit" /\ threads[o].amount >= threads[t].amount
    BY <1>2 DEF DepositOf
  <2>3. threads[o].result \in Good => c.total_deposit >= threads[o].amount
    BY <1>2, <2>2 DEF IInv, DepositOutcome, Good
  <2> QED BY <1>2, <1>3, <2>1, <2>2, <2>3
<1>5. GoodPool(pool')
  BY <1>2 DEF IInv, ThreadsInv, GoodPool
<1>6. ContractInv(c') /\ Keeps(c, c')
  BY <1>2, SameContracts
<1>7. threads[t].op # "none"
  BY <1>2 DEF IInv, ThreadsInv
<1> QED BY <1>1, <1>2, <1>3, <1>4, <1>5, <1>6, <1>7, ReturnStep

(* What is sent is in the pool; what is not has its result.                *)
LEMMA SendStep ==
  ASSUME IInv, NEW t \in Threads, Send(t)
  PROVE  ThreadsInv' /\ DepositOutcome' /\ c' = c
<1>1. /\ threads \in [Threads -> Calls] /\ threads[t].pc = "called" /\ c' = c
      /\ GoodPool(pool) /\ threads[t].op # "none"
  BY DEF Send, IInv, ThreadsInv, GoodPool
<1>2. ContractInv(c') /\ Keeps(c, c')
  BY <1>1, SameContracts
<1>3. CASE Return(t, NotSent(c, threads[t])) /\ UNCHANGED pool
  <2>1. threads[t] \in Calls
    BY <1>1
  <2>2. /\ NotSent(c, threads[t]) \in Results
        /\ threads[t].op = "deposit" /\ NotSent(c, threads[t]) \in Good
             => c.total_deposit >= threads[t].amount
    BY <1>1, <2>1, Reports
  <2>3. GoodPool(pool')
    BY <1>1, <1>3
  <2>4. ThreadsInv' /\ DepositOutcome'
    BY <1>1, <1>2, <1>3, <2>2, <2>3, ReturnStep
  <2> QED BY <1>1, <2>4
<1>4. CASE /\ pool' = Append(pool, t) /\ UNCHANGED inflight
           /\ threads' = [threads EXCEPT ![t].pc = "sent"]
  <2> DEFINE call == [threads[t] EXCEPT !.pc = "sent"]
  <2>1. threads' = [threads EXCEPT ![t] = call]
    BY <1>1, <1>4 DEF Calls
  <2>2. /\ call \in Calls /\ call.op = threads[t].op /\ call.amount = threads[t].amount
        /\ call.on = threads[t].on /\ call.result = threads[t].result /\ call.pc = "sent"
    <3>1. threads[t] \in Calls
      BY <1>1
    <3> QED BY <3>1 DEF Calls
  <2> HIDE DEF call
  <2>3. /\ threads' \in [Threads -> Calls]
        /\ \A o \in Threads : /\ threads'[o].op = threads[o].op
                              /\ threads'[o].amount = threads[o].amount
                              /\ threads'[o].on = threads[o].on
                              /\ threads'[o].result = threads[o].result
                              /\ threads'[o].pc = IF o = t THEN "sent" ELSE threads[o].pc
    BY <1>1, <2>1, <2>2
  <2>4. ASSUME NEW o \in Threads, NEW total, DepositOf(threads, o, total)
        PROVE  DepositOf(threads', o, total)
    BY <2>3, <2>4 DEF DepositOf
  <2>5. \A x \in Threads : threads'[x].pc = "joined" =>
           \A o \in threads'[x].on : DepositOf(threads', o, threads'[x].amount)
    <3> SUFFICES ASSUME NEW x \in Threads, threads'[x].pc = "joined", NEW o \in threads'[x].on
                 PROVE  DepositOf(threads', o, threads'[x].amount)
      OBVIOUS
    <3>1. threads[x].pc = "joined" /\ o \in threads[x].on
      BY <2>3
    <3>2. o \in Threads
      BY <1>1, <3>1 DEF Calls
    <3>3. DepositOf(threads, o, threads[x].amount)
      BY <3>1 DEF IInv, ThreadsInv
    <3> QED BY <2>3, <2>4, <3>2, <3>3
  <2>6. /\ inflight'.by \subseteq Threads /\ inflight'.total \in Nat
        /\ \A o \in inflight'.by : DepositOf(threads', o, inflight'.total)
    <3>1. /\ inflight.by \subseteq Threads /\ inflight.total \in Nat
          /\ \A o \in inflight.by : DepositOf(threads, o, inflight.total)
      BY DEF IInv, ThreadsInv
    <3> QED BY <1>4, <2>4, <3>1
  <2>7. pool' \in Seq(Threads) /\ \A i \in 1..Len(pool') : threads'[pool'[i]].op # "none"
    BY <1>1, <1>4, <2>3 DEF GoodPool
  <2>8. ThreadsInv'
    <3>1. \A x \in Threads : threads'[x].op = "none" => threads'[x].pc = "idle"
      BY <1>1, <2>3 DEF IInv, ThreadsInv
    <3> QED BY <2>3, <2>5, <2>6, <2>7, <3>1 DEF ThreadsInv
  <2>9. DepositOutcome'
    BY <1>1, <2>3 DEF IInv, DepositOutcome
  <2> QED BY <1>1, <2>8, <2>9
<1> QED BY <1>3, <1>4 DEF Send

(* A mined transaction succeeds as it was asked for, or leaves the         *)
(* contracts alone.                                                        *)
LEMMA MineStep ==
  ASSUME IInv, Mine
  PROVE  ThreadsInv' /\ DepositOutcome' /\ ContractInv(c') /\ Keeps(c, c') /\ NoCharge(c, c')
<1> DEFINE t == Head(pool)
           tx == TxOf(t)
<1>1. /\ threads \in [Threads -> Calls] /\ pool # <<>> /\ pool' = Tail(pool) /\ GoodPool(pool)
  BY DEF Mine, IInv, ThreadsInv, GoodPool
<1>2. t \in Threads /\ threads[t].op # "none" /\ GoodPool(pool')
  <2>1. pool[1] = t /\ 1 \in 1..Len(pool)
    BY <1>1 DEF GoodPool
  <2>2. \A i \in 1..Len(pool') : pool'[i] = pool[i + 1] /\ i + 1 \in 1..Len(pool)
    BY <1>1 DEF GoodPool
  <2> QED BY <1>1, <2>1, <2>2 DEF GoodPool
<1>3. threads[t] \in Calls
  BY <1>1, <1>2
<1>4. /\ tx.op \in {"deposit", "planWithdraw", "withdraw"} /\ tx.op = threads[t].op
      /\ tx.amount \in Nat /\ tx.amount = threads[t].amount
  BY <1>2, <1>3 DEF TxOf, Tx, Calls
<1>5. WellFormed(tx) /\ tx.op # "claim"
  BY <1>4 DEF WellFormed, Operations
<1>6. \/ Requires(c, tx) /\ Return(t, "success") /\ c' = Effect(c, tx)
      \/ Return(t, Failed(c, threads[t])) /\ c' = c
  BY DEF Mine
<1> HIDE DEF t, tx
<1>7. CASE Requires(c, tx) /\ Return(t, "success") /\ c' = Effect(c, tx)
  <2>1. ContractInv(c') /\ Keeps(c, c') /\ NoCharge(c, c')
    BY <1>5, <1>7, TxEffect DEF IInv
  <2>2. threads[t].op = "deposit" => c'.total_deposit = threads[t].amount
    <3> SUFFICES ASSUME threads[t].op = "deposit" PROVE c'.total_deposit = threads[t].amount
      OBVIOUS
    <3>1. depositRequires(c, tx) /\ c' = deposit(c, tx)
      BY <1>4, <1>7 DEF Requires, Effect
    <3> QED BY <1>4, <3>1, DepositEffect DEF IInv
  <2>3. "success" \in Results
    BY DEF Results
  <2>4. threads[t].amount \in Nat
    BY <1>4
  <2>5. ThreadsInv' /\ DepositOutcome'
    BY <1>2, <1>7, <2>1, <2>2, <2>3, <2>4, ReturnStep
  <2> QED BY <2>1, <2>5
<1>8. CASE Return(t, Failed(c, threads[t])) /\ c' = c
  <2>1. ContractInv(c') /\ Keeps(c, c') /\ NoCharge(c, c')
    BY <1>8, SameContracts
  <2>2. /\ Failed(c, threads[t]) \in Results
        /\ threads[t].op = "deposit" /\ Failed(c, threads[t]) \in Good
             => c.total_deposit >= threads[t].amount
    BY <1>2, <1>3, Reports
  <2>3. ThreadsInv' /\ DepositOutcome'
    BY <1>2, <1>8, <2>1, <2>2, ReturnStep
  <2> QED BY <2>1, <2>3
<1> QED BY <1>6, <1>7, <1>8

-----------------------------------------------------------------------------
(* Payments and their IOUs.                                                *)

(* What the operators of PathFinding make of a payment.                    *)
LEMMA FinishedGood ==
  ASSUME NEW p, GoodPayment(p), NEW result
  PROVE  GoodPayment(Finished(p, result)) /\ Finished(p, result).pc # "posting"
BY FreshPayment DEF Finished, GoodPayment, PaymentFields

(* get_best_routes starts a query at the price the node knows.             *)
LEMMA RoutesGood ==
  ASSUME NEW p, GoodPayment(p), NEW chans, NEW price \in Nat, NEW block \in Nat,
         p.pc = "idle"
  PROVE  LET r == get_best_routes(p, chans, price, block)
         IN  GoodPayment(r) /\ r.pc # "posting"
<1> DEFINE direct == [p EXCEPT !.pc = "metadata"]
           asked == [p EXCEPT !.pc = "waiting", !.view = chans, !.started = block, !.fee = price]
<1>1. GoodPayment(direct) /\ direct.pc = "metadata"
  BY DEF GoodPayment, PaymentFields
<1>2. GoodPayment(asked) /\ asked.pc = "waiting"
  BY DEF GoodPayment, PaymentFields
<1> HIDE DEF direct, asked
<1>3. get_best_routes(p, chans, price, block) \in {direct, asked, Finished(p, "failed")}
  <2>1. \/ Target \in Usable(chans)
        \/ Target \notin Usable(chans) /\ Usable(chans) # {}
        \/ ~(Target \in Usable(chans)) /\ ~(Target \notin Usable(chans) /\ Usable(chans) # {})
    OBVIOUS
  <2> QED BY <2>1 DEF get_best_routes, direct, asked
<1> QED BY <1>1, <1>2, <1>3, FinishedGood

(* After a rejection a payment retries without its IOU, or has failed.     *)
LEMMA RejectedGood ==
  ASSUME NEW p, GoodPayment(p), NEW price, NEW known,
         NEW code \in {"MISSING_IOU", "IOU_ALREADY_CLAIMED", "IOU_EXPIRED_TOO_EARLY",
                       "INSUFFICIENT_SERVICE_PAYMENT", "DEPOSIT_TOO_LOW"}
  PROVE  LET r == rejected(p, code, price, known)
         IN  GoodPayment(r) /\ r.pc # "posting"
<1> DEFINE left == p.retries - 1
           again == [p EXCEPT !.pc = "ready", !.iou = NoIOU, !.retries = left, !.code = code]
           scrap == [again EXCEPT !.scrap = TRUE]
           coded == [p EXCEPT !.code = code]
           fail == Finished(coded, "failed")
<1>1. p.retries \in Nat
  BY DEF GoodPayment
<1>2. GoodPayment(fail) /\ fail.pc # "posting"
  <2>1. GoodPayment(coded)
    BY DEF GoodPayment, PaymentFields
  <2> HIDE DEF coded
  <2> QED BY <2>1, FinishedGood
<1>3. ASSUME p.retries > 0
      PROVE  GoodPayment(again) /\ again.pc = "ready" /\ GoodPayment(scrap) /\ scrap.pc = "ready"
  <2>1. NoIOU \in IOUs /\ left \in Nat
    BY <1>1, <1>3 DEF NoIOU, IOUs
  <2> HIDE DEF left
  <2>2. GoodPayment(again) /\ again.pc = "ready"
    BY <2>1 DEF GoodPayment, PaymentFields
  <2> HIDE DEF again
  <2>3. GoodPayment(scrap) /\ scrap.pc = "ready"
    BY <2>2 DEF GoodPayment, PaymentFields
  <2> QED BY <2>2, <2>3
<1>4. /\ p.retries = 0 \/ code = "DEPOSIT_TOO_LOW" => rejected(p, code, price, known) = fail
      /\ p.retries > 0 => rejected(p, code, price, known) \in {fail, again, scrap}
  <2>1. CASE p.retries = 0 \/ code = "DEPOSIT_TOO_LOW"
    BY <2>1 DEF rejected
  <2>2. CASE p.retries > 0 /\ code \in {"IOU_ALREADY_CLAIMED", "IOU_EXPIRED_TOO_EARLY"}
    BY <2>2 DEF rejected
  <2>3. CASE p.retries > 0 /\ code = "INSUFFICIENT_SERVICE_PAYMENT"
    BY <2>3 DEF rejected
  <2>4. CASE p.retries > 0 /\ code = "MISSING_IOU"
    BY <2>4 DEF rejected
  <2> QED BY <1>1, <2>1, <2>2, <2>3, <2>4
<1> HIDE DEF again, scrap, fail
<1> QED BY <1>1, <1>2, <1>3, <1>4

(* A payment that has its routes holds no IOU.                             *)
LEMMA RoutedGood ==
  ASSUME NEW p, GoodPayment(p), NEW paths
  PROVE  /\ GoodPayment(get_best_routes_pfs(p, paths))
         /\ get_best_routes_pfs(p, paths).pc # "posting"
         /\ GoodPayment(direct_route(p)) /\ direct_route(p).pc # "posting"
<1> DEFINE chosen == SelectSeq(paths, LAMBDA route : make_route_state(p, route))
           routed == [NewPayment EXCEPT !.pc = "routed", !.fee = p.fee, !.code = p.code,
                                        !.routes = chosen]
           only == <<[hop |-> Target, fee |-> 0]>>
<1>1. get_best_routes_pfs(p, paths) \in {routed, Finished(p, "failed")}
  BY DEF get_best_routes_pfs
<1>2. direct_route(p) = [p EXCEPT !.pc = "routed", !.routes = only]
  BY DEF direct_route
<1> HIDE DEF chosen, only
<1>3. GoodPayment(routed) /\ routed.pc = "routed"
  BY FreshPayment DEF GoodPayment, PaymentFields
<1>4. GoodPayment(direct_route(p)) /\ direct_route(p).pc # "posting"
  BY <1>2 DEF GoodPayment, PaymentFields
<1> HIDE DEF routed
<1> QED BY <1>1, <1>3, <1>4, FinishedGood

(* The IOU of a request adds its fee to the session it belongs to.         *)
LEMMA QueryGood ==
  ASSUME IInv, NEW p, GoodPayment(p)
  PROVE  LET r == query_paths(p, last_iou)
         IN  /\ GoodPayment(r) /\ r.pc = "posting" /\ r.fee = p.fee
             /\ r.iou = NoIOU \/ r.iou.amount <= Due(pfs.ious, r.iou) + r.fee
<1> DEFINE iou == IF p.fee > 0 THEN create_current_iou(p, last_iou) ELSE NoIOU
           r == query_paths(p, last_iou)
<1>1. p.fee \in Nat /\ p.started \in Nat /\ pfs.ious \in SUBSET IOUs /\ IsFiniteSet(pfs.ious)
  BY DEF IInv, PFSInv, GoodPayment
<1>2. last_iou = NoIOU \/ last_iou \in pfs.ious
  <2>1. CASE pfs.ious = {}
    BY <2>1 DEF last_iou
  <2>2. CASE pfs.ious # {}
    <3>1. \E x \in pfs.ious : \A y \in pfs.ious : y.until <= x.until
      BY <1>1, <2>2, LatestExists DEF Latest
    <3> QED BY <2>2, <3>1 DEF last_iou
  <2> QED BY <2>1, <2>2
<1>3. iou \in IOUs /\ (iou = NoIOU \/ iou.amount <= Due(pfs.ious, iou) + p.fee)
  <2>1. CASE iou = NoIOU
    BY <2>1 DEF NoIOU, IOUs
  <2>2. CASE iou = make_iou(p)
    <3> DEFINE s == {o \in pfs.ious : o.until = iou.until}
    <3>1. iou \in IOUs /\ iou.amount = p.fee
      BY <1>1, <2>2, Constants DEF make_iou, IOUs
    <3>2. s \in SUBSET IOUs /\ IsFiniteSet(s)
      BY <1>1, FS_Subset
    <3> HIDE DEF iou, s
    <3>3. Promised(s) \in Nat
      BY <3>2, PromisedNat
    <3> QED BY <1>1, <3>1, <3>3 DEF Due, s
  <2>3. CASE iou = update_iou(p, last_iou) /\ last_iou \in pfs.ious
    <3> DEFINE s == {o \in pfs.ious : o.until = iou.until}
               l == last_iou
    <3>1. l \in IOUs /\ l \in pfs.ious
      BY <1>1, <2>3
    <3>2. iou = [l EXCEPT !.amount = @ + p.fee]
      BY <2>3 DEF update_iou
    <3> HIDE DEF l, iou
    <3>3. iou \in IOUs /\ iou.amount = l.amount + p.fee /\ iou.until = l.until
      BY <1>1, <3>1, <3>2 DEF IOUs
    <3>4. l \in s /\ s \ {l} = {} /\ s \in SUBSET IOUs /\ IsFiniteSet(s)
      BY <1>1, <3>1, <3>3, FS_Subset DEF IInv, PFSInv
    <3> HIDE DEF s
    <3>5. Promised(s) = l.amount + 0
      BY <3>4, PromisedSplit, PromisedNothing
    <3>6. l.amount \in Nat
      BY <3>1 DEF IOUs
    <3> QED BY <1>1, <3>3, <3>5, <3>6 DEF Due, s
  <2> QED BY <1>2, <2>1, <2>2, <2>3 DEF create_current_iou
<1>4. r = [p EXCEPT !.pc = "posting", !.iou = iou]
  BY DEF query_paths
<1> HIDE DEF iou, r
<1>5. GoodPayment(r) /\ r.pc = "posting" /\ r.fee = p.fee /\ r.iou = iou
  BY <1>3, <1>4 DEF GoodPayment, PaymentFields
<1> QED BY <1>3, <1>5 DEF r

(* A payment changes, and does not post.                                   *)
LEMMA PaymentStep ==
  ASSUME IInv, NEW q \in Payments, NEW new, GoodPayment(new), new.pc # "posting",
         payments' = [payments EXCEPT ![q] = new],
         pfs' = pfs \/ payments[q].pc = "posting"
  PROVE  PaymentsInv'
<1>1. payments = [x \in Payments |-> payments[x]]
  BY DEF IInv, PaymentsInv
<1>2. \A x \in Payments : payments'[x] = IF x = q THEN new ELSE payments[x]
  BY <1>1
<1>3. payments' = [x \in Payments |-> payments'[x]]
  BY <1>1
<1>4. \A x \in Payments : GoodPayment(payments'[x])
  BY <1>2 DEF IInv, PaymentsInv
<1>5. \A x, o \in Payments : payments'[x].pc = "posting" /\ payments'[o].pc = "posting" => x = o
  BY <1>2 DEF IInv, PaymentsInv
<1>6. ASSUME NEW x \in Payments, payments'[x].pc = "posting"
      PROVE  \/ payments'[x].iou = NoIOU
             \/ payments'[x].iou.amount <= Due(pfs'.ious, payments'[x].iou) + payments'[x].fee
  <2>1. x # q /\ payments'[x] = payments[x]
    BY <1>2, <1>6
  <2>2. pfs' = pfs
    BY <1>6, <2>1 DEF IInv, PaymentsInv
  <2> QED BY <1>6, <2>1, <2>2 DEF IInv, PaymentsInv
<1> QED BY <1>3, <1>4, <1>5, <1>6 DEF PaymentsInv

(* A payment starts to post; the semaphore was free.                       *)
LEMMA PostStep ==
  ASSUME IInv, NEW q \in Payments, NEW new, GoodPayment(new), pfs' = pfs,
         new.iou = NoIOU \/ new.iou.amount <= Due(pfs.ious, new.iou) + new.fee,
         payments' = [payments EXCEPT ![q] = new],
         \A o \in Payments : payments[o].pc # "posting"
  PROVE  PaymentsInv'
<1>1. payments = [x \in Payments |-> payments[x]]
  BY DEF IInv, PaymentsInv
<1>2. \A x \in Payments : payments'[x] = IF x = q THEN new ELSE payments[x]
  BY <1>1
<1>3. payments' = [x \in Payments |-> payments'[x]]
  BY <1>1
<1>4. \A x \in Payments : GoodPayment(payments'[x])
  BY <1>2 DEF IInv, PaymentsInv
<1>5. \A x, o \in Payments : payments'[x].pc = "posting" /\ payments'[o].pc = "posting" => x = o
  BY <1>2
<1>6. ASSUME NEW x \in Payments, payments'[x].pc = "posting"
      PROVE  \/ payments'[x].iou = NoIOU
             \/ payments'[x].iou.amount <= Due(pfs'.ious, payments'[x].iou) + payments'[x].fee
  BY <1>2, <1>6
<1> QED BY <1>3, <1>4, <1>5, <1>6 DEF PaymentsInv

(* What the PFS holds does not change, nor what was charged.               *)
LEMMA FeesFrame ==
  ASSUME IInv, c' = c, pfs'.ious = pfs.ious, earned' = earned
  PROVE  FeesAreEarned'
<1>1. {o \in pfs.ious : ~Settled(o)}' = {o \in pfs.ious : ~Settled(o)}
  BY DEF Settled
<1> QED BY <1>1 DEF IInv, FeesAreEarned

(* The PFS accepts an IOU: what it can claim grows by at most the fee.     *)
LEMMA AcceptStep ==
  ASSUME IInv, c' = c, NEW q \in Payments, payments[q].pc = "posting",
         Verdict(payments[q].iou) = "OK", Accept(payments[q]), known_price' = known_price
  PROVE  PFSInv' /\ FeesAreEarned'
<1> DEFINE p == payments[q]
           iou == p.iou
           U == {o \in pfs.ious : ~Settled(o)}
           same == {o \in pfs.ious : o.until = iou.until}
           new == {o \in pfs.ious : o.until # iou.until} \cup {iou}
           left == {o \in U : o.until # iou.until}
<1>1. /\ p.fee \in Nat /\ iou \in IOUs
      /\ pfs \in [ious : SUBSET IOUs, price : Nat, confirmed : Nat]
      /\ IsFiniteSet(pfs.ious) /\ known_price \in Nat /\ earned \in Nat /\ c.charged \in Nat
      /\ \A o, x \in pfs.ious : o.until = x.until => o = x
  BY DEF IInv, PFSInv, PaymentsInv, GoodPayment, ContractInv, Stored
<1>2. earned' = earned + p.fee /\ c.charged + Promised(U) <= earned
  BY DEF IInv, Accept, FeesAreEarned
<1>3. U \in SUBSET IOUs /\ IsFiniteSet(U)
  BY <1>1, FS_Subset
<1>4. Promised(U) \in Nat
  <2> HIDE DEF U
  <2> QED BY <1>3, PromisedNat
<1>5. CASE iou = NoIOU
  <2>1. pfs' = pfs
    BY <1>5 DEF Accept
  <2>2. PFSInv'
    BY <1>1, <1>2, <2>1 DEF PFSInv
  <2>3. {o \in pfs.ious : ~Settled(o)}' = U
    BY <2>1 DEF Settled
  <2> HIDE DEF U
  <2>4. FeesAreEarned'
    BY <1>1, <1>2, <1>4, <2>3 DEF FeesAreEarned
  <2> QED BY <2>2, <2>4
<1>6. CASE iou # NoIOU
  <2>1. pfs' = [pfs EXCEPT !.ious = new]
    BY <1>6 DEF Accept
  <2>2. IsFiniteSet({o \in pfs.ious : o.until # iou.until})
    BY <1>1, FS_Subset
  <2>3. new \in SUBSET IOUs /\ IsFiniteSet(new) /\ \A o, x \in new : o.until = x.until => o = x
    BY <1>1, <2>2, FS_AddElement
  <2>4. PFSInv'
    BY <1>1, <1>2, <2>1, <2>3 DEF PFSInv
  <2>5. ~Settled(iou)
    BY <1>6 DEF Verdict
  <2>6. iou.amount <= Due(pfs.ious, iou) + p.fee
    BY <1>6 DEF IInv, PaymentsInv
  <2>7. {o \in pfs.ious : ~Settled(o)}' = left \cup {iou}
    <3>1. pfs'.ious = new
      BY <1>1, <2>1
    <3> QED BY <2>5, <3>1 DEF Settled
  <2>8. left \in SUBSET IOUs /\ IsFiniteSet(left) /\ iou \notin left
    BY <1>3, FS_Subset
  <2>9. Promised(left \cup {iou}) = iou.amount + Promised(left)
    <3> HIDE DEF left, iou
    <3> QED BY <1>1, <2>8, PromisedMore
  <2>10. Promised(U) = Due(pfs.ious, iou) + Promised(left) /\ Due(pfs.ious, iou) \in Nat
    <3>1. CASE same = {}
      <4>1. left = U /\ Due(pfs.ious, iou) = 0
        BY <3>1, PromisedNothing DEF Due
      <4> HIDE DEF left, U
      <4> QED BY <1>4, <4>1
    <3>2. CASE same # {}
      <4>1. PICK x \in pfs.ious : x.until = iou.until
        BY <3>2
      <4>2. same = {x} /\ x \in U /\ U \ {x} = left /\ x \in IOUs
        BY <1>1, <2>5, <4>1 DEF Settled
      <4>3. {x} \in SUBSET IOUs /\ IsFiniteSet({x}) /\ {x} \ {x} = {} /\ x.amount \in Nat
        BY <4>2, FS_Singleton DEF IOUs
      <4>4. Promised({x}) = x.amount + 0
        BY <4>3, PromisedSplit, PromisedNothing
      <4>5. Due(pfs.ious, iou) = x.amount
        <5>1. Due(pfs.ious, iou) = Promised(same)
          BY DEF Due
        <5> HIDE DEF same
        <5>2. Due(pfs.ious, iou) = Promised({x})
          BY <4>2, <5>1
        <5> QED BY <4>3, <4>4, <5>2
      <4> HIDE DEF U, left
      <4>6. Promised(U) = x.amount + Promised(left)
        BY <1>3, <4>2, PromisedSplit
      <4> QED BY <4>3, <4>5, <4>6
    <3> QED BY <3>1, <3>2
  <2>11. Promised(left) \in Nat
    <3> HIDE DEF left
    <3> QED BY <2>8, PromisedNat
  <2>12. iou.amount \in Nat
    BY <1>1 DEF IOUs
  <2> HIDE DEF U, left, iou, p
  <2>13. c.charged + Promised(left \cup {iou}) <= earned + p.fee
    BY <1>1, <1>2, <1>4, <2>6, <2>9, <2>10, <2>11, <2>12
  <2>14. FeesAreEarned'
    BY <1>2, <2>7, <2>13 DEF FeesAreEarned
  <2> QED BY <2>4, <2>14
<1> QED BY <1>5, <1>6

(* The PFS claims an IOU: what it is paid, it can claim no more.           *)
LEMMA ClaimStep ==
  ASSUME IInv, ClaimIOU
  PROVE  IInv' /\ Keeps(c, c')
<1>1. PICK iou \in pfs.ious : Execute(Tx("claim", PFS, iou.amount, iou.until))
  BY DEF ClaimIOU
<1> DEFINE tx == Tx("claim", PFS, iou.amount, iou.until)
           session == [receiver |-> PFS, until |-> iou.until]
           U == {o \in pfs.ious : ~Settled(o)}
<1>2. /\ pfs.ious \in SUBSET IOUs /\ IsFiniteSet(pfs.ious) /\ earned \in Nat
      /\ \A o, x \in pfs.ious : o.until = x.until => o = x
      /\ c.charged \in Nat /\ c.charged + Promised(U) <= earned
      /\ UNCHANGED <<udcVars, pathVars, monitorVars>> /\ c' # c
  BY DEF IInv, PFSInv, ContractInv, Stored, FeesAreEarned, ClaimIOU
<1>3. /\ tx.by \in Services /\ tx.amount = iou.amount /\ iou.amount \in Nat /\ tx.op = "claim"
      /\ tx.by = PFS /\ tx.number = iou.until
  BY <1>2, Constants DEF Tx, IOUs
<1>4. claimRequires(c, tx) /\ c' = claim(c, tx)
  <2>1. Requires(c, tx) /\ c' = Effect(c, tx)
    BY <1>1 DEF Execute
  <2> HIDE DEF tx
  <2> QED BY <1>3, <2>1 DEF Requires, Effect
<1>5. ContractInv(c) /\ session \notin c.settled_sessions
  BY <1>3, <1>4 DEF IInv, claimRequires
<1> HIDE DEF tx
<1>6. /\ ContractInv(c') /\ Keeps(c, c') /\ c'.charged <= c.charged + iou.amount
      /\ c'.settled_sessions = c.settled_sessions \cup {session}
  BY <1>2, <1>3, <1>4, <1>5, ClaimEffect
<1>7. ThreadsInv' /\ DepositOutcome'
  BY <1>2, <1>6, UdcFrame
<1>8. PFSInv' /\ PaymentsInv'
  BY <1>2 DEF IInv, PFSInv, PaymentsInv, pathVars
<1>9. MonitorInv'
  BY <1>2, MonitorFrame
<1>10. FeesAreEarned'
  <2>1. iou \in U /\ U \in SUBSET IOUs /\ IsFiniteSet(U)
    BY <1>2, <1>5, FS_Subset DEF Settled
  <2>2. pfs' = pfs /\ earned' = earned
    BY <1>2 DEF pathVars
  <2>3. {o \in pfs.ious : ~Settled(o)}' = U \ {iou}
    BY <1>2, <1>6, <2>2 DEF Settled
  <2>4. U \ {iou} \in SUBSET IOUs /\ IsFiniteSet(U \ {iou})
    BY <2>1, FS_RemoveElement
  <2> HIDE DEF U
  <2>5. Promised(U) = iou.amount + Promised(U \ {iou}) /\ Promised(U \ {iou}) \in Nat
    BY <2>1, <2>4, PromisedSplit, PromisedNat
  <2>6. c'.charged \in Nat
    BY <1>6 DEF ContractInv, Stored
  <2> DEFINE rest == Promised(U \ {iou})
  <2>7. c'.charged + rest <= earned
    <3> HIDE DEF rest
    <3>1. Promised(U) = iou.amount + rest /\ rest \in Nat
      BY <2>5 DEF rest
    <3> QED BY <1>2, <1>3, <1>6, <2>6, <3>1
  <2> QED BY <2>2, <2>3, <2>7 DEF FeesAreEarned
<1> QED BY <1>6, <1>7, <1>8, <1>9, <1>10 DEF IInv

(* The codes of the PFS.                                                   *)
LEMMA Verdicts ==
  ASSUME NEW iou
  PROVE  Verdict(iou) \in {"OK", "MISSING_IOU", "IOU_ALREADY_CLAIMED", "IOU_EXPIRED_TOO_EARLY",
                           "INSUFFICIENT_SERVICE_PAYMENT", "DEPOSIT_TOO_LOW"}
BY DEF Verdict

(* The steps of payments.                                                  *)
PaymentsStep(q) ==
  \/ InitPayment(q) \/ Unanswered(q) \/ QueryMetadata(q) \/ WaitForPFS(q)
  \/ QueryPaths(q) \/ PostPaths(q) \/ InitInitiator(q)

(* Every step of a payment keeps what the PFS can claim within its fees.   *)
LEMMA PaymentSteps ==
  ASSUME IInv, NEW q \in Payments, PaymentsStep(q)
  PROVE  PFSInv' /\ PaymentsInv' /\ FeesAreEarned'
<1> DEFINE p == payments[q]
<1>1. GoodPayment(p) /\ c.time \in Nat /\ known_price \in Nat /\ PFSInv
  BY DEF IInv, PaymentsInv, PFSInv, ContractInv, Stored
<1>2. ASSUME UNCHANGED <<c, pfs, known_price, earned>>
      PROVE  PFSInv' /\ FeesAreEarned'
  BY <1>1, <1>2, FeesFrame DEF PFSInv
<1>3. CASE InitPayment(q)
  <2> DEFINE new == get_best_routes(p, channels, known_price, c.time)
  <2>1. /\ p.pc = "idle" /\ payments' = [payments EXCEPT ![q] = new]
        /\ UNCHANGED <<c, pfs, known_price, earned>>
    BY <1>3 DEF InitPayment
  <2>2. GoodPayment(new) /\ new.pc # "posting"
    <3> HIDE DEF p
    <3> QED BY <1>1, <2>1, RoutesGood
  <2> HIDE DEF new, p
  <2> QED BY <1>2, <2>1, <2>2, PaymentStep
<1>4. CASE Unanswered(q)
  <2> DEFINE new == Finished(p, "failed")
  <2>1. payments' = [payments EXCEPT ![q] = new] /\ UNCHANGED <<c, pfs, known_price, earned>>
    BY <1>4 DEF Unanswered
  <2>2. GoodPayment(new) /\ new.pc # "posting"
    <3> HIDE DEF p
    <3> QED BY <1>1, FinishedGood
  <2> HIDE DEF new, p
  <2> QED BY <1>2, <2>1, <2>2, PaymentStep
<1>5. CASE QueryMetadata(q)
  <2> DEFINE new == direct_route(p)
  <2>1. payments' = [payments EXCEPT ![q] = new] /\ UNCHANGED <<c, pfs, known_price, earned>>
    BY <1>5 DEF QueryMetadata
  <2>2. GoodPayment(new) /\ new.pc # "posting"
    <3> HIDE DEF p
    <3> QED BY <1>1, RoutedGood
  <2> HIDE DEF new, p
  <2> QED BY <1>2, <2>1, <2>2, PaymentStep
<1>6. CASE WaitForPFS(q)
  <2> DEFINE new == [p EXCEPT !.pc = "ready"]
  <2>1. payments' = [payments EXCEPT ![q] = new] /\ UNCHANGED <<c, pfs, known_price, earned>>
    BY <1>6 DEF WaitForPFS, IInv, PaymentsInv
  <2> HIDE DEF p
  <2>2. GoodPayment(new) /\ new.pc # "posting"
    BY <1>1 DEF GoodPayment, PaymentFields
  <2> HIDE DEF new
  <2> QED BY <1>2, <2>1, <2>2, PaymentStep
<1>7. CASE QueryPaths(q)
  <2> DEFINE new == query_paths(p, last_iou)
  <2>1. /\ payments' = [payments EXCEPT ![q] = new] /\ UNCHANGED <<c, pfs, known_price, earned>>
        /\ \A o \in Payments : payments[o].pc # "posting"
    BY <1>7 DEF QueryPaths
  <2>2. /\ GoodPayment(new)
        /\ new.iou = NoIOU \/ new.iou.amount <= Due(pfs.ious, new.iou) + new.fee
    <3> HIDE DEF p
    <3> QED BY <1>1, QueryGood
  <2> HIDE DEF new, p
  <2> QED BY <1>2, <2>1, <2>2, PostStep
<1>8. CASE PostPaths(q)
  <2> DEFINE code == Verdict(p.iou)
  <2>1. p.pc = "posting" /\ c' = c
    BY <1>8 DEF PostPaths
  <2>2. CASE code = "OK" /\ Accept(p) /\ known_price' = known_price
    <3>1. PFSInv' /\ FeesAreEarned'
      BY <2>1, <2>2, AcceptStep
    <3>2. \E new : /\ payments' = [payments EXCEPT ![q] = new]
                   /\ new = Finished(p, "failed")
                      \/ \E paths \in Paths : new = get_best_routes_pfs(p, paths)
      BY <1>8, <2>2 DEF PostPaths
    <3>3. PICK new : /\ payments' = [payments EXCEPT ![q] = new]
                     /\ new = Finished(p, "failed")
                        \/ \E paths \in Paths : new = get_best_routes_pfs(p, paths)
      BY <3>2
    <3> HIDE DEF p
    <3>4. GoodPayment(new) /\ new.pc # "posting"
      BY <1>1, <3>3, FinishedGood, RoutedGood
    <3>5. PaymentsInv'
      BY <2>1, <3>3, <3>4, PaymentStep DEF p
    <3> QED BY <3>1, <3>5
  <2>3. CASE /\ code # "OK" /\ UNCHANGED <<pfs, earned>>
             /\ payments' = [payments EXCEPT ![q] = rejected(p, code, pfs.price, known_price)]
             /\ known_price' = updated_price(p, code, pfs.price, known_price)
    <3> DEFINE new == rejected(p, code, pfs.price, known_price)
    <3>1. code \in {"MISSING_IOU", "IOU_ALREADY_CLAIMED", "IOU_EXPIRED_TOO_EARLY",
                    "INSUFFICIENT_SERVICE_PAYMENT", "DEPOSIT_TOO_LOW"}
      BY <2>3, Verdicts
    <3>2. known_price' \in Nat
      BY <1>1, <2>3 DEF updated_price, PFSInv
    <3> HIDE DEF p, code
    <3>3. GoodPayment(new) /\ new.pc # "posting"
      BY <1>1, <3>1, RejectedGood
    <3> HIDE DEF new
    <3>4. PaymentsInv'
      BY <2>3, <3>3, PaymentStep DEF new, p
    <3>5. PFSInv' /\ FeesAreEarned'
      BY <1>1, <2>1, <2>3, <3>2, FeesFrame DEF PFSInv
    <3> QED BY <3>4, <3>5
  <2> QED BY <1>8, <2>2, <2>3 DEF PostPaths
<1>9. CASE InitInitiator(q)
  <2> DEFINE result == IF channels' = channels THEN "failed" ELSE "sent"
             new == Finished(p, result)
  <2>1. payments' = [payments EXCEPT ![q] = new] /\ UNCHANGED <<c, pfs, known_price, earned>>
    BY <1>9 DEF InitInitiator
  <2>2. GoodPayment(new) /\ new.pc # "posting"
    <3> HIDE DEF p, result
    <3> QED BY <1>1, FinishedGood
  <2> HIDE DEF new, p
  <2> QED BY <1>2, <2>1, <2>2, PaymentStep
<1> QED BY <1>3, <1>4, <1>5, <1>6, <1>7, <1>8, <1>9 DEF PaymentsStep

-----------------------------------------------------------------------------
(* Every step.                                                             *)

(* A step that leaves the contracts alone.                                 *)
LEMMA NodeStep ==
  ASSUME IInv, c' = c, ThreadsInv', DepositOutcome', PFSInv', PaymentsInv', FeesAreEarned',
         MonitorInv'
  PROVE  IInv' /\ Keeps(c, c')
BY SameContracts DEF IInv

(* Every step preserves the invariant, and no contract breaks its promise. *)
LEMMA InvStep == IInv /\ [Next]_vars => IInv' /\ Keeps(c, c')
<1> SUFFICES ASSUME IInv, [Next]_vars PROVE IInv' /\ Keeps(c, c')
  OBVIOUS
<1>1. ASSUME c' = c PROVE NoCharge(c, c') /\ ContractInv(c') /\ Keeps(c, c')
  BY <1>1, SameContracts
<1>2. ASSUME c' = c, UNCHANGED <<pathVars, monitorVars>>
      PROVE  PFSInv' /\ PaymentsInv' /\ FeesAreEarned' /\ MonitorInv'
  <2>1. MonitorInv'
    BY <1>2, MonitorFrame
  <2> QED BY <1>1, <1>2, <2>1, PathFrame DEF pathVars
<1>3. ASSUME c' = c, UNCHANGED udcVars PROVE ThreadsInv' /\ DepositOutcome'
  BY <1>1, <1>3, UdcFrame
<1>4. CASE UNCHANGED vars
  <2>1. c' = c /\ UNCHANGED <<udcVars, pathVars, monitorVars>>
    BY <1>4 DEF vars, udcVars, pathVars, monitorVars
  <2> QED BY <1>2, <1>3, <2>1, NodeStep
<1>5. ASSUME NEW t \in Threads, NEW amount \in 1..WholeBalanceLimit,
             NEW op \in {"deposit", "planWithdraw", "withdraw"}, Call(t, op, amount)
      PROVE  IInv' /\ Keeps(c, c')
  <2>1. amount \in Nat
    BY Limits
  <2>2. ThreadsInv' /\ DepositOutcome' /\ c' = c
    BY <1>5, <2>1, CallStep
  <2>3. UNCHANGED <<pathVars, monitorVars>>
    BY <1>5 DEF Call
  <2> QED BY <1>2, <2>2, <2>3, NodeStep
<1>6. ASSUME NEW t \in Threads, JoinDeposit(t) PROVE IInv' /\ Keeps(c, c')
  <2>1. ThreadsInv' /\ DepositOutcome' /\ c' = c
    BY <1>6, JoinStep
  <2>2. UNCHANGED <<pathVars, monitorVars>>
    BY <1>6 DEF JoinDeposit
  <2> QED BY <1>2, <2>1, <2>2, NodeStep
<1>7. ASSUME NEW t \in Threads, Send(t) PROVE IInv' /\ Keeps(c, c')
  <2>1. ThreadsInv' /\ DepositOutcome' /\ c' = c
    BY <1>7, SendStep
  <2>2. UNCHANGED <<pathVars, monitorVars>>
    BY <1>7 DEF Send
  <2> QED BY <1>2, <2>1, <2>2, NodeStep
<1>8. CASE Mine
  <2>1. ThreadsInv' /\ DepositOutcome' /\ ContractInv(c') /\ Keeps(c, c') /\ NoCharge(c, c')
    BY <1>8, MineStep
  <2>2. UNCHANGED <<pathVars, monitorVars>>
    BY <1>8 DEF Mine
  <2>3. PFSInv' /\ PaymentsInv' /\ FeesAreEarned'
    BY <2>1, <2>2, PathFrame DEF pathVars
  <2>4. MonitorInv'
    BY <2>2, MonitorFrame
  <2> QED BY <2>1, <2>3, <2>4 DEF IInv
<1>9. ASSUME NEW q \in Payments, PaymentsStep(q) PROVE IInv' /\ Keeps(c, c')
  <2>1. PFSInv' /\ PaymentsInv' /\ FeesAreEarned'
    BY <1>9, PaymentSteps
  <2>2. c' = c /\ UNCHANGED udcVars /\ UNCHANGED monitorVars
    BY <1>9 DEF PaymentsStep, InitPayment, Unanswered, QueryMetadata, WaitForPFS, QueryPaths,
                PostPaths, InitInitiator
  <2>3. MonitorInv'
    BY <2>2, MonitorFrame
  <2> QED BY <1>3, <2>1, <2>2, <2>3, NodeStep
<1>10. CASE (\E p \in Partners : OpenChannel(p) \/ CloseChannel(p)) \/ SetPrice \/ Confirm
  <2>1. /\ c' = c /\ UNCHANGED <<udcVars, payments, known_price, earned, monitorVars>>
        /\ \/ pfs' = pfs \/ pfs' = [pfs EXCEPT !.price = @ + 1]
           \/ pfs' = [pfs EXCEPT !.confirmed = c.time]
    BY <1>10 DEF OpenChannel, CloseChannel, SetPrice, Confirm
  <2>2. c.time \in Nat
    BY DEF IInv, ContractInv, Stored
  <2>3. PFSInv' /\ pfs'.ious = pfs.ious
    BY <2>1, <2>2 DEF IInv, PFSInv
  <2>4. FeesAreEarned'
    BY <2>1, <2>3, FeesFrame
  <2>5. PaymentsInv'
    BY <2>1, <2>3 DEF IInv, PaymentsInv
  <2>6. MonitorInv'
    BY <2>1, MonitorFrame
  <2> QED BY <1>3, <2>1, <2>3, <2>4, <2>5, <2>6, NodeStep
<1>11. CASE ClaimIOU
  BY <1>11, ClaimStep
<1>12. CASE ReceiveBalanceProof
  <2>1. /\ c' = c /\ UNCHANGED <<udcVars, pathVars>> /\ proof < MaxNonce /\ proof' = proof + 1
        /\ requests' \subseteq requests \cup {proof + 1}
    BY <1>12 DEF ReceiveBalanceProof
  <2>2. MonitorInv'
    BY <2>1, Constants DEF IInv, MonitorInv
  <2>3. PFSInv' /\ PaymentsInv' /\ FeesAreEarned'
    BY <1>1, <2>1, PathFrame DEF pathVars
  <2> QED BY <1>3, <2>1, <2>2, <2>3, NodeStep
<1>13. CASE Close \/ UpdateTransfer \/ ClaimReward \/ Settle \/ Deprecate
  <2>1. PICK tx \in {Tx("close", Node, 0, 0), Tx("update", Node, 0, proof),
                     Tx("claimReward", Node, 0, 0), Tx("settle", Node, 0, 0),
                     Tx("deprecate", Node, 0, 0)} : Execute(tx)
    BY <1>13 DEF Close, UpdateTransfer, ClaimReward, Settle, Deprecate
  <2>2. UNCHANGED <<udcVars, pathVars, monitorVars>>
    BY <1>13 DEF Close, UpdateTransfer, ClaimReward, Settle, Deprecate
  <2>3. WellFormed(tx) /\ tx.op # "claim"
    <3>1. proof \in Nat
      BY Constants DEF IInv, MonitorInv
    <3> QED BY <2>1, <3>1 DEF Tx, WellFormed, Operations
  <2> QED BY <2>1, <2>2, <2>3, ExecuteStep
<1>14. ASSUME NEW x \in Services, Monitor(x) PROVE IInv' /\ Keeps(c, c')
  <2>1. PICK n \in requests : Execute(Tx("monitor", x, Reward, n))
    BY <1>14 DEF Monitor
  <2> DEFINE tx == Tx("monitor", x, Reward, n)
  <2>2. WellFormed(tx) /\ tx.op # "claim"
    BY <2>1, Constants DEF Tx, WellFormed, Operations, IInv, MonitorInv
  <2>3. UNCHANGED <<udcVars, pathVars, monitorVars>>
    BY <1>14 DEF Monitor
  <2> HIDE DEF tx
  <2> QED BY <2>1, <2>2, <2>3, ExecuteStep DEF tx
<1>15. ASSUME NEW x \in Services, Register(x) PROVE IInv' /\ Keeps(c, c')
  <2>1. PICK limit \in {MinPrice, MinPrice * PriceBump} : Execute(Tx("register", x, limit, 0))
    BY <1>15 DEF Register
  <2> DEFINE tx == Tx("register", x, limit, 0)
  <2>2. limit \in Nat
    BY <2>1, Constants
  <2>3. WellFormed(tx) /\ tx.op # "claim"
    BY <2>2 DEF Tx, WellFormed, Operations
  <2>4. UNCHANGED <<udcVars, pathVars, monitorVars>>
    BY <1>15 DEF Register
  <2> HIDE DEF tx
  <2> QED BY <2>1, <2>3, <2>4, ExecuteStep DEF tx
<1>16. ASSUME NEW x \in Services, Release(x) PROVE IInv' /\ Keeps(c, c')
  <2>1. PICK d \in c.deposits : Execute(Tx("release", x, 0, d.until))
    BY <1>16 DEF Release
  <2> DEFINE tx == Tx("release", x, 0, d.until)
  <2>2. WellFormed(tx) /\ tx.op # "claim"
    BY DEF Tx, WellFormed, Operations
  <2>3. UNCHANGED <<udcVars, pathVars, monitorVars>>
    BY <1>16 DEF Release
  <2> HIDE DEF tx
  <2> QED BY <2>1, <2>2, <2>3, ExecuteStep DEF tx
<1>17. CASE NewBlock
  <2>1. c' = [c EXCEPT !.time = @ + 1] /\ UNCHANGED <<udcVars, pathVars, monitorVars>>
    BY <1>17 DEF NewBlock
  <2>2. ContractInv(c') /\ Keeps(c, c') /\ NoCharge(c, c')
    BY <2>1, BlockEffect DEF IInv
  <2>3. ThreadsInv' /\ DepositOutcome'
    BY <2>1, <2>2, UdcFrame
  <2>4. PFSInv' /\ PaymentsInv' /\ FeesAreEarned'
    BY <2>1, <2>2, PathFrame DEF pathVars
  <2>5. MonitorInv'
    BY <2>1, MonitorFrame
  <2> QED BY <2>2, <2>3, <2>4, <2>5 DEF IInv
<1> QED BY <1>4, <1>5, <1>6, <1>7, <1>8, <1>9, <1>10, <1>11, <1>12, <1>13, <1>14, <1>15,
           <1>16, <1>17
        DEF Next, PaymentsStep

(* The invariant holds in every state.                                     *)
LEMMA Invariance == Spec => []IInv
<1>1. Init => IInv
  BY InitialInv
<1>2. IInv /\ [Next]_vars => IInv'
  BY InvStep
<1> QED BY <1>1, <1>2, PTL DEF Spec

-----------------------------------------------------------------------------

(* UserDeposit holds what it owes, for any services, limits and amounts,   *)
(* whatever deposits, withdraws, claims of IOUs and rewards happen.        *)
THEOREM UserDepositSolvent == Spec => []UDCSolvent
<1>1. IInv => UDCSolvent
  BY DEF IInv, ContractInv, Solvent, UDCSolvent
<1> QED BY <1>1, Invariance, PTL

(* A deposit call that reports success, or a failure for no reason it      *)
(* found, has what it asked for; also one that joined a concurrent call.   *)
THEOREM DepositsHappen == Spec => []DepositOutcome
<1>1. IInv => DepositOutcome
  BY DEF IInv
<1> QED BY <1>1, Invariance, PTL

(* The node owes the PFS at most the fees of the requests it accepted.     *)
THEOREM NoFeeTwice == Spec => []FeesAreEarned
<1>1. IInv => FeesAreEarned
  BY DEF IInv
<1> QED BY <1>1, Invariance, PTL

(* MonitoringService pays no balance proof twice.                          *)
THEOREM NoRewardTwice == Spec => []ProofRewardedOnce
<1>1. IInv => ProofRewardedOnce
  BY DEF IInv, ContractInv, RewardsInOrder, ProofRewardedOnce
<1> QED BY <1>1, Invariance, PTL

(* ServiceRegistry keeps the tokens of a registration until it ends.       *)
THEOREM RegistrationsBacked == Spec => []RegistrationBacked
<1>1. IInv => RegistrationBacked
  BY DEF IInv, ContractInv, Backed, RegistrationBacked
<1> QED BY <1>1, Invariance, PTL

(* The effective balance of UserDeposit shrinks by payments and new plans  *)
(* only.                                                                   *)
THEOREM BalanceIsReliable == Spec => EffectiveBalanceKept
<1> DEFINE A == effectiveBalance(c') < effectiveBalance(c)
                => \/ \E s \in Services : c'.balances[s] > c.balances[s]
                   \/ c'.withdraw_plan.amount > 0 /\ c'.withdraw_plan # c.withdraw_plan
<1>1. IInv /\ [Next]_vars => [A]_vars
  BY InvStep DEF Keeps
<1> QED BY <1>1, Invariance, PTL DEF Spec, EffectiveBalanceKept

=============================================================================
