------------------------------ MODULE Services ------------------------------
(***************************************************************************)
(* A node and the services it pays: calls of the user deposit proxy from   *)
(* several greenlets, payments that query a path finding service (PFS) for *)
(* routes and pay it with IOUs, and requests to monitoring services, over  *)
(* the service contracts.                                                  *)
(*                                                                         *)
(* The services are not part of the repository.  They are modelled from    *)
(* the error codes and answers the node handles: a PFS keeps the latest    *)
(* IOU of each session, refuses requests it is not paid for, and may       *)
(* change its price, lose a request, or have its answer lost; a monitoring *)
(* service submits any balance proof it was asked to monitor.  They use    *)
(* the contracts as the contracts allow.                                   *)
(*                                                                         *)
(* An instance chooses one of Scenarios, the budgets of the kinds of       *)
(* operations that happen together.                                        *)
(***************************************************************************)
EXTENDS PathFinding

CONSTANTS
    Threads, Payments,      \* greenlets of the proxy, payments
    PFS, InitialPrice,      \* one of Services, and its price
    Reward,                 \* MONITORING_REWARD
    InitialDeposit, Wallet, \* the node's deposit and tokens at first
    Scenarios,              \* the operations of an instance
    MaxTime                 \* bound

ASSUME ServicesAssumption ==
    /\ PFS \in Services
    /\ InitialPrice \in Nat /\ Reward \in Nat /\ MaxTime \in Nat
    /\ InitialDeposit \in 0..WholeBalanceLimit /\ Wallet \in Nat

VARIABLES
    c,              \* the contracts
    threads,        \* calls of the user deposit proxy
    pool,           \* the calls whose transactions wait to be mined, in order
    inflight,       \* _inflight_deposits of the node: total, and its thread
    payments,       \* see PathFinding
    known_price,    \* pfs_config.info.price
    channels,       \* the node's channels
    pfs,            \* of the PFS: the IOUs, its price, its confirmed block
    earned,         \* the fees of the requests the PFS has accepted
    proof,          \* nonce of the partner's latest balance proof
    requests,       \* the nonces the node requested the monitoring of
    work            \* what is left of the scenario

vars == <<c, threads, pool, inflight, payments, known_price, channels, pfs, earned,
          proof, requests, work>>
udcVars == <<threads, pool, inflight>>
pathVars == <<payments, known_price, channels, pfs, earned>>
monitorVars == <<proof, requests>>

NoCall == [op |-> "none", amount |-> 0, allowance |-> 0, pc |-> "idle", on |-> {}, result |-> "none"]
NoDeposit == [total |-> 0, by |-> {}]

\* All services have just registered; the node has a channel with every
\* neighbour but the target.
Init ==
    /\ c = [time |-> 0, wallet |-> [a \in Accounts |-> IF a = Node THEN Wallet ELSE MinPrice],
            balances |-> [a \in Accounts |-> IF a = Node THEN InitialDeposit ELSE 0],
            total_deposit |-> InitialDeposit, whole_balance |-> InitialDeposit,
            held |-> InitialDeposit, withdraw_plan |-> NoPlan,
            settled_sessions |-> {}, charged |-> 0,
            valid_till |-> [s \in Services |-> RegistrationDuration],
            set_price |-> MinPrice, set_price_at |-> 0, deprecated |-> FALSE,
            deposits |-> {[owner |-> s, until |-> RegistrationDuration, amount |-> MinPrice]
                            : s \in Services},
            channel |-> [state |-> "opened", nonce |-> 0, settleable_after |-> 0],
            reward |-> NoReward, rewarded |-> [n \in 1..MaxNonce |-> 0]]
    /\ threads = [t \in Threads |-> NoCall] /\ pool = <<>> /\ inflight = NoDeposit
    /\ payments = [q \in Payments |-> NewPayment] /\ known_price = InitialPrice
    /\ channels = [p \in Partners |->
                     IF p = Target THEN NoChannel
                     ELSE [status |-> "opened", capacity |-> Capacity, opened |-> 0]]
    /\ pfs = [ious |-> {}, price |-> InitialPrice, confirmed |-> 0] /\ earned = 0
    /\ proof = 0 /\ requests = {}
    /\ work \in Scenarios

Spend(kind) == work[kind] > 0 /\ work' = [work EXCEPT ![kind] = @ - 1]

\* A transaction of somebody else.
Execute(tx) == Requires(c, tx) /\ c' = Effect(c, tx)

-----------------------------------------------------------------------------
(* The user deposit proxy.                                                 *)

\* The result of a call; a deposit leaves _deposit_inflight.
Return(t, result) ==
    /\ threads' = [threads EXCEPT ![t].pc = "done", ![t].result = result]
    /\ inflight' = IF inflight.by = {t} THEN NoDeposit ELSE inflight

MutJoins(total) == inflight.by # {} /\ inflight.total <= total

\* A concurrent deposit that includes this one makes it unnecessary.
Joins(total) == inflight.by # {} /\ inflight.total >= total

Call(t, op, amount) ==
    /\ threads[t].pc = "idle" /\ Spend("calls")
    /\ LET call == [NoCall EXCEPT !.op = op, !.amount = amount,
                                  !.allowance = amount_to_deposit(c, amount) + 1]
       IN IF ~Preconditions(c, call)
          THEN /\ threads' = [threads EXCEPT ![t] = [call EXCEPT !.pc = "done", !.result = "broken"]]
               /\ UNCHANGED inflight
          ELSE IF op = "deposit" /\ Joins(amount)
          THEN /\ threads' = [threads EXCEPT ![t] = [call EXCEPT !.pc = "joined", !.on = inflight.by]]
               /\ UNCHANGED inflight
          ELSE /\ threads' = [threads EXCEPT ![t] = [call EXCEPT !.pc = "called"]]
               /\ inflight' = IF op = "deposit" THEN [total |-> amount, by |-> {t}] ELSE inflight
    /\ UNCHANGED <<c, pool, pathVars, monitorVars>>

\* async_result.get()
JoinDeposit(t) ==
    /\ threads[t].pc = "joined"
    /\ \E o \in threads[t].on :
          threads[o].pc = "done" /\ Return(t, threads[o].result)
    /\ UNCHANGED <<c, pool, pathVars, monitorVars, work>>

TxOf(t) == Tx(threads[t].op, Node, threads[t].amount, threads[t].allowance)

\* The pending block: the latest one with the node's own transactions.
Pending ==
    LET after[k \in 0..Len(pool)] ==
          IF k = 0 THEN c
          ELSE LET s == after[k - 1] IN
               IF Requires(s, TxOf(pool[k])) THEN Effect(s, TxOf(pool[k])) ELSE s
    IN after[Len(pool)]

\* Estimate and send.  A deposit first has its approval mined, which comes
\* after every transaction the node sent before; withdraws and plans hold
\* _withdraw_lock until they return.
Send(t) ==
    /\ threads[t].pc = "called"
    /\ IF threads[t].op = "deposit" THEN pool = <<>>
       ELSE \A o \in Threads : threads[o].op # "deposit" => threads[o].pc # "sent"
    /\ IF Requires(Pending, TxOf(t))
       THEN /\ pool' = Append(pool, t)
            /\ threads' = [threads EXCEPT ![t].pc = "sent"]
            /\ UNCHANGED inflight
       ELSE Return(t, NotSent(c, threads[t])) /\ UNCHANGED pool
    /\ UNCHANGED <<c, pathVars, monitorVars, work>>

Mine ==
    /\ pool # <<>> /\ pool' = Tail(pool)
    /\ LET t == Head(pool) IN
       IF Requires(c, TxOf(t))
       THEN Return(t, "success") /\ c' = Effect(c, TxOf(t))
       ELSE Return(t, Failed(c, threads[t])) /\ UNCHANGED c
    /\ UNCHANGED <<pathVars, monitorVars, work>>

-----------------------------------------------------------------------------
(* Payments.                                                               *)

Settled(iou) == [receiver |-> PFS, until |-> iou.until] \in c.settled_sessions

\* The answer of the PFS to get_last_iou: the IOU of the latest session.
last_iou ==
    IF pfs.ious = {} THEN NoIOU
    ELSE CHOOSE iou \in pfs.ious : \A other \in pfs.ious : other.until <= iou.until

\* What these IOUs promise together.
Promised(ious) == SumFunction([iou \in ious |-> iou.amount])

\* How the PFS judges the IOU of a request.
Verdict(iou) ==
    LET due == Promised({o \in pfs.ious : o.until = iou.until}) IN
    CASE iou = NoIOU -> IF pfs.price = 0 THEN "OK" ELSE "MISSING_IOU"
      [] OTHER -> IF Settled(iou) THEN "IOU_ALREADY_CLAIMED"
                  ELSE IF iou.until <= c.time THEN "IOU_EXPIRED_TOO_EARLY"
                  ELSE IF iou.amount < due + pfs.price THEN "INSUFFICIENT_SERVICE_PAYMENT"
                  ELSE IF effectiveBalance(c) < iou.amount THEN "DEPOSIT_TOO_LOW"
                  ELSE "OK"

Accept(q) ==
    /\ pfs' = IF q.iou = NoIOU THEN pfs
              ELSE [pfs EXCEPT !.ious = {o \in @ : o.until # q.iou.until} \cup {q.iou}]
    /\ earned' = earned + q.fee

\* The paths a PFS may answer with: any of the neighbours, with any fee.
Paths == {<<>>} \cup {<<[hop |-> p, fee |-> f]>> : p \in Partners, f \in {0, FeeLimit + 1}}
               \cup {<<[hop |-> p, fee |-> 0], [hop |-> o, fee |-> 0]>> : p, o \in Partners}

InitPayment(q) ==
    /\ payments[q].pc = "idle" /\ Spend("payments")
    /\ payments' = [payments EXCEPT ![q] = get_best_routes(@, channels, known_price, c.time)]
    /\ UNCHANGED <<c, udcVars, known_price, channels, pfs, earned, monitorVars>>

\* An HTTP request that fails ends the payment, and releases the semaphore.
Unanswered(q) ==
    /\ payments[q].pc \in {"metadata", "waiting", "ready", "posting"}
    /\ payments[q].pc = "ready" => /\ \A o \in Payments : payments[o].pc # "posting"
                                  /\ payments[q].fee > 0 /\ ~payments[q].scrap
    /\ Spend("failures")
    /\ payments' = [payments EXCEPT ![q] = Finished(@, "failed")]
    /\ UNCHANGED <<c, udcVars, known_price, channels, pfs, earned, monitorVars>>

QueryMetadata(q) ==
    /\ payments[q].pc = "metadata"
    /\ payments' = [payments EXCEPT ![q] = direct_route(@)]
    /\ UNCHANGED <<c, udcVars, known_price, channels, pfs, earned, monitorVars, work>>

WaitForPFS(q) ==
    /\ payments[q].pc = "waiting" /\ pfs.confirmed >= pfs_wait_for_block(payments[q])
    /\ payments' = [payments EXCEPT ![q].pc = "ready"]
    /\ UNCHANGED <<c, udcVars, known_price, channels, pfs, earned, monitorVars, work>>

\* iou_semaphore is taken: one payment at a time makes and posts its IOU.
QueryPaths(q) ==
    /\ payments[q].pc = "ready" /\ \A o \in Payments : payments[o].pc # "posting"
    /\ payments' = [payments EXCEPT ![q] = query_paths(@, last_iou)]
    /\ UNCHANGED <<c, udcVars, known_price, channels, pfs, earned, monitorVars, work>>

\* The request arrives and is answered; or its answer is lost.
PostPaths(q) ==
    /\ payments[q].pc = "posting"
    /\ LET this == payments[q]
           code == Verdict(this.iou)
       IN \/ /\ code = "OK" /\ Accept(this) /\ UNCHANGED <<known_price, work>>
             /\ \E paths \in Paths :
                   payments' = [payments EXCEPT ![q] = get_best_routes_pfs(@, paths)]
          \/ /\ code = "OK" /\ Accept(this) /\ Spend("failures") /\ UNCHANGED known_price
             /\ payments' = [payments EXCEPT ![q] = Finished(@, "failed")]
          \/ /\ code # "OK" /\ UNCHANGED <<pfs, earned, work>>
             /\ payments' = [payments EXCEPT ![q] = rejected(@, code, pfs.price, known_price)]
             /\ known_price' = updated_price(this, code, pfs.price, known_price)
    /\ UNCHANGED <<c, udcVars, channels, monitorVars>>

\* The state change ActionInitInitiator, on the chain state of now.
InitInitiator(q) ==
    /\ payments[q].pc = "routed"
    /\ channels' = try_new_route(channels, payments[q].routes)
    /\ payments' = [payments EXCEPT ![q] =
                       Finished(@, IF channels' = channels THEN "failed" ELSE "sent")]
    /\ UNCHANGED <<c, udcVars, known_price, pfs, earned, monitorVars, work>>

\* What else happens to the channels of the node.
OpenChannel(p) ==
    /\ channels[p].status = "none" /\ Spend("channels")
    /\ channels' = [channels EXCEPT ![p] = [status |-> "opened", capacity |-> Capacity,
                                            opened |-> c.time]]
    /\ UNCHANGED <<c, udcVars, payments, known_price, pfs, earned, monitorVars>>

CloseChannel(p) ==
    /\ channels[p].status = "opened" /\ Spend("channels")
    /\ channels' = [channels EXCEPT ![p].status = "closed"]
    /\ UNCHANGED <<c, udcVars, payments, known_price, pfs, earned, monitorVars>>

-----------------------------------------------------------------------------
(* The PFS.                                                                *)

SetPrice ==
    /\ Spend("prices") /\ pfs' = [pfs EXCEPT !.price = @ + 1]
    /\ UNCHANGED <<c, udcVars, payments, known_price, channels, earned, monitorVars>>

Confirm ==
    /\ pfs.confirmed < c.time /\ \E q \in Payments : payments[q].pc = "waiting"
    /\ pfs' = [pfs EXCEPT !.confirmed = c.time]
    /\ UNCHANGED <<c, udcVars, payments, known_price, channels, earned, monitorVars, work>>

ClaimIOU ==
    /\ \E iou \in pfs.ious : Execute(Tx("claim", PFS, iou.amount, iou.until))
    /\ c' # c
    /\ UNCHANGED <<udcVars, pathVars, monitorVars, work>>

-----------------------------------------------------------------------------
(* Monitoring: the partner of one channel sends balance proofs and closes. *)

\* update_monitoring_service_from_balance_proof
MonitoringUpdate == effectiveBalance(c) >= Reward

ReceiveBalanceProof ==
    /\ proof < MaxNonce /\ c.channel.state = "opened" /\ Spend("proofs")
    /\ proof' = proof + 1
    /\ requests' = IF MonitoringUpdate THEN requests \cup {proof + 1} ELSE requests
    /\ UNCHANGED <<c, udcVars, pathVars>>

Close ==
    /\ proof > 0 /\ Execute(Tx("close", Node, 0, 0))
    /\ UNCHANGED <<udcVars, pathVars, monitorVars, work>>

UpdateTransfer ==
    /\ proof > 0 /\ Execute(Tx("update", Node, 0, proof))
    /\ UNCHANGED <<udcVars, pathVars, monitorVars, work>>

Monitor(s) ==
    /\ \E n \in requests : Execute(Tx("monitor", s, Reward, n))
    /\ UNCHANGED <<udcVars, pathVars, monitorVars, work>>

ClaimReward ==
    /\ Execute(Tx("claimReward", Node, 0, 0))
    /\ UNCHANGED <<udcVars, pathVars, monitorVars, work>>

Settle ==
    /\ Execute(Tx("settle", Node, 0, 0))
    /\ UNCHANGED <<udcVars, pathVars, monitorVars, work>>

-----------------------------------------------------------------------------
(* The registry, and time.                                                 *)

Register(s) ==
    /\ Spend("registrations")
    /\ \E limit \in {MinPrice, MinPrice * PriceBump} : Execute(Tx("register", s, limit, 0))
    /\ UNCHANGED <<udcVars, pathVars, monitorVars>>

Release(s) ==
    /\ Spend("registrations")
    /\ \E d \in c.deposits : Execute(Tx("release", s, 0, d.until))
    /\ UNCHANGED <<udcVars, pathVars, monitorVars>>

Deprecate ==
    /\ Spend("registrations") /\ Execute(Tx("deprecate", Node, 0, 0))
    /\ UNCHANGED <<udcVars, pathVars, monitorVars>>

NewBlock ==
    /\ c.time < MaxTime /\ c' = [c EXCEPT !.time = @ + 1]
    /\ UNCHANGED <<udcVars, pathVars, monitorVars, work>>

Next ==
    \/ \E t \in Threads :
          \/ \E amount \in 1..WholeBalanceLimit :
                \E op \in {"deposit", "planWithdraw", "withdraw"} : Call(t, op, amount)
          \/ JoinDeposit(t) \/ Send(t)
    \/ Mine
    \/ \E q \in Payments :
          \/ InitPayment(q) \/ Unanswered(q) \/ QueryMetadata(q) \/ WaitForPFS(q)
          \/ QueryPaths(q) \/ PostPaths(q) \/ InitInitiator(q)
    \/ \E p \in Partners : OpenChannel(p) \/ CloseChannel(p)
    \/ SetPrice \/ Confirm \/ ClaimIOU
    \/ ReceiveBalanceProof \/ Close \/ UpdateTransfer \/ ClaimReward \/ Settle
    \/ \E s \in Services : Monitor(s) \/ Register(s) \/ Release(s)
    \/ Deprecate \/ NewBlock

Spec == Init /\ [][Next]_vars

-----------------------------------------------------------------------------

(* UserDeposit holds exactly the tokens it owes, and never more than its   *)
(* limit: deposits, withdraws of a plan that services have eaten into,     *)
(* claims of IOUs and of rewards all keep balances, whole_balance and the  *)
(* tokens in step.                                                         *)
UDCSolvent ==
    /\ c.held = SumFunction(c.balances)
    /\ c.whole_balance = c.held /\ c.whole_balance <= WholeBalanceLimit

(* A deposit call that returned a transaction hash, was told that another  *)
(* transaction made the deposit, or failed for no reason the proxy found,  *)
(* has what it asked for: also when it only waited for a concurrent call   *)
(* (_inflight_deposits of the proxy).                                      *)
DepositOutcome ==
    \A t \in Threads :
        /\ threads[t].op = "deposit"
        /\ threads[t].result \in {"success", "increased", "unknown"}
        => c.total_deposit >= threads[t].amount

(* What the PFS has taken from the deposit with its IOUs, and what it can  *)
(* still take, is at most the fees of the requests it has accepted: lost   *)
(* answers, retries, scrapped IOUs and several payments at a time do not   *)
(* make the node pay twice (_query_paths, create_current_iou, and claim of *)
(* OneToN).                                                                *)
FeesAreEarned ==
    c.charged + Promised({o \in pfs.ious : ~Settled(o)}) <= earned

(* No balance proof is rewarded twice, whoever submits it, and although    *)
(* claiming a reward makes MonitoringService forget its nonce: TokenNetwork *)
(* remembers it.                                                           *)
ProofRewardedOnce == \A n \in 1..MaxNonce : c.rewarded[n] <= 1

(* While a service is registered, the tokens that paid for the end of its  *)
(* registration are locked, however often it extended it, unless the       *)
(* registry is deprecated (ServiceRegistry.deposit and Deposit.withdraw).  *)
RegistrationBacked ==
    \A s \in Services :
        hasValidRegistration(c, s) /\ ~c.deprecated
        => \E d \in c.deposits : d.owner = s /\ d.until = c.valid_till[s]

(* What a service may count on, the effective balance, shrinks only by     *)
(* payments to services and by announcing a withdraw, never by carrying a  *)
(* withdraw out, even if claims reduced the balance below the plan         *)
(* meanwhile.                                                              *)
EffectiveBalanceKept ==
    [][effectiveBalance(c') < effectiveBalance(c)
       => \/ \E s \in Services : c'.balances[s] > c.balances[s]
          \/ c'.withdraw_plan.amount > 0 /\ c'.withdraw_plan # c.withdraw_plan]_vars

=============================================================================
