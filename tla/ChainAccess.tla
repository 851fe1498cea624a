---------------------------- MODULE ChainAccess ----------------------------
(***************************************************************************)
(* The greenlets of a node that call the contracts at the same time: the   *)
(* locks of the proxies (channel_operations_lock, token_lock, the          *)
(* dictionary of open secret registrations), the nonce of the account      *)
(* (rpc/client.py), the pool and the blocks of the Ethereum node, and the  *)
(* transactions of the partners and of the services that race with them.   *)
(*                                                                         *)
(* A gas estimation runs on the pending block, the one after the latest    *)
(* with all of the pool in it.  Between two remote calls of a greenlet     *)
(* anything may happen; what it does between them is one step.             *)
(***************************************************************************)
EXTENDS Proxies, SequencesExt

CONSTANTS
  Scenarios,       \* what may be called, and the channels at the start
  Balance,         \* tokens of the node
  MaxBlock,        \* bound: block numbers stop here; every deadline is earlier
  MaxOthers,       \* bound: transactions of others
  MaxTrouble       \* bound: transactions the Ethereum node rejects, and restarts

VARIABLES
  chain,           \* the contracts at the latest block
  confirmed,       \* and at the latest confirmed one, a block earlier
  pool,            \* transactions sent and not mined, as they came
  others,          \* what others may still send: the operations and how many
  calls,           \* calls[t]: the call of greenlet t
  thread,          \* thread[t]: where greenlet t is
  channel_operations_lock, \* the holder for each partner, 0 if free
  token_lock,      \* the holder, 0 if free
  nonce_queue,     \* greenlets at the nonce lock, the first one holds it
  available_nonce, \* _available_nonce
  open_secret_transactions, \* the greenlet that registers each secret, 0 if none
  failures,        \* transactions rejected
  crashes          \* restarts

locks == <<channel_operations_lock, token_lock>>
vars == <<chain, confirmed, pool, others, calls, thread, locks, nonce_queue,
          available_nonce, open_secret_transactions, failures, crashes>>

Threads == DOMAIN thread

\* allowance: the amount to approve; sent: the secrets to register; waits: the
\* greenlets whose registrations it waits for; own: what its own registration gave;
\* nonce: that of its transaction.
NewThread == [pc |-> "new", allowance |-> 0, sent |-> {}, waits |-> {},
              own |-> "none", nonce |-> 0, result |-> "none"]

Locked(t) == calls[t].op \in {"open", "deposit", "withdraw", "close", "settle"}

Tx(t, op) ==
  [by |-> t, op |-> op, partner |-> calls[t].partner,
   amount |-> IF op = "approve" THEN thread[t].allowance ELSE calls[t].amount,
   secrets |-> thread[t].sent, nonce |-> available_nonce]

\* The pending block.
pending == FoldLeft(Run, [chain EXCEPT !.block = @ + 1], pool)

Released(lock, t) ==
  [p \in Partners |-> IF lock[p] = t THEN 0 ELSE lock[p]]

\* The greenlet leaves the proxy, and every lock it holds.
Finish(t, result) ==
  /\ thread' = [thread EXCEPT ![t] = [NewThread EXCEPT !.pc = "done", !.own = thread[t].own,
                                                       !.result = result]]
  /\ channel_operations_lock' = Released(channel_operations_lock, t)
  /\ token_lock' = IF token_lock = t THEN 0 ELSE token_lock

-----------------------------------------------------------------------------
(* Calls                                                                   *)

\* A call refers to the confirmed block, and its preconditions are checked there.
Call(t) ==
  /\ thread[t].pc = "new" /\ calls[t].op # "register"
  /\ LET given == confirmed
         check == Precondition(calls[t], given)
         next == IF Locked(t) THEN "lock" ELSE "estimate"
     IN  /\ thread' = [thread EXCEPT
              ![t].pc = IF check = "ok" THEN next ELSE "done",
              ![t].result = IF check = "ok" THEN "none" ELSE check,
              ![t].allowance = IF check = "ok" /\ calls[t].op = "deposit"
                               THEN amount_to_deposit(calls[t], given) ELSE 0]
         /\ calls' = IF calls[t].op = "settle"
                     THEN [calls EXCEPT ![t].amount = given.channels[calls[t].partner].nonce]
                     ELSE calls
  /\ UNCHANGED <<chain, confirmed, pool, others, locks, nonce_queue, available_nonce,
                 open_secret_transactions, failures, crashes>>

\* Mutant: a secret is looked up on the chain only.
MutRegisterSecretBatch(t) ==
  /\ thread[t].pc = "new" /\ calls[t].op = "register"
  /\ LET to_register == {s \in calls[t].secrets : confirmed.secrets[s] = "none"}
     IN  /\ thread' = [thread EXCEPT ![t].pc = IF to_register = {} THEN "join" ELSE "estimate",
                                     ![t].sent = to_register,
                                     ![t].own = IF to_register = {} THEN "returned" ELSE "none"]
         /\ open_secret_transactions' =
              [s \in Secrets |-> IF s \in to_register THEN t ELSE open_secret_transactions[s]]
  /\ UNCHANGED <<chain, confirmed, pool, others, calls, locks, nonce_queue,
                 available_nonce, failures, crashes>>

\* The secrets of a batch that another greenlet is registering are waited for;
\* of the rest, those not registered at the confirmed block are sent.
register_secret_batch(t) ==
  /\ thread[t].pc = "new" /\ calls[t].op = "register"
  /\ LET inflight == {s \in calls[t].secrets : open_secret_transactions[s] # 0}
         to_register == {s \in calls[t].secrets \ inflight : confirmed.secrets[s] = "none"}
     IN  /\ thread' = [thread EXCEPT ![t].pc = IF to_register = {} THEN "join" ELSE "estimate",
                                     ![t].sent = to_register,
                                     ![t].waits = {open_secret_transactions[s] : s \in inflight},
                                     ![t].own = IF to_register = {} THEN "returned" ELSE "none"]
         /\ open_secret_transactions' =
              [s \in Secrets |-> IF s \in to_register THEN t ELSE open_secret_transactions[s]]
  /\ UNCHANGED <<chain, confirmed, pool, others, calls, locks, nonce_queue,
                 available_nonce, failures, crashes>>

AcquireChannelLock(t) ==
  /\ thread[t].pc = "lock" /\ channel_operations_lock[calls[t].partner] = 0
  /\ channel_operations_lock' = [channel_operations_lock EXCEPT ![calls[t].partner] = t]
  /\ thread' = [thread EXCEPT ![t].pc = IF calls[t].op = "deposit" THEN "token" ELSE "estimate"]
  /\ UNCHANGED <<chain, confirmed, pool, others, calls, token_lock, nonce_queue,
                 available_nonce, open_secret_transactions, failures, crashes>>

\* Mutant: approve and deposit are not serialized.
MutApprove(t) ==
  /\ thread[t].pc = "token"
  /\ thread' = [thread EXCEPT ![t].pc = "approve"]
  /\ nonce_queue' = Append(nonce_queue, t)
  /\ UNCHANGED <<chain, confirmed, pool, others, calls, locks,
                 available_nonce, open_secret_transactions, failures, crashes>>

\* approve takes the token lock, which the deposit keeps until its gas is
\* estimated.  Its own estimation does not fail on a token of the standard.
approve(t) ==
  /\ thread[t].pc = "token" /\ token_lock = 0
  /\ token_lock' = t
  /\ thread' = [thread EXCEPT ![t].pc = "approve"]
  /\ nonce_queue' = Append(nonce_queue, t)
  /\ UNCHANGED <<chain, confirmed, pool, others, calls, channel_operations_lock,
                 available_nonce, open_secret_transactions, failures, crashes>>

\* The estimation on the pending block.  The token lock is released and the
\* nonce lock asked for without a switch of greenlets in between.
estimate_gas(t) ==
  /\ thread[t].pc = "estimate"
  /\ LET ok == Requires(pending, Tx(t, calls[t].op))
     IN  /\ thread' = [thread EXCEPT ![t].pc = IF ok THEN "send" ELSE "classify"]
         /\ nonce_queue' = IF ok THEN Append(nonce_queue, t) ELSE nonce_queue
  /\ token_lock' = IF token_lock = t THEN 0 ELSE token_lock
  /\ UNCHANGED <<chain, confirmed, pool, others, calls, channel_operations_lock,
                 available_nonce, open_secret_transactions, failures, crashes>>

\* The estimation failed, and the latest block is asked for the reason.
Classify(t) ==
  /\ thread[t].pc = "classify"
  /\ Finish(t, EstimateFailed(calls[t], chain))
  /\ UNCHANGED <<chain, confirmed, pool, others, calls, nonce_queue, available_nonce,
                 open_secret_transactions, failures, crashes>>

Sending(t) == thread[t].pc \in {"approve", "send"} /\ Head(nonce_queue) = t

\* transact: the nonce lock is held while the transaction is sent, and the nonce
\* is used up only then.
transact(t) ==
  /\ nonce_queue # <<>> /\ Sending(t)
  /\ pool' = Append(pool, Tx(t, IF thread[t].pc = "approve" THEN "approve" ELSE calls[t].op))
  /\ available_nonce' = available_nonce + 1
  /\ nonce_queue' = Tail(nonce_queue)
  /\ thread' = [thread EXCEPT ![t].pc = IF @ = "approve" THEN "poll_approve" ELSE "poll",
                              ![t].nonce = available_nonce]
  /\ UNCHANGED <<chain, confirmed, others, calls, locks, open_secret_transactions,
                 failures, crashes>>

\* A registration that could not be sent is given up: the secrets are no longer
\* in flight, and those that wait for them get the error.
Popped(t) == [s \in Secrets |-> IF open_secret_transactions[s] = t THEN 0
                                ELSE open_secret_transactions[s]]

\* Mutant: the nonce is used up although nothing was sent.
MutSendRejected(t) ==
  /\ nonce_queue # <<>> /\ Sending(t) /\ failures + crashes < MaxTrouble
  /\ failures' = failures + 1
  /\ nonce_queue' = Tail(nonce_queue)
  /\ available_nonce' = available_nonce + 1
  /\ IF calls[t].op = "register"
     THEN /\ open_secret_transactions' = Popped(t)
          /\ thread' = [thread EXCEPT ![t].pc = "done", ![t].own = "unrecoverable",
                                      ![t].result = "unrecoverable"]
          /\ UNCHANGED locks
     ELSE Finish(t, "error") /\ UNCHANGED open_secret_transactions
  /\ UNCHANGED <<chain, confirmed, pool, others, calls, crashes>>

\* transact, when the Ethereum node rejects the transaction.
SendRejected(t) ==
  /\ nonce_queue # <<>> /\ Sending(t) /\ failures + crashes < MaxTrouble
  /\ failures' = failures + 1
  /\ nonce_queue' = Tail(nonce_queue)
  /\ IF calls[t].op = "register"
     THEN /\ open_secret_transactions' = Popped(t)
          /\ thread' = [thread EXCEPT ![t].pc = "done", ![t].own = "unrecoverable",
                                      ![t].result = "unrecoverable"]
          /\ UNCHANGED locks
     ELSE Finish(t, "error") /\ UNCHANGED open_secret_transactions
  /\ UNCHANGED <<chain, confirmed, pool, others, calls, available_nonce, crashes>>

\* poll_transaction returned: the transaction is confirmed.
poll_transaction(t) ==
  /\ \/ /\ thread[t].pc = "confirmed_approve"
        /\ thread' = [thread EXCEPT ![t].pc = "estimate"]
        /\ UNCHANGED <<locks, open_secret_transactions>>
     \/ /\ thread[t].pc = "confirmed" /\ calls[t].op = "register"
        /\ open_secret_transactions' = Popped(t)
        /\ thread' = [thread EXCEPT ![t].pc = "join", ![t].own = "returned"]
        /\ UNCHANGED locks
     \/ /\ thread[t].pc = "confirmed" /\ calls[t].op # "register"
        /\ Finish(t, thread[t].result)
        /\ UNCHANGED open_secret_transactions
  /\ UNCHANGED <<chain, confirmed, pool, others, calls, nonce_queue, available_nonce,
                 failures, crashes>>

\* The results of the other registrations are waited for; an error among them
\* is raised here too.
JoinRegistrations(t) ==
  /\ thread[t].pc = "join" /\ \A u \in thread[t].waits : thread[u].own # "none"
  /\ Finish(t, IF \E u \in thread[t].waits : thread[u].own = "unrecoverable"
               THEN "unrecoverable" ELSE "returned")
  /\ UNCHANGED <<chain, confirmed, pool, others, calls, nonce_queue, available_nonce,
                 open_secret_transactions, failures, crashes>>

-----------------------------------------------------------------------------
(* The chain and the others                                                *)

\* The next nonce of the account, as the pending block has it.
discover_next_available_nonce == chain.nonce + Len(SelectSeq(pool, LAMBDA tx : tx.by # 0))

Minable(c, tx) == tx.by = 0 \/ tx.nonce = c.nonce

\* A transaction in a block: the account's nonce goes up whether it fails or not.
Mined(c, tx) == [Run(c, tx) EXCEPT !.nonce = IF tx.by = 0 THEN @ ELSE @ + 1]

\* Blocks of at most two transactions of the pool, the account's in the order
\* of their nonces.
Blocks ==
  {<<>>} \cup {<<i>> : i \in {j \in DOMAIN pool : Minable(chain, pool[j])}}
         \cup {<<i, j>> \in (DOMAIN pool) \X (DOMAIN pool) :
                 /\ i # j /\ Minable(chain, pool[i])
                 /\ Minable(Mined(chain, pool[i]), pool[j])}

\* A block: its transactions run, the one before it is confirmed.  The greenlet
\* of a transaction learns its status, and judges a failure by this block, once
\* the next block confirms it.
Block ==
  \E b \in Blocks :
    /\ b = <<>> => chain.block < MaxBlock \/ confirmed # chain
         \/ \E t \in Threads : thread[t].pc \in {"mined", "mined_approve"}
    /\ LET start == [chain EXCEPT !.block = IF @ < MaxBlock THEN @ + 1 ELSE @]
           txs == [k \in 1 .. Len(b) |-> pool[b[k]]]
           after == FoldLeft(Mined, start, txs)
           Before(k) == FoldLeft(Mined, start, SubSeq(txs, 1, k - 1))
           Mine(t) == {k \in 1 .. Len(txs) : txs[k].by = t /\ txs[k].nonce = thread[t].nonce}
           Waiting(t) == thread[t].pc \in {"poll", "poll_approve"}
           Ok(t) == \A k \in Mine(t) : Requires(Before(k), txs[k])
       IN  /\ chain' = after
           /\ confirmed' = chain
           /\ pool' = LET left == SetToSortSeq({i \in DOMAIN pool : i \notin {b[k] : k \in DOMAIN b}},
                                               LAMBDA x, y : x < y)
                      IN  [k \in 1 .. Len(left) |-> pool[left[k]]]
           /\ thread' = [t \in Threads |->
                CASE Waiting(t) /\ Mine(t) # {} /\ thread[t].pc = "poll_approve" ->
                       [thread[t] EXCEPT !.pc = "mined_approve"]
                  [] Waiting(t) /\ Mine(t) # {} /\ thread[t].pc = "poll" ->
                       [thread[t] EXCEPT !.pc = "mined",
                          !.result = IF Ok(t) THEN "returned" ELSE MinedFailed(calls[t], after)]
                  [] thread[t].pc = "mined" -> [thread[t] EXCEPT !.pc = "confirmed"]
                  [] thread[t].pc = "mined_approve" -> [thread[t] EXCEPT !.pc = "confirmed_approve"]
                  [] OTHER -> thread[t]]
  /\ UNCHANGED <<others, calls, locks, nonce_queue, available_nonce,
                 open_secret_transactions, failures, crashes>>

\* A partner or a service sends a transaction that would succeed.
SendOther ==
  /\ others.left > 0
  /\ \E op \in others.ops, p \in Partners, s \in SUBSET Secrets :
       /\ (op = "register") = (s # {})
       /\ LET tx == [by |-> 0, op |-> op, partner |-> p, secrets |-> s, nonce |-> 0,
                     amount |-> IF op = "settle" THEN pending.channels[p].nonce ELSE 0]
          IN  Requires(pending, tx) /\ pool' = Append(pool, tx)
  /\ others' = [others EXCEPT !.left = @ - 1]
  /\ UNCHANGED <<chain, confirmed, calls, thread, locks, nonce_queue, available_nonce,
                 open_secret_transactions, failures, crashes>>

\* The node restarts.  What it has sent is in the pool; the transactions it does
\* not know the end of are sent again; the nonce is discovered.
Restart ==
  /\ failures + crashes < MaxTrouble
  /\ crashes' = crashes + 1
  /\ thread' = [t \in Threads |-> IF thread[t].pc = "done" THEN thread[t] ELSE NewThread]
  /\ channel_operations_lock' = [p \in Partners |-> 0] /\ token_lock' = 0
  /\ nonce_queue' = <<>>
  /\ open_secret_transactions' = [s \in Secrets |-> 0]
  /\ available_nonce' = discover_next_available_nonce
  /\ UNCHANGED <<chain, confirmed, pool, others, calls, failures>>

-----------------------------------------------------------------------------
Init ==
  \E scenario \in Scenarios :
    /\ chain = [channels |-> [p \in Partners |-> scenario.channel],
                block |-> 0, balance |-> Balance, allowance |-> 0, deprecated |-> FALSE,
                secrets |-> [s \in Secrets |-> "none"], nonce |-> 0]
    /\ calls = scenario.calls
    /\ others = [ops |-> scenario.others, left |-> MaxOthers]
    /\ thread = [t \in DOMAIN scenario.calls |-> NewThread]
    /\ confirmed = chain
    /\ pool = <<>> /\ nonce_queue = <<>> /\ available_nonce = 0
    /\ channel_operations_lock = [p \in Partners |-> 0] /\ token_lock = 0
    /\ open_secret_transactions = [s \in Secrets |-> 0]
    /\ failures = 0 /\ crashes = 0

Next ==
  \/ \E t \in Threads :
       \/ Call(t) \/ register_secret_batch(t) \/ AcquireChannelLock(t) \/ approve(t)
       \/ estimate_gas(t) \/ Classify(t) \/ transact(t) \/ SendRejected(t)
       \/ poll_transaction(t) \/ JoinRegistrations(t)
  \/ Block \/ SendOther \/ Restart

Spec == Init /\ [][Next]_vars

\* Every greenlet that can go on goes on, and the miners take what they can.
Runnable(t) ==
  \/ thread[t].pc \in {"new", "estimate", "classify", "confirmed", "confirmed_approve"}
  \/ thread[t].pc = "lock" /\ channel_operations_lock[calls[t].partner] = 0
  \/ thread[t].pc = "token" /\ token_lock = 0
  \/ nonce_queue # <<>> /\ Sending(t)
  \/ thread[t].pc = "join" /\ \A u \in thread[t].waits : thread[u].own # "none"

FairSpec ==
  /\ Spec
  /\ \A t \in 1 .. 3 : []<>(t \in Threads => ~ Runnable(t))
  /\ []<>(\A i \in DOMAIN pool : pool[i].by = 0 \/ pool[i].nonce # chain.nonce)
  /\ []<>(\A t \in Threads : thread[t].pc \notin {"mined", "mined_approve"})

-----------------------------------------------------------------------------
Own == SelectSeq(pool, LAMBDA tx : tx.by # 0)

\* No nonce is used twice and none is left out: the account's transactions in the
\* pool have the nonces from the next one the chain will take to the last one
\* given out, whatever was rejected and however often the node restarted
\* (transact, discover_next_available_nonce).
NoncesInSequence ==
  /\ {Own[i].nonce : i \in DOMAIN Own} = chain.nonce .. available_nonce - 1
  /\ Len(Own) = available_nonce - chain.nonce

\* The allowance is not changed until the deposit is done: when the account's
\* transactions before it are mined, a deposit that was sent still finds the
\* tokens it needs approved (_approve_and_set_total_deposit, token_lock).
AllowanceKept ==
  \A i \in DOMAIN Own :
    Own[i].op = "deposit" =>
      LET c == FoldLeft(Run, chain, SubSeq(Own, 1, i - 1))
      IN  c.allowance >= Own[i].amount - c.channels[Own[i].partner].deposit

\* While a node runs, it pays once for a secret: no registration in the pool is of
\* a secret that another transaction of the node has registered or is going to
\* (open_secret_transactions and the wait for confirmation).
RegisteredOnce ==
  crashes = 0 =>
    \A i \in DOMAIN Own : \A s \in Own[i].secrets :
      /\ chain.secrets[s] # "node"
      /\ \A j \in DOMAIN Own : s \in Own[j].secrets => i = j

InPool(op, p) == \E i \in DOMAIN pool : pool[i].op = op /\ pool[i].partner = p

\* A cooperative settlement may be sent, and expire in the pool.
CoopExpired ==
  /\ chain.block >= Expiration
  /\ \/ "coop_settle" \in others.ops /\ others.left < MaxOthers
     \/ \E t \in Threads : calls[t].op = "coop_settle"

\* On the chain, a call has reached its goal or is too late for it.
TooLate(call) ==
  LET ch == chain.channels[call.partner]
  IN  CASE call.op = "close" -> ch.state > OPENED
        [] call.op = "withdraw" ->
             ch.state > OPENED \/ chain.block >= Expiration \/ ch.withdrawn >= call.amount
        [] call.op = "update" ->
             ch.state >= SETTLED \/ ch.settle_block_number < chain.block \/ ch.nonce = 1
        [] call.op = "unlock" -> ch.state = REMOVED
        [] OTHER -> TRUE

\* A call is being overtaken: by a transaction in the pool, or by a deadline that
\* the pending block has reached and the latest one has not.
Overtaken(call) ==
  LET p == call.partner
      ch == chain.channels[p]
      ended == InPool("close", p) \/ InPool("coop_settle", p)
  IN  CASE call.op = "close" -> ended \/ CoopExpired
        [] call.op = "withdraw" ->
             ended \/ InPool("withdraw", p) \/ chain.block + 1 >= Expiration
        [] call.op = "update" ->
             InPool("update", p) \/ ch.settle_block_number < chain.block + 1
        [] call.op = "unlock" -> InPool("unlock", p)
        [] call.op = "settle" -> ch.state >= SETTLED \/ InPool("settle", p)
        [] call.op = "register" -> failures > 0
        [] OTHER -> FALSE

\* Errors tell the truth.  A recoverable error of a close, a withdraw, an update
\* or an unlock says that the chain has left the call behind; an unrecoverable
\* error that was not there when the call was made is raised only when a
\* transaction that is not mined yet, or a deadline at the very next block,
\* overtakes the call, or when the chain has left it behind in a way the proxy
\* does not recognise (the checks after a failed estimation, which look at the
\* latest block, and after a failed transaction).
ErrorsAreTrue ==
  \A t \in Threads :
    thread[t].pc = "done" =>
      /\ thread[t].result = "recoverable" => TooLate(calls[t])
      /\ thread[t].result = "unrecoverable" =>
           \/ Overtaken(calls[t])
           \/ calls[t].op \in {"close", "withdraw", "update", "unlock"} /\ TooLate(calls[t])

\* Every call comes back: nobody waits for ever for a lock, for a nonce, for the
\* registration of another greenlet or for a transaction (transact,
\* register_secret_batch: "otherwise we have a dead-lock").
EveryCallReturns ==
  \A t \in 1 .. 3 : []<>(t \in Threads => thread[t].pc = "done")

=============================================================================
