---------------------------- MODULE TokenNetwork ----------------------------
(***************************************************************************)
(* The TokenNetwork contract (TokenNetwork.sol), with the SecretRegistry   *)
(* it reads and the token it holds.  Every public transaction that changes *)
(* storage is one action; a transaction that would revert is not enabled.  *)
(*                                                                         *)
(* Hashes are injective, so a balance hash is the data it commits to and a *)
(* locksroot is the list of locks.  A signature that verifies is the only  *)
(* kind that changes storage; the contract accepts whatever the signers    *)
(* agree to, so the signed values range over the constant sets below.      *)
(***************************************************************************)
EXTENDS Integers, Sequences, FiniteSets, Functions

CONSTANTS
  Participants,        \* addresses that own tokens and channels
  MAX_SAFE_UINT256,    \* largest value of a uint256
  SettleTimeout,       \* settle_timeout of the constructor
  ParticipantLimit,    \* channel_participant_deposit_limit of the constructor
  NetworkLimit,        \* token_network_deposit_limit of the constructor
  Supply,              \* tokens each participant owns at deployment
  SecretHashes,        \* secrethashes used in locks
  LockLists,           \* lists of locks that participants commit to
  BalanceHashes,       \* balance data that participants sign
  EmptyBalanceHash,    \* bytes32(0x0)
  MaxChannels,         \* bound: channels opened
  MaxNonce,            \* bound: nonces signed
  MaxTime              \* bound: block timestamps

ChannelIds == 1 .. MaxChannels

Lock == [expiration : Nat, amount : Nat, secrethash : SecretHashes]

ASSUME TokenNetworkAssumption ==
  /\ IsFiniteSet(Participants)
  /\ MAX_SAFE_UINT256 \in Nat \ {0}
  /\ SettleTimeout \in Nat \ {0}
  /\ ParticipantLimit \in 1 .. MAX_SAFE_UINT256
  /\ NetworkLimit \in ParticipantLimit .. MAX_SAFE_UINT256
  /\ Supply \in Nat
  /\ LockLists \subseteq Seq(Lock)
  /\ BalanceHashes \subseteq
       [transferred : 0 .. MAX_SAFE_UINT256, locked : 0 .. MAX_SAFE_UINT256,
        locksroot : LockLists]
  /\ EmptyBalanceHash \notin BalanceHashes
  /\ MaxChannels \in Nat \ {0}
  /\ MaxNonce \in Nat
  /\ MaxTime \in Nat \ {0}

VARIABLES
  timestamp,        \* block.timestamp
  reserve,          \* token.balanceOf(address(this))
  wallet,           \* token.balanceOf of each participant
  deprecated,       \* safety_deprecation_switch
  limits,           \* the two deposit limits
  channel_counter,
  channel_of,       \* participants_hash_to_channel_identifier
  state,            \* channels[id].state as stored
  settleable_after,
  parts,            \* channels[id].participants
  unlock_data,      \* unlock_identifier_to_unlock_data
  revealed_at       \* SecretRegistry.secrethash_to_timestamp

chanVars == <<channel_counter, channel_of, state, settleable_after, parts>>
tokenVars == <<reserve, wallet>>
adminVars == <<deprecated, limits>>
vars == <<timestamp, tokenVars, adminVars, chanVars, unlock_data, revealed_at>>

-----------------------------------------------------------------------------
(* Helpers of Utils.sol *)

min(a, b) == IF a > b THEN b ELSE a

MutSubtract(a, b) == <<a - b, b>>

failsafe_subtract(a, b) == IF a > b THEN <<a - b, b>> ELSE <<0, a>>

failsafe_addition(a, b) ==
  IF a + b <= MAX_SAFE_UINT256 THEN a + b ELSE MAX_SAFE_UINT256

(* Settlement arithmetic *)

getMaxPossibleReceivableAmount(d1, w1, t1, l1, t2, l2) ==
  LET max1 == failsafe_addition(t1, l1)
      max2 == failsafe_addition(t2, l2)
  IN  failsafe_subtract(failsafe_addition(max2 - max1, d1), w1)[1]

MutAvailableDeposit(p1, p2) ==
  p1.deposit + p2.deposit - p1.withdrawn_amount

getChannelAvailableDeposit(p1, p2) ==
  p1.deposit + p2.deposit - p1.withdrawn_amount - p2.withdrawn_amount

MutSettleAmounts(p1, t1, l1, p2, t2, l2) ==
  LET tad   == getChannelAvailableDeposit(p1, p2)
      rmax1 == getMaxPossibleReceivableAmount(p1.deposit,
                 p1.withdrawn_amount, t1, l1, t2, l2)
      one   == failsafe_subtract(rmax1, l2)
      two   == failsafe_subtract(tad - rmax1, l1)
  IN  [amount1 |-> one[1], amount2 |-> two[1],
       locked1 |-> two[2], locked2 |-> one[2]]

(* S1, S2, SL1 and SL2 of the contract's comments, in that order. *)
getSettleTransferAmounts(p1, t1, l1, p2, t2, l2) ==
  LET tad   == getChannelAvailableDeposit(p1, p2)
      rmax1 == min(getMaxPossibleReceivableAmount(p1.deposit,
                     p1.withdrawn_amount, t1, l1, t2, l2), tad)
      one   == failsafe_subtract(rmax1, l2)
      two   == failsafe_subtract(tad - rmax1, l1)
  IN  [amount1 |-> one[1], amount2 |-> two[1],
       locked1 |-> two[2], locked2 |-> one[2]]

(* The storage of one channel participant, and its value after delete. *)
BalanceHash == BalanceHashes \cup {EmptyBalanceHash}

Participant ==
  [deposit : Nat, withdrawn_amount : Nat, is_the_closer : BOOLEAN,
   balance_hash : BalanceHash, nonce : Nat]

NoParticipant ==
  [deposit |-> 0, withdrawn_amount |-> 0, is_the_closer |-> FALSE,
   balance_hash |-> EmptyBalanceHash, nonce |-> 0]

Storage == [ChannelIds -> [Participants -> Participant]]

UnlockData == [locksroot : LockLists \cup {<<>>}, locked_amount : Nat]

NoUnlockData == [locksroot |-> <<>>, locked_amount |-> 0]

UnlockKeys == ChannelIds \X Participants \X Participants

Init ==
  /\ timestamp = 1
  /\ reserve = 0
  /\ wallet = [p \in Participants |-> Supply]
  /\ deprecated = FALSE
  /\ limits = [participant |-> ParticipantLimit, network |-> NetworkLimit]
  /\ channel_counter = 0
  /\ channel_of = [pair \in SUBSET Participants |-> 0]
  /\ state = [id \in ChannelIds |-> "NonExistent"]
  /\ settleable_after = [id \in ChannelIds |-> 0]
  /\ parts = [id \in ChannelIds |-> [p \in Participants |-> NoParticipant]]
  /\ unlock_data = [k \in UnlockKeys |-> NoUnlockData]
  /\ revealed_at = [h \in SecretHashes |-> 0]

-----------------------------------------------------------------------------
(* getChannelIdentifier reverts for identical addresses *)
IsChannelOf(id, p, q) == p # q /\ channel_of[{p, q}] = id

(* deprecate and removeLimits of the controller *)
deprecate ==
  /\ ~deprecated
  /\ deprecated' = TRUE
  /\ UNCHANGED <<timestamp, tokenVars, limits, chanVars, unlock_data, revealed_at>>

removeLimits ==
  /\ limits' = [participant |-> MAX_SAFE_UINT256, network |-> MAX_SAFE_UINT256]
  /\ UNCHANGED <<timestamp, tokenVars, deprecated, chanVars, unlock_data, revealed_at>>

(* The requirements of setTotalDepositFor on the participants' storage.    *)
(* The sum of the two deposits must not wrap around.                       *)
MayDeposit(p1, p2, total_deposit, token_owner) ==
  LET added == total_deposit - p1.deposit
  IN  /\ total_deposit > 0
      /\ total_deposit <= limits.participant
      /\ added > 0
      /\ reserve + added <= limits.network
      /\ total_deposit + p2.deposit <= MAX_SAFE_UINT256
      /\ wallet[token_owner] >= added

setTotalDepositFor(id, p, total_deposit, token_owner) ==
  LET added == total_deposit - parts[id][p].deposit
  IN  /\ parts' = [parts EXCEPT ![id][p].deposit = total_deposit]
      /\ reserve' = reserve + added
      /\ wallet' = [wallet EXCEPT ![token_owner] = @ - added]

MayOpen(p, q) ==
  /\ p # q
  /\ ~deprecated
  /\ reserve < limits.network
  /\ channel_of[{p, q}] = 0
  /\ channel_counter < MaxChannels

MutStoreNewChannel(p, q) ==
  /\ channel_counter' = channel_counter + 1
  /\ channel_of' = [channel_of EXCEPT ![{p, q}] = channel_counter]
  /\ state' = [state EXCEPT ![channel_counter] = "Opened"]

StoreNewChannel(p, q) ==
  /\ channel_counter' = channel_counter + 1
  /\ channel_of' = [channel_of EXCEPT ![{p, q}] = channel_counter + 1]
  /\ state' = [state EXCEPT ![channel_counter + 1] = "Opened"]

openChannel(p, q) ==
  /\ MayOpen(p, q)
  /\ StoreNewChannel(p, q)
  /\ UNCHANGED <<timestamp, tokenVars, adminVars, settleable_after, parts,
                 unlock_data, revealed_at>>

openChannelWithDeposit(p, q, total_deposit, sender) ==
  /\ MayOpen(p, q)
  /\ MayDeposit(NoParticipant, NoParticipant, total_deposit, sender)
  /\ StoreNewChannel(p, q)
  /\ setTotalDepositFor(channel_counter + 1, p, total_deposit, sender)
  /\ UNCHANGED <<timestamp, adminVars, settleable_after, unlock_data, revealed_at>>

setTotalDeposit(id, p, q, total_deposit, sender) ==
  /\ ~deprecated
  /\ state[id] = "Opened"
  /\ IsChannelOf(id, p, q)
  /\ MayDeposit(parts[id][p], parts[id][q], total_deposit, sender)
  /\ setTotalDepositFor(id, p, total_deposit, sender)
  /\ UNCHANGED <<timestamp, adminVars, channel_counter, channel_of, state,
                 settleable_after, unlock_data, revealed_at>>

(* setTotalWithdraw2 for the participant whose storage is p1. *)
MayWithdraw(p1, p2, total_withdraw, withdrawable_until) ==
  /\ total_withdraw > 0
  /\ timestamp < withdrawable_until
  /\ total_withdraw + p2.withdrawn_amount <= p1.deposit + p2.deposit
  /\ total_withdraw - p1.withdrawn_amount > 0
  /\ p1.nonce = 0 /\ p2.nonce = 0

setTotalWithdraw(id, p, q, total_withdraw, withdrawable_until) ==
  LET current == total_withdraw - parts[id][p].withdrawn_amount
  IN  /\ state[id] = "Opened"
      /\ IsChannelOf(id, p, q)
      /\ MayWithdraw(parts[id][p], parts[id][q], total_withdraw, withdrawable_until)
      /\ parts' = [parts EXCEPT ![id][p].withdrawn_amount = total_withdraw]
      /\ reserve' = reserve - current
      /\ wallet' = [wallet EXCEPT ![p] = @ + current]
      /\ UNCHANGED <<timestamp, adminVars, channel_counter, channel_of, state,
                     settleable_after, unlock_data, revealed_at>>

MutRemoveChannelData(id, p, q) ==
  /\ parts' = [parts EXCEPT ![id][p] = NoParticipant, ![id][q] = NoParticipant]
  /\ state' = [state EXCEPT ![id] = "NonExistent"]
  /\ settleable_after' = [settleable_after EXCEPT ![id] = 0]
  /\ UNCHANGED channel_of

removeChannelData(id, p, q) ==
  /\ parts' = [parts EXCEPT ![id][p] = NoParticipant, ![id][q] = NoParticipant]
  /\ state' = [state EXCEPT ![id] = "NonExistent"]
  /\ settleable_after' = [settleable_after EXCEPT ![id] = 0]
  /\ channel_of' = [channel_of EXCEPT ![{p, q}] = 0]

(* A zero withdraw is skipped, so it needs no valid expiration.  The       *)
(* second withdraw sees the storage the first one left.                    *)
cooperativeSettle(id, p, total1, until1, q, total2, until2) ==
  LET s1 == parts[id][p]
      s2 == parts[id][q]
      s1after == IF total1 > 0 THEN [s1 EXCEPT !.withdrawn_amount = total1] ELSE s1
      paid1 == IF total1 > 0 THEN total1 - s1.withdrawn_amount ELSE 0
      paid2 == IF total2 > 0 THEN total2 - s2.withdrawn_amount ELSE 0
  IN  /\ state[id] = "Opened"
      /\ IsChannelOf(id, p, q)
      /\ total1 + total2 = s1.deposit + s2.deposit
      /\ total1 > 0 => MayWithdraw(s1, s2, total1, until1)
      /\ total2 > 0 => MayWithdraw(s2, s1after, total2, until2)
      /\ removeChannelData(id, p, q)
      /\ reserve' = reserve - (paid1 + paid2)
      /\ wallet' = [wallet EXCEPT ![p] = @ + paid1, ![q] = @ + paid2]
      /\ UNCHANGED <<timestamp, adminVars, channel_counter, unlock_data, revealed_at>>

-----------------------------------------------------------------------------
(* updateBalanceProofData; p signed the proof. *)
updateBalanceProofData(storage, p, nonce, balance_hash) ==
  [storage EXCEPT ![p] = [@ EXCEPT !.nonce = nonce, !.balance_hash = balance_hash]]

(* Nonce 0 means the closer has no balance proof of the partner.  The      *)
(* bound on the timestamp leaves room for the settlement window.           *)
closeChannel(id, closing, other, nonce, balance_hash) ==
  /\ timestamp + SettleTimeout < MaxTime
  /\ state[id] = "Opened"
  /\ IsChannelOf(id, closing, other)
  /\ nonce > 0 => nonce > parts[id][other].nonce
  /\ state' = [state EXCEPT ![id] = "Closed"]
  /\ settleable_after' = [settleable_after EXCEPT ![id] = timestamp + SettleTimeout]
  /\ LET closed == [parts[id] EXCEPT ![closing].is_the_closer = TRUE]
     IN  parts' = [parts EXCEPT ![id] =
           IF nonce > 0 THEN updateBalanceProofData(closed, other, nonce, balance_hash)
                        ELSE closed]
  /\ UNCHANGED <<timestamp, tokenVars, adminVars, channel_counter, channel_of,
                 unlock_data, revealed_at>>

MutUpdateNonClosing(id, closing, other, nonce, balance_hash) ==
  /\ IsChannelOf(id, closing, other)
  /\ balance_hash # EmptyBalanceHash
  /\ nonce > 0
  /\ state[id] = "Closed"
  /\ parts[id][closing].is_the_closer
  /\ nonce >= parts[id][closing].nonce
  /\ parts' = [parts EXCEPT ![id] =
                 updateBalanceProofData(parts[id], closing, nonce, balance_hash)]
  /\ UNCHANGED <<timestamp, tokenVars, adminVars, channel_counter, channel_of,
                 state, settleable_after, unlock_data, revealed_at>>

updateNonClosingBalanceProof(id, closing, other, nonce, balance_hash) ==
  /\ IsChannelOf(id, closing, other)
  /\ balance_hash # EmptyBalanceHash
  /\ nonce > 0
  /\ state[id] = "Closed"
  /\ parts[id][closing].is_the_closer
  /\ nonce > parts[id][closing].nonce
  /\ parts' = [parts EXCEPT ![id] =
                 updateBalanceProofData(parts[id], closing, nonce, balance_hash)]
  /\ UNCHANGED <<timestamp, tokenVars, adminVars, channel_counter, channel_of,
                 state, settleable_after, unlock_data, revealed_at>>

(* The data passed to settleChannel for one participant must hash to what  *)
(* is stored; without a stored hash the amounts must be zero and the       *)
(* locksroot is ignored.                                                   *)
ZeroBalance == [transferred |-> 0, locked |-> 0, locksroot |-> <<>>]

MutVerifyBalanceHash(balance_hash, s) == balance_hash = s

verifyBalanceHashData(balance_hash, s) ==
  balance_hash # s => balance_hash = EmptyBalanceHash /\ s.transferred = 0 /\ s.locked = 0

(* The require of getMaxPossibleReceivableAmount on the argument order,    *)
(* the checked subtractions and the assertions of                          *)
(* getSettleTransferAmounts: any of them failing reverts the settlement.   *)
TransfersOrdered(s1, s2) ==
  failsafe_addition(s1.transferred, s1.locked) <=
    failsafe_addition(s2.transferred, s2.locked)

SettlementComputes(p1, s1, p2, s2) ==
  LET tad == getChannelAvailableDeposit(p1, p2)
      r   == getSettleTransferAmounts(p1, s1.transferred, s1.locked,
                                      p2, s2.transferred, s2.locked)
  IN  /\ p1.deposit + p2.deposit <= MAX_SAFE_UINT256
      /\ p1.deposit + p2.deposit >= p1.withdrawn_amount
      /\ tad >= 0
      /\ r.amount1 <= tad /\ r.amount2 <= tad
      /\ r.amount1 + r.amount2 + r.locked1 + r.locked2 = tad

storeUnlockData(data, id, sender, locksroot, locked, receiver) ==
  IF locked = 0 THEN data
  ELSE [data EXCEPT ![<<id, sender, receiver>>] =
          [locksroot |-> locksroot, locked_amount |-> locked]]

settleChannel(id, p, s1, q, s2) ==
  LET r == getSettleTransferAmounts(parts[id][p], s1.transferred, s1.locked,
                                    parts[id][q], s2.transferred, s2.locked)
  IN  /\ IsChannelOf(id, p, q)
      /\ state[id] = "Closed"
      /\ settleable_after[id] < timestamp
      /\ verifyBalanceHashData(parts[id][p].balance_hash, s1)
      /\ verifyBalanceHashData(parts[id][q].balance_hash, s2)
      /\ TransfersOrdered(s1, s2)
      /\ SettlementComputes(parts[id][p], s1, parts[id][q], s2)
      /\ removeChannelData(id, p, q)
      /\ unlock_data' =
           storeUnlockData(
             storeUnlockData(unlock_data, id, p, s1.locksroot, r.locked1, q),
             id, q, s2.locksroot, r.locked2, p)
      /\ reserve' = reserve - (r.amount1 + r.amount2)
      /\ wallet' = [wallet EXCEPT ![p] = @ + r.amount1, ![q] = @ + r.amount2]
      /\ UNCHANGED <<timestamp, adminVars, channel_counter, revealed_at>>

-----------------------------------------------------------------------------
(* What one lock adds: nothing unless its secret was registered before the *)
(* lock expired.                                                           *)
getLockedAmountFromLock(lock) ==
  IF revealed_at[lock.secrethash] = 0 \/ lock.expiration <= revealed_at[lock.secrethash]
  THEN 0
  ELSE lock.amount

getUnlockedAmount(locks) ==
  SumFunction([i \in DOMAIN locks |-> getLockedAmountFromLock(locks[i])])

unlock(id, receiver, sender, locks) ==
  LET key == <<id, sender, receiver>>
      locked_amount == unlock_data[key].locked_amount
  IN  /\ receiver # sender
      /\ channel_of[{receiver, sender}] # id
      /\ state[id] = "NonExistent"
      /\ unlock_data[key].locksroot = locks
      /\ locked_amount > 0
      /\ \E unlocked_amount \in 0 .. locked_amount :
           /\ unlocked_amount = min(getUnlockedAmount(locks), locked_amount)
           /\ wallet' = [wallet EXCEPT
                ![receiver] = @ + unlocked_amount,
                ![sender] = @ + (locked_amount - unlocked_amount)]
      /\ unlock_data' = [unlock_data EXCEPT ![key] = NoUnlockData]
      /\ reserve' = reserve - locked_amount
      /\ UNCHANGED <<timestamp, adminVars, chanVars, revealed_at>>

(* SecretRegistry.registerSecret; a second registration changes nothing. *)
registerSecret(h) ==
  /\ revealed_at[h] = 0
  /\ revealed_at' = [revealed_at EXCEPT ![h] = timestamp]
  /\ UNCHANGED <<timestamp, tokenVars, adminVars, chanVars, unlock_data>>

(* A block with a later timestamp is mined. *)
Tick ==
  /\ timestamp < MaxTime
  /\ timestamp' = timestamp + 1
  /\ UNCHANGED <<tokenVars, adminVars, chanVars, unlock_data, revealed_at>>

-----------------------------------------------------------------------------
(* Totals and expirations that participants put into transactions. *)
Totals == 0 .. MAX_SAFE_UINT256
Times == 1 .. MaxTime
SettleInputs == BalanceHashes \cup {ZeroBalance}

Settle(id) ==
  \E p, q \in Participants, s1, s2 \in SettleInputs : settleChannel(id, p, s1, q, s2)

Unlock(id) ==
  \E p, q \in Participants, locks \in LockLists : unlock(id, p, q, locks)

Next ==
  \/ Tick
  \/ deprecate
  \/ removeLimits
  \/ \E h \in SecretHashes : registerSecret(h)
  \/ \E p, q \in Participants : openChannel(p, q)
  \/ \E p, q, sender \in Participants, total \in Totals :
       openChannelWithDeposit(p, q, total, sender)
  \/ \E id \in ChannelIds :
       \/ \E p, q, sender \in Participants, total \in Totals :
            setTotalDeposit(id, p, q, total, sender)
       \/ \E p, q \in Participants, total \in Totals, until \in Times :
            setTotalWithdraw(id, p, q, total, until)
       \/ \E p, q \in Participants, total1, total2 \in Totals, until1, until2 \in Times :
            cooperativeSettle(id, p, total1, until1, q, total2, until2)
       \/ \E p, q \in Participants, nonce \in 0 .. MaxNonce, hash \in BalanceHash :
            closeChannel(id, p, q, nonce, hash)
       \/ \E p, q \in Participants, nonce \in 0 .. MaxNonce, hash \in BalanceHash :
            updateNonClosingBalanceProof(id, p, q, nonce, hash)
       \/ Settle(id)
       \/ Unlock(id)

Spec == Init /\ [][Next]_vars

(* Time passes, and anyone may settle a closed channel and unlock what it  *)
(* left behind; the participants' nodes do both.                           *)
Fairness ==
  /\ WF_vars(Tick)
  /\ \A id \in ChannelIds : WF_vars(Settle(id) \/ Unlock(id))

FairSpec == Spec /\ Fairness

-----------------------------------------------------------------------------
TypeOK ==
  /\ timestamp \in 1 .. MaxTime
  /\ reserve \in Int
  /\ wallet \in [Participants -> Nat]
  /\ deprecated \in BOOLEAN
  /\ limits \in [participant : 1 .. MAX_SAFE_UINT256, network : 1 .. MAX_SAFE_UINT256]
  /\ channel_counter \in 0 .. MaxChannels
  /\ channel_of \in [SUBSET Participants -> 0 .. MaxChannels]
  /\ state \in [ChannelIds -> {"NonExistent", "Opened", "Closed"}]
  /\ settleable_after \in [ChannelIds -> 0 .. MaxTime]
  /\ parts \in Storage
  /\ unlock_data \in [UnlockKeys -> UnlockData]
  /\ revealed_at \in [SecretHashes -> 0 .. MaxTime]

(* Tokens the contract owes on account of one channel: what is left of the *)
(* deposits while it exists, and what settlement left to be unlocked.      *)
ChannelClaim(id) ==
  SumFunction([p \in Participants |->
                 parts[id][p].deposit - parts[id][p].withdrawn_amount])
  + SumFunction([k \in Participants \X Participants |->
                   unlock_data[<<id, k[1], k[2]>>].locked_amount])

(* The contract holds exactly the tokens its channels are owed, so no      *)
(* settlement, withdraw or unlock is paid with the tokens of another       *)
(* channel (the bound by TAD in getSettleTransferAmounts).                 *)
Solvency == reserve = SumFunction([id \in ChannelIds |-> ChannelClaim(id)])

(* settleChannel2 "MUST never fail": once the window of a closed channel   *)
(* is over, the data matching the stored balance hashes settles it in one  *)
(* of the two argument orders, whatever balance proofs were submitted.     *)
SettleNeverFails ==
  \A id \in ChannelIds, p, q \in Participants, s1, s2 \in SettleInputs :
    (/\ IsChannelOf(id, p, q)
     /\ state[id] = "Closed"
     /\ verifyBalanceHashData(parts[id][p].balance_hash, s1)
     /\ verifyBalanceHashData(parts[id][q].balance_hash, s2))
    => \/ TransfersOrdered(s1, s2) /\ SettlementComputes(parts[id][p], s1, parts[id][q], s2)
       \/ TransfersOrdered(s2, s1) /\ SettlementComputes(parts[id][q], s2, parts[id][p], s1)

(* A pair of participants points to a live channel of its own.             *)
PairsConsistent ==
  \A pair \in SUBSET Participants : channel_of[pair] # 0 =>
    /\ channel_of[pair] <= channel_counter
    /\ state[channel_of[pair]] # "NonExistent"
    /\ \A other \in SUBSET Participants :
         channel_of[other] = channel_of[pair] => other = pair

(* Nobody but p and q has storage in the channel. *)
OnlyStorageOf(id, p, q) == \A r \in Participants \ {p, q} : parts[id][r] = NoParticipant

(* A live channel belongs to a pair, and nobody else has storage in it.    *)
LiveChannelsConsistent ==
  \A id \in ChannelIds : state[id] # "NonExistent" =>
    \E p, q \in Participants : IsChannelOf(id, p, q) /\ OnlyStorageOf(id, p, q)

(* A channel that was settled, or not opened yet, has no storage.          *)
RemovedChannelsEmpty ==
  \A id \in ChannelIds : state[id] = "NonExistent" =>
    \A p \in Participants : parts[id][p] = NoParticipant

(* Locked tokens are kept only for channels that were settled.             *)
UnlockDataConsistent ==
  \A id \in ChannelIds, p, q \in Participants :
    unlock_data[<<id, p, q>>].locked_amount > 0 =>
      id <= channel_counter /\ state[id] = "NonExistent"

(* Storage is consistent: one live channel for a pair, one pair for a live *)
(* channel, and tokens left to unlock only once a channel is gone (the     *)
(* comment of openChannel "There must only be one channel opened between   *)
(* two participants").                                                     *)
ChannelsConsistent ==
  /\ PairsConsistent
  /\ LiveChannelsConsistent
  /\ RemovedChannelsEmpty
  /\ UnlockDataConsistent

(* The two sides of a channel never withdrew more than they deposited, and *)
(* the deposits fit a uint256, so getChannelAvailableDeposit cannot revert *)
(* ("it is safe to subtract without underflow").                           *)
DepositCoversWithdraws ==
  \A id \in ChannelIds, p, q \in Participants : IsChannelOf(id, p, q) =>
    /\ parts[id][p].withdrawn_amount + parts[id][q].withdrawn_amount
         <= parts[id][p].deposit + parts[id][q].deposit
    /\ parts[id][p].deposit + parts[id][q].deposit <= MAX_SAFE_UINT256

(* A channel identifier is used once: a settled channel never comes back,  *)
(* so a balance proof signed for it can not be replayed on a new channel.  *)
IdentifiersNotReused ==
  [][\A id \in ChannelIds :
       id <= channel_counter /\ state[id] = "NonExistent" => state'[id] = "NonExistent"]_vars

(* Once a channel is closed, the closing side's claim is frozen: only the  *)
(* proof signed by the closer can be replaced, and only by a newer one     *)
(* (updateNonClosingBalanceProof), and deposits and withdraws stand still. *)
ClosedChannelFrozen ==
  [][\A id \in ChannelIds, p \in Participants :
       state[id] = "Closed" /\ state'[id] = "Closed" =>
         \/ parts'[id][p] = parts[id][p]
         \/ /\ parts[id][p].is_the_closer
            /\ parts'[id][p].nonce > parts[id][p].nonce
            /\ parts'[id][p].deposit = parts[id][p].deposit
            /\ parts'[id][p].withdrawn_amount = parts[id][p].withdrawn_amount]_vars

(* Every token of a closed channel is paid out in the end: settlement      *)
(* deletes the deposits of both, and nothing is left to be unlocked.       *)
ClosedChannelPaidOut ==
  \A id \in ChannelIds :
    state[id] = "Closed" ~>
      \A p, q \in Participants :
        parts[id][p] = NoParticipant /\ unlock_data[<<id, p, q>>] = NoUnlockData
=============================================================================
