------------------------- MODULE TokenNetworkProofs -------------------------
(***************************************************************************)
(* Proofs about TokenNetwork, for every set of participants, every limit,  *)
(* every balance proof and every number of channels.                       *)
(***************************************************************************)
EXTENDS TokenNetwork, TLAPS

(* What the assumptions say of the constants.                              *)
LEMMA Bounds ==
  /\ MAX_SAFE_UINT256 \in Nat \ {0}
  /\ MaxChannels \in Nat \ {0}
  /\ MaxTime \in Nat \ {0}
  /\ MaxNonce \in Nat
  /\ SettleTimeout \in Nat
  BY TokenNetworkAssumption

(* What the helpers of Utils.sol return. *)
LEMMA FailsafeSubtract ==
  ASSUME NEW x \in Nat, NEW y \in Nat
  PROVE  /\ failsafe_subtract(x, y)[1] \in Nat
         /\ failsafe_subtract(x, y)[2] \in Nat
         /\ failsafe_subtract(x, y)[1] + failsafe_subtract(x, y)[2] = x
         /\ failsafe_subtract(x, y)[2] <= y
  BY DEF failsafe_subtract

(* failsafe_addition saturates.                                            *)
LEMMA FailsafeAddition ==
  ASSUME NEW x \in Nat, NEW y \in Nat
  PROVE  /\ failsafe_addition(x, y) \in Nat
         /\ failsafe_addition(x, y) <= MAX_SAFE_UINT256
  BY TokenNetworkAssumption DEF failsafe_addition

(* What a participant can receive at most is an amount.                    *)
LEMMA MaxReceivable ==
  ASSUME NEW d1 \in Nat, NEW w1 \in Nat, NEW t1 \in Nat, NEW l1 \in Nat,
         NEW t2 \in Nat, NEW l2 \in Nat,
         failsafe_addition(t1, l1) <= failsafe_addition(t2, l2)
  PROVE  getMaxPossibleReceivableAmount(d1, w1, t1, l1, t2, l2) \in Nat
<1> DEFINE net == failsafe_addition(t2, l2) - failsafe_addition(t1, l1)
<1>1. failsafe_addition(t1, l1) \in Nat /\ failsafe_addition(t2, l2) \in Nat
  BY FailsafeAddition
<1>2. net \in Nat
  BY <1>1
<1>3. failsafe_addition(net, d1) \in Nat
  BY <1>2, FailsafeAddition
<1>4. failsafe_subtract(failsafe_addition(net, d1), w1)[1] \in Nat
  BY <1>3, FailsafeSubtract
<1>5. QED
  BY <1>4 DEF getMaxPossibleReceivableAmount

(* The settlement splits what is left of the two deposits into two         *)
(* payments and two locked amounts, whatever balance proofs were used.     *)
LEMMA SettleAmounts ==
  ASSUME NEW p1 \in Participant, NEW p2 \in Participant,
         p1.withdrawn_amount + p2.withdrawn_amount <= p1.deposit + p2.deposit,
         NEW t1 \in Nat, NEW l1 \in Nat, NEW t2 \in Nat, NEW l2 \in Nat,
         failsafe_addition(t1, l1) <= failsafe_addition(t2, l2)
  PROVE  LET r == getSettleTransferAmounts(p1, t1, l1, p2, t2, l2)
         IN  /\ r.amount1 \in Nat /\ r.amount2 \in Nat
             /\ r.locked1 \in Nat /\ r.locked2 \in Nat
             /\ r.locked1 <= l1 /\ r.locked2 <= l2
             /\ r.amount1 + r.amount2 + r.locked1 + r.locked2
                  = getChannelAvailableDeposit(p1, p2)
<1> DEFINE tad == getChannelAvailableDeposit(p1, p2)
           rec == getMaxPossibleReceivableAmount(p1.deposit,
                     p1.withdrawn_amount, t1, l1, t2, l2)
           rmax1 == min(rec, tad)
           one == failsafe_subtract(rmax1, l2)
           two == failsafe_subtract(tad - rmax1, l1)
<1>1. tad \in Nat
  BY DEF getChannelAvailableDeposit, Participant
<1>2. rec \in Nat
  BY MaxReceivable DEF Participant
<1>3. rmax1 \in Nat /\ tad - rmax1 \in Nat
  BY <1>1, <1>2 DEF min
<1>4. one[1] \in Nat /\ one[2] \in Nat /\ one[1] + one[2] = rmax1 /\ one[2] <= l2
  BY <1>3, FailsafeSubtract
<1>5. two[1] \in Nat /\ two[2] \in Nat /\ two[1] + two[2] = tad - rmax1 /\ two[2] <= l1
  BY <1>3, FailsafeSubtract
<1>6. getSettleTransferAmounts(p1, t1, l1, p2, t2, l2) =
        [amount1 |-> one[1], amount2 |-> two[1],
         locked1 |-> two[2], locked2 |-> one[2]]
  BY DEF getSettleTransferAmounts
<1> HIDE DEF tad, rec, rmax1, one, two
<1>7. QED
  BY <1>1, <1>3, <1>4, <1>5, <1>6 DEF tad

-----------------------------------------------------------------------------
(* The inductive invariant: settlement amounts are natural numbers only    *)
(* because deposits cover withdraws, and deposits cover withdraws only     *)
(* because a channel that is reopened starts with empty storage.           *)
IInv == TypeOK /\ ChannelsConsistent /\ DepositCoversWithdraws

(* The storage of a participant who never used the channel.                *)
LEMMA NoParticipantType == NoParticipant \in Participant
  BY DEF NoParticipant, Participant, BalanceHash

(* The input of settleChannel.                                             *)
LEMMA SettleInputType ==
  ASSUME NEW s \in SettleInputs
  PROVE  /\ s.transferred \in 0 .. MAX_SAFE_UINT256
         /\ s.locked \in 0 .. MAX_SAFE_UINT256
         /\ s.locksroot \in LockLists \cup {<<>>}
<1>1. CASE s = ZeroBalance
  BY <1>1, TokenNetworkAssumption DEF ZeroBalance
<1>2. CASE s \in BalanceHashes
  BY <1>2, TokenNetworkAssumption
<1>3. QED
  BY <1>1, <1>2 DEF SettleInputs

(* The invariant holds at first.                                           *)
LEMMA InitInvariant == Init => IInv
<1> SUFFICES ASSUME Init PROVE IInv
  OBVIOUS
<1> USE DEF Init
<1>1. TypeOK
  <2>1. parts \in Storage
    BY NoParticipantType DEF Storage
  <2>2. unlock_data \in [UnlockKeys -> UnlockData]
    BY DEF UnlockData, NoUnlockData
  <2>3. deprecated \in BOOLEAN
    OBVIOUS
  <2>4. limits \in [participant : 1 .. MAX_SAFE_UINT256, network : 1 .. MAX_SAFE_UINT256]
    BY TokenNetworkAssumption
  <2>5. /\ timestamp \in 1 .. MaxTime
        /\ reserve \in Int
        /\ wallet \in [Participants -> Nat]
        /\ channel_counter \in 0 .. MaxChannels
        /\ channel_of \in [SUBSET Participants -> 0 .. MaxChannels]
    BY TokenNetworkAssumption
  <2>6. /\ state \in [ChannelIds -> {"NonExistent", "Opened", "Closed"}]
        /\ settleable_after \in [ChannelIds -> 0 .. MaxTime]
        /\ revealed_at \in [SecretHashes -> 0 .. MaxTime]
    BY TokenNetworkAssumption
  <2>7. QED
    BY <2>1, <2>2, <2>3, <2>4, <2>5, <2>6 DEF TypeOK
<1>2. ChannelsConsistent
  <2>1. UnlockDataConsistent
    BY DEF UnlockDataConsistent, UnlockKeys, NoUnlockData
  <2>2. QED
    BY <2>1 DEF ChannelsConsistent, PairsConsistent, LiveChannelsConsistent,
                RemovedChannelsEmpty, OnlyStorageOf, IsChannelOf
<1>3. DepositCoversWithdraws
  BY Bounds DEF DepositCoversWithdraws, IsChannelOf, ChannelIds
<1>4. QED
  BY <1>1, <1>2, <1>3 DEF IInv

-----------------------------------------------------------------------------
(* What the helpers that write storage return. *)
LEMMA BalanceProofUpdate ==
  ASSUME NEW storage \in [Participants -> Participant], NEW p \in Participants,
         NEW nonce \in Nat, NEW hash \in BalanceHash
  PROVE  updateBalanceProofData(storage, p, nonce, hash) \in [Participants -> Participant]
  BY DEF updateBalanceProofData, Participant

(* An assignment to unlock_data.                                           *)
LEMMA UnlockDataUpdate ==
  ASSUME NEW data \in [UnlockKeys -> UnlockData], NEW id \in ChannelIds,
         NEW sender \in Participants, NEW receiver \in Participants,
         NEW locksroot \in LockLists \cup {<<>>}, NEW locked \in Nat
  PROVE  storeUnlockData(data, id, sender, locksroot, locked, receiver)
           \in [UnlockKeys -> UnlockData]
  BY DEF storeUnlockData, UnlockData

(* An assignment to closer.                                                *)
LEMMA CloserUpdate ==
  ASSUME NEW storage \in [Participants -> Participant], NEW p \in Participants
  PROVE  [storage EXCEPT ![p].is_the_closer = TRUE] \in [Participants -> Participant]
  BY DEF Participant

(* An assignment to a function of amounts.                                 *)
LEMMA AmountUpdate ==
  ASSUME NEW old \in Storage, NEW id \in ChannelIds, NEW p \in Participants, NEW n \in Nat
  PROVE  /\ [old EXCEPT ![id][p].deposit = n] \in Storage
         /\ [old EXCEPT ![id][p].withdrawn_amount = n] \in Storage
  BY DEF Storage, Participant

(* An assignment to one channel's participants.                            *)
LEMMA ChannelUpdate ==
  ASSUME NEW old \in Storage, NEW id \in ChannelIds, NEW new \in [Participants -> Participant]
  PROVE  [old EXCEPT ![id] = new] \in Storage
  BY DEF Storage

(* The storage of a channel is deleted.                                    *)
LEMMA ChannelRemoval ==
  ASSUME NEW old \in Storage, NEW id \in ChannelIds,
         NEW p \in Participants, NEW q \in Participants
  PROVE  [old EXCEPT ![id][p] = NoParticipant, ![id][q] = NoParticipant] \in Storage
  BY DEF Storage, Participant, NoParticipant, BalanceHash

(* An assignment to one balance of the token.                              *)
LEMMA WalletUpdate ==
  ASSUME NEW old \in [Participants -> Nat], NEW p \in Participants, NEW m \in Nat
  PROVE  /\ [old EXCEPT ![p] = @ + m] \in [Participants -> Nat]
         /\ old[p] >= m => [old EXCEPT ![p] = @ - m] \in [Participants -> Nat]
  OBVIOUS

(* Two payments of the token.                                              *)
LEMMA WalletPayment ==
  ASSUME NEW old \in [Participants -> Nat], NEW p \in Participants,
         NEW q \in Participants, NEW m \in Nat, NEW n \in Nat
  PROVE  [old EXCEPT ![p] = @ + m, ![q] = @ + n] \in [Participants -> Nat]
  OBVIOUS

(* removeChannelData leaves well-typed storage.                            *)
LEMMA ChannelRemovedType ==
  ASSUME TypeOK, NEW id \in ChannelIds, NEW p \in Participants, NEW q \in Participants,
         removeChannelData(id, p, q)
  PROVE  /\ channel_of' \in [SUBSET Participants -> 0 .. MaxChannels]
         /\ state' \in [ChannelIds -> {"NonExistent", "Opened", "Closed"}]
         /\ settleable_after' \in [ChannelIds -> 0 .. MaxTime]
         /\ parts' \in Storage
<1>1. {p, q} \in SUBSET Participants
  OBVIOUS
<1>2. parts' \in Storage
  BY ChannelRemoval DEF removeChannelData, TypeOK
<1>3. QED
  BY <1>1, <1>2, Bounds DEF TypeOK, removeChannelData

(* The settlement of a channel splits its deposit, by SettleAmounts. *)
Splits(r, tad) ==
  /\ r.amount1 \in Nat /\ r.amount2 \in Nat
  /\ r.locked1 \in Nat /\ r.locked2 \in Nat
  /\ r.amount1 + r.amount2 + r.locked1 + r.locked2 = tad

(* settleChannel splits exactly the deposit the channel has left.          *)
LEMMA SettleChannelAmounts ==
  ASSUME IInv, NEW id \in ChannelIds, NEW p \in Participants, NEW q \in Participants,
         IsChannelOf(id, p, q),
         NEW s1 \in SettleInputs, NEW s2 \in SettleInputs, TransfersOrdered(s1, s2)
  PROVE  Splits(getSettleTransferAmounts(parts[id][p], s1.transferred, s1.locked,
                                         parts[id][q], s2.transferred, s2.locked),
                getChannelAvailableDeposit(parts[id][p], parts[id][q]))
<1>1. /\ s1.transferred \in Nat /\ s1.locked \in Nat
      /\ s2.transferred \in Nat /\ s2.locked \in Nat
  BY SettleInputType, TokenNetworkAssumption
<1>2. parts[id][p] \in Participant /\ parts[id][q] \in Participant
  BY DEF IInv, TypeOK, Storage
<1>3. parts[id][p].withdrawn_amount + parts[id][q].withdrawn_amount
        <= parts[id][p].deposit + parts[id][q].deposit
  BY DEF IInv, DepositCoversWithdraws
<1>4. failsafe_addition(s1.transferred, s1.locked)
        <= failsafe_addition(s2.transferred, s2.locked)
  BY DEF TransfersOrdered
<1> DEFINE P1 == parts[id][p]
           P2 == parts[id][q]
           T1 == s1.transferred
           L1 == s1.locked
           T2 == s2.transferred
           L2 == s2.locked
           r == getSettleTransferAmounts(P1, T1, L1, P2, T2, L2)
<1>5. /\ P1 \in Participant /\ P2 \in Participant
      /\ P1.withdrawn_amount + P2.withdrawn_amount <= P1.deposit + P2.deposit
      /\ T1 \in Nat /\ L1 \in Nat /\ T2 \in Nat /\ L2 \in Nat
      /\ failsafe_addition(T1, L1) <= failsafe_addition(T2, L2)
  BY <1>1, <1>2, <1>3, <1>4
<1> HIDE DEF P1, P2, T1, L1, T2, L2
<1>6. Splits(r, getChannelAvailableDeposit(P1, P2))
  BY <1>5, SettleAmounts DEF Splits
<1>7. QED
  BY <1>6 DEF P1, P2, T1, L1, T2, L2

(* An identifier that was not given out yet has no channel and no storage. *)
LEMMA FreshIdentifier ==
  ASSUME IInv, NEW id \in ChannelIds, id > channel_counter
  PROVE  /\ state[id] = "NonExistent"
         /\ \A p \in Participants : parts[id][p] = NoParticipant
<1>1. ASSUME NEW p \in Participants, NEW q \in Participants PROVE channel_of[{p, q}] # id
  <2>1. {p, q} \in SUBSET Participants
    OBVIOUS
  <2>2. channel_of[{p, q}] # 0 => channel_of[{p, q}] <= channel_counter
    BY <2>1 DEF IInv, ChannelsConsistent, PairsConsistent
  <2>3. id # 0 /\ channel_counter \in Nat /\ id \in Nat
    BY Bounds DEF ChannelIds, IInv, TypeOK
  <2>4. QED
    BY <2>2, <2>3
<1>2. state[id] = "NonExistent"
  BY <1>1 DEF IInv, ChannelsConsistent, LiveChannelsConsistent, IsChannelOf
<1>3. QED
  BY <1>2 DEF IInv, ChannelsConsistent, RemovedChannelsEmpty

(* Every step keeps the types.                                             *)
LEMMA TypeStep == ASSUME IInv, Next PROVE TypeOK'
<1> USE Bounds DEF IInv, TypeOK
<1>1. CASE Tick
  BY <1>1 DEF Tick, tokenVars, adminVars, chanVars
<1>2. CASE deprecate
  BY <1>2 DEF deprecate, tokenVars, chanVars
<1>3. CASE removeLimits
  BY <1>3 DEF removeLimits, tokenVars, chanVars
<1>4. ASSUME NEW h \in SecretHashes, registerSecret(h) PROVE TypeOK'
  BY <1>4 DEF registerSecret, tokenVars, adminVars, chanVars
<1>5. ASSUME NEW p \in Participants, NEW q \in Participants, openChannel(p, q)
      PROVE  TypeOK'
  BY <1>5 DEF openChannel, MayOpen, StoreNewChannel, tokenVars, adminVars, ChannelIds
<1>6. ASSUME NEW p \in Participants, NEW q \in Participants,
             NEW sender \in Participants, NEW total \in Totals,
             openChannelWithDeposit(p, q, total, sender)
      PROVE  TypeOK'
  <2> DEFINE id == channel_counter + 1
  <2>1. id \in ChannelIds /\ id > channel_counter /\ total \in Nat
    BY <1>6 DEF openChannelWithDeposit, MayOpen, ChannelIds, Totals
  <2>2. parts[id][p] = NoParticipant
    BY <2>1, FreshIdentifier
  <2>3. wallet[sender] >= total
    BY <2>1, <1>6 DEF openChannelWithDeposit, MayDeposit, NoParticipant
  <2>4. setTotalDepositFor(id, p, total, sender)
    BY <1>6 DEF openChannelWithDeposit
  <2>5. /\ channel_counter' \in 0 .. MaxChannels
        /\ channel_of' \in [SUBSET Participants -> 0 .. MaxChannels]
        /\ state' \in [ChannelIds -> {"NonExistent", "Opened", "Closed"}]
    BY <1>6 DEF openChannelWithDeposit, MayOpen, StoreNewChannel, ChannelIds
  <2> HIDE DEF id
  <2>6. parts' \in Storage
    BY <2>1, <2>4, AmountUpdate DEF setTotalDepositFor
  <2>7. total - parts[id][p].deposit = total
    BY <2>1, <2>2 DEF NoParticipant
  <2>8. reserve' \in Int /\ wallet' \in [Participants -> Nat]
    BY <2>1, <2>3, <2>4, <2>7, WalletUpdate DEF setTotalDepositFor
  <2>9. QED
    BY <2>5, <2>6, <2>8, <1>6 DEF openChannelWithDeposit, adminVars
<1>7. ASSUME NEW id \in ChannelIds, NEW p \in Participants, NEW q \in Participants,
             NEW sender \in Participants, NEW total \in Totals,
             setTotalDeposit(id, p, q, total, sender)
      PROVE  TypeOK'
  <2>1. total \in Nat /\ parts[id][p].deposit \in Nat
    BY DEF Totals, Storage, Participant
  <2>2. parts' \in Storage
    BY <1>7, <2>1, AmountUpdate DEF setTotalDeposit, setTotalDepositFor
  <2>3. /\ total - parts[id][p].deposit \in Nat
        /\ wallet[sender] >= total - parts[id][p].deposit
    BY <1>7, <2>1 DEF setTotalDeposit, MayDeposit
  <2>4. reserve' \in Int /\ wallet' \in [Participants -> Nat]
    BY <1>7, <2>3, WalletUpdate DEF setTotalDeposit, setTotalDepositFor
  <2>5. QED
    BY <1>7, <2>2, <2>4 DEF setTotalDeposit, adminVars
<1>8. ASSUME NEW id \in ChannelIds, NEW p \in Participants, NEW q \in Participants,
             NEW total \in Totals, NEW until \in Times,
             setTotalWithdraw(id, p, q, total, until)
      PROVE  TypeOK'
  <2>1. total \in Nat /\ parts[id][p].withdrawn_amount \in Nat
    BY DEF Totals, Storage, Participant
  <2>2. parts' \in Storage
    BY <1>8, <2>1, AmountUpdate DEF setTotalWithdraw
  <2>3. total - parts[id][p].withdrawn_amount \in Nat
    BY <1>8, <2>1 DEF setTotalWithdraw, MayWithdraw
  <2>4. reserve' \in Int /\ wallet' \in [Participants -> Nat]
    BY <1>8, <2>3, WalletUpdate DEF setTotalWithdraw
  <2>5. QED
    BY <1>8, <2>2, <2>4 DEF setTotalWithdraw, adminVars
<1>9. ASSUME NEW id \in ChannelIds, NEW p \in Participants, NEW q \in Participants,
             NEW total1 \in Totals, NEW total2 \in Totals,
             NEW until1 \in Times, NEW until2 \in Times,
             cooperativeSettle(id, p, total1, until1, q, total2, until2)
      PROVE  TypeOK'
  <2> DEFINE s1 == parts[id][p]
             s2 == parts[id][q]
             s1after == IF total1 > 0 THEN [s1 EXCEPT !.withdrawn_amount = total1] ELSE s1
             paid1 == IF total1 > 0 THEN total1 - s1.withdrawn_amount ELSE 0
             paid2 == IF total2 > 0 THEN total2 - s2.withdrawn_amount ELSE 0
  <2>1. /\ total1 \in Nat /\ s1.withdrawn_amount \in Nat
        /\ total2 \in Nat /\ s2.withdrawn_amount \in Nat
    BY DEF Totals, Storage, Participant
  <2>2. /\ total1 > 0 => MayWithdraw(s1, s2, total1, until1)
        /\ total2 > 0 => MayWithdraw(s2, s1after, total2, until2)
        /\ removeChannelData(id, p, q)
        /\ reserve' = reserve - (paid1 + paid2)
        /\ wallet' = [wallet EXCEPT ![p] = @ + paid1, ![q] = @ + paid2]
    BY <1>9 DEF cooperativeSettle
  <2>3. paid1 \in Nat
    BY <2>1, <2>2 DEF MayWithdraw
  <2>4. paid2 \in Nat
    BY <2>1, <2>2 DEF MayWithdraw
  <2> HIDE DEF s1, s2, s1after, paid1, paid2
  <2>5. reserve' \in Int /\ wallet' \in [Participants -> Nat]
    BY <2>2, <2>3, <2>4, WalletPayment
  <2>6. QED
    BY <1>9, <2>2, <2>5, ChannelRemovedType DEF cooperativeSettle, adminVars
<1>10. ASSUME NEW id \in ChannelIds, NEW p \in Participants, NEW q \in Participants,
              NEW nonce \in 0 .. MaxNonce, NEW hash \in BalanceHash,
              closeChannel(id, p, q, nonce, hash)
       PROVE  TypeOK'
  <2> DEFINE closed == [parts[id] EXCEPT ![p].is_the_closer = TRUE]
             new == IF nonce > 0 THEN updateBalanceProofData(closed, q, nonce, hash)
                                 ELSE closed
  <2>1. closed \in [Participants -> Participant]
    BY CloserUpdate DEF Storage
  <2> HIDE DEF closed
  <2>2. new \in [Participants -> Participant]
    BY <2>1, BalanceProofUpdate
  <2>3. parts' = [parts EXCEPT ![id] = new]
    BY <1>10 DEF closeChannel, closed
  <2> HIDE DEF new
  <2>4. parts' \in Storage
    BY <2>2, <2>3, ChannelUpdate
  <2>5. timestamp + SettleTimeout \in 0 .. MaxTime
    BY <1>10 DEF closeChannel
  <2>6. /\ state' \in [ChannelIds -> {"NonExistent", "Opened", "Closed"}]
        /\ settleable_after' \in [ChannelIds -> 0 .. MaxTime]
    BY <1>10, <2>5 DEF closeChannel
  <2>7. QED
    BY <1>10, <2>4, <2>6 DEF closeChannel, tokenVars, adminVars
<1>11. ASSUME NEW id \in ChannelIds, NEW p \in Participants, NEW q \in Participants,
              NEW nonce \in 0 .. MaxNonce, NEW hash \in BalanceHash,
              updateNonClosingBalanceProof(id, p, q, nonce, hash)
       PROVE  TypeOK'
  <2>1. updateBalanceProofData(parts[id], p, nonce, hash) \in [Participants -> Participant]
    BY BalanceProofUpdate DEF Storage
  <2>2. parts' \in Storage
    BY <1>11, <2>1, ChannelUpdate DEF updateNonClosingBalanceProof
  <2>3. QED
    BY <1>11, <2>2 DEF updateNonClosingBalanceProof, tokenVars, adminVars
<1>12. ASSUME NEW id \in ChannelIds, NEW p \in Participants, NEW q \in Participants,
              NEW s1 \in SettleInputs, NEW s2 \in SettleInputs,
              settleChannel(id, p, s1, q, s2)
       PROVE  TypeOK'
  <2> DEFINE r == getSettleTransferAmounts(parts[id][p], s1.transferred, s1.locked,
                                           parts[id][q], s2.transferred, s2.locked)
             mid == storeUnlockData(unlock_data, id, p, s1.locksroot, r.locked1, q)
  <2>1. /\ IsChannelOf(id, p, q) /\ TransfersOrdered(s1, s2)
        /\ removeChannelData(id, p, q)
        /\ unlock_data' = storeUnlockData(mid, id, q, s2.locksroot, r.locked2, p)
        /\ reserve' = reserve - (r.amount1 + r.amount2)
        /\ wallet' = [wallet EXCEPT ![p] = @ + r.amount1, ![q] = @ + r.amount2]
        /\ UNCHANGED <<timestamp, adminVars, channel_counter, revealed_at>>
    BY <1>12 DEF settleChannel
  <2> HIDE DEF r
  <2>2. /\ r.amount1 \in Nat /\ r.amount2 \in Nat
        /\ r.locked1 \in Nat /\ r.locked2 \in Nat
    <3>1. Splits(r, getChannelAvailableDeposit(parts[id][p], parts[id][q]))
      BY <2>1, SettleChannelAmounts DEF r
    <3>2. QED
      BY <3>1 DEF Splits
  <2>3. reserve' \in Int /\ wallet' \in [Participants -> Nat]
    BY <2>1, <2>2, WalletPayment
  <2>4. mid \in [UnlockKeys -> UnlockData]
    BY <2>2, UnlockDataUpdate, SettleInputType
  <2> HIDE DEF mid
  <2>5. unlock_data' \in [UnlockKeys -> UnlockData]
    BY <2>1, <2>2, <2>4, UnlockDataUpdate, SettleInputType
  <2>6. QED
    BY <2>1, <2>3, <2>5, ChannelRemovedType DEF adminVars
<1>13. ASSUME NEW id \in ChannelIds, NEW p \in Participants, NEW q \in Participants,
              NEW locks \in LockLists, unlock(id, p, q, locks)
       PROVE  TypeOK'
  <2> DEFINE key == <<id, q, p>>
             locked == unlock_data[key].locked_amount
  <2>1. key \in UnlockKeys
    BY DEF UnlockKeys
  <2>2. locked \in Nat
    BY <2>1 DEF UnlockData
  <2>3. PICK unlocked \in 0 .. locked :
          wallet' = [wallet EXCEPT ![p] = @ + unlocked, ![q] = @ + (locked - unlocked)]
    BY <1>13 DEF unlock
  <2>4. /\ unlock_data' = [unlock_data EXCEPT ![key] = NoUnlockData]
        /\ reserve' = reserve - locked
        /\ UNCHANGED <<timestamp, adminVars, chanVars, revealed_at>>
    BY <1>13 DEF unlock
  <2>5. unlock_data' \in [UnlockKeys -> UnlockData]
    BY <2>1, <2>4 DEF UnlockData, NoUnlockData
  <2> DEFINE returned == locked - unlocked
  <2> HIDE DEF locked, key
  <2>6. unlocked \in Nat /\ returned \in Nat
    BY <2>2, <2>3
  <2> HIDE DEF returned
  <2>7. reserve' \in Int /\ wallet' \in [Participants -> Nat]
    <3>1. wallet' = [wallet EXCEPT ![p] = @ + unlocked, ![q] = @ + returned]
      BY <2>3 DEF returned
    <3>2. QED
      BY <2>2, <2>4, <2>6, <3>1, WalletPayment
  <2>8. QED
    BY <2>4, <2>5, <2>7 DEF adminVars, chanVars
<1>14. QED
  BY <1>1, <1>2, <1>3, <1>4, <1>5, <1>6, <1>7, <1>8, <1>9, <1>10, <1>11, <1>12, <1>13
  DEF Next, Settle, Unlock

-----------------------------------------------------------------------------
(* What the steps do to the index of channels and to their storage falls   *)
(* into four cases, one lemma for each.                                    *)

(* The identifier of a pair that has a channel.                            *)
LEMMA PairIdentifier ==
  ASSUME IInv, NEW pair \in SUBSET Participants, channel_of[pair] # 0
  PROVE  channel_of[pair] \in ChannelIds
<1>1. channel_of[pair] \in 0 .. MaxChannels
  BY DEF IInv, TypeOK
<1>2. QED
  BY <1>1, Bounds DEF ChannelIds

(* A channel belongs to one pair of participants. *)
LEMMA OnePair ==
  ASSUME IInv, NEW id \in ChannelIds,
         NEW p \in Participants, NEW q \in Participants, IsChannelOf(id, p, q),
         NEW x \in Participants, NEW y \in Participants, IsChannelOf(id, x, y)
  PROVE  {x, y} = {p, q}
<1>1. {x, y} \in SUBSET Participants /\ {p, q} \in SUBSET Participants
  OBVIOUS
<1>2. channel_of[{p, q}] # 0 /\ channel_of[{x, y}] = channel_of[{p, q}]
  BY Bounds DEF IsChannelOf, ChannelIds
<1>3. QED
  BY <1>1, <1>2 DEF IInv, ChannelsConsistent, PairsConsistent

(* A step that leaves the storage of all channels alone. *)
LEMMA OtherStep ==
  ASSUME IInv, UNCHANGED <<chanVars, unlock_data>>
  PROVE  ChannelsConsistent' /\ DepositCoversWithdraws'
<1> USE DEF IInv, ChannelsConsistent, chanVars
<1>1. PairsConsistent'
  BY DEF PairsConsistent
<1>2. LiveChannelsConsistent'
  <2>1. ASSUME NEW i \in ChannelIds, NEW x \in Participants, NEW y \in Participants
        PROVE  /\ IsChannelOf(i, x, y)' <=> IsChannelOf(i, x, y)
               /\ OnlyStorageOf(i, x, y)' <=> OnlyStorageOf(i, x, y)
    BY DEF IsChannelOf, OnlyStorageOf
  <2>2. QED
    BY <2>1 DEF LiveChannelsConsistent
<1>3. RemovedChannelsEmpty' /\ UnlockDataConsistent'
  BY DEF RemovedChannelsEmpty, UnlockDataConsistent
<1>4. DepositCoversWithdraws'
  BY DEF DepositCoversWithdraws, IsChannelOf
<1>5. QED
  BY <1>1, <1>2, <1>3, <1>4

(* A step that writes the storage of the two sides of a live channel. *)
LEMMA LiveStep ==
  ASSUME IInv, NEW id \in ChannelIds,
         NEW p \in Participants, NEW q \in Participants, IsChannelOf(id, p, q),
         state[id] # "NonExistent",
         UNCHANGED <<channel_counter, channel_of, unlock_data>>,
         \A i \in ChannelIds : state'[i] = "NonExistent" <=> state[i] = "NonExistent",
         \A i \in ChannelIds, r \in Participants :
           i # id \/ r \notin {p, q} => parts'[i][r] = parts[i][r],
         parts'[id][p].withdrawn_amount + parts'[id][q].withdrawn_amount
           <= parts'[id][p].deposit + parts'[id][q].deposit,
         parts'[id][p].deposit + parts'[id][q].deposit <= MAX_SAFE_UINT256,
         TypeOK'
  PROVE  ChannelsConsistent' /\ DepositCoversWithdraws'
<1>1. PairsConsistent'
  BY PairIdentifier DEF IInv, ChannelsConsistent, PairsConsistent
<1>2. LiveChannelsConsistent'
  <2> SUFFICES ASSUME NEW i \in ChannelIds, state'[i] # "NonExistent"
               PROVE  \E x, y \in Participants :
                        IsChannelOf(i, x, y)' /\ OnlyStorageOf(i, x, y)'
    BY DEF LiveChannelsConsistent
  <2>1. state[i] # "NonExistent"
    OBVIOUS
  <2>2. PICK x \in Participants, y \in Participants :
          IsChannelOf(i, x, y) /\ OnlyStorageOf(i, x, y)
    BY <2>1 DEF IInv, ChannelsConsistent, LiveChannelsConsistent
  <2>3. ASSUME i = id PROVE {x, y} = {p, q}
    BY <2>2, <2>3, OnePair, SMTT(30)
  <2>4. OnlyStorageOf(i, x, y)'
    BY <2>2, <2>3 DEF OnlyStorageOf
  <2>5. IsChannelOf(i, x, y)'
    BY <2>2 DEF IsChannelOf
  <2>6. QED
    BY <2>4, <2>5
<1>3. RemovedChannelsEmpty'
  BY DEF IInv, ChannelsConsistent, RemovedChannelsEmpty
<1>4. UnlockDataConsistent'
  BY DEF IInv, ChannelsConsistent, UnlockDataConsistent
<1>5. DepositCoversWithdraws'
  <2> SUFFICES ASSUME NEW i \in ChannelIds, NEW x \in Participants, NEW y \in Participants,
                      IsChannelOf(i, x, y)
               PROVE  /\ parts'[i][x].withdrawn_amount + parts'[i][y].withdrawn_amount
                           <= parts'[i][x].deposit + parts'[i][y].deposit
                      /\ parts'[i][x].deposit + parts'[i][y].deposit <= MAX_SAFE_UINT256
    BY DEF DepositCoversWithdraws, IsChannelOf
  <2>1. CASE i # id
    BY <2>1 DEF IInv, DepositCoversWithdraws
  <2>2. CASE i = id
    <3>1. {x, y} = {p, q}
      BY <2>2, OnePair
    <3>2. (x = p /\ y = q) \/ (x = q /\ y = p)
      BY <3>1 DEF IsChannelOf
    <3>3. parts'[id][p] \in Participant /\ parts'[id][q] \in Participant
      BY DEF TypeOK, Storage
    <3>4. QED
      BY <2>2, <3>2, <3>3 DEF Participant
  <2>3. QED
    BY <2>1, <2>2
<1>6. QED
  BY <1>1, <1>2, <1>3, <1>4, <1>5 DEF ChannelsConsistent

(* Storing a balance proof does not touch deposits and withdraws. *)
SameAmounts(x, y) == x.deposit = y.deposit /\ x.withdrawn_amount = y.withdrawn_amount

(* A balance proof changes no deposit and no withdrawn amount.             *)
LEMMA BalanceProofAmounts ==
  ASSUME NEW storage \in [Participants -> Participant], NEW p \in Participants,
         NEW nonce \in Nat, NEW hash \in BalanceHash
  PROVE  LET new == updateBalanceProofData(storage, p, nonce, hash)
         IN  /\ \A r \in Participants : SameAmounts(storage[r], new[r])
             /\ \A r \in Participants \ {p} : new[r] = storage[r]
  BY DEF updateBalanceProofData, SameAmounts, Participant

(* Steps that only store balance proofs keep the channels consistent.      *)
LEMMA ProofStep ==
  ASSUME IInv, TypeOK', NEW id \in ChannelIds,
         NEW p \in Participants, NEW q \in Participants, IsChannelOf(id, p, q),
         state[id] # "NonExistent", UNCHANGED <<channel_counter, channel_of, unlock_data>>,
         \A i \in ChannelIds : state'[i] = "NonExistent" <=> state[i] = "NonExistent",
         NEW new, parts' = [parts EXCEPT ![id] = new],
         \A r \in Participants : SameAmounts(parts[id][r], new[r]),
         \A r \in Participants \ {p, q} : new[r] = parts[id][r]
  PROVE  ChannelsConsistent' /\ DepositCoversWithdraws'
<1>1. parts'[id] = new /\ \A i \in ChannelIds : i # id => parts'[i] = parts[i]
  BY DEF IInv, TypeOK, Storage
<1>2. \A i \in ChannelIds, r \in Participants :
        i # id \/ r \notin {p, q} => parts'[i][r] = parts[i][r]
  BY <1>1
<1>3. /\ parts'[id][p].withdrawn_amount + parts'[id][q].withdrawn_amount
           <= parts'[id][p].deposit + parts'[id][q].deposit
      /\ parts'[id][p].deposit + parts'[id][q].deposit <= MAX_SAFE_UINT256
  BY <1>1 DEF IInv, DepositCoversWithdraws, SameAmounts
<1>4. QED
  BY <1>2, <1>3, LiveStep

(* A step that opens a channel and may deposit for one side of it. *)
LEMMA OpenStep ==
  ASSUME IInv, NEW p \in Participants, NEW q \in Participants,
         MayOpen(p, q), StoreNewChannel(p, q), UNCHANGED unlock_data,
         NEW d \in 0 .. MAX_SAFE_UINT256,
         \A i \in ChannelIds, r \in Participants :
           i # channel_counter + 1 \/ r # p => parts'[i][r] = parts[i][r],
         parts'[channel_counter + 1][p].deposit = d,
         parts'[channel_counter + 1][p].withdrawn_amount = 0
  PROVE  ChannelsConsistent' /\ DepositCoversWithdraws'
<1>0. PICK id \in ChannelIds : id = channel_counter + 1
  BY Bounds DEF MayOpen, ChannelIds, IInv, TypeOK
<1>1. /\ id \in Nat /\ id > channel_counter /\ id # 0
      /\ channel_counter \in Nat /\ channel_counter' = id
  BY <1>0, Bounds, SMTT(30) DEF StoreNewChannel, ChannelIds, IInv, TypeOK
<1>2. /\ state[id] = "NonExistent"
      /\ \A r \in Participants : parts[id][r] = NoParticipant
  BY <1>1, FreshIdentifier
<1>3. /\ p # q /\ {p, q} \in SUBSET Participants /\ channel_of[{p, q}] = 0
      /\ channel_of' = [channel_of EXCEPT ![{p, q}] = id]
      /\ state' = [state EXCEPT ![id] = "Opened"]
  BY <1>0 DEF MayOpen, StoreNewChannel
<1>4. ASSUME NEW pair \in SUBSET Participants
      PROVE  /\ channel_of'[pair] = IF pair = {p, q} THEN id ELSE channel_of[pair]
             /\ channel_of[pair] # id
             /\ channel_of[pair] # 0 => channel_of[pair] \in ChannelIds
  <2>1. channel_of'[pair] = IF pair = {p, q} THEN id ELSE channel_of[pair]
    BY <1>3 DEF IInv, TypeOK
  <2>2. channel_of[pair] # 0 => channel_of[pair] <= channel_counter
    BY DEF IInv, ChannelsConsistent, PairsConsistent
  <2>3. channel_of[pair] # 0 => channel_of[pair] \in ChannelIds
    BY PairIdentifier
  <2>4. QED
    BY <1>1, <2>1, <2>2, <2>3
<1>5. \A i \in ChannelIds : state'[i] = IF i = id THEN "Opened" ELSE state[i]
  BY <1>3 DEF IInv, TypeOK
<1>6. /\ \A i \in ChannelIds, r \in Participants :
           i # id \/ r # p => parts'[i][r] = parts[i][r]
      /\ parts'[id][p].deposit = d /\ parts'[id][p].withdrawn_amount = 0
  BY <1>0
<1>7. PairsConsistent'
  <2> SUFFICES ASSUME NEW pair \in SUBSET Participants, channel_of'[pair] # 0
               PROVE  /\ channel_of'[pair] <= channel_counter'
                      /\ state'[channel_of'[pair]] # "NonExistent"
                      /\ \A other \in SUBSET Participants :
                           channel_of'[other] = channel_of'[pair] => other = pair
    BY DEF PairsConsistent
  <2>1. CASE pair = {p, q}
    BY <2>1, <1>1, <1>4, <1>5
  <2>2. CASE pair # {p, q}
    <3>1. /\ channel_of[pair] # 0 /\ channel_of[pair] <= channel_counter
          /\ state[channel_of[pair]] # "NonExistent"
          /\ \A other \in SUBSET Participants :
               channel_of[other] = channel_of[pair] => other = pair
      BY <2>2, <1>4 DEF IInv, ChannelsConsistent, PairsConsistent
    <3>2. channel_of[pair] \in ChannelIds /\ channel_of[pair] \in Nat
      BY <3>1, <1>4, Bounds DEF ChannelIds
    <3>3. QED
      BY <2>2, <3>1, <3>2, <1>1, <1>4, <1>5
  <2>3. QED
    BY <2>1, <2>2
<1>8. LiveChannelsConsistent'
  <2> SUFFICES ASSUME NEW i \in ChannelIds, state'[i] # "NonExistent"
               PROVE  \E x, y \in Participants :
                        IsChannelOf(i, x, y)' /\ OnlyStorageOf(i, x, y)'
    BY DEF LiveChannelsConsistent
  <2>1. CASE i = id
    <3>1. IsChannelOf(id, p, q)'
      BY <1>3, <1>4 DEF IsChannelOf
    <3>2. OnlyStorageOf(id, p, q)'
      BY <1>1, <1>2, <1>6 DEF OnlyStorageOf
    <3>3. QED
      BY <2>1, <3>1, <3>2
  <2>2. CASE i # id
    <3>1. PICK x \in Participants, y \in Participants :
            IsChannelOf(i, x, y) /\ OnlyStorageOf(i, x, y)
      BY <2>2, <1>5 DEF IInv, ChannelsConsistent, LiveChannelsConsistent
    <3>2. {x, y} \in SUBSET Participants /\ i # 0
      BY Bounds DEF ChannelIds
    <3>3. IsChannelOf(i, x, y)'
      BY <3>1, <3>2, <1>3, <1>4 DEF IsChannelOf
    <3>4. OnlyStorageOf(i, x, y)'
      BY <2>2, <3>1, <1>6 DEF OnlyStorageOf
    <3>5. QED
      BY <3>3, <3>4
  <2>3. QED
    BY <2>1, <2>2
<1>9. RemovedChannelsEmpty'
  BY <1>5, <1>6 DEF IInv, ChannelsConsistent, RemovedChannelsEmpty
<1>10. UnlockDataConsistent'
  <2> SUFFICES ASSUME NEW i \in ChannelIds, NEW x \in Participants, NEW y \in Participants,
                      unlock_data[<<i, x, y>>].locked_amount > 0
               PROVE  i <= channel_counter' /\ state'[i] = "NonExistent"
    BY DEF UnlockDataConsistent
  <2>1. i <= channel_counter /\ state[i] = "NonExistent"
    BY DEF IInv, ChannelsConsistent, UnlockDataConsistent
  <2>2. i \in Nat /\ i # id
    BY <2>1, <1>1, Bounds DEF ChannelIds
  <2>3. QED
    BY <2>1, <2>2, <1>1, <1>5
<1>11. DepositCoversWithdraws'
  <2> SUFFICES ASSUME NEW i \in ChannelIds, NEW x \in Participants, NEW y \in Participants,
                      IsChannelOf(i, x, y)'
               PROVE  /\ parts'[i][x].withdrawn_amount + parts'[i][y].withdrawn_amount
                           <= parts'[i][x].deposit + parts'[i][y].deposit
                      /\ parts'[i][x].deposit + parts'[i][y].deposit <= MAX_SAFE_UINT256
    BY DEF DepositCoversWithdraws
  <2>1. {x, y} \in SUBSET Participants /\ x # y
    BY DEF IsChannelOf
  <2>2. CASE i = id
    <3>1. \A r \in Participants : r # p => parts'[id][r] = NoParticipant
      BY <1>1, <1>2, <1>6
    <3>2. \A r \in Participants :
            /\ parts'[id][r].withdrawn_amount = 0
            /\ parts'[id][r].deposit = IF r = p THEN d ELSE 0
      BY <3>1, <1>6, SMTT(30) DEF NoParticipant
    <3>3. QED
      BY <2>1, <2>2, <3>2, Bounds
  <2>3. CASE i # id
    <3>1. IsChannelOf(i, x, y)
      BY <2>1, <2>3, <1>4 DEF IsChannelOf
    <3>2. QED
      BY <2>3, <3>1, <1>6 DEF IInv, DepositCoversWithdraws
  <2>4. QED
    BY <2>2, <2>3
<1>12. QED
  BY <1>7, <1>8, <1>9, <1>10, <1>11 DEF ChannelsConsistent

(* A step that settles a channel and may leave locked tokens behind. *)
LEMMA RemoveStep ==
  ASSUME IInv, NEW id \in ChannelIds, NEW p \in Participants, NEW q \in Participants,
         IsChannelOf(id, p, q), removeChannelData(id, p, q), state[id] # "NonExistent",
         UNCHANGED channel_counter,
         \A i \in ChannelIds, x, y \in Participants :
           i # id => unlock_data'[<<i, x, y>>] = unlock_data[<<i, x, y>>]
  PROVE  ChannelsConsistent' /\ DepositCoversWithdraws'
<1>1. {p, q} \in SUBSET Participants /\ id # 0 /\ channel_of[{p, q}] = id
  BY Bounds DEF ChannelIds, IsChannelOf
<1>2. ASSUME NEW pair \in SUBSET Participants
      PROVE  /\ channel_of'[pair] = IF pair = {p, q} THEN 0 ELSE channel_of[pair]
             /\ channel_of[pair] = id => pair = {p, q}
             /\ channel_of[pair] # 0 => channel_of[pair] \in ChannelIds
  <2>1. channel_of'[pair] = IF pair = {p, q} THEN 0 ELSE channel_of[pair]
    BY <1>1 DEF removeChannelData, IInv, TypeOK
  <2>2. channel_of[pair] = id => pair = {p, q}
    BY <1>1 DEF IInv, ChannelsConsistent, PairsConsistent
  <2>3. QED
    BY <2>1, <2>2, PairIdentifier
<1>3. \A i \in ChannelIds : state'[i] = IF i = id THEN "NonExistent" ELSE state[i]
  BY DEF removeChannelData, IInv, TypeOK
<1>4. \A i \in ChannelIds, r \in Participants :
        parts'[i][r] = IF i = id /\ r \in {p, q} THEN NoParticipant ELSE parts[i][r]
  BY DEF removeChannelData, IInv, TypeOK, Storage
<1>5. OnlyStorageOf(id, p, q)
  <2>1. PICK x \in Participants, y \in Participants :
          IsChannelOf(id, x, y) /\ OnlyStorageOf(id, x, y)
    BY DEF IInv, ChannelsConsistent, LiveChannelsConsistent
  <2>2. {x, y} = {p, q}
    BY <2>1, OnePair
  <2>3. QED
    BY <2>1, <2>2 DEF OnlyStorageOf
<1>6. PairsConsistent'
  <2> SUFFICES ASSUME NEW pair \in SUBSET Participants, channel_of'[pair] # 0
               PROVE  /\ channel_of'[pair] <= channel_counter'
                      /\ state'[channel_of'[pair]] # "NonExistent"
                      /\ \A other \in SUBSET Participants :
                           channel_of'[other] = channel_of'[pair] => other = pair
    BY DEF PairsConsistent
  <2>1. /\ channel_of[pair] # 0 /\ channel_of[pair] <= channel_counter
        /\ state[channel_of[pair]] # "NonExistent"
        /\ \A other \in SUBSET Participants :
             channel_of[other] = channel_of[pair] => other = pair
    BY <1>2 DEF IInv, ChannelsConsistent, PairsConsistent
  <2>2. channel_of[pair] \in ChannelIds /\ channel_of[pair] # id /\ pair # {p, q}
    BY <1>2, <2>1
  <2>3. QED
    BY <1>2, <1>3, <2>1, <2>2, SMTT(30)
<1>7. LiveChannelsConsistent'
  <2> SUFFICES ASSUME NEW i \in ChannelIds, state'[i] # "NonExistent"
               PROVE  \E x, y \in Participants :
                        IsChannelOf(i, x, y)' /\ OnlyStorageOf(i, x, y)'
    BY DEF LiveChannelsConsistent
  <2>1. i # id /\ state[i] # "NonExistent"
    BY <1>3
  <2>2. PICK x \in Participants, y \in Participants :
          IsChannelOf(i, x, y) /\ OnlyStorageOf(i, x, y)
    BY <2>1 DEF IInv, ChannelsConsistent, LiveChannelsConsistent
  <2>3. {x, y} \in SUBSET Participants
    OBVIOUS
  <2>4. IsChannelOf(i, x, y)'
    BY <2>1, <2>2, <2>3, <1>1, <1>2 DEF IsChannelOf
  <2>5. OnlyStorageOf(i, x, y)'
    BY <2>1, <2>2, <1>4 DEF OnlyStorageOf
  <2>6. QED
    BY <2>4, <2>5
<1>8. RemovedChannelsEmpty'
  <2> SUFFICES ASSUME NEW i \in ChannelIds, state'[i] = "NonExistent", NEW r \in Participants
               PROVE  parts'[i][r] = NoParticipant
    BY DEF RemovedChannelsEmpty
  <2>1. CASE i = id
    BY <2>1, <1>4, <1>5 DEF OnlyStorageOf
  <2>2. CASE i # id
    BY <2>2, <1>3, <1>4 DEF IInv, ChannelsConsistent, RemovedChannelsEmpty
  <2>3. QED
    BY <2>1, <2>2
<1>9. UnlockDataConsistent'
  <2>1. id <= channel_counter
    BY <1>1 DEF IInv, ChannelsConsistent, PairsConsistent
  <2>2. QED
    BY <2>1, <1>3 DEF IInv, ChannelsConsistent, UnlockDataConsistent
<1>10. DepositCoversWithdraws'
  <2> SUFFICES ASSUME NEW i \in ChannelIds, NEW x \in Participants, NEW y \in Participants,
                      IsChannelOf(i, x, y)'
               PROVE  /\ parts'[i][x].withdrawn_amount + parts'[i][y].withdrawn_amount
                           <= parts'[i][x].deposit + parts'[i][y].deposit
                      /\ parts'[i][x].deposit + parts'[i][y].deposit <= MAX_SAFE_UINT256
    BY DEF DepositCoversWithdraws
  <2>1. {x, y} \in SUBSET Participants /\ x # y /\ i # 0
    BY Bounds, SMTT(30) DEF IsChannelOf, ChannelIds
  <2>2. IsChannelOf(i, x, y) /\ i # id
    BY <2>1, <1>1, <1>2 DEF IsChannelOf
  <2>3. QED
    BY <2>2, <1>4 DEF IInv, DepositCoversWithdraws
<1>11. QED
  BY <1>6, <1>7, <1>8, <1>9, <1>10 DEF ChannelsConsistent

(* A step that pays out the locked tokens of a settled channel. *)
LEMMA UnlockStep ==
  ASSUME IInv, UNCHANGED chanVars, NEW key \in UnlockKeys,
         unlock_data' = [unlock_data EXCEPT ![key] = NoUnlockData]
  PROVE  ChannelsConsistent' /\ DepositCoversWithdraws'
<1> USE DEF IInv, ChannelsConsistent, chanVars
<1>1. PairsConsistent'
  BY DEF PairsConsistent
<1>2. LiveChannelsConsistent'
  <2>1. ASSUME NEW i \in ChannelIds, NEW x \in Participants, NEW y \in Participants
        PROVE  /\ IsChannelOf(i, x, y)' <=> IsChannelOf(i, x, y)
               /\ OnlyStorageOf(i, x, y)' <=> OnlyStorageOf(i, x, y)
    BY DEF IsChannelOf, OnlyStorageOf
  <2>2. QED
    BY <2>1 DEF LiveChannelsConsistent
<1>3. RemovedChannelsEmpty'
  BY DEF RemovedChannelsEmpty
<1>4. UnlockDataConsistent'
  <2>1. ASSUME NEW k \in UnlockKeys, unlock_data'[k].locked_amount > 0
        PROVE  unlock_data'[k] = unlock_data[k]
    BY <2>1 DEF TypeOK, NoUnlockData
  <2>2. QED
    BY <2>1 DEF UnlockDataConsistent, UnlockKeys
<1>5. DepositCoversWithdraws'
  BY DEF DepositCoversWithdraws, IsChannelOf
<1>6. QED
  BY <1>1, <1>2, <1>3, <1>4, <1>5

(* Every step keeps the channels consistent.                               *)
LEMMA ConsistencyStep ==
  ASSUME IInv, Next, TypeOK'
  PROVE  ChannelsConsistent' /\ DepositCoversWithdraws'
<1> DEFINE Goal == ChannelsConsistent' /\ DepositCoversWithdraws'
<1>1. CASE Tick
  BY <1>1, OtherStep DEF Tick
<1>2. CASE deprecate
  BY <1>2, OtherStep DEF deprecate
<1>3. CASE removeLimits
  BY <1>3, OtherStep DEF removeLimits
<1>4. ASSUME NEW h \in SecretHashes, registerSecret(h) PROVE Goal
  BY <1>4, OtherStep DEF registerSecret
<1>5. ASSUME NEW p \in Participants, NEW q \in Participants, openChannel(p, q)
      PROVE  Goal
  <2>1. channel_counter + 1 \in ChannelIds /\ channel_counter + 1 > channel_counter
    BY <1>5, Bounds DEF openChannel, MayOpen, ChannelIds, IInv, TypeOK
  <2>2. parts[channel_counter + 1][p] = NoParticipant
    BY <2>1, FreshIdentifier
  <2>3. /\ NoParticipant.deposit = 0 /\ NoParticipant.withdrawn_amount = 0
        /\ 0 \in 0 .. MAX_SAFE_UINT256
    BY Bounds DEF NoParticipant
  <2>4. /\ MayOpen(p, q) /\ StoreNewChannel(p, q) /\ parts' = parts
        /\ UNCHANGED unlock_data
    BY <1>5 DEF openChannel
  <2>5. QED
    BY <2>2, <2>3, <2>4, OpenStep
<1>6. ASSUME NEW p \in Participants, NEW q \in Participants,
             NEW sender \in Participants, NEW total \in Totals,
             openChannelWithDeposit(p, q, total, sender)
      PROVE  Goal
  <2>1. PICK id \in ChannelIds : id = channel_counter + 1
    BY <1>6, Bounds DEF openChannelWithDeposit, MayOpen, ChannelIds, IInv, TypeOK
  <2>2. parts[id][p] = NoParticipant
    BY <2>1, FreshIdentifier, Bounds, SMTT(30) DEF IInv, TypeOK
  <2>3. parts' = [parts EXCEPT ![id][p].deposit = total]
    BY <1>6, <2>1 DEF openChannelWithDeposit, setTotalDepositFor
  <2>4. /\ \A i \in ChannelIds, r \in Participants :
             i # id \/ r # p => parts'[i][r] = parts[i][r]
        /\ parts'[id][p] = [parts[id][p] EXCEPT !.deposit = total]
    BY <2>3 DEF IInv, TypeOK, Storage
  <2>5. MayOpen(p, q) /\ StoreNewChannel(p, q) /\ UNCHANGED unlock_data
    BY <1>6 DEF openChannelWithDeposit
  <2>6. parts'[id][p].deposit = total /\ parts'[id][p].withdrawn_amount = 0
    BY <2>2, <2>4 DEF NoParticipant
  <2>7. /\ \A i \in ChannelIds, r \in Participants :
             i # channel_counter + 1 \/ r # p => parts'[i][r] = parts[i][r]
        /\ parts'[channel_counter + 1][p].deposit = total
        /\ parts'[channel_counter + 1][p].withdrawn_amount = 0
        /\ total \in 0 .. MAX_SAFE_UINT256
    BY <2>1, <2>4, <2>6 DEF Totals
  <2>8. QED
    BY <2>5, <2>7, OpenStep
<1>7. ASSUME NEW id \in ChannelIds, NEW p \in Participants, NEW q \in Participants,
             NEW sender \in Participants, NEW total \in Totals,
             setTotalDeposit(id, p, q, total, sender)
      PROVE  Goal
  <2>1. /\ IsChannelOf(id, p, q) /\ p # q /\ state[id] # "NonExistent"
        /\ MayDeposit(parts[id][p], parts[id][q], total, sender)
        /\ parts' = [parts EXCEPT ![id][p].deposit = total]
        /\ UNCHANGED <<channel_counter, channel_of, unlock_data>> /\ state' = state
    BY <1>7 DEF setTotalDeposit, setTotalDepositFor, IsChannelOf
  <2>2. /\ \A i \in ChannelIds, r \in Participants :
             i # id \/ r \notin {p, q} => parts'[i][r] = parts[i][r]
        /\ parts'[id][p] = [parts[id][p] EXCEPT !.deposit = total]
        /\ parts'[id][q] = parts[id][q]
    BY <2>1 DEF IInv, TypeOK, Storage
  <2>3. /\ parts[id][p] \in Participant /\ parts[id][q] \in Participant
        /\ total \in Nat /\ MAX_SAFE_UINT256 \in Nat
    BY Bounds DEF IInv, TypeOK, Storage, Totals
  <2>4. parts[id][p].withdrawn_amount + parts[id][q].withdrawn_amount
          <= parts[id][p].deposit + parts[id][q].deposit
    BY <2>1 DEF IInv, DepositCoversWithdraws
  <2>5. /\ parts'[id][p].withdrawn_amount + parts'[id][q].withdrawn_amount
             <= parts'[id][p].deposit + parts'[id][q].deposit
        /\ parts'[id][p].deposit + parts'[id][q].deposit <= MAX_SAFE_UINT256
    BY <2>1, <2>2, <2>3, <2>4 DEF MayDeposit, Participant
  <2>6. QED
    BY <2>1, <2>2, <2>5, LiveStep
<1>8. ASSUME NEW id \in ChannelIds, NEW p \in Participants, NEW q \in Participants,
             NEW total \in Totals, NEW until \in Times,
             setTotalWithdraw(id, p, q, total, until)
      PROVE  Goal
  <2>1. /\ IsChannelOf(id, p, q) /\ p # q /\ state[id] # "NonExistent"
        /\ MayWithdraw(parts[id][p], parts[id][q], total, until)
        /\ parts' = [parts EXCEPT ![id][p].withdrawn_amount = total]
        /\ UNCHANGED <<channel_counter, channel_of, unlock_data>> /\ state' = state
    BY <1>8 DEF setTotalWithdraw, IsChannelOf
  <2>2. /\ \A i \in ChannelIds, r \in Participants :
             i # id \/ r \notin {p, q} => parts'[i][r] = parts[i][r]
        /\ parts'[id][p] = [parts[id][p] EXCEPT !.withdrawn_amount = total]
        /\ parts'[id][q] = parts[id][q]
    BY <2>1 DEF IInv, TypeOK, Storage
  <2>3. /\ parts[id][p] \in Participant /\ parts[id][q] \in Participant
        /\ total \in Nat /\ MAX_SAFE_UINT256 \in Nat
    BY Bounds DEF IInv, TypeOK, Storage, Totals
  <2>4. parts[id][p].deposit + parts[id][q].deposit <= MAX_SAFE_UINT256
    BY <2>1 DEF IInv, DepositCoversWithdraws
  <2>5. /\ parts'[id][p].withdrawn_amount + parts'[id][q].withdrawn_amount
             <= parts'[id][p].deposit + parts'[id][q].deposit
        /\ parts'[id][p].deposit + parts'[id][q].deposit <= MAX_SAFE_UINT256
    BY <2>1, <2>2, <2>3, <2>4 DEF MayWithdraw, Participant
  <2>6. QED
    BY <2>1, <2>2, <2>5, LiveStep
<1>9. ASSUME NEW id \in ChannelIds, NEW p \in Participants, NEW q \in Participants,
             NEW total1 \in Totals, NEW total2 \in Totals,
             NEW until1 \in Times, NEW until2 \in Times,
             cooperativeSettle(id, p, total1, until1, q, total2, until2)
      PROVE  Goal
  BY <1>9, RemoveStep DEF cooperativeSettle
<1>10. ASSUME NEW id \in ChannelIds, NEW p \in Participants, NEW q \in Participants,
              NEW nonce \in 0 .. MaxNonce, NEW hash \in BalanceHash,
              closeChannel(id, p, q, nonce, hash)
       PROVE  Goal
  <2> DEFINE closed == [parts[id] EXCEPT ![p].is_the_closer = TRUE]
             new == IF nonce > 0 THEN updateBalanceProofData(closed, q, nonce, hash)
                                 ELSE closed
  <2>1. /\ IsChannelOf(id, p, q) /\ state[id] # "NonExistent"
        /\ parts' = [parts EXCEPT ![id] = new]
        /\ UNCHANGED <<channel_counter, channel_of, unlock_data>>
        /\ state' = [state EXCEPT ![id] = "Closed"]
    BY <1>10 DEF closeChannel
  <2>2. \A i \in ChannelIds : state'[i] = "NonExistent" <=> state[i] = "NonExistent"
    BY <2>1 DEF IInv, TypeOK
  <2>3. parts[id] \in [Participants -> Participant]
    BY DEF IInv, TypeOK, Storage
  <2>4. /\ closed \in [Participants -> Participant]
        /\ \A r \in Participants : SameAmounts(parts[id][r], closed[r])
        /\ \A r \in Participants \ {p, q} : closed[r] = parts[id][r]
    BY <2>3, CloserUpdate DEF SameAmounts, Participant
  <2> HIDE DEF closed
  <2>5. /\ \A r \in Participants : SameAmounts(closed[r], new[r])
        /\ \A r \in Participants \ {p, q} : new[r] = closed[r]
    <3>1. CASE nonce > 0
      BY <2>4, <3>1, Bounds, BalanceProofAmounts, SMTT(30)
    <3>2. CASE ~(nonce > 0)
      BY <3>2 DEF SameAmounts
    <3>3. QED
      BY <3>1, <3>2
  <2> HIDE DEF new
  <2>6. /\ \A r \in Participants : SameAmounts(parts[id][r], new[r])
        /\ \A r \in Participants \ {p, q} : new[r] = parts[id][r]
    BY <2>4, <2>5 DEF SameAmounts
  <2>7. QED
    BY <2>1, <2>2, <2>6, ProofStep, ZenonT(30)
<1>11. ASSUME NEW id \in ChannelIds, NEW p \in Participants, NEW q \in Participants,
              NEW nonce \in 0 .. MaxNonce, NEW hash \in BalanceHash,
              updateNonClosingBalanceProof(id, p, q, nonce, hash)
       PROVE  Goal
  <2> DEFINE new == updateBalanceProofData(parts[id], p, nonce, hash)
  <2>1. /\ IsChannelOf(id, p, q) /\ state[id] # "NonExistent"
        /\ parts' = [parts EXCEPT ![id] = new]
        /\ UNCHANGED <<channel_counter, channel_of, unlock_data>> /\ state' = state
    BY <1>11 DEF updateNonClosingBalanceProof
  <2>2. parts[id] \in [Participants -> Participant]
    BY DEF IInv, TypeOK, Storage
  <2>3. /\ \A r \in Participants : SameAmounts(parts[id][r], new[r])
        /\ \A r \in Participants \ {p, q} : new[r] = parts[id][r]
    BY <2>2, BalanceProofAmounts, SMTT(30)
  <2> HIDE DEF new
  <2>4. QED
    BY <2>1, <2>3, ProofStep
<1>12. ASSUME NEW id \in ChannelIds, NEW p \in Participants, NEW q \in Participants,
              NEW s1 \in SettleInputs, NEW s2 \in SettleInputs,
              settleChannel(id, p, s1, q, s2)
       PROVE  Goal
  <2> DEFINE r == getSettleTransferAmounts(parts[id][p], s1.transferred, s1.locked,
                                           parts[id][q], s2.transferred, s2.locked)
             mid == storeUnlockData(unlock_data, id, p, s1.locksroot, r.locked1, q)
  <2>1. /\ IsChannelOf(id, p, q) /\ state[id] # "NonExistent"
        /\ removeChannelData(id, p, q)
        /\ unlock_data' = storeUnlockData(mid, id, q, s2.locksroot, r.locked2, p)
        /\ UNCHANGED channel_counter
    BY <1>12 DEF settleChannel
  <2> HIDE DEF r
  <2>2. ASSUME NEW k \in UnlockKeys, k[1] # id
        PROVE  unlock_data'[k] = unlock_data[k]
    <3>1. k # <<id, p, q>> /\ k # <<id, q, p>>
      BY <2>2
    <3>2. QED
      BY <2>1, <3>1 DEF storeUnlockData, IInv, TypeOK
  <2>3. \A i \in ChannelIds, x, y \in Participants :
          i # id => unlock_data'[<<i, x, y>>] = unlock_data[<<i, x, y>>]
    BY <2>2 DEF UnlockKeys
  <2>4. QED
    BY <2>1, <2>3, RemoveStep
<1>13. ASSUME NEW id \in ChannelIds, NEW p \in Participants, NEW q \in Participants,
              NEW locks \in LockLists, unlock(id, p, q, locks)
       PROVE  Goal
  <2>1. <<id, q, p>> \in UnlockKeys
    BY DEF UnlockKeys
  <2>2. QED
    BY <1>13, <2>1, UnlockStep DEF unlock
<1>14. QED
  BY <1>1, <1>2, <1>3, <1>4, <1>5, <1>6, <1>7, <1>8, <1>9, <1>10, <1>11, <1>12, <1>13
  DEF Next, Settle, Unlock

-----------------------------------------------------------------------------
(* A step that changes no variable keeps the invariant. *)
LEMMA StutterStep == ASSUME IInv, UNCHANGED vars PROVE IInv'
<1>1. TypeOK'
  BY DEF IInv, TypeOK, vars, tokenVars, adminVars, chanVars
<1>2. QED
  BY <1>1, OtherStep DEF IInv, vars

(* The invariant holds in every state.                                     *)
LEMMA InvariantHolds == Spec => []IInv
<1>1. IInv /\ [Next]_vars => IInv'
  BY TypeStep, ConsistencyStep, StutterStep DEF IInv
<1>2. QED
  BY <1>1, InitInvariant, PTL DEF Spec

(* Every variable of the contract keeps its type; in particular no balance *)
(* of a participant and no amount in storage ever becomes negative.        *)
THEOREM TypeCorrect == Spec => []TypeOK
  BY InvariantHolds, PTL DEF IInv

(* openChannel: at any time one live channel for a pair and one pair for a *)
(* live channel, no storage of settled channels, tokens left to unlock     *)
(* only in settled channels.                                               *)
THEOREM ChannelsStayConsistent == Spec => []ChannelsConsistent
  BY InvariantHolds, PTL DEF IInv

(* getChannelAvailableDeposit never reverts for a live channel. *)
THEOREM WithdrawsStayCovered == Spec => []DepositCoversWithdraws
  BY InvariantHolds, PTL DEF IInv

(* settleChannel2 never fails: in one of the two argument orders, every    *)
(* check and assertion of the settlement of a closed channel succeeds,     *)
(* whatever balance proofs were stored.                                    *)
THEOREM SettlementNeverFails == Spec => []SettleNeverFails
<1>1. ASSUME IInv PROVE SettleNeverFails
  <2> SUFFICES ASSUME NEW id \in ChannelIds, NEW p \in Participants, NEW q \in Participants,
                      NEW s1 \in SettleInputs, NEW s2 \in SettleInputs, IsChannelOf(id, p, q)
               PROVE  \/ /\ TransfersOrdered(s1, s2)
                         /\ SettlementComputes(parts[id][p], s1, parts[id][q], s2)
                      \/ /\ TransfersOrdered(s2, s1)
                         /\ SettlementComputes(parts[id][q], s2, parts[id][p], s1)
    BY DEF SettleNeverFails
  <2>1. ASSUME NEW x \in Participants, NEW y \in Participants, IsChannelOf(id, x, y),
               NEW s \in SettleInputs, NEW t \in SettleInputs, TransfersOrdered(s, t)
        PROVE  SettlementComputes(parts[id][x], s, parts[id][y], t)
    <3> DEFINE tad == getChannelAvailableDeposit(parts[id][x], parts[id][y])
               r == getSettleTransferAmounts(parts[id][x], s.transferred, s.locked,
                                             parts[id][y], t.transferred, t.locked)
    <3>1. parts[id][x] \in Participant /\ parts[id][y] \in Participant
      BY <1>1 DEF IInv, TypeOK, Storage
    <3>2. /\ parts[id][x].withdrawn_amount + parts[id][y].withdrawn_amount
               <= parts[id][x].deposit + parts[id][y].deposit
          /\ parts[id][x].deposit + parts[id][y].deposit <= MAX_SAFE_UINT256
      BY <1>1, <2>1 DEF IInv, DepositCoversWithdraws
    <3>3. /\ parts[id][x].deposit + parts[id][y].deposit >= parts[id][x].withdrawn_amount
          /\ tad \in Nat
      BY <3>1, <3>2, SMTT(30) DEF getChannelAvailableDeposit, Participant
    <3>4. Splits(r, tad)
      BY <1>1, <2>1, SettleChannelAmounts
    <3> HIDE DEF tad, r
    <3>5. /\ tad >= 0 /\ r.amount1 <= tad /\ r.amount2 <= tad
          /\ r.amount1 + r.amount2 + r.locked1 + r.locked2 = tad
      BY <3>3, <3>4, SMTT(30) DEF Splits
    <3>6. QED
      BY <3>2, <3>3, <3>5 DEF SettlementComputes, tad, r
  <2>2. TransfersOrdered(s1, s2) \/ TransfersOrdered(s2, s1)
    <3>1. /\ failsafe_addition(s1.transferred, s1.locked) \in Nat
          /\ failsafe_addition(s2.transferred, s2.locked) \in Nat
      <4>1. /\ s1.transferred \in Nat /\ s1.locked \in Nat
            /\ s2.transferred \in Nat /\ s2.locked \in Nat
        BY SettleInputType, Bounds
      <4>2. QED
        BY <4>1, FailsafeAddition
    <3>2. QED
      BY <3>1 DEF TransfersOrdered
  <2>3. IsChannelOf(id, q, p)
    <3>1. {q, p} = {p, q}
      OBVIOUS
    <3>2. QED
      BY <3>1 DEF IsChannelOf
  <2>4. QED
    BY <2>1, <2>2, <2>3
<1>2. QED
  BY <1>1, InvariantHolds, PTL

(* openChannel: a settled channel identifier never becomes live again. *)
THEOREM IdentifiersStayUnique == Spec => IdentifiersNotReused
<1> DEFINE Kept == \A id \in ChannelIds :
             id <= channel_counter /\ state[id] = "NonExistent" => state'[id] = "NonExistent"
<1>1. ASSUME IInv, Next PROVE Kept
  <2>1. ASSUME NEW p \in Participants, NEW q \in Participants,
               MayOpen(p, q), StoreNewChannel(p, q)
        PROVE  Kept
    BY <1>1, <2>1, Bounds DEF MayOpen, StoreNewChannel, IInv, TypeOK, ChannelIds
  <2>2. CASE state' = state
    BY <2>2
  <2>3. ASSUME NEW i \in ChannelIds, NEW p \in Participants, NEW q \in Participants,
               removeChannelData(i, p, q)
        PROVE  Kept
    BY <1>1, <2>3 DEF removeChannelData, IInv, TypeOK
  <2>4. ASSUME NEW i \in ChannelIds, NEW p \in Participants, NEW q \in Participants,
               NEW nonce \in 0 .. MaxNonce, NEW hash \in BalanceHash,
               closeChannel(i, p, q, nonce, hash)
        PROVE  Kept
    BY <1>1, <2>4 DEF closeChannel, IInv, TypeOK
  <2>5. QED
    <3>1. CASE Tick \/ deprecate \/ removeLimits \/ \E h \in SecretHashes : registerSecret(h)
      BY <3>1, <2>2 DEF Tick, deprecate, removeLimits, registerSecret, chanVars
    <3>2. CASE \E p, q \in Participants : openChannel(p, q)
      BY <3>2, <2>1 DEF openChannel
    <3>3. CASE \E p, q, sender \in Participants, total \in Totals :
                 openChannelWithDeposit(p, q, total, sender)
      BY <3>3, <2>1 DEF openChannelWithDeposit
    <3>4. ASSUME NEW id \in ChannelIds, NEW p \in Participants, NEW q \in Participants
          PROVE  /\ \A sender \in Participants, total \in Totals :
                      setTotalDeposit(id, p, q, total, sender) => Kept
                 /\ \A total \in Totals, until \in Times :
                      setTotalWithdraw(id, p, q, total, until) => Kept
                 /\ \A nonce \in 0 .. MaxNonce, hash \in BalanceHash :
                      updateNonClosingBalanceProof(id, p, q, nonce, hash) => Kept
                 /\ \A locks \in LockLists : unlock(id, p, q, locks) => Kept
      BY <2>2 DEF setTotalDeposit, setTotalWithdraw, updateNonClosingBalanceProof,
                  unlock, chanVars
    <3>5. ASSUME NEW id \in ChannelIds, NEW p \in Participants, NEW q \in Participants
          PROVE  /\ \A total1, total2 \in Totals, until1, until2 \in Times :
                      cooperativeSettle(id, p, total1, until1, q, total2, until2) => Kept
                 /\ \A s1, s2 \in SettleInputs : settleChannel(id, p, s1, q, s2) => Kept
      BY <2>3 DEF cooperativeSettle, settleChannel
    <3> HIDE DEF Kept
    <3>6. QED
      BY <1>1, <2>4, <3>1, <3>2, <3>3, <3>4, <3>5 DEF Next, Settle, Unlock
<1>2. IInv /\ [Next]_vars => [Kept]_vars
  BY <1>1
<1>3. QED
  BY <1>2, InvariantHolds, PTL DEF Spec, IdentifiersNotReused

(* closeChannel and updateNonClosingBalanceProof: while a channel is       *)
(* closed only the closer's proof changes, and only for a newer one.       *)
THEOREM ClosedChannelsStayFrozen == Spec => ClosedChannelFrozen
<1> DEFINE Frozen == \A id \in ChannelIds, p \in Participants :
             state[id] = "Closed" /\ state'[id] = "Closed" =>
               \/ parts'[id][p] = parts[id][p]
               \/ /\ parts[id][p].is_the_closer
                  /\ parts'[id][p].nonce > parts[id][p].nonce
                  /\ parts'[id][p].deposit = parts[id][p].deposit
                  /\ parts'[id][p].withdrawn_amount = parts[id][p].withdrawn_amount
<1>1. ASSUME IInv, Next PROVE Frozen
  <2> USE DEF IInv, TypeOK
  <2>1. CASE parts' = parts
    BY <2>1
  <2>2. ASSUME NEW id \in ChannelIds, state[id] # "Closed" \/ state'[id] # "Closed",
               \A i \in ChannelIds : i # id => parts'[i] = parts[i]
        PROVE  Frozen
    BY <2>2
  <2>3. ASSUME NEW p \in Participants, NEW q \in Participants,
               NEW sender \in Participants, NEW total \in Totals,
               openChannelWithDeposit(p, q, total, sender)
        PROVE  Frozen
    <3>1. PICK id \in ChannelIds : id = channel_counter + 1
      BY <1>1, <2>3, Bounds DEF openChannelWithDeposit, MayOpen, ChannelIds
    <3>2. state[id] # "Closed"
      BY <1>1, <3>1, Bounds, FreshIdentifier
    <3>3. parts' = [parts EXCEPT ![id][p].deposit = total]
      BY <2>3, <3>1 DEF openChannelWithDeposit, setTotalDepositFor
    <3>4. QED
      BY <1>1, <2>2, <3>2, <3>3 DEF Storage
  <2>4. ASSUME NEW id \in ChannelIds, NEW p \in Participants, NEW q \in Participants,
               removeChannelData(id, p, q)
        PROVE  Frozen
    BY <1>1, <2>2, <2>4 DEF removeChannelData, Storage
  <2>5. ASSUME NEW id \in ChannelIds, NEW p \in Participants, NEW q \in Participants,
               NEW sender \in Participants, NEW total \in Totals,
               setTotalDeposit(id, p, q, total, sender)
        PROVE  Frozen
    BY <1>1, <2>2, <2>5 DEF setTotalDeposit, setTotalDepositFor, Storage
  <2>6. ASSUME NEW id \in ChannelIds, NEW p \in Participants, NEW q \in Participants,
               NEW total \in Totals, NEW until \in Times,
               setTotalWithdraw(id, p, q, total, until)
        PROVE  Frozen
    BY <1>1, <2>2, <2>6 DEF setTotalWithdraw, Storage
  <2>7. ASSUME NEW id \in ChannelIds, NEW p \in Participants, NEW q \in Participants,
               NEW nonce \in 0 .. MaxNonce, NEW hash \in BalanceHash,
               closeChannel(id, p, q, nonce, hash)
        PROVE  Frozen
    BY <1>1, <2>2, <2>7 DEF closeChannel, Storage
  <2>8. ASSUME NEW id \in ChannelIds, NEW p \in Participants, NEW q \in Participants,
               NEW nonce \in 0 .. MaxNonce, NEW hash \in BalanceHash,
               updateNonClosingBalanceProof(id, p, q, nonce, hash)
        PROVE  Frozen
    <3> DEFINE new == [parts[id][p] EXCEPT !.nonce = nonce, !.balance_hash = hash]
    <3>1. parts' = [parts EXCEPT ![id] = [parts[id] EXCEPT ![p] = new]]
      BY <2>8 DEF updateNonClosingBalanceProof, updateBalanceProofData
    <3>2. parts[id] \in [Participants -> Participant] /\ parts[id][p] \in Participant
      BY <1>1 DEF Storage
    <3>3. /\ new.nonce = nonce /\ new.deposit = parts[id][p].deposit
          /\ new.withdrawn_amount = parts[id][p].withdrawn_amount
      BY <3>2 DEF Participant
    <3>4. nonce > parts[id][p].nonce /\ parts[id][p].is_the_closer
      BY <2>8 DEF updateNonClosingBalanceProof
    <3> HIDE DEF new
    <3>5. /\ \A i \in ChannelIds : i # id => parts'[i] = parts[i]
          /\ \A r \in Participants : r # p => parts'[id][r] = parts[id][r]
          /\ parts'[id][p] = new
      BY <1>1, <3>1, <3>2 DEF Storage
    <3>6. QED
      BY <3>3, <3>4, <3>5
  <2>9. QED
    <3>1. CASE Tick \/ deprecate \/ removeLimits \/ \E h \in SecretHashes : registerSecret(h)
      BY <3>1, <2>1 DEF Tick, deprecate, removeLimits, registerSecret, chanVars
    <3>2. CASE \E p, q \in Participants : openChannel(p, q)
      BY <3>2, <2>1 DEF openChannel
    <3>3. ASSUME NEW id \in ChannelIds, NEW p \in Participants, NEW q \in Participants
          PROVE  /\ \A total1, total2 \in Totals, until1, until2 \in Times :
                      cooperativeSettle(id, p, total1, until1, q, total2, until2) => Frozen
                 /\ \A s1, s2 \in SettleInputs : settleChannel(id, p, s1, q, s2) => Frozen
      BY <2>4 DEF cooperativeSettle, settleChannel
    <3>4. ASSUME NEW id \in ChannelIds, NEW p \in Participants, NEW q \in Participants
          PROVE  \A locks \in LockLists : unlock(id, p, q, locks) => Frozen
      BY <2>1 DEF unlock, chanVars
    <3> HIDE DEF Frozen
    <3>5. QED
      BY <1>1, <2>3, <2>5, <2>6, <2>7, <2>8, <3>1, <3>2, <3>3, <3>4
      DEF Next, Settle, Unlock
<1>2. IInv /\ [Next]_vars => [Frozen]_vars
  BY <1>1
<1>3. QED
  BY <1>2, InvariantHolds, PTL DEF Spec, ClosedChannelFrozen
=============================================================================
