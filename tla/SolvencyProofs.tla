--------------------------- MODULE SolvencyProofs ---------------------------
(***************************************************************************)
(* TokenNetwork is solvent: what the contract holds is the sum of what its *)
(* channels are owed.  Every action changes the claim of one channel, and  *)
(* the reserve by as much (OneClaim); the rest is what each action does to *)
(* the claim of its channel.                                               *)
(***************************************************************************)
EXTENDS TokenNetworkProofs, SumProofs

(* What a participant still has in a channel, by its deposit.              *)
Left(s) == s.deposit - s.withdrawn_amount

(* ... and all of them; and what a settled channel has left to unlock.     *)
Lefts(storage) == [p \in Participants |-> Left(storage[p])]

Pairs == Participants \X Participants

Locked(data, id) == [k \in Pairs |-> data[<<id, k[1], k[2]>>].locked_amount]

ClaimOf(storage, data, id) == SumFunction(Lefts(storage)) + SumFunction(Locked(data, id))

(* There are finitely many participants, and pairs of them.                *)
LEMMA FiniteParticipants == IsFiniteSet(Participants) /\ IsFiniteSet(Pairs)
BY TokenNetworkAssumption, FS_Product DEF Pairs

(* The claim on a channel is an integer.                                   *)
LEMMA ClaimTypes ==
  ASSUME NEW storage \in [Participants -> Participant],
         NEW data \in [UnlockKeys -> UnlockData], NEW id \in ChannelIds
  PROVE  /\ Lefts(storage) \in [Participants -> Int]
         /\ Locked(data, id) \in [Pairs -> Int]
         /\ SumFunction(Lefts(storage)) \in Int
         /\ SumFunction(Locked(data, id)) \in Int
<1>1. Lefts(storage) \in [Participants -> Int]
  BY DEF Lefts, Left, Participant
<1>2. \A k \in Pairs : <<id, k[1], k[2]>> \in UnlockKeys
  BY DEF Pairs, UnlockKeys
<1>3. Locked(data, id) \in [Pairs -> Int]
  BY <1>2 DEF Locked, UnlockData
<1> QED BY <1>1, <1>3, SumType, FiniteParticipants

(* ... and so is their sum.                                                *)
LEMMA ClaimOfType ==
  ASSUME NEW storage \in [Participants -> Participant],
         NEW data \in [UnlockKeys -> UnlockData], NEW id \in ChannelIds
  PROVE  ClaimOf(storage, data, id) \in Int
BY ClaimTypes DEF ClaimOf

(* Only what is left of the deposits and what is locked counts.            *)
LEMMA SameClaim ==
  ASSUME NEW storage, NEW storage2, NEW data, NEW data2, NEW id,
         \A p \in Participants : Left(storage[p]) = Left(storage2[p]),
         \A p, q \in Participants : data[<<id, p, q>>] = data2[<<id, p, q>>]
  PROVE  ClaimOf(storage, data, id) = ClaimOf(storage2, data2, id)
<1>1. Lefts(storage) = Lefts(storage2)
  BY DEF Lefts
<1>2. Locked(data, id) = Locked(data2, id)
  BY DEF Locked, Pairs
<1> QED BY <1>1, <1>2 DEF ClaimOf

(* One participant's storage changes.                                      *)
LEMMA ClaimDeposit ==
  ASSUME NEW storage \in [Participants -> Participant],
         NEW storage2 \in [Participants -> Participant],
         NEW data \in [UnlockKeys -> UnlockData], NEW id \in ChannelIds,
         NEW p \in Participants,
         \A r \in Participants \ {p} : Left(storage2[r]) = Left(storage[r])
  PROVE  ClaimOf(storage2, data, id)
           = ClaimOf(storage, data, id) + (Left(storage2[p]) - Left(storage[p]))
<1>1. SumFunction(Lefts(storage2))
        = SumFunction(Lefts(storage)) + (Lefts(storage2)[p] - Lefts(storage)[p])
  <2>1. \A r \in Participants \ {p} : Lefts(storage)[r] = Lefts(storage2)[r]
    BY DEF Lefts
  <2> QED BY <2>1, SumChange, FiniteParticipants, ClaimTypes
<1>2. Left(storage2[p]) \in Int /\ Left(storage[p]) \in Int
  BY DEF Left, Participant
<1> QED BY <1>1, <1>2, ClaimTypes DEF ClaimOf, Lefts

(* One amount to unlock changes.                                           *)
LEMMA ClaimLock ==
  ASSUME NEW storage \in [Participants -> Participant],
         NEW data \in [UnlockKeys -> UnlockData],
         NEW data2 \in [UnlockKeys -> UnlockData], NEW id \in ChannelIds,
         NEW p \in Participants, NEW q \in Participants,
         \A k \in UnlockKeys : k # <<id, p, q>> => data2[k] = data[k]
  PROVE  ClaimOf(storage, data2, id)
           = ClaimOf(storage, data, id)
             + (data2[<<id, p, q>>].locked_amount - data[<<id, p, q>>].locked_amount)
<1> DEFINE x == <<p, q>>
<1>1. x \in Pairs
  BY DEF Pairs
<1>2. \A y \in Pairs \ {x} : Locked(data, id)[y] = Locked(data2, id)[y]
  <2> SUFFICES ASSUME NEW y \in Pairs \ {x} PROVE Locked(data, id)[y] = Locked(data2, id)[y]
    OBVIOUS
  <2>1. <<id, y[1], y[2]>> \in UnlockKeys /\ <<id, y[1], y[2]>> # <<id, p, q>>
    BY DEF Pairs, UnlockKeys
  <2> QED BY <2>1 DEF Locked
<1>3. SumFunction(Locked(data2, id))
        = SumFunction(Locked(data, id)) + (Locked(data2, id)[x] - Locked(data, id)[x])
  <2> HIDE DEF x
  <2> QED BY <1>1, <1>2, SumChange, FiniteParticipants, ClaimTypes
<1>4. /\ Locked(data2, id)[x] = data2[<<id, p, q>>].locked_amount
      /\ Locked(data, id)[x] = data[<<id, p, q>>].locked_amount
  BY <1>1 DEF Locked
<1>5. Locked(data2, id)[x] \in Int /\ Locked(data, id)[x] \in Int
  BY <1>1, ClaimTypes
<1> QED BY <1>3, <1>4, <1>5, ClaimTypes DEF ClaimOf

(* A step that changes the claim of one channel by as much as the reserve. *)
LEMMA OneClaim ==
  ASSUME TypeOK, TypeOK', Solvency, NEW id \in ChannelIds,
         \A i \in ChannelIds, r \in Participants :
           i # id => Left(parts'[i][r]) = Left(parts[i][r]),
         \A i \in ChannelIds, x, y \in Participants :
           i # id => unlock_data'[<<i, x, y>>] = unlock_data[<<i, x, y>>],
         reserve' - reserve
           = ClaimOf(parts'[id], unlock_data', id) - ClaimOf(parts[id], unlock_data, id)
  PROVE  Solvency'
<1> DEFINE f == [i \in ChannelIds |-> ClaimOf(parts[i], unlock_data, i)]
           g == [i \in ChannelIds |-> ClaimOf(parts'[i], unlock_data', i)]
<1>1. ASSUME NEW i \in ChannelIds
      PROVE  /\ parts[i] \in [Participants -> Participant]
             /\ parts'[i] \in [Participants -> Participant]
  BY DEF TypeOK, Storage
<1>2. f \in [ChannelIds -> Int] /\ g \in [ChannelIds -> Int]
  <2>0. /\ unlock_data \in [UnlockKeys -> UnlockData]
        /\ unlock_data' \in [UnlockKeys -> UnlockData]
    BY DEF TypeOK
  <2>1. ASSUME NEW i \in ChannelIds PROVE ClaimOf(parts[i], unlock_data, i) \in Int
    BY <1>1, <2>0, ClaimOfType
  <2>2. ASSUME NEW i \in ChannelIds PROVE ClaimOf(parts'[i], unlock_data', i) \in Int
    BY <1>1, <2>0, ClaimOfType
  <2> QED BY <2>1, <2>2
<1>3. \A i \in ChannelIds \ {id} : f[i] = g[i]
  BY SameClaim
<1>4. IsFiniteSet(ChannelIds)
  BY Bounds, FS_Interval DEF ChannelIds
<1>5. SumFunction(g) = SumFunction(f) + (g[id] - f[id])
  <2> HIDE DEF f, g
  <2> QED BY <1>2, <1>3, <1>4, SumChange
<1>6. reserve = SumFunction(f)
  BY DEF Solvency, ChannelClaim, ClaimOf, Lefts, Left, Locked, Pairs
<1>7. reserve' = SumFunction(g)
  <2>1. SumFunction(f) \in Int /\ f[id] \in Int /\ g[id] \in Int
    <3> HIDE DEF f, g
    <3> QED BY <1>2, <1>4, SumType
  <2>2. reserve \in Int /\ reserve' \in Int
    BY DEF TypeOK
  <2>3. reserve' - reserve = g[id] - f[id]
    OBVIOUS
  <2> HIDE DEF f, g
  <2> QED BY <1>5, <1>6, <2>1, <2>2, <2>3
<1> QED BY <1>7 DEF Solvency, ChannelClaim, ClaimOf, Lefts, Left, Locked, Pairs

(* A step that touches neither tokens, storage nor unlock data.            *)
LEMMA SameReserve ==
  ASSUME Solvency, UNCHANGED <<reserve, parts, unlock_data>>
  PROVE  Solvency'
BY DEF Solvency, ChannelClaim

(* A deposit or a withdraw of p in channel id.                             *)
LEMMA AmountStep ==
  ASSUME TypeOK, TypeOK', Solvency, NEW id \in ChannelIds, NEW p \in Participants,
         UNCHANGED unlock_data,
         \A i \in ChannelIds, r \in Participants :
           i # id \/ r # p => parts'[i][r] = parts[i][r],
         reserve' - reserve = Left(parts'[id][p]) - Left(parts[id][p])
  PROVE  Solvency'
<1>1. /\ parts[id] \in [Participants -> Participant]
      /\ parts'[id] \in [Participants -> Participant]
      /\ unlock_data \in [UnlockKeys -> UnlockData]
  BY DEF TypeOK, Storage
<1>2. ClaimOf(parts'[id], unlock_data, id)
        = ClaimOf(parts[id], unlock_data, id) + (Left(parts'[id][p]) - Left(parts[id][p]))
  BY <1>1, ClaimDeposit
<1>3. /\ ClaimOf(parts[id], unlock_data, id) \in Int
      /\ Left(parts'[id][p]) \in Int /\ Left(parts[id][p]) \in Int
  BY <1>1, ClaimOfType DEF Left, Participant
<1>4. reserve' - reserve
        = ClaimOf(parts'[id], unlock_data', id) - ClaimOf(parts[id], unlock_data, id)
  BY <1>2, <1>3
<1> QED BY <1>4, OneClaim

(* A balance proof is stored in channel id.                                *)
LEMMA ProofKeepsClaim ==
  ASSUME TypeOK, TypeOK', Solvency, NEW id \in ChannelIds, UNCHANGED <<reserve, unlock_data>>,
         \A i \in ChannelIds : i # id => parts'[i] = parts[i],
         \A r \in Participants : SameAmounts(parts[id][r], parts'[id][r])
  PROVE  Solvency'
<1>1. \A r \in Participants : Left(parts[id][r]) = Left(parts'[id][r])
  BY DEF SameAmounts, Left
<1>2. ClaimOf(parts'[id], unlock_data', id) = ClaimOf(parts[id], unlock_data, id)
  BY <1>1, SameClaim
<1>3. ClaimOf(parts[id], unlock_data, id) \in Int /\ reserve \in Int
  BY ClaimOfType DEF TypeOK, Storage
<1>4. reserve' - reserve
        = ClaimOf(parts'[id], unlock_data', id) - ClaimOf(parts[id], unlock_data, id)
  BY <1>2, <1>3
<1> QED BY <1>4, OneClaim

(* Removing a channel gives up what is left of the deposits.               *)
LEMMA RemovedClaim ==
  ASSUME TypeOK, TypeOK', NEW id \in ChannelIds, NEW p \in Participants, NEW q \in Participants,
         p # q, removeChannelData(id, p, q)
  PROVE  /\ ClaimOf(parts'[id], unlock_data, id)
               = ClaimOf(parts[id], unlock_data, id)
                 - (Left(parts[id][p]) + Left(parts[id][q]))
         /\ Left(parts[id][p]) \in Int /\ Left(parts[id][q]) \in Int
         /\ \A i \in ChannelIds : i # id => parts'[i] = parts[i]
<1> DEFINE mid == [parts[id] EXCEPT ![p] = NoParticipant]
<1>1. /\ parts[id] \in [Participants -> Participant]
      /\ parts'[id] \in [Participants -> Participant]
      /\ unlock_data \in [UnlockKeys -> UnlockData]
      /\ mid \in [Participants -> Participant]
  BY NoParticipantType DEF TypeOK, Storage
<1>2. /\ \A r \in Participants \ {p} : mid[r] = parts[id][r]
      /\ mid[p] = NoParticipant
  BY <1>1
<1>3. /\ \A r \in Participants \ {q} : parts'[id][r] = mid[r]
      /\ parts'[id][q] = NoParticipant
      /\ \A i \in ChannelIds : i # id => parts'[i] = parts[i]
  BY DEF removeChannelData, TypeOK, Storage
<1>4. Left(NoParticipant) = 0
  BY DEF Left, NoParticipant
<1>5. /\ Left(parts[id][p]) \in Int /\ Left(parts[id][q]) \in Int
      /\ ClaimOf(parts[id], unlock_data, id) \in Int
  BY <1>1, ClaimOfType DEF Left, Participant
<1> HIDE DEF mid
<1>6. ClaimOf(mid, unlock_data, id)
        = ClaimOf(parts[id], unlock_data, id) + (Left(mid[p]) - Left(parts[id][p]))
  BY <1>1, <1>2, ClaimDeposit
<1>7. ClaimOf(parts'[id], unlock_data, id)
        = ClaimOf(mid, unlock_data, id) + (Left(parts'[id][q]) - Left(mid[q]))
  BY <1>1, <1>3, ClaimDeposit
<1>8. Left(mid[q]) = Left(parts[id][q]) /\ Left(mid[p]) = 0 /\ Left(parts'[id][q]) = 0
  BY <1>2, <1>3, <1>4
<1> QED BY <1>3, <1>5, <1>6, <1>7, <1>8

(* data2 is data with locked tokens kept for p in its channel id with q.   *)
Keeps(storage, data, data2, id, p, q, locked) ==
  /\ data2 \in [UnlockKeys -> UnlockData]
  /\ ClaimOf(storage, data2, id) = ClaimOf(storage, data, id) + locked
  /\ \A k \in UnlockKeys : k # <<id, p, q>> => data2[k] = data[k]

(* Storing what is to be unlocked where nothing was stored.                *)
LEMMA StoredLock ==
  ASSUME NEW storage \in [Participants -> Participant],
         NEW data \in [UnlockKeys -> UnlockData], NEW id \in ChannelIds,
         NEW p \in Participants, NEW q \in Participants,
         NEW locksroot \in LockLists \cup {<<>>}, NEW locked \in Nat,
         data[<<id, p, q>>].locked_amount = 0
  PROVE  Keeps(storage, data, storeUnlockData(data, id, p, locksroot, locked, q),
               id, p, q, locked)
<1> DEFINE data2 == storeUnlockData(data, id, p, locksroot, locked, q)
<1>1. data2 \in [UnlockKeys -> UnlockData]
  BY UnlockDataUpdate
<1>2. \A k \in UnlockKeys : k # <<id, p, q>> => data2[k] = data[k]
  BY DEF storeUnlockData
<1>3. <<id, p, q>> \in UnlockKeys
  BY DEF UnlockKeys
<1>4. data2[<<id, p, q>>].locked_amount = locked
  BY <1>3 DEF storeUnlockData
<1>5. ClaimOf(storage, data, id) \in Int
  BY ClaimOfType
<1> HIDE DEF data2
<1>6. ClaimOf(storage, data2, id)
        = ClaimOf(storage, data, id)
          + (data2[<<id, p, q>>].locked_amount - data[<<id, p, q>>].locked_amount)
  BY <1>1, <1>2, ClaimLock
<1>7. ClaimOf(storage, data2, id) = ClaimOf(storage, data, id) + locked
  BY <1>4, <1>5, <1>6
<1> QED BY <1>1, <1>2, <1>7 DEF data2, Keeps

(* cooperativeSettle pays out exactly what is left of the deposits.        *)
LEMMA CooperativeSettleStep ==
  ASSUME IInv, TypeOK', Solvency, NEW id \in ChannelIds,
         NEW p \in Participants, NEW q \in Participants,
         NEW total1 \in Totals, NEW total2 \in Totals, NEW until1, NEW until2,
         cooperativeSettle(id, p, total1, until1, q, total2, until2)
  PROVE  Solvency'
<1> DEFINE s1 == parts[id][p]
           s2 == parts[id][q]
           paid1 == IF total1 > 0 THEN total1 - s1.withdrawn_amount ELSE 0
           paid2 == IF total2 > 0 THEN total2 - s2.withdrawn_amount ELSE 0
           s1after == IF total1 > 0 THEN [s1 EXCEPT !.withdrawn_amount = total1] ELSE s1
<1>0. TypeOK /\ IsChannelOf(id, p, q) /\ p # q
  BY DEF IInv, cooperativeSettle, IsChannelOf
<1>1. /\ removeChannelData(id, p, q) /\ unlock_data' = unlock_data
      /\ reserve' = reserve - (paid1 + paid2)
      /\ total1 + total2 = s1.deposit + s2.deposit
      /\ total1 > 0 => MayWithdraw(s1, s2, total1, until1)
      /\ total2 > 0 => MayWithdraw(s2, s1after, total2, until2)
  BY DEF cooperativeSettle
<1>2. s1 \in Participant /\ s2 \in Participant
  BY <1>0 DEF TypeOK, Storage
<1>3. s1.withdrawn_amount + s2.withdrawn_amount <= s1.deposit + s2.deposit
  BY <1>0 DEF IInv, DepositCoversWithdraws
<1>4. total1 \in Nat /\ total2 \in Nat /\ reserve \in Int
  BY <1>0, Bounds DEF Totals, TypeOK
<1>5. /\ s1.deposit \in Nat /\ s1.withdrawn_amount \in Nat
      /\ s2.deposit \in Nat /\ s2.withdrawn_amount \in Nat
  BY <1>2 DEF Participant
<1>6. s1after.withdrawn_amount = IF total1 > 0 THEN total1 ELSE s1.withdrawn_amount
  BY <1>2 DEF Participant
<1>7. total2 > 0 => total2 + s1after.withdrawn_amount <= s1.deposit + s2.deposit
  <2>1. s1after.deposit = s1.deposit
    BY <1>2 DEF Participant
  <2> HIDE DEF s1, s2, s1after
  <2> QED BY <1>1, <1>4, <1>5, <2>1 DEF MayWithdraw
<1>8. total1 > 0 => total1 + s2.withdrawn_amount <= s1.deposit + s2.deposit
  BY <1>1 DEF MayWithdraw
<1>9. paid1 + paid2 = Left(s1) + Left(s2)
  <2>1. total1 + total2 = s1.deposit + s2.deposit
    BY <1>1
  <2>2. CASE total1 > 0 /\ total2 > 0
    <3> HIDE DEF s1, s2, s1after
    <3> QED BY <2>1, <2>2, <1>4, <1>5 DEF Left
  <2>3. CASE total1 > 0 /\ total2 = 0
    <3>1. s2.withdrawn_amount = 0
      <4> HIDE DEF s1, s2, s1after
      <4> QED BY <2>1, <2>3, <1>4, <1>5, <1>8
    <3> HIDE DEF s1, s2, s1after
    <3> QED BY <3>1, <2>1, <2>3, <1>4, <1>5 DEF Left
  <2>4. CASE total1 = 0 /\ total2 > 0
    <3>1. s1.withdrawn_amount = 0
      <4> HIDE DEF s1, s2, s1after
      <4> QED BY <2>1, <2>4, <1>4, <1>5, <1>6, <1>7
    <3> HIDE DEF s1, s2, s1after
    <3> QED BY <3>1, <2>1, <2>4, <1>4, <1>5 DEF Left
  <2>5. CASE total1 = 0 /\ total2 = 0
    <3> HIDE DEF s1, s2, s1after
    <3> QED BY <2>1, <2>5, <1>3, <1>4, <1>5 DEF Left
  <2> QED BY <1>4, <2>2, <2>3, <2>4, <2>5
<1>10. /\ ClaimOf(parts'[id], unlock_data, id)
            = ClaimOf(parts[id], unlock_data, id) - (Left(s1) + Left(s2))
       /\ Left(s1) \in Int /\ Left(s2) \in Int
       /\ \A i \in ChannelIds : i # id => parts'[i] = parts[i]
  BY <1>0, <1>1, RemovedClaim
<1>11. ClaimOf(parts[id], unlock_data, id) \in Int
  BY <1>0, ClaimOfType DEF TypeOK, Storage
<1>12. reserve' - reserve
         = ClaimOf(parts'[id], unlock_data', id) - ClaimOf(parts[id], unlock_data, id)
  <2> HIDE DEF s1, s2, paid1, paid2
  <2> QED BY <1>1, <1>4, <1>9, <1>10, <1>11
<1> HIDE DEF s1, s2, paid1, paid2, s1after
<1> QED BY <1>0, <1>1, <1>10, <1>12, OneClaim

(* settleChannel pays out what is left of the deposits, or keeps it to be  *)
(* unlocked; nothing was kept for this channel before.                     *)
LEMMA SettleStep ==
  ASSUME IInv, TypeOK', Solvency, NEW id \in ChannelIds,
         NEW p \in Participants, NEW q \in Participants,
         NEW u1 \in SettleInputs, NEW u2 \in SettleInputs, settleChannel(id, p, u1, q, u2)
  PROVE  Solvency'
<1> DEFINE r == getSettleTransferAmounts(parts[id][p], u1.transferred, u1.locked,
                                         parts[id][q], u2.transferred, u2.locked)
           one == storeUnlockData(unlock_data, id, p, u1.locksroot, r.locked1, q)
           two == storeUnlockData(one, id, q, u2.locksroot, r.locked2, p)
           gone == parts'[id]
<1>0. /\ TypeOK /\ IsChannelOf(id, p, q) /\ p # q /\ state[id] = "Closed"
      /\ TransfersOrdered(u1, u2)
  BY DEF IInv, settleChannel, IsChannelOf
<1>1. /\ removeChannelData(id, p, q) /\ unlock_data' = two
      /\ reserve' = reserve - (r.amount1 + r.amount2)
  BY DEF settleChannel
<1>2. Splits(r, getChannelAvailableDeposit(parts[id][p], parts[id][q]))
  BY <1>0, SettleChannelAmounts
<1>3. /\ u1.locksroot \in LockLists \cup {<<>>} /\ u2.locksroot \in LockLists \cup {<<>>}
      /\ unlock_data \in [UnlockKeys -> UnlockData]
      /\ gone \in [Participants -> Participant] /\ parts[id] \in [Participants -> Participant]
      /\ reserve \in Int
  BY <1>0, SettleInputType DEF TypeOK, Storage
<1> HIDE DEF r
<1>4. r.locked1 \in Nat /\ r.locked2 \in Nat /\ r.amount1 \in Nat /\ r.amount2 \in Nat
  BY <1>2 DEF Splits
<1>5. ASSUME NEW x \in Participants, NEW y \in Participants
      PROVE  unlock_data[<<id, x, y>>].locked_amount = 0
  <2>1. unlock_data[<<id, x, y>>].locked_amount \in Nat
    BY <1>3 DEF UnlockKeys, UnlockData
  <2>2. ~ (unlock_data[<<id, x, y>>].locked_amount > 0)
    BY <1>0 DEF IInv, ChannelsConsistent, UnlockDataConsistent
  <2> QED BY <2>1, <2>2
<1> HIDE DEF gone
<1>6. Keeps(gone, unlock_data, one, id, p, q, r.locked1)
  <2>1. unlock_data[<<id, p, q>>].locked_amount = 0
    BY <1>5
  <2> QED BY <1>3, <1>4, <2>1, StoredLock
<1>7. one[<<id, q, p>>].locked_amount = 0
  <2>1. <<id, q, p>> \in UnlockKeys /\ <<id, q, p>> # <<id, p, q>>
    BY <1>0 DEF UnlockKeys
  <2> QED BY <1>5, <1>6, <2>1 DEF Keeps
<1> HIDE DEF one
<1>8. Keeps(gone, one, two, id, q, p, r.locked2)
  <2>1. one \in [UnlockKeys -> UnlockData]
    BY <1>6 DEF Keeps
  <2> QED BY <1>3, <1>4, <1>7, <2>1, StoredLock
<1>9. /\ ClaimOf(gone, unlock_data, id)
             = ClaimOf(parts[id], unlock_data, id)
               - (Left(parts[id][p]) + Left(parts[id][q]))
      /\ Left(parts[id][p]) \in Int /\ Left(parts[id][q]) \in Int
      /\ \A i \in ChannelIds : i # id => parts'[i] = parts[i]
  BY <1>0, <1>1, RemovedClaim DEF gone
<1>10. r.amount1 + r.amount2 + r.locked1 + r.locked2
         = Left(parts[id][p]) + Left(parts[id][q])
  <2>1. /\ parts[id][p].deposit \in Nat /\ parts[id][p].withdrawn_amount \in Nat
        /\ parts[id][q].deposit \in Nat /\ parts[id][q].withdrawn_amount \in Nat
    BY <1>3 DEF Participant
  <2> QED BY <1>2, <2>1 DEF Splits, getChannelAvailableDeposit, Left
<1>11. ClaimOf(parts[id], unlock_data, id) \in Int
  BY <1>3, ClaimOfType
<1>12. reserve' - reserve = ClaimOf(gone, two, id) - ClaimOf(parts[id], unlock_data, id)
  <2>1. /\ ClaimOf(gone, one, id) = ClaimOf(gone, unlock_data, id) + r.locked1
        /\ ClaimOf(gone, two, id) = ClaimOf(gone, one, id) + r.locked2
    BY <1>6, <1>8 DEF Keeps
  <2>2. reserve' = reserve - (r.amount1 + r.amount2) /\ reserve \in Int
    BY <1>1, <1>3
  <2> HIDE DEF two
  <2> QED BY <1>4, <1>9, <1>10, <1>11, <2>1, <2>2
<1>13. ASSUME NEW i \in ChannelIds, NEW x \in Participants, NEW y \in Participants, i # id
       PROVE  unlock_data'[<<i, x, y>>] = unlock_data[<<i, x, y>>]
  <2>1. /\ <<i, x, y>> \in UnlockKeys /\ <<i, x, y>> # <<id, p, q>>
        /\ <<i, x, y>> # <<id, q, p>>
    BY <1>13 DEF UnlockKeys
  <2> HIDE DEF two
  <2> QED BY <1>1, <1>6, <1>8, <2>1 DEF Keeps
<1> HIDE DEF two
<1> QED BY <1>0, <1>1, <1>9, <1>12, <1>13, OneClaim DEF gone

(* unlock pays out what was kept.                                          *)
LEMMA UnlockPaysClaim ==
  ASSUME IInv, TypeOK', Solvency, NEW id \in ChannelIds,
         NEW p \in Participants, NEW q \in Participants, NEW locks,
         unlock(id, p, q, locks)
  PROVE  Solvency'
<1> DEFINE key == <<id, q, p>>
<1>1. /\ unlock_data' = [unlock_data EXCEPT ![key] = NoUnlockData]
      /\ reserve' = reserve - unlock_data[key].locked_amount
      /\ parts' = parts
  BY DEF unlock, chanVars
<1>2. /\ TypeOK /\ key \in UnlockKeys /\ reserve \in Int
      /\ unlock_data \in [UnlockKeys -> UnlockData]
      /\ unlock_data' \in [UnlockKeys -> UnlockData]
      /\ parts[id] \in [Participants -> Participant]
  BY DEF IInv, TypeOK, Storage, UnlockKeys
<1>3. /\ \A k \in UnlockKeys : k # key => unlock_data'[k] = unlock_data[k]
      /\ unlock_data'[key].locked_amount = 0
  BY <1>1, <1>2 DEF NoUnlockData
<1>4. ClaimOf(parts[id], unlock_data', id)
        = ClaimOf(parts[id], unlock_data, id)
          + (unlock_data'[key].locked_amount - unlock_data[key].locked_amount)
  BY <1>2, <1>3, ClaimLock
<1>5. ClaimOf(parts[id], unlock_data, id) \in Int /\ unlock_data[key].locked_amount \in Int
  <2>1. ClaimOf(parts[id], unlock_data, id) \in Int
    BY <1>2, ClaimOfType
  <2>2. unlock_data[key].locked_amount \in Nat
    BY <1>2 DEF UnlockData
  <2> QED BY <2>1, <2>2
<1>6. reserve' - reserve
        = ClaimOf(parts'[id], unlock_data', id) - ClaimOf(parts[id], unlock_data, id)
  <2> HIDE DEF key
  <2> QED BY <1>1, <1>2, <1>3, <1>4, <1>5
<1>7. ASSUME NEW i \in ChannelIds, NEW x \in Participants, NEW y \in Participants, i # id
      PROVE  unlock_data'[<<i, x, y>>] = unlock_data[<<i, x, y>>]
  <2>1. <<i, x, y>> \in UnlockKeys /\ <<i, x, y>> # key
    BY <1>7 DEF UnlockKeys
  <2> QED BY <1>3, <2>1
<1> QED BY <1>1, <1>2, <1>6, <1>7, OneClaim

(* Closing a channel moves no tokens.                                      *)
LEMMA CloseKeepsReserve ==
  ASSUME IInv, TypeOK', Solvency, NEW id \in ChannelIds,
         NEW p \in Participants, NEW q \in Participants,
         NEW nonce \in 0 .. MaxNonce, NEW hash \in BalanceHash,
         closeChannel(id, p, q, nonce, hash)
  PROVE  Solvency'
<1> DEFINE closed == [parts[id] EXCEPT ![p].is_the_closer = TRUE]
           new == IF nonce > 0 THEN updateBalanceProofData(closed, q, nonce, hash)
                               ELSE closed
<1>1. parts' = [parts EXCEPT ![id] = new] /\ UNCHANGED <<reserve, unlock_data>>
  BY DEF closeChannel, tokenVars
<1>2. TypeOK /\ parts[id] \in [Participants -> Participant]
  BY DEF IInv, TypeOK, Storage
<1>3. /\ closed \in [Participants -> Participant]
      /\ \A r \in Participants : SameAmounts(parts[id][r], closed[r])
  BY <1>2, CloserUpdate DEF SameAmounts, Participant
<1> HIDE DEF closed
<1>4. \A r \in Participants : SameAmounts(closed[r], new[r])
  <2>1. CASE nonce > 0
    BY <1>3, <2>1, Bounds, BalanceProofAmounts, SMTT(30)
  <2>2. CASE ~(nonce > 0)
    BY <2>2 DEF SameAmounts
  <2> QED BY <2>1, <2>2
<1> HIDE DEF new
<1>5. \A r \in Participants : SameAmounts(parts[id][r], new[r])
  BY <1>3, <1>4 DEF SameAmounts
<1>6. parts'[id] = new /\ \A i \in ChannelIds : i # id => parts'[i] = parts[i]
  BY <1>1, <1>2 DEF TypeOK, Storage
<1> QED BY <1>1, <1>2, <1>5, <1>6, ProofKeepsClaim

(* ... nor does updating the balance proof of the closing participant.     *)
LEMMA UpdateKeepsReserve ==
  ASSUME IInv, TypeOK', Solvency, NEW id \in ChannelIds,
         NEW p \in Participants, NEW q \in Participants,
         NEW nonce \in 0 .. MaxNonce, NEW hash \in BalanceHash,
         updateNonClosingBalanceProof(id, p, q, nonce, hash)
  PROVE  Solvency'
<1> DEFINE new == updateBalanceProofData(parts[id], p, nonce, hash)
<1>1. parts' = [parts EXCEPT ![id] = new] /\ UNCHANGED <<reserve, unlock_data>>
  BY DEF updateNonClosingBalanceProof, tokenVars
<1>2. TypeOK /\ parts[id] \in [Participants -> Participant]
  BY DEF IInv, TypeOK, Storage
<1>3. \A r \in Participants : SameAmounts(parts[id][r], new[r])
  BY <1>2, Bounds, BalanceProofAmounts, SMTT(30)
<1> HIDE DEF new
<1>4. parts'[id] = new /\ \A i \in ChannelIds : i # id => parts'[i] = parts[i]
  BY <1>1, <1>2 DEF TypeOK, Storage
<1> QED BY <1>1, <1>2, <1>3, <1>4, ProofKeepsClaim

(* A deposit brings in as many tokens as it adds to the channel.           *)
LEMMA DepositAddsToReserve ==
  ASSUME IInv, TypeOK', Solvency, NEW id \in ChannelIds, NEW p \in Participants,
         NEW total \in Totals, NEW sender \in Participants,
         setTotalDepositFor(id, p, total, sender), UNCHANGED unlock_data
  PROVE  Solvency'
<1>1. /\ parts' = [parts EXCEPT ![id][p].deposit = total]
      /\ reserve' = reserve + (total - parts[id][p].deposit)
  BY DEF setTotalDepositFor
<1>2. TypeOK /\ parts \in Storage /\ parts[id][p] \in Participant /\ reserve \in Int
  BY DEF IInv, TypeOK, Storage
<1>3. /\ \A i \in ChannelIds, r \in Participants :
           i # id \/ r # p => parts'[i][r] = parts[i][r]
      /\ parts'[id][p] = [parts[id][p] EXCEPT !.deposit = total]
  BY <1>1, <1>2 DEF Storage
<1>4. /\ parts'[id][p].deposit = total
      /\ parts'[id][p].withdrawn_amount = parts[id][p].withdrawn_amount
      /\ parts[id][p].deposit \in Nat /\ parts[id][p].withdrawn_amount \in Nat
      /\ total \in Nat
  BY <1>2, <1>3, Bounds DEF Participant, Totals
<1>5. reserve' - reserve = Left(parts'[id][p]) - Left(parts[id][p])
  BY <1>1, <1>2, <1>4 DEF Left
<1> QED BY <1>2, <1>3, <1>5, AmountStep

(* A withdraw pays out as many tokens as it takes from the channel.        *)
LEMMA WithdrawTakesFromReserve ==
  ASSUME IInv, TypeOK', Solvency, NEW id \in ChannelIds,
         NEW p \in Participants, NEW q \in Participants,
         NEW total \in Totals, NEW until \in Times, setTotalWithdraw(id, p, q, total, until)
  PROVE  Solvency'
<1>1. /\ parts' = [parts EXCEPT ![id][p].withdrawn_amount = total]
      /\ reserve' = reserve - (total - parts[id][p].withdrawn_amount)
      /\ UNCHANGED unlock_data
  BY DEF setTotalWithdraw
<1>2. TypeOK /\ parts \in Storage /\ parts[id][p] \in Participant /\ reserve \in Int
  BY DEF IInv, TypeOK, Storage
<1>3. /\ \A i \in ChannelIds, r \in Participants :
           i # id \/ r # p => parts'[i][r] = parts[i][r]
      /\ parts'[id][p] = [parts[id][p] EXCEPT !.withdrawn_amount = total]
  BY <1>1, <1>2 DEF Storage
<1>4. /\ parts'[id][p].withdrawn_amount = total
      /\ parts'[id][p].deposit = parts[id][p].deposit
      /\ parts[id][p].deposit \in Nat /\ parts[id][p].withdrawn_amount \in Nat
      /\ total \in Nat
  BY <1>2, <1>3, Bounds DEF Participant, Totals
<1>5. reserve' - reserve = Left(parts'[id][p]) - Left(parts[id][p])
  BY <1>1, <1>2, <1>4 DEF Left
<1> QED BY <1>1, <1>2, <1>3, <1>5, AmountStep

(* Every step keeps the reserve equal to what is owed.                     *)
LEMMA SolvencyStep ==
  ASSUME IInv, TypeOK', Solvency, Next
  PROVE  Solvency'
<1>1. CASE Tick
  BY <1>1, SameReserve DEF Tick, chanVars, tokenVars
<1>2. CASE deprecate
  BY <1>2, SameReserve DEF deprecate, chanVars, tokenVars
<1>3. CASE removeLimits
  BY <1>3, SameReserve DEF removeLimits, chanVars, tokenVars
<1>4. ASSUME NEW h \in SecretHashes, registerSecret(h)
      PROVE  Solvency'
  BY <1>4, SameReserve DEF registerSecret, chanVars, tokenVars
<1>5. ASSUME NEW p \in Participants, NEW q \in Participants, openChannel(p, q)
      PROVE  Solvency'
  BY <1>5, SameReserve DEF openChannel, tokenVars
<1>6. ASSUME NEW p \in Participants, NEW q \in Participants, NEW sender \in Participants,
             NEW total \in Totals, openChannelWithDeposit(p, q, total, sender)
      PROVE  Solvency'
  <2>1. channel_counter + 1 \in ChannelIds
    BY <1>6, Bounds DEF openChannelWithDeposit, MayOpen, ChannelIds, IInv, TypeOK
  <2>2. setTotalDepositFor(channel_counter + 1, p, total, sender) /\ UNCHANGED unlock_data
    BY <1>6 DEF openChannelWithDeposit
  <2> QED BY <2>1, <2>2, DepositAddsToReserve
<1>7. ASSUME NEW id \in ChannelIds, NEW p \in Participants, NEW q \in Participants,
             NEW sender \in Participants, NEW total \in Totals,
             setTotalDeposit(id, p, q, total, sender)
      PROVE  Solvency'
  BY <1>7, DepositAddsToReserve DEF setTotalDeposit
<1>8. QED
  BY <1>1, <1>2, <1>3, <1>4, <1>5, <1>6, <1>7, WithdrawTakesFromReserve,
     CooperativeSettleStep, CloseKeepsReserve, UpdateKeepsReserve, SettleStep,
     UnlockPaysClaim
  DEF Next, Settle, Unlock

(* At first nothing is owed and nothing is held.                           *)
LEMMA SolventInitially == Init => Solvency
<1> SUFFICES ASSUME Init PROVE Solvency
  OBVIOUS
<1>1. ASSUME NEW id \in ChannelIds PROVE ChannelClaim(id) = 0
  <2>1. /\ Lefts(parts[id]) \in [Participants -> Int]
        /\ \A p \in Participants : Lefts(parts[id])[p] = 0
    BY DEF Init, Lefts, Left, NoParticipant
  <2>2. \A k \in Pairs : <<id, k[1], k[2]>> \in UnlockKeys
    BY DEF Pairs, UnlockKeys
  <2>3. /\ Locked(unlock_data, id) \in [Pairs -> Int]
        /\ \A k \in Pairs : Locked(unlock_data, id)[k] = 0
    BY <2>2 DEF Init, Locked, NoUnlockData
  <2>4. SumFunction(Lefts(parts[id])) = 0 /\ SumFunction(Locked(unlock_data, id)) = 0
    BY <2>1, <2>3, FiniteParticipants, SumZero
  <2> QED BY <2>4 DEF ChannelClaim, Lefts, Left, Locked, Pairs
<1> DEFINE claims == [id \in ChannelIds |-> ChannelClaim(id)]
<1>2. claims \in [ChannelIds -> Int] /\ \A id \in ChannelIds : claims[id] = 0
  BY <1>1
<1>3. IsFiniteSet(ChannelIds)
  BY Bounds, FS_Interval DEF ChannelIds
<1> HIDE DEF claims
<1>4. SumFunction(claims) = 0
  BY <1>2, <1>3, SumZero
<1> QED BY <1>4 DEF claims, Solvency, Init

(* The contract always holds exactly the tokens that its channels and      *)
(* their unsettled locks are owed, for every number of participants and    *)
(* channels.                                                               *)
THEOREM ContractStaysSolvent == Spec => []Solvency
<1>1. IInv /\ Solvency /\ [Next]_vars => (IInv /\ Solvency)'
  <2>1. ASSUME IInv, Solvency, Next PROVE IInv' /\ Solvency'
    BY <2>1, TypeStep, ConsistencyStep, SolvencyStep DEF IInv
  <2>2. ASSUME IInv, Solvency, UNCHANGED vars PROVE IInv' /\ Solvency'
    BY <2>2, StutterStep, SameReserve DEF vars, chanVars, tokenVars
  <2> QED BY <2>1, <2>2
<1> QED BY <1>1, InitInvariant, SolventInitially, PTL DEF Spec
=============================================================================
