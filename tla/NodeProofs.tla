----------------------------- MODULE NodeProofs -----------------------------
(***************************************************************************)
(* Proofs about Node, for every number of transfers and crashes, every     *)
(* size of batches and every distance of snapshots.                        *)
(***************************************************************************)
EXTENDS Node, SumProofs

(* kept is the list of prefixes that Only builds.                          *)
Keeps(kept, queue, messages) ==
  kept = [k \in 0 .. Len(queue) |->
            IF k = 0 THEN <<>>
            ELSE IF queue[k] \in messages THEN Append(kept[k - 1], queue[k])
            ELSE kept[k - 1]]

(* The recursion of Only has a solution.                                   *)
LEMMA KeepsExists ==
  ASSUME NEW X, NEW queue \in Seq(X), NEW messages
  PROVE  \E kept : Keeps(kept, queue, messages)
<1> DEFINE Step(h, k) == IF k = 0 THEN <<>>
                         ELSE IF queue[k] \in messages THEN Append(h[k - 1], queue[k])
                         ELSE h[k - 1]
           Good(h, n) == \A k \in 0 .. n : h[k] = Step(h, k)
           T == {n \in Nat : \E h : Good(h, n)}
<1>1. 0 \in T
  <2> DEFINE h == [k \in 0 .. 0 |-> <<>>]
  <2>1. Good(h, 0)
    OBVIOUS
  <2> QED BY Zenon, <2>1
<1>2. ASSUME NEW n \in Nat, n \in T PROVE n + 1 \in T
  <2>1. PICK h : Good(h, n) BY <1>2
  <2> DEFINE g == [k \in 0 .. n + 1 |-> Step(h, k)]
  <2>2. ASSUME NEW k \in 0 .. n + 1 PROVE g[k] = Step(g, k)
    <3>1. CASE k = 0 BY <3>1
    <3>2. CASE k # 0
      <4>1. k - 1 \in 0 .. n /\ k - 1 \in 0 .. n + 1 BY <3>2
      <4>2. h[k - 1] = Step(h, k - 1) /\ g[k - 1] = Step(h, k - 1) BY <2>1, <4>1
      <4>3. g[k] = Step(h, k) OBVIOUS
      <4>4. g[k - 1] = h[k - 1] BY <4>2
      <4> HIDE DEF g
      <4> QED BY <3>2, <4>3, <4>4
    <3> QED BY <3>1, <3>2
  <2>3. Good(g, n + 1)
    <3> HIDE DEF g, Step
    <3> QED BY <2>2
  <2> HIDE DEF Good, g
  <2> QED BY <2>3
<1>3. Len(queue) \in Nat
  OBVIOUS
<1>4. Len(queue) \in T
  <2> HIDE DEF T
  <2> QED BY <1>1, <1>2, <1>3, SetInduction
<1>5. PICK h : Good(h, Len(queue))
  BY <1>4
<1> DEFINE kept == [k \in 0 .. Len(queue) |-> h[k]]
<1>6. ASSUME NEW k \in 0 .. Len(queue) PROVE kept[k] = Step(kept, k)
  <2>1. kept[k] = h[k] /\ h[k] = Step(h, k) BY <1>5
  <2>2. k # 0 => k - 1 \in 0 .. Len(queue) /\ kept[k - 1] = h[k - 1] BY <1>3
  <2> HIDE DEF kept
  <2> QED BY <2>1, <2>2
<1>7. Keeps(kept, queue, messages)
  BY <1>6 DEF Keeps
<1> QED BY <1>7

(* Only keeps messages of the queue, and only those asked for.             *)
LEMMA OnlyKeeps ==
  ASSUME NEW X, NEW queue \in Seq(X), NEW messages
  PROVE  /\ Only(queue, messages) \in Seq(X)
         /\ Range(Only(queue, messages)) \subseteq Range(queue) \cap messages
<1> DEFINE kept == CHOOSE h : Keeps(h, queue, messages)
           Y == Range(queue) \cap messages
<1>1. Keeps(kept, queue, messages)
  BY KeepsExists
<1>2. Only(queue, messages) = kept[Len(queue)]
  BY DEF Only, Keeps
<1> DEFINE T == {k \in Nat : k <= Len(queue) => kept[k] \in Seq(Y)}
<1> HIDE DEF kept
<1>3. Len(queue) \in Nat /\ \A k \in 1 .. Len(queue) : queue[k] \in Range(queue)
  BY DEF Range
<1>4. 0 \in T
  <2>1. kept[0] = <<>> BY <1>1, <1>3 DEF Keeps
  <2>2. <<>> \in Seq(Y) OBVIOUS
  <2> HIDE DEF Y
  <2> QED BY Zenon, <2>1, <2>2
<1>5. ASSUME NEW k \in Nat, k \in T PROVE k + 1 \in T
  <2>1. SUFFICES ASSUME k + 1 <= Len(queue) PROVE kept[k + 1] \in Seq(Y)
    OBVIOUS
  <2>2. kept[k] \in Seq(Y) BY <1>3, <1>5, <2>1
  <2>3. k + 1 \in 0 .. Len(queue) /\ k + 1 \in 1 .. Len(queue) /\ k + 1 # 0 /\ (k + 1) - 1 = k BY <1>3, <2>1
  <2>4. kept[k + 1] = IF queue[k + 1] \in messages THEN Append(kept[k], queue[k + 1]) ELSE kept[k]
    BY Zenon, <1>1, <2>3 DEF Keeps
  <2>5. queue[k + 1] \in messages => queue[k + 1] \in Y
    BY <1>3, <2>3
  <2> HIDE DEF Y
  <2> QED BY <2>2, <2>4, <2>5
<1>6. Len(queue) \in T
  <2> HIDE DEF T
  <2> QED BY <1>3, <1>4, <1>5, SetInduction
<1>7. kept[Len(queue)] \in Seq(Y) BY <1>3, <1>6
<1>8. Range(queue) \subseteq X BY DEF Range
<1>9. \A s \in Seq(Y) : s \in Seq(X) /\ Range(s) \subseteq Y
  BY <1>8 DEF Range
<1> HIDE DEF Y, T
<1>10. Only(queue, messages) \in Seq(X) /\ Range(Only(queue, messages)) \subseteq Y
  BY <1>2, <1>7, <1>9
<1> QED BY <1>10 DEF Y

-----------------------------------------------------------------------------
(* The state machine                                                       *)

Messages == [type : {"LockedTransfer", "Processed", "Delivered"}, id : Nat, from : Nodes]

States == [sent : Nat, received : Nat, closed : BOOLEAN,
           ordered : Seq(Messages), unordered : Seq(Messages)]

(* The messages node n may send when its state is S.                       *)
SaidBy(n, S) ==
  {m \in Messages : /\ m.from = n
                    /\ m.type = "LockedTransfer" => m.id <= S.sent
                    /\ m.type = "Processed" => m.id <= S.received}

WellFormed(n, S) ==
  /\ S \in States
  /\ Range(S.ordered) \subseteq SaidBy(n, S)
  /\ Range(S.unordered) \subseteq SaidBy(n, S)

Grows(S, T) == S.sent <= T.sent /\ S.received <= T.received

(* What the state machine may do to a state, and the events it may cause.  *)
Transition(n, S, T, events) ==
  /\ WellFormed(n, T) /\ Grows(S, T)
  /\ events \in Seq(Messages) /\ Range(events) \subseteq SaidBy(n, T)

(* What a node may say it may still say when its state has grown.          *)
LEMMA SaidGrows ==
  ASSUME NEW n, NEW S \in States, NEW T \in States, Grows(S, T)
  PROVE  SaidBy(n, S) \subseteq SaidBy(n, T)
BY DEF SaidBy, Grows, States, Messages

(* The elements of two lists put together.                                 *)
LEMMA RangeConcat ==
  ASSUME NEW X, NEW s \in Seq(X), NEW t \in Seq(X)
  PROVE  s \o t \in Seq(X) /\ Range(s \o t) = Range(s) \cup Range(t)
<1>1. s \o t \in Seq(X) /\ Len(s \o t) = Len(s) + Len(t) /\ Len(s) \in Nat /\ Len(t) \in Nat
  OBVIOUS
<1>2. \A i \in 1 .. Len(s) + Len(t) : (s \o t)[i] = IF i <= Len(s) THEN s[i] ELSE t[i - Len(s)]
  OBVIOUS
<1>3. DOMAIN s = 1 .. Len(s) /\ DOMAIN t = 1 .. Len(t) /\ DOMAIN (s \o t) = 1 .. Len(s) + Len(t)
  BY <1>1
<1>4. ASSUME NEW x \in Range(s \o t) PROVE x \in Range(s) \cup Range(t)
  BY <1>1, <1>2, <1>3 DEF Range
<1>5. ASSUME NEW x \in Range(s) PROVE x \in Range(s \o t)
  <2>1. PICK i \in 1 .. Len(s) : x = s[i] BY <1>3 DEF Range
  <2>2. i \in 1 .. Len(s) + Len(t) /\ (s \o t)[i] = x BY <1>1, <1>2, <2>1
  <2> QED BY <1>3, <2>2 DEF Range
<1>6. ASSUME NEW x \in Range(t) PROVE x \in Range(s \o t)
  <2>1. PICK i \in 1 .. Len(t) : x = t[i] BY <1>3 DEF Range
  <2>2. i + Len(s) \in 1 .. Len(s) + Len(t) /\ (s \o t)[i + Len(s)] = x BY <1>1, <1>2, <2>1
  <2> QED BY <1>3, <2>2 DEF Range
<1> QED BY <1>1, <1>4, <1>5, <1>6

(* Deleting messages from the queues changes nothing else.                 *)
LEMMA Deletes ==
  ASSUME NEW n \in Nodes, NEW S, WellFormed(n, S), NEW id
  PROVE  /\ inplace_delete_message(S.ordered, id) \in Seq(Messages)
         /\ inplace_delete_message(S.unordered, id) \in Seq(Messages)
         /\ Range(inplace_delete_message(S.ordered, id)) \subseteq SaidBy(n, S)
         /\ Range(inplace_delete_message(S.unordered, id)) \subseteq SaidBy(n, S)
<1>1. S.ordered \in Seq(Messages) /\ S.unordered \in Seq(Messages)
  BY DEF WellFormed, States
<1> QED BY <1>1, OnlyKeeps DEF inplace_delete_message, WellFormed

(* A state change of any kind keeps a state well formed, takes nothing     *)
(* back, and its events are messages the new state stands for.             *)
LEMMA HandleOK ==
  ASSUME NEW n \in Nodes, NEW S, WellFormed(n, S), NEW change
  PROVE  LET iteration == handle_state_change(n, S, change)
         IN  Transition(n, S, iteration.state, iteration.events)
<1> DEFINE it == handle_state_change(n, S, change)
<1>1. /\ S \in States /\ S.sent \in Nat /\ S.received \in Nat
      /\ Range(S.ordered) \subseteq SaidBy(n, S) /\ Range(S.unordered) \subseteq SaidBy(n, S)
  BY DEF WellFormed, States
<1>2. ASSUME it.state = S, it.events = <<>> PROVE Transition(n, S, it.state, it.events)
  BY <1>1, <1>2 DEF Transition, Grows, Range
<1>3. ASSUME NEW T, it.state = T, it.events = <<>>, T \in States,
             T.sent = S.sent, T.received = S.received,
             Range(T.ordered) \subseteq SaidBy(n, S), Range(T.unordered) \subseteq SaidBy(n, S)
      PROVE  Transition(n, S, it.state, it.events)
  <2>1. SaidBy(n, T) = SaidBy(n, S) BY <1>3 DEF SaidBy
  <2>2. Range(<<>>) = {} BY DEF Range
  <2>3. WellFormed(n, T) /\ Grows(S, T) BY <1>1, <1>3, <2>1 DEF WellFormed, Grows
  <2> QED BY <1>3, <2>2, <2>3 DEF Transition
<1>4. ASSUME NEW T \in States, NEW m \in SaidBy(n, T), it.state = T, it.events = <<m>>,
             Grows(S, T), T.ordered = S.ordered, T.unordered = S.unordered
      PROVE  Transition(n, S, it.state, it.events)
  <2>1. SaidBy(n, S) \subseteq SaidBy(n, T) BY <1>1, <1>4, SaidGrows
  <2>2. Range(<<m>>) = {m} BY DEF Range
  <2>3. WellFormed(n, T) BY <1>1, <1>4, <2>1 DEF WellFormed
  <2>4. <<m>> \in Seq(Messages) BY DEF SaidBy
  <2> QED BY <1>4, <2>2, <2>3, <2>4 DEF Transition
<1>5. CASE change.type = "ActionInitInitiator" /\ ~ S.closed
  <2> DEFINE T == [S EXCEPT !.sent = @ + 1]
             m == Message("LockedTransfer", S.sent + 1, n)
  <2>1. it = [state |-> T, events |-> <<m>>] BY <1>5 DEF handle_state_change
  <2>2. T \in States /\ T.sent = S.sent + 1 /\ T.received = S.received
        /\ T.ordered = S.ordered /\ T.unordered = S.unordered BY <1>1 DEF States
  <2>3. Grows(S, T) BY <1>1, <2>2 DEF Grows
  <2> HIDE DEF T
  <2>4. m \in SaidBy(n, T) BY <1>1, <2>2 DEF SaidBy, Message, Messages
  <2> HIDE DEF it, m
  <2> QED BY <1>4, <2>1, <2>2, <2>3, <2>4 DEF it
<1>6. CASE change.type = "LockedTransfer" /\ ~ S.closed /\ change.id = S.received + 1
  <2> DEFINE T == [S EXCEPT !.received = @ + 1]
             m == Message("Processed", change.id, n)
  <2>1. it = [state |-> T, events |-> <<m>>] BY <1>6 DEF handle_state_change
  <2>2. T \in States /\ T.sent = S.sent /\ T.received = S.received + 1
        /\ T.ordered = S.ordered /\ T.unordered = S.unordered BY <1>1 DEF States
  <2>3. Grows(S, T) BY <1>1, <2>2 DEF Grows
  <2> HIDE DEF T
  <2>4. m \in SaidBy(n, T) BY <1>1, <1>6, <2>2 DEF SaidBy, Message, Messages
  <2> HIDE DEF it, m
  <2> QED BY <1>4, <2>1, <2>2, <2>3, <2>4 DEF it
<1>7. CASE change.type = "Processed"
  <2> DEFINE o == inplace_delete_message(S.ordered, change.id)
             u == inplace_delete_message(S.unordered, change.id)
             T == [S EXCEPT !.ordered = o, !.unordered = u]
  <2>1. it = [state |-> T, events |-> <<>>] BY <1>7 DEF handle_state_change
  <2>2. /\ o \in Seq(Messages) /\ u \in Seq(Messages)
        /\ Range(o) \subseteq SaidBy(n, S) /\ Range(u) \subseteq SaidBy(n, S) BY Deletes
  <2> HIDE DEF o, u
  <2>3. T \in States /\ T.sent = S.sent /\ T.received = S.received /\ T.ordered = o /\ T.unordered = u
    BY Zenon, <1>1, <2>2 DEF States
  <2> HIDE DEF T, it
  <2> QED BY <1>3, <2>1, <2>2, <2>3 DEF it
<1>8. CASE change.type = "Delivered"
  <2> DEFINE u == inplace_delete_message(S.unordered, change.id)
             T == [S EXCEPT !.unordered = u]
  <2>1. it = [state |-> T, events |-> <<>>] BY <1>8 DEF handle_state_change
  <2>2. u \in Seq(Messages) /\ Range(u) \subseteq SaidBy(n, S) BY Zenon, Deletes
  <2> HIDE DEF u
  <2>3. T \in States /\ T.sent = S.sent /\ T.received = S.received
        /\ T.ordered = S.ordered /\ T.unordered = u
    BY <1>1, <2>2 DEF States
  <2> HIDE DEF T, it
  <2> QED BY <1>1, <1>3, <2>1, <2>2, <2>3 DEF it
<1>9. CASE change.type = "ContractReceiveChannelClosed"
  <2> DEFINE T == [S EXCEPT !.closed = TRUE, !.ordered = <<>>]
  <2>1. it = [state |-> T, events |-> <<>>] BY <1>9 DEF handle_state_change
  <2>2. <<>> \in Seq(Messages) OBVIOUS
  <2>3. T \in States /\ T.sent = S.sent /\ T.received = S.received
        /\ T.ordered = <<>> /\ T.unordered = S.unordered
    <3> DEFINE none == <<>>
               R == [S EXCEPT !.closed = TRUE, !.ordered = none]
    <3> HIDE DEF none
    <3>1. none \in Seq(Messages) BY <2>2 DEF none
    <3>2. R \in States /\ R.sent = S.sent /\ R.received = S.received
          /\ R.ordered = none /\ R.unordered = S.unordered
      BY Zenon, <1>1, <3>1 DEF States
    <3> QED BY <3>2 DEF none
  <2>4. Range(<<>>) = {} BY DEF Range
  <2> HIDE DEF T, it
  <2> QED BY <1>1, <1>3, <2>1, <2>3, <2>4 DEF it
<1>10. CASE /\ ~ (change.type = "ActionInitInitiator" /\ ~ S.closed)
            /\ ~ (change.type = "LockedTransfer" /\ ~ S.closed /\ change.id = S.received + 1)
            /\ change.type # "Processed" /\ change.type # "Delivered"
            /\ change.type # "ContractReceiveChannelClosed"
  <2>1. it = [state |-> S, events |-> <<>>] BY <1>10 DEF handle_state_change
  <2> HIDE DEF it
  <2> QED BY <1>2, <2>1 DEF it
<1> QED BY <1>5, <1>6, <1>7, <1>8, <1>9, <1>10

(* ... and so do the queues its events go to.                              *)
LEMMA TransitionOK ==
  ASSUME NEW n \in Nodes, NEW S, WellFormed(n, S), NEW change
  PROVE  LET iteration == state_transition(n, S, change)
         IN  Transition(n, S, iteration.state, iteration.events)
<1> DEFINE it == handle_state_change(n, S, change)
           s == it.state
           e == it.events
           transfers == {m \in Range(e) : IsTransfer(m)}
           o == Only(e, transfers)
           u == Only(e, Range(e) \ transfers)
           T == [s EXCEPT !.ordered = s.ordered \o o, !.unordered = s.unordered \o u]
<1>1. Transition(n, S, s, e)
  BY HandleOK
<1>2. state_transition(n, S, change) = [state |-> T, events |-> e]
  BY DEF state_transition, update_queues
<1> HIDE DEF it, s, e
<1>3. e \in Seq(Messages) /\ s \in States /\ Range(e) \subseteq SaidBy(n, s)
      /\ Range(s.ordered) \subseteq SaidBy(n, s) /\ Range(s.unordered) \subseteq SaidBy(n, s)
      /\ s.ordered \in Seq(Messages) /\ s.unordered \in Seq(Messages) /\ Grows(S, s)
  BY <1>1 DEF Transition, WellFormed, States
<1>4. o \in Seq(Messages) /\ u \in Seq(Messages)
      /\ Range(o) \subseteq Range(e) /\ Range(u) \subseteq Range(e)
  BY <1>3, OnlyKeeps
<1> HIDE DEF o, u
<1>5. /\ s.ordered \o o \in Seq(Messages) /\ Range(s.ordered \o o) = Range(s.ordered) \cup Range(o)
      /\ s.unordered \o u \in Seq(Messages) /\ Range(s.unordered \o u) = Range(s.unordered) \cup Range(u)
  BY <1>3, <1>4, RangeConcat
<1>6. T \in States /\ T.sent = s.sent /\ T.received = s.received
      /\ T.ordered = s.ordered \o o /\ T.unordered = s.unordered \o u
  BY Zenon, <1>3, <1>5 DEF States
<1> HIDE DEF T
<1>7. SaidBy(n, T) = SaidBy(n, s) BY <1>6 DEF SaidBy
<1>8. WellFormed(n, T) BY <1>3, <1>4, <1>5, <1>6, <1>7 DEF WellFormed
<1>9. Grows(S, T) BY <1>3, <1>6 DEF Grows
<1>10. Transition(n, S, T, e) BY <1>3, <1>7, <1>8, <1>9 DEF Transition
<1> QED BY <1>2, <1>10

-----------------------------------------------------------------------------
(* The write-ahead log                                                     *)

(* after is the list of states and events that dispatch goes through.      *)
After(after, n, S, changes) ==
  after = [k \in 0 .. Len(changes) |->
             IF k = 0 THEN [state |-> S, events |-> <<>>]
             ELSE LET iteration == state_transition(n, after[k - 1].state, changes[k])
                  IN  [state |-> iteration.state,
                       events |-> after[k - 1].events \o iteration.events]]

(* The recursion of dispatch has a solution.                               *)
LEMMA AfterExists ==
  ASSUME NEW n, NEW S, NEW X, NEW changes \in Seq(X)
  PROVE  \E after : After(after, n, S, changes)
<1> DEFINE Next1(r, k) ==
             LET iteration == state_transition(n, r.state, changes[k])
             IN  [state |-> iteration.state, events |-> r.events \o iteration.events]
           Step(h, k) == IF k = 0 THEN [state |-> S, events |-> <<>>] ELSE Next1(h[k - 1], k)
           Good(h, m) == \A k \in 0 .. m : h[k] = Step(h, k)
           T == {m \in Nat : \E h : Good(h, m)}
<1> HIDE DEF Next1
<1>1. 0 \in T
  <2> DEFINE h == [k \in 0 .. 0 |-> [state |-> S, events |-> <<>>]]
  <2>1. Good(h, 0)
    OBVIOUS
  <2> QED BY Zenon, <2>1
<1>2. ASSUME NEW m \in Nat, m \in T PROVE m + 1 \in T
  <2>1. PICK h : Good(h, m) BY <1>2
  <2> DEFINE g == [k \in 0 .. m + 1 |-> Step(h, k)]
  <2>2. ASSUME NEW k \in 0 .. m + 1 PROVE g[k] = Step(g, k)
    <3>1. CASE k = 0 BY <3>1
    <3>2. CASE k # 0
      <4>1. k - 1 \in 0 .. m /\ k - 1 \in 0 .. m + 1 BY <3>2
      <4>2. h[k - 1] = Step(h, k - 1) /\ g[k - 1] = Step(h, k - 1) BY <2>1, <4>1
      <4>3. g[k] = Step(h, k) OBVIOUS
      <4>4. g[k - 1] = h[k - 1] BY <4>2
      <4> HIDE DEF g
      <4> QED BY <3>2, <4>3, <4>4
    <3> QED BY <3>1, <3>2
  <2>3. Good(g, m + 1)
    <3> HIDE DEF g, Step
    <3> QED BY <2>2
  <2> HIDE DEF Good, g
  <2> QED BY <2>3
<1>3. Len(changes) \in Nat
  OBVIOUS
<1>4. Len(changes) \in T
  <2> HIDE DEF T
  <2> QED BY <1>1, <1>2, <1>3, SetInduction
<1>5. PICK h : Good(h, Len(changes))
  BY <1>4
<1> DEFINE after == [k \in 0 .. Len(changes) |-> h[k]]
<1>6. ASSUME NEW k \in 0 .. Len(changes) PROVE after[k] = Step(after, k)
  <2>1. after[k] = h[k] /\ h[k] = Step(h, k) BY ZenonT(20), <1>5
  <2>2. k # 0 => k - 1 \in 0 .. Len(changes) /\ after[k - 1] = h[k - 1] BY <1>3
  <2> HIDE DEF after
  <2> QED BY <2>1, <2>2
<1>7. After(after, n, S, changes)
  <2>1. after = [k \in 0 .. Len(changes) |-> Step(after, k)]
    <3> HIDE DEF Step
    <3> QED BY <1>6
  <2> HIDE DEF after
  <2> QED BY Zenon, <2>1 DEF After, Next1
<1> QED BY <1>7

(* dispatch ends where this list does.                                     *)
LEMMA DispatchIsAfter ==
  ASSUME NEW n, NEW S, NEW X, NEW changes \in Seq(X)
  PROVE  \E after : /\ After(after, n, S, changes)
                    /\ dispatch(n, S, changes) =
                         [open |-> TRUE, state |-> after[Len(changes)].state, changes |-> changes,
                          events |-> after[Len(changes)].events]
<1> DEFINE after == CHOOSE h : After(h, n, S, changes)
<1>1. After(after, n, S, changes)
  BY AfterExists
<1>2. dispatch(n, S, changes) =
        [open |-> TRUE, state |-> after[Len(changes)].state, changes |-> changes,
         events |-> after[Len(changes)].events]
  BY DEF dispatch, After
<1> QED BY Zenon, <1>1, <1>2

(* The first state, and each next one.                                     *)
RunsStep(after, n, changes, k) ==
  LET iteration == state_transition(n, after[k].state, changes[k + 1])
  IN  /\ after[k + 1].state = iteration.state
      /\ after[k + 1].events = after[k].events \o iteration.events

Runs(after, n, S, changes) ==
  /\ after[0].state = S /\ after[0].events = <<>>
  /\ \A k \in Nat : k + 1 <= Len(changes) => RunsStep(after, n, changes, k)

(* dispatch goes from state to state, one for each state change.           *)
LEMMA DispatchRuns ==
  ASSUME NEW n, NEW S, NEW X, NEW changes \in Seq(X)
  PROVE  \E after : /\ Runs(after, n, S, changes)
                    /\ dispatch(n, S, changes) =
                         [open |-> TRUE, state |-> after[Len(changes)].state, changes |-> changes,
                          events |-> after[Len(changes)].events]
<1>1. Len(changes) \in Nat OBVIOUS
<1>2. PICK after : /\ After(after, n, S, changes)
                   /\ dispatch(n, S, changes) =
                        [open |-> TRUE, state |-> after[Len(changes)].state, changes |-> changes,
                         events |-> after[Len(changes)].events]
  BY DispatchIsAfter
<1>3. after[0] = [state |-> S, events |-> <<>>] BY <1>1, <1>2 DEF After
<1>4. ASSUME NEW k \in Nat, k + 1 <= Len(changes)
      PROVE  RunsStep(after, n, changes, k)
  <2> DEFINE it == state_transition(n, after[k].state, changes[k + 1])
             l == k + 1
  <2>1. l \in 0 .. Len(changes) /\ l # 0 /\ l - 1 = k BY SMTT(30), <1>1, <1>4
  <2> HIDE DEF l
  <2>2. after[l] = LET iteration == state_transition(n, after[l - 1].state, changes[l])
                   IN  [state |-> iteration.state, events |-> after[l - 1].events \o iteration.events]
    BY ZenonT(40), <1>2, <2>1 DEF After
  <2> DEFINE ev == after[k].events \o it.events
  <2>3. after[l] = [state |-> it.state, events |-> ev]
    BY Zenon, <2>1, <2>2 DEF l
  <2> HIDE DEF it, ev
  <2>4. after[l].state = it.state /\ after[l].events = ev
    BY <2>3
  <2> QED BY <2>4 DEF l, it, ev, RunsStep
<1>5. Runs(after, n, S, changes)
  BY <1>3, <1>4 DEF Runs
<1> QED BY ZenonT(40), <1>2, <1>5

(* Applying two lists of state changes one after the other is applying     *)
(* their concatenation.                                                    *)
LEMMA DispatchConcat ==
  ASSUME NEW n, NEW S, NEW X, NEW a \in Seq(X), NEW b \in Seq(X)
  PROVE  dispatch(n, S, a \o b).state = dispatch(n, dispatch(n, S, a).state, b).state
<1>1. a \o b \in Seq(X) /\ Len(a \o b) = Len(a) + Len(b) /\ Len(a) \in Nat /\ Len(b) \in Nat
  OBVIOUS
<1>2. PICK f : Runs(f, n, S, a) /\ dispatch(n, S, a).state = f[Len(a)].state
  BY DispatchRuns
<1> DEFINE ab == a \o b
<1>3. PICK g : Runs(g, n, S, ab) /\ dispatch(n, S, ab).state = g[Len(ab)].state
  <2> ab \in Seq(X) BY <1>1
  <2> HIDE DEF ab
  <2> QED BY DispatchRuns
<1> DEFINE M == f[Len(a)].state
<1>4. PICK h : Runs(h, n, M, b) /\ dispatch(n, M, b).state = h[Len(b)].state
  <2> HIDE DEF M
  <2> QED BY DispatchRuns
<1> DEFINE P == {k \in Nat : k <= Len(a) => g[k].state = f[k].state}
<1>5. \A k \in Nat : k \in P
  <2>1. 0 \in P
    BY <1>1, <1>2, <1>3 DEF Runs, RunsStep
  <2>2. ASSUME NEW k \in Nat, k \in P PROVE k + 1 \in P
    <3>1. SUFFICES ASSUME k + 1 <= Len(a) PROVE g[k + 1].state = f[k + 1].state
      OBVIOUS
    <3>2. k <= Len(a) /\ k + 1 <= Len(a \o b) /\ (a \o b)[k + 1] = a[k + 1]
      BY <1>1, <3>1
    <3>3. f[k + 1].state = state_transition(n, f[k].state, a[k + 1]).state
      BY Zenon, <1>2, <3>1 DEF Runs, RunsStep
    <3>4. g[k + 1].state = state_transition(n, g[k].state, (a \o b)[k + 1]).state
      BY Zenon, <1>1, <1>3, <3>2 DEF Runs, RunsStep
    <3>5. g[k].state = f[k].state BY <2>2, <3>2
    <3> QED BY <3>2, <3>3, <3>4, <3>5
  <2> HIDE DEF P
  <2> QED BY <2>1, <2>2, SetInduction
<1>6. g[Len(a)].state = M
  BY <1>1, <1>5
<1> DEFINE Q == {k \in Nat : k <= Len(b) => g[Len(a) + k].state = h[k].state}
<1>7. \A k \in Nat : k \in Q
  <2>1. 0 \in Q
    <3>1. h[0].state = M
      <4> HIDE DEF M
      <4> QED BY <1>4 DEF Runs, RunsStep
    <3>2. Len(a) + 0 = Len(a) BY <1>1
    <3> HIDE DEF M
    <3> QED BY <1>6, <3>1, <3>2
  <2>2. ASSUME NEW k \in Nat, k \in Q PROVE k + 1 \in Q
    <3>1. SUFFICES ASSUME k + 1 <= Len(b) PROVE g[Len(a) + (k + 1)].state = h[k + 1].state
      OBVIOUS
    <3> DEFINE j == Len(a) + k
    <3>2. /\ k <= Len(b) /\ j \in Nat /\ j + 1 <= Len(a \o b) /\ Len(a) + (k + 1) = j + 1
          /\ (a \o b)[j + 1] = b[k + 1]
      BY <1>1, <3>1
    <3>3. h[k + 1].state = state_transition(n, h[k].state, b[k + 1]).state
      <4> HIDE DEF M
      <4> QED BY Zenon, <1>4, <3>1 DEF Runs, RunsStep
    <3>4. g[j + 1].state = state_transition(n, g[j].state, (a \o b)[j + 1]).state
      <4> HIDE DEF j
      <4> QED BY Zenon, <1>1, <1>3, <3>2 DEF Runs, RunsStep
    <3>5. g[j].state = h[k].state BY <2>2, <3>2
    <3> HIDE DEF j
    <3> QED BY <3>2, <3>3, <3>4, <3>5
  <2> HIDE DEF Q
  <2> QED BY <2>1, <2>2, SetInduction
<1>8. g[Len(a) + Len(b)].state = h[Len(b)].state
  <2>1. Len(b) \in Q BY <1>1, <1>7
  <2> QED BY <1>1, <2>1
<1> QED BY <1>1, <1>2, <1>3, <1>4, <1>8

(* A list of state changes keeps the state well formed, takes nothing      *)
(* back, and its events are messages the last state stands for.            *)
LEMMA DispatchOK ==
  ASSUME NEW n \in Nodes, NEW S, WellFormed(n, S), NEW X, NEW changes \in Seq(X)
  PROVE  LET t == dispatch(n, S, changes)
         IN  /\ t = [open |-> TRUE, state |-> t.state, changes |-> changes, events |-> t.events]
             /\ Transition(n, S, t.state, t.events)
<1> DEFINE t == dispatch(n, S, changes)
<1>1. PICK f : /\ Runs(f, n, S, changes)
               /\ t = [open |-> TRUE, state |-> f[Len(changes)].state, changes |-> changes,
                       events |-> f[Len(changes)].events]
  BY DispatchRuns
<1> HIDE DEF t
<1> DEFINE P == {k \in Nat : k <= Len(changes) => Transition(n, S, f[k].state, f[k].events)}
<1>2. Len(changes) \in Nat OBVIOUS
<1>3. 0 \in P
  <2>1. f[0].state = S /\ f[0].events = <<>> BY <1>1 DEF Runs, RunsStep
  <2>2. Transition(n, S, S, <<>>)
    BY DEF Transition, WellFormed, States, Grows, Range
  <2> QED BY <2>1, <2>2
<1>4. ASSUME NEW k \in Nat, k \in P PROVE k + 1 \in P
  <2>1. SUFFICES ASSUME k + 1 <= Len(changes)
                 PROVE  Transition(n, S, f[k + 1].state, f[k + 1].events)
    OBVIOUS
  <2> DEFINE A == f[k].state
             e == f[k].events
             it == state_transition(n, A, changes[k + 1])
  <2>2. Transition(n, S, A, e) BY <1>2, <1>4, <2>1
  <2>3. f[k + 1].state = it.state /\ f[k + 1].events = e \o it.events
    BY Zenon, <1>1, <2>1 DEF Runs, RunsStep
  <2>4. Transition(n, A, it.state, it.events)
    <3>1. WellFormed(n, A) BY <2>2 DEF Transition
    <3> HIDE DEF A
    <3> QED BY <3>1, TransitionOK
  <2> HIDE DEF A, e, it
  <2>5. A \in States /\ it.state \in States /\ S \in States
    BY <2>2, <2>4 DEF Transition, WellFormed
  <2>6. SaidBy(n, A) \subseteq SaidBy(n, it.state)
    BY <2>4, <2>5, SaidGrows DEF Transition
  <2>7. Grows(S, it.state)
    <3>1. Grows(S, A) /\ Grows(A, it.state) BY <2>2, <2>4 DEF Transition
    <3>2. /\ S.sent \in Nat /\ A.sent \in Nat /\ it.state.sent \in Nat
          /\ S.received \in Nat /\ A.received \in Nat /\ it.state.received \in Nat
      BY <2>5 DEF States
    <3> QED BY <3>1, <3>2 DEF Grows
  <2>8. e \o it.events \in Seq(Messages) /\ Range(e \o it.events) \subseteq SaidBy(n, it.state)
    BY <2>2, <2>4, <2>6, RangeConcat DEF Transition
  <2> QED BY <2>3, <2>4, <2>7, <2>8 DEF Transition
<1>5. Len(changes) \in P
  <2> HIDE DEF P
  <2> QED BY <1>2, <1>3, <1>4, SetInduction
<1> QED BY <1>1, <1>2, <1>5 DEF t

-----------------------------------------------------------------------------
(* The inductive invariant                                                 *)

Changes == Messages \cup [type : {"ActionInitInitiator", "ContractReceiveChannelClosed"}]

Databases == [snapshot : States, changes : Seq(Changes)]

Transactions == [open : {TRUE}, state : States, changes : Seq(Changes), events : Seq(Messages)]

TypeInv ==
  /\ wire \subseteq Messages
  /\ closed \in BOOLEAN
  /\ monitored \in [Nodes -> Nat]
  /\ db \in [Nodes -> Databases]
  /\ up \in [Nodes -> BOOLEAN]
  /\ state \in [Nodes -> States]
  /\ transaction \in [Nodes -> Transactions \cup {NoTransaction}]
  /\ retrier \in [Nodes -> SUBSET Messages]
  /\ broadcasts \in [Nodes -> SUBSET Nat]
  /\ prioritize \in [Nodes -> BOOLEAN]
  /\ started \in [Nodes -> [received : Nat, has_sent : BOOLEAN]]

(* The database of n stands for the state in its memory, and for every     *)
(* message of n that was ever on its way.                                  *)
Durable(n, database, u, s, w) ==
  /\ WellFormed(n, database.snapshot)
  /\ u => s = replay_state_changes(n, database)
  /\ {m \in w : m.from = n} \subseteq SaidBy(n, replay_state_changes(n, database))

(* What is written and not committed is what the state machine makes of    *)
(* the state in memory.  A message is queued only when the state stands    *)
(* for it.                                                                 *)
Volatile(n, u, s, t, r) ==
  /\ t.open => u /\ t.changes \in Seq(Changes) /\ t = dispatch(n, s, t.changes)
  /\ r \subseteq SaidBy(n, s)

(* Whatever n knew at its start is with the monitoring service or goes     *)
(* there before anything else.                                             *)
Monitors(u, mon, b, p, st) ==
  /\ IsFiniteSet(b)
  /\ ~ u => p
  /\ u => \/ mon >= st.received
          \/ p /\ st.received \in b /\ ~ st.has_sent

IInv ==
  /\ TypeInv
  /\ \A n \in Nodes : /\ Durable(n, db[n], up[n], state[n], wire)
                      /\ Volatile(n, up[n], state[n], transaction[n], retrier[n])
                      /\ Monitors(up[n], monitored[n], broadcasts[n], prioritize[n], started[n])

(* The first state is well formed.                                         *)
LEMMA InitialWellFormed == \A n \in Nodes : WellFormed(n, InitialState)
<1>1. <<>> \in Seq(Messages) /\ Range(<<>>) = {} BY DEF Range
<1> QED BY <1>1 DEF WellFormed, InitialState, States

(* Applying no state change at all.                                        *)
LEMMA DispatchNothing ==
  ASSUME NEW n, NEW S PROVE dispatch(n, S, <<>>).state = S
<1>1. <<>> \in Seq(Nat) /\ Len(<<>>) = 0 OBVIOUS
<1> DEFINE none == <<>>
<1> HIDE DEF none
<1>2. none \in Seq(Nat) BY <1>1 DEF none
<1>3. PICK after : /\ Runs(after, n, S, none)
                   /\ dispatch(n, S, none) =
                        [open |-> TRUE, state |-> after[Len(none)].state, changes |-> none,
                         events |-> after[Len(none)].events]
  BY <1>2, DispatchRuns
<1>4. dispatch(n, S, none).state = after[Len(none)].state
  BY <1>3
<1> QED BY <1>1, <1>3, <1>4 DEF Runs, none

(* A node with an empty database and nothing queued satisfies it.          *)
LEMMA InitInv == Init => IInv
<1> SUFFICES ASSUME Init PROVE IInv
  OBVIOUS
<1>1. InitialState \in States /\ \A n \in Nodes : WellFormed(n, InitialState)
  BY InitialWellFormed DEF WellFormed, InitialState, States
<1>2. <<>> \in Seq(Changes) OBVIOUS
<1>3. [snapshot |-> InitialState, changes |-> <<>>] \in Databases
  BY <1>1, <1>2 DEF Databases
<1>4. TypeInv
  BY Zenon, <1>1, <1>3 DEF Init, TypeInv
<1>5. ASSUME NEW n \in Nodes
      PROVE  /\ Durable(n, db[n], up[n], state[n], wire)
             /\ Volatile(n, up[n], state[n], transaction[n], retrier[n])
             /\ Monitors(up[n], monitored[n], broadcasts[n], prioritize[n], started[n])
  <2>1. db[n] = [snapshot |-> InitialState, changes |-> <<>>] /\ state[n] = InitialState
        /\ wire = {} /\ up[n]
    BY DEF Init
  <2>2. replay_state_changes(n, db[n]) = InitialState
    BY <2>1, DispatchNothing DEF replay_state_changes
  <2>3. Durable(n, db[n], up[n], state[n], wire)
    BY <1>1, <2>1, <2>2 DEF Durable
  <2>4. Volatile(n, up[n], state[n], transaction[n], retrier[n])
    BY DEF Init, Volatile, NoTransaction
  <2>5. IsFiniteSet({}) BY FS_EmptySet
  <2>6. Monitors(up[n], monitored[n], broadcasts[n], prioritize[n], started[n])
    BY <2>5 DEF Init, Monitors
  <2> QED BY <2>3, <2>4, <2>6
<1> QED BY <1>4, <1>5 DEF IInv

(* What node n holds when the others' parts are left alone: an action of   *)
(* one node, and the parts of the invariant it has to restore.             *)
Others(n) ==
  \A k \in Nodes \ {n} :
    /\ db'[k] = db[k] /\ up'[k] = up[k] /\ state'[k] = state[k]
    /\ transaction'[k] = transaction[k] /\ retrier'[k] = retrier[k]
    /\ monitored'[k] = monitored[k] /\ broadcasts'[k] = broadcasts[k]
    /\ prioritize'[k] = prioritize[k] /\ started'[k] = started[k]

(* A step of one node restores the invariant when it restores that node's  *)
(* part of it and puts only its own messages on the way.                   *)
LEMMA OneNode ==
  ASSUME IInv, NEW n \in Nodes, TypeInv', Others(n),
         \A m \in wire' : m \in wire \/ m.from = n,
         Durable(n, db[n], up[n], state[n], wire)',
         Volatile(n, up[n], state[n], transaction[n], retrier[n])',
         Monitors(up[n], monitored[n], broadcasts[n], prioritize[n], started[n])'
  PROVE  IInv'
<1>1. ASSUME NEW k \in Nodes \ {n}
      PROVE  /\ Durable(k, db[k], up[k], state[k], wire)'
             /\ Volatile(k, up[k], state[k], transaction[k], retrier[k])'
             /\ Monitors(up[k], monitored[k], broadcasts[k], prioritize[k], started[k])'
  <2>1. {m \in wire' : m.from = k} \subseteq {m \in wire : m.from = k}
    BY ZenonT(20)
  <2>2. Durable(k, db[k], up[k], state[k], wire)'
    <3>1. /\ Durable(k, db[k], up[k], state[k], wire)
          /\ db'[k] = db[k] /\ up'[k] = up[k] /\ state'[k] = state[k]
      BY DEF IInv, Others
    <3> QED BY <2>1, <3>1 DEF Durable
  <2>3. Volatile(k, up[k], state[k], transaction[k], retrier[k])'
    BY DEF IInv, Others
  <2>4. Monitors(up[k], monitored[k], broadcasts[k], prioritize[k], started[k])'
    BY DEF IInv, Others
  <2> QED BY <2>2, <2>3, <2>4
<1> QED BY <1>1 DEF IInv

(* What the database stands for is well formed, and so is the state of a   *)
(* node that runs.                                                         *)
LEMMA ReplayOK ==
  ASSUME NEW n \in Nodes, NEW database \in Databases, WellFormed(n, database.snapshot)
  PROVE  WellFormed(n, replay_state_changes(n, database))
<1>1. database.changes \in Seq(Changes) BY DEF Databases
<1>2. Transition(n, database.snapshot, dispatch(n, database.snapshot, database.changes).state,
                 dispatch(n, database.snapshot, database.changes).events)
  BY <1>1, DispatchOK
<1> QED BY <1>2 DEF replay_state_changes, Transition

(* A running node has in memory what its database stands for.              *)
LEMMA RunningOK ==
  ASSUME IInv, NEW n \in Nodes, up[n]
  PROVE  state[n] = replay_state_changes(n, db[n]) /\ WellFormed(n, state[n])
<1>1. db[n] \in Databases /\ Durable(n, db[n], up[n], state[n], wire)
  BY Zenon DEF IInv, TypeInv
<1> QED BY <1>1, ReplayOK DEF Durable

(* Committing a transaction makes the database stand for the state it      *)
(* leads to, whether or not a snapshot is taken.                           *)
LEMMA CommitOK ==
  ASSUME NEW n \in Nodes, NEW database \in Databases, WellFormed(n, database.snapshot),
         NEW changes \in Seq(Changes), NEW t,
         t = dispatch(n, replay_state_changes(n, database), changes)
  PROVE  /\ t \in Transactions /\ t.changes = changes
         /\ Transition(n, replay_state_changes(n, database), t.state, t.events)
         /\ Committed(database, t) \in Databases
         /\ Committed(database, t).snapshot = database.snapshot
         /\ replay_state_changes(n, Committed(database, t)) = t.state
<1> DEFINE S == replay_state_changes(n, database)
<1>1. WellFormed(n, S) BY ReplayOK
<1>2. /\ t = [open |-> TRUE, state |-> t.state, changes |-> changes, events |-> t.events]
      /\ Transition(n, S, t.state, t.events)
  <2> HIDE DEF S
  <2>1. t = dispatch(n, S, changes) BY DEF S
  <2> QED BY <1>1, <2>1, DispatchOK
<1>3. t.state \in States /\ t.events \in Seq(Messages)
  BY <1>2 DEF Transition, WellFormed
<1>4. t.changes = changes BY <1>2
<1>5. t \in Transactions
  <2> DEFINE s == t.state
             e == t.events
  <2>1. t = [open |-> TRUE, state |-> s, changes |-> changes, events |-> e] BY <1>2
  <2>2. s \in States /\ e \in Seq(Messages) BY <1>3
  <2> HIDE DEF s, e
  <2>3. [open |-> TRUE, state |-> s, changes |-> changes, events |-> e] \in Transactions
    BY <2>2 DEF Transactions
  <2> QED BY <2>1, <2>3
<1> DEFINE both == database.changes \o changes
<1>6. database.changes \in Seq(Changes) /\ both \in Seq(Changes) BY DEF Databases
<1>7. Committed(database, t) = [database EXCEPT !.changes = both]
  BY <1>4 DEF Committed
<1>8. dispatch(n, database.snapshot, both).state = dispatch(n, S, changes).state
  BY <1>6, DispatchConcat DEF replay_state_changes
<1> HIDE DEF both
<1>9. /\ Committed(database, t) \in Databases
      /\ Committed(database, t).snapshot = database.snapshot
      /\ Committed(database, t).changes = both
  BY <1>6, <1>7 DEF Databases
<1>10. replay_state_changes(n, Committed(database, t)) = t.state
  BY <1>8, <1>9 DEF replay_state_changes
<1> QED BY <1>2, <1>4, <1>5, <1>9, <1>10

(* A snapshot changes what the database holds, not what it stands for.     *)
LEMMA SnapshotOK ==
  ASSUME NEW n \in Nodes, NEW database \in Databases, WellFormed(n, database.snapshot),
         NEW S, S = replay_state_changes(n, database)
  PROVE  /\ maybe_snapshot(database, S) \in Databases
         /\ WellFormed(n, maybe_snapshot(database, S).snapshot)
         /\ replay_state_changes(n, maybe_snapshot(database, S)) = S
<1>1. WellFormed(n, S) BY ReplayOK
<1>2. CASE maybe_snapshot(database, S) = database
  BY <1>2
<1>3. CASE maybe_snapshot(database, S) = [snapshot |-> S, changes |-> <<>>]
  <2> DEFINE none == <<>>
             d == [snapshot |-> S, changes |-> none]
  <2>1. none \in Seq(Changes) /\ dispatch(n, S, none).state = S BY DispatchNothing
  <2> HIDE DEF none
  <2>2. d \in Databases /\ d.snapshot = S /\ d.changes = none
    BY <1>1, <2>1 DEF Databases, WellFormed
  <2>3. replay_state_changes(n, d) = S BY <2>1, <2>2 DEF replay_state_changes
  <2>4. maybe_snapshot(database, S) = d BY ZenonT(20), <1>3 DEF none
  <2> HIDE DEF d
  <2> QED BY <1>1, <2>2, <2>3, <2>4
<1> QED BY <1>2, <1>3 DEF maybe_snapshot

(* Starting to apply state changes.                                        *)
LEMMA ProcessInv ==
  ASSUME IInv, NEW n \in Nodes, NEW changes \in Seq(Changes),
         process_state_change_atomically(n, changes), wire' \subseteq wire,
         NEW r \in SUBSET SaidBy(n, state[n]), retrier' = [retrier EXCEPT ![n] = r]
  PROVE  IInv'
<1> DEFINE t == dispatch(n, state[n], changes)
<1>1. /\ up[n] /\ transaction' = [transaction EXCEPT ![n] = t]
      /\ UNCHANGED <<closed, monitored, crashes, db, up, state, started, broadcasts, prioritize>>
  BY DEF process_state_change_atomically
<1>2. /\ state[n] = replay_state_changes(n, db[n]) /\ db[n] \in Databases
      /\ WellFormed(n, db[n].snapshot)
  BY ZenonT(20), <1>1, RunningOK DEF IInv, TypeInv, Durable
<1>3. t \in Transactions /\ t.changes = changes
  BY <1>2, CommitOK
<1> HIDE DEF t
<1>4. r \subseteq Messages BY DEF SaidBy
<1>5. TypeInv'
  BY <1>1, <1>3, <1>4 DEF IInv, TypeInv
<1>6. transaction'[n] = t /\ retrier'[n] = r
  BY ZenonT(20), <1>1 DEF IInv, TypeInv
<1>7. Durable(n, db[n], up[n], state[n], wire)'
  <2>1. {m \in wire' : m.from = n} \subseteq {m \in wire : m.from = n} BY ZenonT(20)
  <2> QED BY <1>1, <2>1 DEF IInv, Durable
<1>8. Volatile(n, up[n], state[n], transaction[n], retrier[n])'
  BY <1>1, <1>3, <1>6 DEF Volatile, t
<1>9. Monitors(up[n], monitored[n], broadcasts[n], prioritize[n], started[n])'
  BY <1>1 DEF IInv
<1>10. Others(n)
  BY <1>1 DEF IInv, TypeInv, Others
<1> QED BY <1>5, <1>7, <1>8, <1>9, <1>10, OneNode

(* A finite set of numbers has a largest one.                              *)
LEMMA MaxIn ==
  ASSUME NEW S \in SUBSET Nat, IsFiniteSet(S), S # {}
  PROVE  Max(S) \in S /\ \A y \in S : y <= Max(S)
<1> DEFINE Top(s) == \E x \in s : \A y \in s : x >= y
           T == {s \in SUBSET S : s # {} => Top(s)}
<1>1. ASSUME NEW s \in SUBSET S, \A r \in SUBSET s : r # s => r \in T PROVE s \in T
  <2>1. SUFFICES ASSUME s # {} PROVE Top(s)
    OBVIOUS
  <2>2. PICK x : x \in s BY <2>1
  <2>3. s \ {x} \in SUBSET s /\ s \ {x} # s BY <2>2
  <2>4. s \ {x} \in T BY Zenon, <1>1, <2>3
  <2>5. CASE s \ {x} = {}
    BY <2>2, <2>5
  <2>6. CASE s \ {x} # {}
    <3>1. PICK z \in s \ {x} : \A y \in s \ {x} : z >= y BY <2>4, <2>6
    <3>2. x \in Nat /\ z \in Nat /\ \A y \in s : y \in Nat BY <2>2, <3>1
    <3>3. CASE z >= x BY <3>1, <3>2, <3>3
    <3>4. CASE x >= z BY <2>2, <3>1, <3>2, <3>4
    <3> QED BY <3>2, <3>3, <3>4
  <2> QED BY <2>5, <2>6
<1>2. \A s \in SUBSET S : s \in T
  <2> HIDE DEF T
  <2> QED BY Zenon, <1>1, FiniteInduction
<1>3. Top(S) BY <1>2
<1> QED BY Zenon, <1>3 DEF Max

(* What a monitoring service is told are the nonces of balance proofs.     *)
LEMMA UpdatesType ==
  ASSUME NEW changes \in Seq(Changes)
  PROVE  MonitoringUpdates(changes) \in SUBSET Nat /\ IsFiniteSet(MonitoringUpdates(changes))
<1> DEFINE proofs == {i \in DOMAIN changes : changes[i].type = "LockedTransfer"}
<1>1. CASE proofs = {}
  BY <1>1, FS_EmptySet DEF MonitoringUpdates
<1>2. CASE proofs # {}
  <2>1. DOMAIN changes = 1 .. Len(changes) /\ Len(changes) \in Nat OBVIOUS
  <2>2. IsFiniteSet(1 .. Len(changes)) BY <2>1, FS_Interval
  <2>3. proofs \in SUBSET Nat /\ IsFiniteSet(proofs)
    BY <2>1, <2>2, FS_Subset
  <2>4. Max(proofs) \in proofs
    <3> HIDE DEF proofs
    <3> QED BY <1>2, <2>3, MaxIn
  <2>5. changes[Max(proofs)] \in Changes /\ changes[Max(proofs)].type = "LockedTransfer"
    BY <2>4
  <2>6. changes[Max(proofs)].id \in Nat
    BY <2>5 DEF Changes, Messages
  <2>7. MonitoringUpdates(changes) = {changes[Max(proofs)].id}
    BY ZenonT(20), <1>2 DEF MonitoringUpdates
  <2> HIDE DEF proofs
  <2> QED BY Zenon, <2>6, <2>7, FS_Singleton
<1> QED BY <1>1, <1>2

(* The commit comes before the new state, its messages and its monitoring  *)
(* requests are seen (handle_state_changes): what is queued is durable.    *)
LEMMA EffectsInv ==
  ASSUME IInv, NEW n \in Nodes, trigger_state_change_effects(n)
  PROVE  IInv'
<1> DEFINE t == transaction[n]
           d == Committed(db[n], t)
           e == maybe_snapshot(d, t.state)
           r == Pending(t.state, retrier[n] \cup Range(t.events))
           b == broadcasts[n] \cup MonitoringUpdates(t.changes)
<1>1. /\ t.open
      /\ state' = [state EXCEPT ![n] = t.state] /\ db' = [db EXCEPT ![n] = e]
      /\ transaction' = [transaction EXCEPT ![n] = NoTransaction]
      /\ broadcasts' = [broadcasts EXCEPT ![n] = b] /\ retrier' = [retrier EXCEPT ![n] = r]
      /\ UNCHANGED <<environment, up, started, prioritize>>
  BY ZenonT(40) DEF trigger_state_change_effects
<1>2. /\ up[n] /\ t.changes \in Seq(Changes) /\ t = dispatch(n, state[n], t.changes)
      /\ retrier[n] \subseteq SaidBy(n, state[n])
  BY ZenonT(20), <1>1 DEF IInv, Volatile
<1>3. state[n] = replay_state_changes(n, db[n]) /\ WellFormed(n, state[n])
  BY <1>2, RunningOK
<1>4. db[n] \in Databases /\ WellFormed(n, db[n].snapshot)
  BY ZenonT(20) DEF IInv, TypeInv, Durable
<1>5. /\ Transition(n, state[n], t.state, t.events)
      /\ d \in Databases /\ WellFormed(n, d.snapshot) /\ replay_state_changes(n, d) = t.state
  <2> HIDE DEF t, d, e, r, b
  <2>1. t = dispatch(n, replay_state_changes(n, db[n]), t.changes) BY <1>2, <1>3
  <2>2. t.changes \in Seq(Changes) BY <1>2
  <2>3. /\ Transition(n, replay_state_changes(n, db[n]), t.state, t.events)
        /\ Committed(db[n], t) \in Databases
        /\ Committed(db[n], t).snapshot = db[n].snapshot
        /\ replay_state_changes(n, Committed(db[n], t)) = t.state
    BY <1>4, <2>1, <2>2, CommitOK
  <2> QED BY <1>3, <1>4, <2>3 DEF d
<1> HIDE DEF d
<1>6. e \in Databases /\ WellFormed(n, e.snapshot) /\ replay_state_changes(n, e) = t.state
  BY ZenonT(20), <1>5, SnapshotOK
<1> HIDE DEF e
<1>7. /\ SaidBy(n, state[n]) \subseteq SaidBy(n, t.state) /\ t.state \in States
      /\ t.events \in Seq(Messages) /\ Range(t.events) \subseteq SaidBy(n, t.state)
  BY <1>3, <1>5, SaidGrows DEF Transition, WellFormed
<1>8. r \subseteq SaidBy(n, t.state)
  BY <1>2, <1>7 DEF Pending
<1>9. r \subseteq Messages BY <1>8 DEF SaidBy
<1>10. b \in SUBSET Nat /\ IsFiniteSet(b)
  <2>1. broadcasts[n] \in SUBSET Nat /\ IsFiniteSet(broadcasts[n])
    BY DEF IInv, TypeInv, Monitors
  <2> QED BY ZenonT(40), <1>2, <2>1, UpdatesType, FS_Union
<1> HIDE DEF r, b
<1>11. TypeInv'
  BY <1>1, <1>6, <1>7, <1>9, <1>10 DEF IInv, TypeInv, environment
<1>12. /\ db'[n] = e /\ state'[n] = t.state /\ transaction'[n] = NoTransaction
       /\ retrier'[n] = r /\ broadcasts'[n] = b
  BY <1>1 DEF IInv, TypeInv
<1>13. Durable(n, db[n], up[n], state[n], wire)'
  <2>1. {m \in wire : m.from = n} \subseteq SaidBy(n, state[n])
    BY <1>3 DEF IInv, Durable
  <2> QED BY ZenonT(40), <1>1, <1>6, <1>7, <1>12, <2>1 DEF Durable, environment
<1>14. Volatile(n, up[n], state[n], transaction[n], retrier[n])'
  <2>1. ~ NoTransaction.open BY DEF NoTransaction
  <2> QED BY Zenon, <1>8, <1>12, <2>1 DEF Volatile
<1>15. Monitors(up[n], monitored[n], broadcasts[n], prioritize[n], started[n])'
  <2>1. broadcasts[n] \subseteq b BY DEF b
  <2> QED BY ZenonT(20), <1>1, <1>2, <1>10, <1>12, <2>1 DEF IInv, Monitors, environment
<1>16. Others(n)
  BY <1>1 DEF IInv, TypeInv, Others, environment
<1>17. wire' = wire BY <1>1 DEF environment
<1> QED BY <1>11, <1>13, <1>14, <1>15, <1>16, <1>17, OneNode

(* The state changes a node makes by itself.                               *)
LEMMA OwnChanges ==
  /\ <<>> \in Seq(Changes) /\ <<[type |-> "ActionInitInitiator"]>> \in Seq(Changes)
  /\ <<[type |-> "ContractReceiveChannelClosed"]>> \in Seq(Changes)
BY DEF Changes

(* A transfer that is started, and a block of the chain.                   *)
LEMMA InputsInv ==
  ASSUME IInv, NEW n \in Nodes, InitTransfer(n) \/ Alarm(n)
  PROVE  IInv'
<1>2. PICK changes \in Seq(Changes) : process_state_change_atomically(n, changes)
  BY Zenon, OwnChanges DEF InitTransfer, Alarm
<1>3. wire' = wire /\ retrier' = retrier
  BY DEF InitTransfer, Alarm
<1>4. retrier' = [retrier EXCEPT ![n] = retrier[n]] /\ retrier[n] \in SUBSET SaidBy(n, state[n])
  BY <1>3 DEF IInv, TypeInv, Volatile
<1> QED BY Zenon, <1>2, <1>3, <1>4, ProcessInv

(* Messages that are received: a Delivered is queued before the state      *)
(* change is committed, and says nothing that could be forgotten.          *)
LEMMA ReceiveInv ==
  ASSUME IInv, NEW n \in Nodes, Receive(n)
  PROVE  IInv'
<1>1. PICK changes \in on_messages({m \in wire : m.from = Peer(n)}) :
        process_gatecoin_messages(n, changes)
  BY DEF Receive
<1> DEFINE delivered == {Message("Delivered", m.id, n) :
                           m \in {k \in Range(changes) : k.type = "Processed"}}
<1>2. PICK k \in 1 .. MaxBatch : changes \in [1 .. k -> wire]
  BY <1>1 DEF on_messages
<1>3. MaxBatch \in Nat /\ k \in Nat
  BY NodeAssumption
<1>4. wire \subseteq Messages BY DEF IInv, TypeInv
<1>5. changes \in Seq(Changes)
  BY <1>2, <1>3, <1>4 DEF Changes
<1>6. Range(changes) \subseteq Messages BY <1>2, <1>4 DEF Range
<1>7. delivered \subseteq SaidBy(n, state[n])
  BY <1>6 DEF SaidBy, Messages, Message
<1>8. wire' \subseteq wire /\ process_state_change_atomically(n, changes)
      /\ retrier' = [retrier EXCEPT ![n] = retrier[n] \cup delivered]
  BY ZenonT(20), <1>1 DEF process_gatecoin_messages
<1>9. retrier[n] \cup delivered \in SUBSET SaidBy(n, state[n])
  BY ZenonT(40), <1>7 DEF IInv, Volatile
<1> HIDE DEF delivered
<1> QED BY Zenon, <1>5, <1>8, <1>9, ProcessInv

(* Only what the state stands for is sent, and nothing before the          *)
(* monitoring requests of the start are out (_check_and_send).             *)
LEMMA SendInv ==
  ASSUME IInv, NEW n \in Nodes, check_and_send(n)
  PROVE  IInv'
<1> DEFINE retried == {m \in retrier[n] : message_is_in_queue(state[n], m)}
           once == {m \in retrier[n] : m.type = "Delivered"}
<1>1. /\ up[n] /\ (prioritize[n] => broadcasts[n] = {})
      /\ wire' = wire \cup retried \cup once
      /\ retrier' = [retrier EXCEPT ![n] = retried]
      /\ started' = [started EXCEPT ![n].has_sent = @ \/ retried # {}]
      /\ UNCHANGED <<closed, monitored, crashes, db, up, state, transaction, broadcasts, prioritize>>
  BY ZenonT(20) DEF check_and_send
<1>2. retried \subseteq SaidBy(n, state[n]) /\ once \subseteq SaidBy(n, state[n])
  BY Zenon DEF IInv, Volatile
<1> HIDE DEF retried, once
<1>3. retried \subseteq Messages /\ once \subseteq Messages
      /\ \A m \in retried \cup once : m.from = n
  BY <1>2 DEF SaidBy
<1>4. started[n] \in [received : Nat, has_sent : BOOLEAN]
  BY DEF IInv, TypeInv
<1>5. /\ started'[n] \in [received : Nat, has_sent : BOOLEAN]
      /\ started'[n].received = started[n].received
      /\ \A k \in Nodes \ {n} : started'[k] = started[k]
      /\ started' \in [Nodes -> [received : Nat, has_sent : BOOLEAN]]
  BY <1>1, <1>4 DEF IInv, TypeInv
<1>6. TypeInv'
  BY <1>1, <1>3, <1>5 DEF IInv, TypeInv
<1>7. Durable(n, db[n], up[n], state[n], wire)'
  <2>1. state[n] = replay_state_changes(n, db[n]) BY <1>1, RunningOK
  <2> QED BY <1>1, <1>2, <2>1 DEF IInv, Durable
<1>8. Volatile(n, up[n], state[n], transaction[n], retrier[n])'
  <2>1. retrier'[n] = retried BY <1>1 DEF IInv, TypeInv
  <2> QED BY <1>1, <1>2, <2>1 DEF IInv, Volatile
<1>9. Monitors(up[n], monitored[n], broadcasts[n], prioritize[n], started[n])'
  BY <1>1, <1>5 DEF IInv, Monitors
<1>10. Others(n)
  BY <1>1, <1>5 DEF IInv, TypeInv, Others
<1>11. \A m \in wire' : m \in wire \/ m.from = n BY ZenonT(20), <1>1, <1>3
<1> QED BY Zenon, <1>6, <1>7, <1>8, <1>9, <1>10, <1>11, OneNode

(* All the requests go out at once, so the service has the highest nonce.  *)
LEMMA BroadcastInv ==
  ASSUME IInv, NEW n \in Nodes, broadcast_worker(n)
  PROVE  IInv'
<1> DEFINE all == {monitored[n]} \cup broadcasts[n]
<1>1. /\ up[n] /\ monitored' = [monitored EXCEPT ![n] = Max(all)]
      /\ broadcasts' = [broadcasts EXCEPT ![n] = {}]
      /\ prioritize' = [prioritize EXCEPT ![n] = FALSE]
      /\ UNCHANGED <<wire, closed, crashes, db, up, state, transaction, started, retrier>>
  BY DEF broadcast_worker, service, IInv, TypeInv
<1>2. all \in SUBSET Nat /\ IsFiniteSet(all) /\ all # {}
  <2>1. monitored[n] \in Nat /\ broadcasts[n] \in SUBSET Nat /\ IsFiniteSet(broadcasts[n])
    BY DEF IInv, TypeInv, Monitors
  <2> QED BY Zenon, <2>1, FS_Singleton, FS_Union
<1>3. Max(all) \in Nat /\ \A y \in all : y <= Max(all)
  <2> HIDE DEF all
  <2> QED BY ZenonT(40), <1>2, MaxIn
<1>4. TypeInv'
  BY <1>1, <1>3 DEF IInv, TypeInv
<1>5. Durable(n, db[n], up[n], state[n], wire)'
  BY Zenon, <1>1 DEF IInv
<1>6. Volatile(n, up[n], state[n], transaction[n], retrier[n])'
  BY ZenonT(40), <1>1 DEF IInv
<1>7. Monitors(up[n], monitored[n], broadcasts[n], prioritize[n], started[n])'
  <2>1. monitored'[n] = Max(all) /\ broadcasts'[n] = {} BY <1>1 DEF IInv, TypeInv
  <2>2. monitored[n] \in all /\ started[n].received \in Nat /\ monitored[n] \in Nat
    BY ZenonT(20) DEF IInv, TypeInv
  <2>3. monitored[n] >= started[n].received \/ started[n].received \in all
    BY <1>1 DEF IInv, Monitors
  <2>4. Max(all) >= started[n].received
    BY <1>3, <2>2, <2>3
  <2> QED BY <1>1, <2>1, <2>4, FS_EmptySet DEF Monitors
<1>8. Others(n)
  BY ZenonT(20), <1>1 DEF IInv, TypeInv, Others
<1> QED BY ZenonT(40), <1>1, <1>4, <1>5, <1>6, <1>7, <1>8, OneNode

(* Whether the open transaction was committed or lost, the database still  *)
(* stands for every message the node sent.                                 *)
LEMMA CrashInv ==
  ASSUME IInv, NEW n \in Nodes, Crash(n)
  PROVE  IInv'
<1>1. /\ up[n] /\ up' = [up EXCEPT ![n] = FALSE]
      /\ transaction' = [transaction EXCEPT ![n] = NoTransaction]
      /\ state' = [state EXCEPT ![n] = InitialState]
      /\ retrier' = [retrier EXCEPT ![n] = {}]
      /\ broadcasts' = [broadcasts EXCEPT ![n] = {}]
      /\ prioritize' = [prioritize EXCEPT ![n] = TRUE]
      /\ UNCHANGED <<wire, closed, monitored, started>>
  BY DEF Crash
<1>2. db' = db \/ (transaction[n].open /\ db' = [db EXCEPT ![n] = Committed(db[n], transaction[n])])
  BY DEF Crash
<1>3. db[n] \in Databases /\ WellFormed(n, db[n].snapshot)
      /\ {m \in wire : m.from = n} \subseteq SaidBy(n, replay_state_changes(n, db[n]))
  BY ZenonT(20) DEF IInv, TypeInv, Durable
<1>4. /\ db'[n] \in Databases /\ WellFormed(n, db'[n].snapshot)
      /\ {m \in wire : m.from = n} \subseteq SaidBy(n, replay_state_changes(n, db'[n]))
      /\ db' = [db EXCEPT ![n] = db'[n]]
  <2>1. CASE db' = db
    BY <1>3, <2>1 DEF IInv, TypeInv
  <2>2. CASE transaction[n].open /\ db' = [db EXCEPT ![n] = Committed(db[n], transaction[n])]
    <3> DEFINE t == transaction[n]
               d == Committed(db[n], t)
    <3>1. t.changes \in Seq(Changes) /\ t = dispatch(n, state[n], t.changes)
      BY <2>2 DEF IInv, Volatile
    <3>2. t = dispatch(n, replay_state_changes(n, db[n]), t.changes)
      BY <1>1, <3>1, RunningOK
    <3>3. db' = [db EXCEPT ![n] = d] /\ db'[n] = d
      BY ZenonT(20), <2>2 DEF IInv, TypeInv
    <3> HIDE DEF t, d
    <3>4. /\ Transition(n, replay_state_changes(n, db[n]), t.state, t.events)
          /\ d \in Databases /\ d.snapshot = db[n].snapshot
          /\ replay_state_changes(n, d) = t.state
      <4>1. t.changes \in Seq(Changes) BY <3>1
      <4>2. /\ Transition(n, replay_state_changes(n, db[n]), t.state, t.events)
            /\ Committed(db[n], t) \in Databases
            /\ Committed(db[n], t).snapshot = db[n].snapshot
            /\ replay_state_changes(n, Committed(db[n], t)) = t.state
        BY <1>3, <3>2, <4>1, CommitOK
      <4> QED BY <4>2 DEF d
    <3>5. SaidBy(n, replay_state_changes(n, db[n])) \subseteq SaidBy(n, t.state)
      BY Zenon, <1>3, <3>4, ReplayOK, SaidGrows DEF Transition, WellFormed
    <3> QED BY ZenonT(40), <1>3, <3>3, <3>4, <3>5
  <2> QED BY <1>2, <2>1, <2>2
<1>5. InitialState \in States
  BY InitialWellFormed DEF WellFormed
<1>6. TypeInv'
  BY <1>1, <1>4, <1>5 DEF IInv, TypeInv
<1>7. /\ ~ up'[n] /\ state'[n] = InitialState /\ transaction'[n] = NoTransaction /\ retrier'[n] = {}
      /\ broadcasts'[n] = {} /\ prioritize'[n]
  BY <1>1 DEF IInv, TypeInv
<1>8. Durable(n, db[n], up[n], state[n], wire)'
  BY ZenonT(40), <1>1, <1>4, <1>7 DEF Durable
<1>9. Volatile(n, up[n], state[n], transaction[n], retrier[n])'
  BY <1>7 DEF Volatile, NoTransaction
<1>10. Monitors(up[n], monitored[n], broadcasts[n], prioritize[n], started[n])'
  BY <1>7, FS_EmptySet DEF Monitors
<1>11. \A k \in Nodes \ {n} : db'[k] = db[k]
  BY <1>4 DEF IInv, TypeInv
<1>12. Others(n)
  BY ZenonT(20), <1>1, <1>11 DEF IInv, TypeInv, Others
<1> QED BY ZenonT(40), <1>1, <1>6, <1>8, <1>9, <1>10, <1>12, OneNode

(* What is replayed is the state that was lost, brought up to date with    *)
(* the chain; the queues are rebuilt from it.                              *)
LEMMA StartInv ==
  ASSUME IInv, NEW n \in Nodes, start(n)
  PROVE  IInv'
<1> DEFINE restored == replay_state_changes(n, db[n])
           changes == synchronize_with_blockchain(restored)
           t == dispatch(n, restored, changes)
           e == IF changes = <<>> THEN db[n] ELSE maybe_snapshot(Committed(db[n], t), t.state)
           q == initialize_messages_queues(t.state)
           b == initialize_monitoring_services_queue(t.state)
           s == [received |-> t.state.received, has_sent |-> FALSE]
<1>1. /\ ~ up[n] /\ up' = [up EXCEPT ![n] = TRUE]
      /\ state' = [state EXCEPT ![n] = t.state] /\ db' = [db EXCEPT ![n] = e]
      /\ retrier' = [retrier EXCEPT ![n] = q] /\ broadcasts' = [broadcasts EXCEPT ![n] = b]
      /\ started' = [started EXCEPT ![n] = s]
      /\ UNCHANGED <<environment, transaction, prioritize>>
  BY DEF start
<1>2. db[n] \in Databases /\ WellFormed(n, db[n].snapshot)
      /\ {m \in wire : m.from = n} \subseteq SaidBy(n, restored)
  BY DEF IInv, TypeInv, Durable
<1>3. changes \in Seq(Changes)
  <2> HIDE DEF restored
  <2> QED BY OwnChanges DEF synchronize_with_blockchain
<1>4. WellFormed(n, restored) BY ZenonT(40), <1>2, ReplayOK
<1> HIDE DEF changes, t
<1>5. /\ e \in Databases /\ WellFormed(n, e.snapshot) /\ replay_state_changes(n, e) = t.state
      /\ WellFormed(n, t.state) /\ SaidBy(n, restored) \subseteq SaidBy(n, t.state)
  <2>1. CASE changes = <<>>
    <3>1. t.state = restored BY <2>1, DispatchNothing DEF t
    <3>2. e = db[n] BY ZenonT(20), <2>1
    <3> QED BY Zenon, <1>2, <1>4, <3>1, <3>2
  <2>2. CASE changes # <<>>
    <3> DEFINE d == Committed(db[n], t)
    <3>1. /\ Transition(n, restored, t.state, t.events)
          /\ d \in Databases /\ d.snapshot = db[n].snapshot /\ replay_state_changes(n, d) = t.state
      <4>1. t = dispatch(n, replay_state_changes(n, db[n]), changes) BY DEF t
      <4> HIDE DEF e, q, b, s
      <4> QED BY <1>2, <1>3, <4>1, CommitOK
    <3>2. e = maybe_snapshot(d, t.state) BY ZenonT(20), <2>2
    <3> HIDE DEF d, e, restored
    <3>3. e \in Databases /\ WellFormed(n, e.snapshot) /\ replay_state_changes(n, e) = t.state
      BY ZenonT(20), <1>2, <3>1, <3>2, SnapshotOK
    <3> QED BY ZenonT(20), <1>4, <3>1, <3>3, SaidGrows DEF Transition, WellFormed
  <2> QED BY ZenonT(40), <2>1, <2>2
<1> HIDE DEF e, restored
<1>6. q \subseteq SaidBy(n, t.state) /\ q \subseteq Messages /\ t.state \in States
  BY ZenonT(20), <1>5 DEF WellFormed, initialize_messages_queues, SaidBy
<1>7. t.state.received \in Nat
  BY <1>6 DEF States
<1>8. b \in SUBSET Nat /\ IsFiniteSet(b) /\ (t.state.received # 0 => t.state.received \in b)
  BY ZenonT(40), <1>7, FS_EmptySet, FS_Singleton DEF initialize_monitoring_services_queue
<1>9. s \in [received : Nat, has_sent : BOOLEAN] /\ s.received = t.state.received /\ ~ s.has_sent
  BY <1>7
<1> HIDE DEF q, b, s
<1>10. TypeInv'
  BY Zenon, <1>1, <1>5, <1>6, <1>8, <1>9 DEF IInv, TypeInv, environment
<1>11. /\ up'[n] /\ state'[n] = t.state /\ db'[n] = e /\ retrier'[n] = q /\ broadcasts'[n] = b
       /\ started'[n] = s /\ transaction'[n] = transaction[n] /\ prioritize'[n] = prioritize[n]
       /\ wire' = wire /\ monitored'[n] = monitored[n]
  BY ZenonT(20), <1>1 DEF IInv, TypeInv, environment
<1>12. Durable(n, db[n], up[n], state[n], wire)'
  BY ZenonT(40), <1>2, <1>5, <1>11 DEF Durable
<1>13. Volatile(n, up[n], state[n], transaction[n], retrier[n])'
  <2>1. ~ transaction[n].open BY ZenonT(40), <1>1 DEF IInv, Volatile
  <2> QED BY ZenonT(40), <1>6, <1>11, <2>1 DEF Volatile
<1>14. Monitors(up[n], monitored[n], broadcasts[n], prioritize[n], started[n])'
  <2>1. prioritize[n] /\ monitored[n] \in Nat BY <1>1 DEF IInv, Monitors, TypeInv
  <2>2. t.state.received = 0 => monitored[n] >= t.state.received BY <2>1
  <2> QED BY ZenonT(40), <1>8, <1>9, <1>11, <2>1, <2>2 DEF Monitors
<1>15. Others(n)
  BY ZenonT(20), <1>1 DEF IInv, TypeInv, Others, environment
<1> QED BY ZenonT(40), <1>10, <1>11, <1>12, <1>13, <1>14, <1>15, OneNode

(* A block that no node has seen, and a step of something else.            *)
LEMMA QuietInv ==
  ASSUME IInv, ChannelClosed \/ UNCHANGED vars
  PROVE  IInv'
<1>1. UNCHANGED <<wire, monitored, db, up, state, transaction, retrier, broadcasts, prioritize, started>>
      /\ closed' \in BOOLEAN
  BY Zenon DEF ChannelClosed, vars, service, transport, environment, IInv, TypeInv
<1>2. TypeInv' BY <1>1 DEF IInv, TypeInv
<1> QED BY ZenonT(40), <1>1, <1>2 DEF IInv

(* The invariant holds in every state a node can be in.                    *)
LEMMA AlwaysInv == Spec => []IInv
<1>1. IInv /\ [Next]_vars => IInv'
  <2> SUFFICES ASSUME IInv, [Next]_vars PROVE IInv'
    OBVIOUS
  <2>1. ASSUME NEW n \in Nodes, trigger_state_change_effects(n) PROVE IInv'
    BY <2>1, EffectsInv
  <2>2. ASSUME NEW n \in Nodes, InitTransfer(n) \/ Alarm(n) PROVE IInv'
    BY <2>2, InputsInv
  <2>3. ASSUME NEW n \in Nodes, check_and_send(n) PROVE IInv'
    BY <2>3, SendInv
  <2>4. ASSUME NEW n \in Nodes, broadcast_worker(n) PROVE IInv'
    BY <2>4, BroadcastInv
  <2>5. ASSUME NEW n \in Nodes, Receive(n) PROVE IInv'
    BY <2>5, ReceiveInv
  <2>6. ASSUME NEW n \in Nodes, Crash(n) PROVE IInv'
    BY <2>6, CrashInv
  <2>7. ASSUME NEW n \in Nodes, start(n) PROVE IInv'
    BY <2>7, StartInv
  <2>8. CASE ChannelClosed \/ UNCHANGED vars
    BY <2>8, QuietInv
  <2> QED BY <2>1, <2>2, <2>3, <2>4, <2>5, <2>6, <2>7, <2>8 DEF Next
<1> QED BY <1>1, InitInv, PTL DEF Spec

(* A node never forgets a transfer or a Processed it has sent, however     *)
(* often and wherever it stops: for any length of the batches, any interval *)
(* between snapshots and any number of crashes (WAL, handle_state_changes,  *)
(* restore_state).                                                         *)
THEOREM NothingForgotten == Spec => []NeverForgets
<1>1. IInv => NeverForgets
  <2> SUFFICES ASSUME IInv, NEW m \in wire, up[m.from]
               PROVE  /\ m.type = "LockedTransfer" => state[m.from].sent >= m.id
                      /\ m.type = "Processed" => state[m.from].received >= m.id
    BY DEF NeverForgets
  <2>1. m \in Messages /\ m.from \in Nodes
    BY ZenonT(20) DEF IInv, TypeInv, Messages
  <2>2. m \in SaidBy(m.from, state[m.from])
    BY ZenonT(40), <2>1, RunningOK DEF IInv, Durable
  <2>3. m.id \in Nat /\ state[m.from].sent \in Nat /\ state[m.from].received \in Nat
    <3>1. m.id \in Nat BY <2>1 DEF Messages
    <3>2. state[m.from] \in States BY <2>1 DEF IInv, TypeInv
    <3> QED BY <3>1, <3>2 DEF States
  <2> QED BY <2>2, <2>3 DEF SaidBy
<1> QED BY <1>1, AlwaysInv, PTL

(* After every start the monitoring service has the balance proofs the     *)
(* node knew before any message is sent again                              *)
(* (_prioritize_broadcast_messages, _check_and_send).                      *)
THEOREM MonitoredFirst == Spec => []RestartMonitorsFirst
<1>1. IInv => RestartMonitorsFirst
  BY Zenon DEF IInv, Monitors, RestartMonitorsFirst
<1> QED BY <1>1, AlwaysInv, PTL

=============================================================================
