---------------------------- MODULE PathFinding -----------------------------
(***************************************************************************)
(* How a payment of the node gets its route: routing.py, the client of the *)
(* path finding service (PFS) in network/pathfinding.py, and the choice of *)
(* a route in transfer/mediated_transfer/initiator.py.                     *)
(*                                                                         *)
(* q is one payment.  The greenlet of a payment gives up control at every  *)
(* HTTP request, so each operator is what runs between two of them, from   *)
(* the answer of one request to the next.  The node's channels are a       *)
(* function from partners to status, capacity and the block of opening; a  *)
(* payment works on the chain state it started from (q.view) until the     *)
(* state change that starts the transfer is dispatched.  Address metadata  *)
(* and the feedback token are left out.                                    *)
(***************************************************************************)
EXTENDS UserDeposit, Sequences

CONSTANTS
    Partners, Target,       \* neighbours of the node; whom it pays
    Amount, Capacity,       \* of the payments, of a new channel
    IOUTimeout, MaximumFee, \* of the PFS configuration
    FeeLimit                \* amount_with_fee may exceed Amount by this

ASSUME PathFindingAssumption ==
    /\ Amount \in Nat \ {0} /\ Capacity \in Nat
    /\ IOUTimeout \in Nat \ {0} /\ MaximumFee \in Nat /\ FeeLimit \in Nat

MAX_PATHS_QUERY_ATTEMPTS == 2

NoChannel == [status |-> "none", capacity |-> 0, opened |-> 0]

NoIOU == [amount |-> 0, until |-> 0]

\* pc: idle -> metadata (direct route) or waiting (for the PFS to know our
\* channels) -> ready (for the semaphore) -> posting (holds it) -> routed -> done.
NewPayment ==
    [pc |-> "idle", view |-> [p \in Partners |-> NoChannel], started |-> 0, fee |-> 0,
     retries |-> MAX_PATHS_QUERY_ATTEMPTS - 1, scrap |-> FALSE, iou |-> NoIOU,
     code |-> "none", routes |-> <<>>, result |-> "none"]

Finished(q, result) ==
    [NewPayment EXCEPT !.pc = "done", !.fee = q.fee, !.code = q.code, !.result = result]

is_channel_usable_for_new_transfer(channel, amount) ==
    channel.status = "opened" /\ channel.capacity >= amount

Usable(view) == {p \in Partners : is_channel_usable_for_new_transfer(view[p], Amount)}

\* get_best_routes: a direct channel is always preferred; otherwise some
\* channel must be able to carry the payment.  The price offered is the one
\* known when the query starts.
get_best_routes(q, channels, price, block) ==
    CASE Target \in Usable(channels) -> [q EXCEPT !.pc = "metadata"]
      [] Target \notin Usable(channels) /\ Usable(channels) # {} ->
            [q EXCEPT !.pc = "waiting", !.view = channels, !.started = block, !.fee = price]
      [] OTHER -> Finished(q, "failed")

\* The PFS must have seen the opening of our newest channel.
pfs_wait_for_block(q) == Max({q.view[p].opened : p \in Partners})

make_iou(q) == [amount |-> q.fee, until |-> q.started + IOUTimeout]

update_iou(q, last) == [last EXCEPT !.amount = @ + q.fee]

\* last is what the PFS answers to get_last_iou, which is not asked for when
\* the existing IOU is to be scrapped.
create_current_iou(q, last) ==
    IF q.scrap \/ last = NoIOU THEN make_iou(q) ELSE update_iou(q, last)

query_paths(q, last) ==
    [q EXCEPT !.pc = "posting", !.iou = IF q.fee > 0 THEN create_current_iou(q, last) ELSE NoIOU]

\* What _query_paths does when the PFS rejects the IOU with this code, the
\* price of the PFS now being price, and price_known the one the node knew.
rejected(q, code, price, price_known) ==
    LET again == [q EXCEPT !.pc = "ready", !.iou = NoIOU, !.retries = @ - 1, !.code = code]
        fail == Finished([q EXCEPT !.code = code], "failed")
    IN CASE q.retries = 0 \/ code = "DEPOSIT_TOO_LOW" -> fail
         [] q.retries > 0 /\ code \in {"IOU_ALREADY_CLAIMED", "IOU_EXPIRED_TOO_EARLY"} ->
               [again EXCEPT !.scrap = TRUE]
         [] q.retries > 0 /\ code = "INSUFFICIENT_SERVICE_PAYMENT" ->
               IF price > MaximumFee THEN fail ELSE again
         [] q.retries > 0 /\ code = "MISSING_IOU" -> again

\* The price the node knows after that rejection.
updated_price(q, code, price, price_known) ==
    IF /\ q.retries > 0 /\ code = "INSUFFICIENT_SERVICE_PAYMENT"
       /\ price <= MaximumFee /\ price > price_known
    THEN price ELSE price_known

\* The routes of the PFS are checked against the view of the payment's start.
make_route_state(q, route) == q.view[route.hop].status = "opened"

get_best_routes_pfs(q, paths) ==
    LET routes == SelectSeq(paths, LAMBDA route : make_route_state(q, route)) IN
    IF routes = <<>> THEN Finished(q, "failed")
    ELSE [NewPayment EXCEPT !.pc = "routed", !.fee = q.fee, !.code = q.code,
                            !.routes = routes]

\* The direct route, when the PFS knows the target's metadata.
direct_route(q) ==
    [q EXCEPT !.pc = "routed", !.routes = <<[hop |-> Target, fee |-> 0]>>]

\* try_new_route takes the first route whose channel can carry it now.
RouteUsable(channels, routes) ==
    {i \in DOMAIN routes :
        /\ routes[i].fee <= FeeLimit
        /\ is_channel_usable_for_new_transfer(channels[routes[i].hop], Amount + routes[i].fee)}

try_new_route(channels, routes) ==
    IF RouteUsable(channels, routes) = {} THEN channels
    ELSE LET route == routes[Min(RouteUsable(channels, routes))]
         IN [channels EXCEPT ![route.hop].capacity = @ - (Amount + route.fee)]

=============================================================================
