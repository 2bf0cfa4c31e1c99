----------------------------- MODULE LiveOrders -----------------------------
(***************************************************************************)
(* How the live engine of quant-lab (engine/live.ts) follows the orders it *)
(* has placed: buy() and sell() await the provider's answer and track an   *)
(* order that is not finished, and every five seconds a poll asks the      *)
(* provider for all orders, notes what changed and awaits the strategy's   *)
(* onOrder for each change.                                                *)
(*                                                                         *)
(* The engine is one event loop and an action is one turn of it.  Between  *)
(* turns orders are filled, requests are under way, and nothing keeps a    *)
(* poll from starting while another one, or a buy(), still awaits.         *)
(***************************************************************************)
EXTENDS Naturals

CONSTANTS MaxOrder,     \* bound: orders ever placed
          MaxPoll,      \* bound: polls in flight at once
          ListsOrders   \* FALSE: PaperTradingProviderAdapter, whose list is empty

ASSUME LiveAssumption ==
  MaxOrder \in Nat /\ MaxPoll \in Nat /\ ListsOrders \in BOOLEAN

\* An order is numbered by the place of its answer among the answers: the
\* order of `orders`, and the order in which the Set of tracked ids is walked.
Order == 1..MaxOrder
Poll  == 1..MaxPoll

OrderStatus == {"PENDING", "PARTIAL", "FILLED", "CANCELED", "REJECTED"}
Open        == {"PENDING", "PARTIAL"}
Final       == OrderStatus \ Open

VARIABLES
  exchange,         \* the status of each order at the exchange
  request,          \* buy() or sell() of an order: its progress, then its answer
  orders,           \* the engine's copy: the status in `orders`
  trackedOrderIds,
  poll,             \* the calls of pollOrderStatus in flight
  orderPollTimer,   \* the interval is armed
  crossed           \* history: some poll ran beside another request

vars == <<exchange, request, orders, trackedOrderIds, poll, orderPollTimer, crossed>>

\* `at` is the await the call is in: getOrders before ("asked") or after
\* ("answered") the exchange has read its orders, or onOrder ("reporting").
\* `cursor` is the last order the loop has looked at.
NoOrders == [o \in Order |-> "none"]
Idle     == [at |-> "idle", snapshot |-> NoOrders, cursor |-> 0]

PollState == [at : {"idle", "asked", "answered", "reporting"},
              snapshot : [Order -> OrderStatus \cup {"none"}],
              cursor : 0..MaxOrder]

Init ==
  /\ exchange = NoOrders
  /\ request = [o \in Order |-> "unsent"]
  /\ orders = NoOrders
  /\ trackedOrderIds = {}
  /\ poll = [q \in Poll |-> Idle]
  /\ orderPollTimer = FALSE
  /\ crossed = FALSE

Known(o)    == orders[o] # "none"
InFlight(o) == request[o] = "sent" \/ (request[o] \in OrderStatus /\ ~Known(o))
Busy(q)     == poll[q].at # "idle"

-----------------------------------------------------------------------------
(* The exchange.                                                           *)

\* s is the status of an order at some time before it is t.
Precedes(s, t) == \/ s \in {t, "none"}
                  \/ s = "PENDING" /\ t \in OrderStatus
                  \/ s = "PARTIAL" /\ t \in {"FILLED", "CANCELED"}

Accept(o) ==
  /\ request[o] = "sent"
  /\ \E s \in OrderStatus :
       /\ exchange' = [exchange EXCEPT ![o] = s]
       /\ request' = [request EXCEPT ![o] = s]
  /\ UNCHANGED <<orders, trackedOrderIds, poll, orderPollTimer, crossed>>

Progress(o) ==
  /\ exchange[o] # "none"
  /\ \E s \in OrderStatus \ {exchange[o]} :
       Precedes(exchange[o], s) /\ exchange' = [exchange EXCEPT ![o] = s]
  /\ UNCHANGED <<request, orders, trackedOrderIds, poll, orderPollTimer, crossed>>

-----------------------------------------------------------------------------
(* buy() and sell() with a provider.                                       *)

Place(o) ==
  /\ request[o] = "unsent"
  /\ request' = [request EXCEPT ![o] = "sent"]
  /\ crossed' = (crossed \/ \E q \in Poll : Busy(q))
  /\ UNCHANGED <<exchange, orders, trackedOrderIds, poll, orderPollTimer>>

\* The answers worth tracking: the code's second string, PARTIAL_FILLED, is
\* no OrderStatus.
Tracks(s) == s \in {"PENDING", "PARTIAL_FILLED"}

\* The answer: push, track, and call onOrder, whose outcome changes nothing here.
Answered(o) ==
  /\ request[o] \in OrderStatus /\ ~Known(o)
  /\ \A p \in 1..(o - 1) : Known(p)
  /\ orders' = [orders EXCEPT ![o] = request[o]]
  /\ trackedOrderIds' = IF Tracks(request[o]) THEN trackedOrderIds \cup {o}
                                              ELSE trackedOrderIds
  /\ UNCHANGED <<exchange, request, poll, orderPollTimer, crossed>>

\* The provider's promise rejects, whatever became of the order.
PlaceFails(o) ==
  /\ InFlight(o)
  /\ request' = [request EXCEPT ![o] = "failed"]
  /\ UNCHANGED <<exchange, orders, trackedOrderIds, poll, orderPollTimer, crossed>>

\* Mutant: the local branch of cancelOrder() is run with a provider, too.
CancelOrder_Local(o) ==
  /\ orders[o] \in Open
  /\ orders' = [orders EXCEPT ![o] = "CANCELED"]
  /\ UNCHANGED <<exchange, request, trackedOrderIds, poll, orderPollTimer, crossed>>

\* cancelOrder() with a provider leaves the engine's copy alone.
CancelOrder(o) ==
  /\ Known(o) /\ exchange[o] \in Open
  /\ exchange' = [exchange EXCEPT ![o] = "CANCELED"]
  /\ UNCHANGED <<request, orders, trackedOrderIds, poll, orderPollTimer, crossed>>

-----------------------------------------------------------------------------
(* pollOrderStatus().                                                      *)

\* The timer fires.  Polls are interchangeable: the first idle one is taken.
PollTick(q) ==
  /\ orderPollTimer
  /\ trackedOrderIds # {}
  /\ ~Busy(q) /\ \A r \in 1..(q - 1) : Busy(r)
  /\ poll' = [poll EXCEPT ![q].at = "asked"]
  /\ crossed' = (crossed \/ (\E r \in Poll : Busy(r)) \/ \E o \in Order : InFlight(o))
  /\ UNCHANGED <<exchange, request, orders, trackedOrderIds, orderPollTimer>>

GetOrders(q) ==
  /\ poll[q].at = "asked"
  /\ poll' = [poll EXCEPT ![q].at = "answered",
                          ![q].snapshot = IF ListsOrders THEN exchange ELSE NoOrders]
  /\ UNCHANGED <<exchange, request, orders, trackedOrderIds, orderPollTimer, crossed>>

GetOrdersFails(q) ==
  /\ poll[q].at = "asked"
  /\ poll' = [poll EXCEPT ![q] = Idle]
  /\ UNCHANGED <<exchange, request, orders, trackedOrderIds, orderPollTimer, crossed>>

Changed(q, tracked) ==
  {o \in tracked : /\ o > poll[q].cursor
                   /\ poll[q].snapshot[o] \notin {"none", orders[o]}}
Missing(q, tracked) ==
  {o \in tracked : o > poll[q].cursor /\ poll[q].snapshot[o] = "none"}

\* Mutant: `return` for `continue`, the loop ends at an order without a change.
Walk_OnlyFirst(q, tracked) ==
  LET rest == {o \in tracked : o > poll[q].cursor}
  IN  \/ \E o \in Changed(q, tracked) :
           /\ \A p \in rest : o <= p
           /\ orders' = [orders EXCEPT ![o] = poll[q].snapshot[o]]
           /\ trackedOrderIds' = tracked
           /\ poll' = [poll EXCEPT ![q].at = "reporting", ![q].cursor = o]
      \/ /\ ~\E o \in Changed(q, tracked) : \A p \in rest : o <= p
         /\ trackedOrderIds' = tracked \ Missing(q, tracked)
         /\ poll' = [poll EXCEPT ![q] = Idle]
         /\ UNCHANGED orders

\* The loop from the cursor on, `tracked` being what is tracked now: orders
\* the snapshot does not know are dropped, up to the first one that has
\* changed, which is noted and reported; without one the call ends.
Walk(q, tracked) ==
  \/ \E o \in Changed(q, tracked) :
       /\ \A p \in Changed(q, tracked) : o <= p
       /\ orders' = [orders EXCEPT ![o] = poll[q].snapshot[o]]
       /\ trackedOrderIds' = tracked \ {p \in Missing(q, tracked) : p < o}
       /\ poll' = [poll EXCEPT ![q].at = "reporting", ![q].cursor = o]
  \/ /\ Changed(q, tracked) = {}
     /\ trackedOrderIds' = tracked \ Missing(q, tracked)
     /\ poll' = [poll EXCEPT ![q] = Idle]
     /\ UNCHANGED orders

PollTurn(q) ==
  /\ poll[q].at = "answered"
  /\ Walk(q, trackedOrderIds)
  /\ UNCHANGED <<exchange, request, orderPollTimer, crossed>>

\* Mutant: whatever was reported is no longer tracked.
Completed_Always(s) == TRUE

\* The statuses that end the tracking of an order.
Completed(s) == s \in {"FILLED", "CANCELED"}

OnOrderReturns(q) ==
  /\ poll[q].at = "reporting"
  /\ LET o == poll[q].cursor
     IN  Walk(q, IF Completed(poll[q].snapshot[o]) THEN trackedOrderIds \ {o}
                                                   ELSE trackedOrderIds)
  /\ UNCHANGED <<exchange, request, orderPollTimer, crossed>>

OnOrderThrows(q) ==
  /\ poll[q].at = "reporting"
  /\ poll' = [poll EXCEPT ![q] = Idle]
  /\ UNCHANGED <<exchange, request, orders, trackedOrderIds, orderPollTimer, crossed>>

-----------------------------------------------------------------------------
(* start() arms the interval and stop() clears it; polls under way go on.  *)

StartOrderPolling ==
  /\ orderPollTimer' = TRUE
  /\ UNCHANGED <<exchange, request, orders, trackedOrderIds, poll, crossed>>

Stop ==
  /\ orderPollTimer' = FALSE
  /\ UNCHANGED <<exchange, request, orders, trackedOrderIds, poll, crossed>>

Next ==
  \/ \E o \in Order : Accept(o) \/ Progress(o)
  \/ \E o \in Order : Place(o) \/ Answered(o) \/ PlaceFails(o) \/ CancelOrder(o)
  \/ \E q \in Poll : PollTick(q) \/ GetOrders(q) \/ GetOrdersFails(q) \/ PollTurn(q)
  \/ \E q \in Poll : OnOrderReturns(q) \/ OnOrderThrows(q)
  \/ StartOrderPolling \/ Stop

Spec == Init /\ [][Next]_vars

\* The event loop fires the interval and handles what has been answered, the
\* strategy's callback settles, and the provider does not fail for ever.
Fairness ==
  /\ WF_vars(\E q \in Poll : PollTick(q))
  /\ \A q \in Poll : /\ SF_vars(GetOrders(q))
                     /\ WF_vars(PollTurn(q))
                     /\ WF_vars(OnOrderReturns(q) \/ OnOrderThrows(q))

FairSpec == Spec /\ Fairness

-----------------------------------------------------------------------------
(* Properties.                                                             *)

\* The state of a call is what its await allows, and only placed orders are known.
LiveTypeOK ==
  /\ exchange \in [Order -> OrderStatus \cup {"none"}]
  /\ request \in [Order -> OrderStatus \cup {"unsent", "sent", "failed"}]
  /\ orders \in [Order -> OrderStatus \cup {"none"}]
  /\ trackedOrderIds \in SUBSET Order
  /\ poll \in [Poll -> PollState]
  /\ orderPollTimer \in BOOLEAN
  /\ crossed \in BOOLEAN
  /\ \A o \in trackedOrderIds : Known(o)
  /\ \A q \in Poll : poll[q].at = "reporting" => poll[q].cursor \in Order

\* However late or out of order answers and polls arrive, the engine never
\* tells the strategy a status the exchange has not reached (live.ts:507, 779).
NeverAhead == \A o \in Order : Precedes(orders[o], exchange[o])

\* While no poll runs beside another request, an order that the engine does
\* not track any more has the status the exchange gave it, and for good
\* (live.ts:510, 764, 788): unless its answer said PARTIAL.
UntrackedIsSettled ==
  ListsOrders /\ ~crossed =>
    \A o \in Order : Known(o) /\ o \notin trackedOrderIds /\ request[o] # "PARTIAL" =>
                       orders[o] = exchange[o] /\ orders[o] \in Final

\* While no poll runs beside another request, what the strategy has been told of
\* an order is never taken back: an order that has ended does not become open
\* again, nor a filled one a cancelled one (live.ts:776).
NeverBack == [][~crossed => \A o \in Order : Precedes(orders[o], orders'[o])]_vars

\* A tracked order that has ended at the exchange is found out by some poll,
\* whatever the callbacks of this and other orders throw (live.ts:744-796).
Settles ==
  \A o \in Order :
    (o \in trackedOrderIds /\ exchange[o] \in Final)
      ~> (orders[o] = exchange[o] \/ ~orderPollTimer \/ crossed)

=============================================================================
