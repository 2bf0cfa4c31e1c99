---------------------------- MODULE GalesOrders ----------------------------
(***************************************************************************)
(* The order book a live gales grid keeps of itself                        *)
(* (quant-lab/strategies/grid/gales-simple.js, simMode false): grid levels *)
(* with at most one order each, the list openOrders with its index by grid *)
(* and its counter, the heartbeat that places, times out, cancels and      *)
(* recenters, order updates pushed by the host, and the state saved for a  *)
(* restart.  Placing and cancelling are requests: the strategy goes on     *)
(* with a pending id before the exchange has answered.                     *)
(***************************************************************************)
EXTENDS Integers, FiniteSets

CONSTANTS Width,           \* levels per grid, both sides together
          MaxGrid,         \* bound: grid ids ever given out (recenterings)
          MaxOrder,        \* bound: orders ever placed
          Qty,             \* the quantity of an order, in fills
          MaxActiveOrders, \* CONFIG.maxActiveOrders (0, no limit, is not modelled)
          FreezeTicks,     \* heartbeats frozen after cancelAllOrders (5)
          MaxCrashes       \* bound: restarts of the strategy

ASSUME OrdersAssumption ==
  /\ Width \in Nat \ {0} /\ MaxGrid \in Nat /\ Width <= MaxGrid
  /\ MaxOrder \in Nat /\ Qty \in Nat \ {0} /\ MaxActiveOrders \in Nat \ {0}
  /\ FreezeTicks \in Nat /\ MaxCrashes \in Nat

Grid  == 1..MaxGrid
Order == 1..MaxOrder
None  == 0

\* What the strategy knows an order by: nothing, the pending id the bridge
\* returned at once, or the id of the exchange.
Pending(n) == -n
Id == -MaxOrder..MaxOrder

Idle      == [st |-> "IDLE", oid |-> None]
Untracked == [id |-> None, grid |-> None, cum |-> 0]

VARIABLES
  state,    \* the strategy's state object
  saved,    \* the copy last given to bridge_stateSet
  tripped,  \* circuitBreakerState.tripped (forgotten by a restart)
  exchange, \* each order at the exchange: its grid, status and filled quantity
            \* ("cancelling": live, and the exchange is asked to cancel it)
  crashes   \* restarts so far

vars == <<state, saved, tripped, exchange, crashes>>

Tracked(s) == {n \in Order : s.open[n] # Untracked}

\* The local orders known by an id: getOpenOrder.
Known(s, id) == {n \in Tracked(s) : s.open[n].id = id}

\* The state of a fresh grid on the levels ls: initializeGrids.
Rebuilt(s, ls) ==
  [s EXCEPT !.levels = ls, !.grid = [g \in Grid |-> IF g \in ls THEN Idle ELSE s.grid[g]]]

NextLevels(s) == {g \in Grid : \E h \in s.levels : g = h + Width}

Init ==
  /\ state = [levels |-> 1..Width, grid |-> [g \in Grid |-> Idle],
              open |-> [n \in Order |-> Untracked], byGrid |-> [g \in Grid |-> None],
              count |-> 0, cancelling |-> FALSE, freeze |-> 0]
  /\ saved = state
  /\ tripped = FALSE
  /\ exchange = [n \in Order |-> [st |-> "none", grid |-> None, cum |-> 0]]
  /\ crashes = 0

-----------------------------------------------------------------------------
(* Bookkeeping *)

\* Orders leave openOrders and its index, and the counter stays as it was.
Remove_Uncounted(s, ns) ==
  [s EXCEPT !.open = [n \in Order |-> IF n \in ns THEN Untracked ELSE s.open[n]],
            !.byGrid = [g \in Grid |-> IF \E n \in ns : s.open[n].grid = g
                                       THEN None ELSE s.byGrid[g]]]

\* Mutant: the index keeps the removed orders.
Remove_Indexed(s, ns) ==
  [s EXCEPT !.open = [n \in Order |-> IF n \in ns THEN Untracked ELSE s.open[n]],
            !.count = s.count - Cardinality(ns)]

\* Orders leave openOrders, its index and its counter together.
Remove(s, ns) ==
  [s EXCEPT !.open = [n \in Order |-> IF n \in ns THEN Untracked ELSE s.open[n]],
            !.byGrid = [g \in Grid |-> IF \E n \in ns : s.open[n].grid = g
                                       THEN None ELSE s.byGrid[g]],
            !.count = s.count - Cardinality(ns)]

\* Mutant: only the grids without an order are put right.
Reconcile_FreesOnly(s) ==
  [s EXCEPT !.grid = [g \in Grid |->
     IF /\ g \in s.levels /\ s.grid[g].st = "ACTIVE"
        /\ ~\E n \in Tracked(s) : s.open[n].grid = g
     THEN Idle ELSE s.grid[g]]]

\* A grid takes over what openOrders says of it, and is freed when that is
\* nothing: reconcileGridOrderLinks.
Reconcile(s) ==
  [s EXCEPT !.grid = [g \in Grid |->
     IF g \notin s.levels THEN s.grid[g]
     ELSE IF \E n \in Tracked(s) : s.open[n].grid = g
          THEN [st |-> "ACTIVE",
                oid |-> s.open[CHOOSE n \in Tracked(s) : s.open[n].grid = g].id]
          ELSE IF s.grid[g].st = "ACTIVE" THEN Idle ELSE s.grid[g]]]

\* cancelOrder on the grids gs.  Where the bridge throws (fails) the grid is
\* IDLE all the same, keeping its order id, and the order stays in openOrders.
Cancel(s, gs, fails) ==
  LET gone == {n \in Tracked(s) : \E g \in gs \ fails : s.open[n].id = s.grid[g].oid}
  IN [Remove(s, gone) EXCEPT !.grid =
       [g \in Grid |-> CASE g \in gs \ fails -> Idle
                         [] g \in fails -> [s.grid[g] EXCEPT !.st = "IDLE"]
                         [] OTHER -> s.grid[g]]]

\* The exchange once the cancels for the grids gs have reached it: the host maps
\* a pending id only when the exchange has answered, and drops a cancel it cannot
\* map.
Reached(s, gs) ==
  [n \in Order |->
     IF exchange[n].st = "live" /\ \E g \in gs : s.grid[g].oid \in {n, Pending(n)}
     THEN [exchange[n] EXCEPT !.st = "cancelling"] ELSE exchange[n]]

Active(s) == {g \in s.levels : s.grid[g].st = "ACTIVE" /\ s.grid[g].oid # None}

\* cancelAllOrders: freezes placing, then cancels grid by grid.
CancelAll(s, fails) ==
  [Cancel(s, Active(s), fails) EXCEPT !.cancelling = TRUE, !.freeze = 0]

-----------------------------------------------------------------------------
(* The heartbeat: st_heartbeat, after the grid has been initialised.       *)

\* Mutant: what is saved is the state the turn began with.
SavesState_Early == saved' = state

\* saveState: the state as the turn leaves it.
SavesState == saved' = state'

\* One more tick since the last cancelAllOrders, counted while it is looked at.
Ticked == [state EXCEPT !.freeze = IF state.cancelling /\ @ < FreezeTicks THEN @ + 1 ELSE @]

\* The circuit breaker trips: all orders are cancelled, the heartbeat ends.
\* Only a cancel that succeeds saves the state.
HeartbeatTrips ==
  \E fails \in SUBSET Active(state) :
    /\ ~tripped
    /\ tripped' = TRUE
    /\ state' = CancelAll(Ticked, fails)
    /\ IF fails = Active(state) THEN UNCHANGED saved ELSE SavesState
    /\ exchange' = Reached(state, Active(state) \ fails)
    /\ UNCHANGED crashes

\* Nothing is traded while the breaker is tripped.  The heartbeat that finds it
\* recovered ends in an exception (currentNetEq is read before its declaration).
HeartbeatHalted ==
  /\ tripped
  /\ tripped' \in BOOLEAN
  /\ state' = Ticked
  /\ UNCHANGED <<saved, exchange, crashes>>

\* Another hard block of checkCircuitBreaker, or orders being cancelled.
HeartbeatFrozen ==
  /\ ~tripped
  /\ state' = Ticked
  /\ UNCHANGED <<saved, tripped, exchange, crashes>>

Thawed == ~state.cancelling \/ Ticked.freeze >= FreezeTicks

\* The heartbeat gets as far as the grid: the freeze, if any, is over.
Awake == Reconcile([Ticked EXCEPT !.cancelling = FALSE, !.freeze = 0])

\* The centre has drifted: every order is cancelled, new levels replace the
\* old ones (whose ids are never used again).
Recenter ==
  /\ ~tripped /\ Thawed
  /\ NextLevels(state) # {}
  /\ LET awake == Awake IN
     \E fails \in SUBSET Active(awake) :
       /\ state' = Rebuilt(CancelAll(awake, fails), NextLevels(state))
       /\ exchange' = Reached(awake, Active(awake) \ fails)
  /\ SavesState
  /\ UNCHANGED <<tripped, crashes>>

\* The centre has drifted against the lean of the grid: it is not followed, and the
\* heartbeat ends there, with nothing policed or saved.
HeartbeatBarred ==
  /\ ~tripped /\ Thawed
  /\ state' = Awake
  /\ UNCHANGED <<saved, tripped, exchange, crashes>>

\* applyActiveOrderPolicy: the orders of the grids drop timed out or drifted
\* away; each is cancelled, and leaves openOrders even if its cancel throws.
Policed(s, drop, fails) ==
  LET c == Cancel(s, drop, fails)
  IN Remove(c, {n \in Tracked(c) : \E g \in drop : c.open[n].id = s.grid[g].oid})

\* shouldPlaceOrder and the double check of placeOrder, as far as the book goes.
MayPlace(s, g) == s.byGrid[g] = None /\ s.count < MaxActiveOrders

\* placeOrder: the order n is on its way, known by a pending id.  Left out are the
\* query by orderLinkId (3836), since no host has bridge_getOpenOrders, and the
\* returns at prices or quantities that are not positive (3815).
Placed(s, g, n) ==
  [s EXCEPT !.grid[g] = [st |-> "ACTIVE", oid |-> Pending(n)],
            !.open[n] = [id |-> Pending(n), grid |-> g, cum |-> 0],
            !.byGrid[g] = n,
            !.count = @ + 1]

Unsent == {n \in Order : exchange[n].st = "none" /\ \A m \in 1..(n-1) : exchange[m].st # "none"}

\* The ordinary heartbeat: orders are policed; the nearest of the levels found
\* IDLE may get an order (price, position and cooldown decide).
HeartbeatWorks ==
  /\ ~tripped /\ Thawed
  /\ LET awake == Awake IN
     \E drop \in SUBSET Active(awake) : \E fails \in SUBSET drop :
       LET s == Policed(awake, drop, fails)
           e == Reached(awake, drop \ fails)
       IN \/ state' = s /\ exchange' = e
          \/ \E g \in {h \in awake.levels : awake.grid[h].st = "IDLE"}, n \in Unsent :
               /\ MayPlace(s, g)
               /\ state' = Placed(s, g, n)
               /\ exchange' = [e EXCEPT ![n].st = "sent", ![n].grid = g]
  /\ SavesState
  /\ UNCHANGED <<tripped, crashes>>

-----------------------------------------------------------------------------
(* Order updates.  The host pushes what the exchange says of an order, with *)
(* its grid, at any time and as often as it likes: st_onOrderUpdate.        *)

\* The grid, and the local order it knew, take the exchange's id.
Mapped(s, n) ==
  LET g == exchange[n].grid IN
  IF g \notin s.levels \/ s.grid[g].oid = n THEN s
  ELSE [s EXCEPT !.grid[g].oid = n,
                 !.open = [m \in Order |-> IF m \in Known(s, s.grid[g].oid)
                                           THEN [s.open[m] EXCEPT !.id = n] ELSE s.open[m]]]

\* Mutant: a final order leaves openOrders without being counted down.
Noted_Leaks(s, n, final) ==
  IF final THEN Remove_Uncounted(s, Known(s, n))
  ELSE [s EXCEPT !.open = [m \in Order |-> IF m \in Known(s, n)
                                           THEN [s.open[m] EXCEPT !.cum = exchange[n].cum]
                                           ELSE s.open[m]]]

\* onOrderUpdate: a final order leaves the book, another has its fills noted.
Noted(s, n, final) ==
  IF final THEN Remove(s, Known(s, n))
  ELSE [s EXCEPT !.open = [m \in Order |-> IF m \in Known(s, n)
                                           THEN [s.open[m] EXCEPT !.cum = exchange[n].cum]
                                           ELSE s.open[m]]]

\* A cancelled order may be reported 'Cancelled', which the strategy, comparing
\* with 'Canceled', does not take for final.  An update with new fills throws
\* (newCenter is not defined) before the id is mapped and the state saved.
OrderUpdate(n) ==
  \E final \in BOOLEAN :
    /\ exchange[n].st \in {"live", "cancelling", "filled", "cancelled"}
    /\ exchange[n].st = "filled" => final
    /\ exchange[n].st \in {"live", "cancelling"} => ~final
    /\ IF \E m \in Known(state, n) : exchange[n].cum > state.open[m].cum
       THEN state' = Noted(state, n, final) /\ UNCHANGED saved
       ELSE state' = Mapped(Noted(state, n, final), n) /\ SavesState
    /\ UNCHANGED <<tripped, exchange, crashes>>

-----------------------------------------------------------------------------
(* The exchange, and a restart of the strategy *)

Answers(n) ==
  /\ exchange[n].st = "sent"
  /\ \E st \in {"live", "rejected"} : exchange' = [exchange EXCEPT ![n].st = st]
  /\ UNCHANGED <<state, saved, tripped, crashes>>

Fills(n) ==
  /\ exchange[n].st \in {"live", "cancelling"}
  /\ exchange' = [exchange EXCEPT ![n].cum = @ + 1,
                                  ![n].st = IF exchange[n].cum + 1 = Qty THEN "filled" ELSE @]
  /\ UNCHANGED <<state, saved, tripped, crashes>>

\* By request, or by the exchange itself.
Cancels(n) ==
  /\ exchange[n].st \in {"live", "cancelling"}
  /\ exchange' = [exchange EXCEPT ![n].st = "cancelled"]
  /\ UNCHANGED <<state, saved, tripped, crashes>>

\* loadState: the index and the counter are rebuilt from openOrders.
Loaded(s) ==
  [s EXCEPT !.byGrid = [g \in Grid |->
                          IF \E n \in Tracked(s) : s.open[n].grid = g
                          THEN CHOOSE n \in Tracked(s) : s.open[n].grid = g ELSE None],
            !.count = Cardinality(Tracked(s))]

Restart ==
  /\ crashes < MaxCrashes
  /\ crashes' = crashes + 1
  /\ state' = Loaded(saved)
  /\ tripped' = FALSE
  /\ UNCHANGED <<saved, exchange>>

Next ==
  \/ HeartbeatTrips \/ HeartbeatHalted \/ HeartbeatFrozen \/ HeartbeatBarred
  \/ Recenter \/ HeartbeatWorks \/ Restart
  \/ \E n \in Order : OrderUpdate(n) \/ Answers(n) \/ Fills(n) \/ Cancels(n)

Spec == Init /\ [][Next]_vars

\* The heartbeat that drops an order: one comes to find it timed out.
Drops(n) == n \in Tracked(state) /\ HeartbeatWorks /\ n \notin Tracked(state')

\* Heartbeats come every 5 s, neither the breaker nor a drift against the lean holds
\* them all, and an order that stays gets older than maxOrderAgeSec: nothing is
\* promised of the exchange's answers or of the host's updates.
Fairness ==
  /\ \A n \in Order : SF_vars(Drops(n))
  /\ WF_vars(HeartbeatHalted \/ HeartbeatFrozen)

FairSpec == Spec /\ Fairness

-----------------------------------------------------------------------------
(* Properties *)

Entry == [id : Id, grid : Grid \cup {None}, cum : 0..Qty]

State == [levels : SUBSET Grid, grid : [Grid -> [st : {"IDLE", "ACTIVE"}, oid : Id]],
          open : [Order -> Entry], byGrid : [Grid -> Order \cup {None}],
          count : Nat, cancelling : BOOLEAN, freeze : 0..FreezeTicks]

\* Types; the counter of active orders never goes below zero.
OrdersTypeOK ==
  /\ state \in State /\ saved \in State
  /\ tripped \in BOOLEAN
  /\ exchange \in [Order -> [st : {"none", "sent", "live", "cancelling", "filled", "cancelled", "rejected"},
                             grid : Grid \cup {None}, cum : 0..Qty]]
  /\ crashes \in 0..MaxCrashes

\* The index by grid names exactly the orders of openOrders: so no grid ever has
\* two of them, whatever cancels failed and whatever ids were mapped to which
\* order, and an update finds at most one order by its id.
IndexAgrees ==
  /\ \A n \in Tracked(state) : state.open[n].grid \in Grid
                               /\ state.byGrid[state.open[n].grid] = n
  /\ \A g \in Grid : state.byGrid[g] # None =>
       state.byGrid[g] \in Tracked(state) /\ state.open[state.byGrid[g]].grid = g
  /\ \A n, m \in Tracked(state) : state.open[n].id = state.open[m].id => n = m

\* The O(1) counter counts openOrders, and so the limit of active orders holds
\* for the orders themselves.
CountAgrees ==
  /\ state.count = Cardinality(Tracked(state))
  /\ Cardinality(Tracked(state)) <= MaxActiveOrders

\* The index by grid, which placing looks at, keeps what a book of orders promises:
\* however cancels fail, ids are mapped, grids recenter and restarts reload it, an
\* order enters once, at a level without one and below the limit, and a restart
\* finds every order listed when it came.
Book == INSTANCE OrderBook WITH
  book <- state.byGrid, saved <- saved.byGrid,
  used <- {n \in Order : exchange[n].st # "none"}, Limit <- MaxActiveOrders

KeepsBook == Book!Spec

\* An order the exchange has done with is dropped by the level that holds it,
\* even when the update that said so was lost, came too early to be matched, was
\* spelled differently, or was handled and not saved before a restart.
Done(n) == exchange[n].st \in {"filled", "cancelled", "rejected"}

DoneIsDropped ==
  \A n \in Order :
    (n \in Tracked(state) /\ Done(n) /\ state.open[n].grid \in state.levels)
      ~> (n \notin Tracked(state) \/ state.open[n].grid \notin state.levels)

\* The double checks before placing (shouldPlaceOrder and placeOrder: no second
\* order for a grid even when the grid's own state was lost) keep a grid from
\* having two live orders at the exchange that it is not asked to cancel.
OneLivePerGrid ==
  \A n, m \in Order :
    exchange[n].st = "live" /\ exchange[m].st = "live" /\ exchange[n].grid = exchange[m].grid
      => n = m

=============================================================================
