------------------------- MODULE GalesOrders_proofs -------------------------
(***************************************************************************)
(* Proofs about GalesOrders, for any number of levels, orders, fills and   *)
(* restarts: its types, its index and its counter, and that the index is   *)
(* an OrderBook.                                                           *)
(***************************************************************************)
EXTENDS GalesOrders, FiniteSetTheorems, TLAPS

\* The order k of the exchange e is the one that id stands for, on grid g.
Names(e, id, g, k) == id \in {k, -k} /\ e[k].grid = g

\* The list of a strategy's state s, against the exchange e.
ListOK(s, e) ==
  \A n \in Tracked(s) :
    /\ s.open[n].grid \in Grid
    /\ s.byGrid[s.open[n].grid] = n
    /\ e[n].st # "none"
    /\ \E k \in Order : Names(e, s.open[n].id, s.open[n].grid, k)

IndexOK(s) ==
  \A g \in Grid : s.byGrid[g] # None => s.byGrid[g] \in Tracked(s)
                                        /\ s.open[s.byGrid[g]].grid = g

\* A grid holds no order id but of an order placed for it.
GridsOK(s, e) ==
  \A g \in Grid : s.grid[g].oid # None => \E k \in Order : Names(e, s.grid[g].oid, g, k)

Held(e, grid) ==
  /\ grid \in [Grid -> [st : {"IDLE", "ACTIVE"}, oid : Id]]
  /\ \A g \in Grid : grid[g].oid # None => \E k \in Order : Names(e, grid[g].oid, g, k)

\* The state s with other grids, levels and freeze.
Regrid(s, grid, levels, cancelling, freeze) ==
  [s EXCEPT !.grid = grid, !.levels = levels, !.cancelling = cancelling, !.freeze = freeze]

CountOK(s) == s.count = Cardinality(Tracked(s)) /\ s.count <= MaxActiveOrders

Sound(s, e) == s \in State /\ ListOK(s, e) /\ IndexOK(s) /\ GridsOK(s, e) /\ CountOK(s)

\* From e to f the exchange forgets no order, and changes the grid of none.
Grows(e, f) ==
  \A k \in Order : /\ e[k].st # "none" => f[k].st # "none"
                   /\ e[k].grid \in Grid => f[k].grid = e[k].grid

\* An order not placed has no grid, and one that may be filled is not full.
Unplaced(e) ==
  \A k \in Order : /\ e[k].st = "none" => e[k].grid = None
                   /\ e[k].st \in {"none", "sent", "live", "cancelling"} => e[k].cum < Qty

Inv == OrdersTypeOK /\ Unplaced(exchange) /\ Sound(state, exchange) /\ Sound(saved, exchange)

-----------------------------------------------------------------------------
LEMMA TrackedFinite ==
  ASSUME NEW s
  PROVE  /\ IsFiniteSet(Tracked(s)) /\ Cardinality(Tracked(s)) \in Nat
         /\ Tracked(s) \subseteq Order
<1>1. IsFiniteSet(Order)
  BY OrdersAssumption, FS_Interval DEF Order
<1>2. Tracked(s) \subseteq Order
  BY DEF Tracked
<1> QED
  BY <1>1, <1>2, FS_Subset, FS_CardinalityType

LEMMA SoundGrows ==
  ASSUME NEW s, NEW e, NEW f, Sound(s, e), Grows(e, f)
  PROVE  Sound(s, f)
<1>1. ListOK(s, f)
  <2> SUFFICES ASSUME NEW n \in Tracked(s)
               PROVE  /\ s.open[n].grid \in Grid /\ s.byGrid[s.open[n].grid] = n
                      /\ f[n].st # "none"
                      /\ \E k \in Order : Names(f, s.open[n].id, s.open[n].grid, k)
    BY DEF ListOK
  <2>1. n \in Order
    BY DEF Tracked
  <2>2. PICK k \in Order : Names(e, s.open[n].id, s.open[n].grid, k)
    BY DEF Sound, ListOK
  <2> QED
    BY <2>1, <2>2 DEF Sound, ListOK, Grows, Names
<1>2. GridsOK(s, f)
  BY DEF Sound, GridsOK, Grows, Names
<1> QED
  BY <1>1, <1>2 DEF Sound

LEMMA RemoveSound ==
  ASSUME NEW s, NEW e, Sound(s, e), NEW ns \in SUBSET Tracked(s)
  PROVE  /\ Sound(Remove(s, ns), e) /\ Remove(s, ns).grid = s.grid
         /\ Remove(s, ns).levels = s.levels
         /\ Tracked(Remove(s, ns)) = Tracked(s) \ ns
         /\ Remove(s, ns).open = [n \in Order |-> IF n \in ns THEN Untracked ELSE s.open[n]]
<1> DEFINE r == Remove(s, ns)
           o == [n \in Order |-> IF n \in ns THEN Untracked ELSE s.open[n]]
           b == [g \in Grid |-> IF \E n \in ns : s.open[n].grid = g THEN None ELSE s.byGrid[g]]
           c == s.count - Cardinality(ns)
<1>1. /\ s \in State /\ s.open \in [Order -> Entry] /\ s.byGrid \in [Grid -> Order \cup {None}]
      /\ s.count \in Nat
  BY DEF Sound, State
<1>2. /\ r.open = o /\ r.byGrid = b /\ r.count = c /\ r.grid = s.grid /\ r.levels = s.levels
      /\ r.cancelling = s.cancelling /\ r.freeze = s.freeze
  BY <1>1 DEF Remove, State
<1>3. Tracked(r) = Tracked(s) \ ns
  BY <1>2 DEF Tracked
<1>4. CountOK(r)
  <2>1. Cardinality(Tracked(s) \ ns) = Cardinality(Tracked(s)) - Cardinality(Tracked(s) \cap ns)
    BY TrackedFinite, FS_Difference
  <2>2. Tracked(s) \cap ns = ns
    OBVIOUS
  <2>3. Cardinality(Tracked(s) \ ns) = c
    BY <2>1, <2>2 DEF Sound, CountOK
  <2>4. Cardinality(Tracked(r)) \in Nat /\ Cardinality(Tracked(r)) = c
    BY <1>3, <2>3, TrackedFinite
  <2>5. Cardinality(ns) \in Nat
    BY TrackedFinite, FS_Subset, FS_CardinalityType
  <2> QED
    BY <1>1, <1>2, <2>4, <2>5, OrdersAssumption DEF Sound, CountOK
<1>5. r \in State
  <2>1. Untracked \in Entry
    BY OrdersAssumption DEF Untracked, Entry, Id, None
  <2>2. o \in [Order -> Entry] /\ b \in [Grid -> Order \cup {None}]
    BY <1>1, <2>1
  <2>3. c \in Nat
    BY <1>2, <1>4, TrackedFinite DEF CountOK
  <2> HIDE DEF o, b, c
  <2>4. r = [s EXCEPT !.open = o, !.byGrid = b, !.count = c]
    BY DEF Remove, o, b, c
  <2> QED
    BY <1>1, <2>2, <2>3, <2>4 DEF State
<1>6. ListOK(r, e)
  <2> SUFFICES ASSUME NEW n \in Tracked(r)
               PROVE  /\ r.open[n].grid \in Grid /\ r.byGrid[r.open[n].grid] = n
                      /\ e[n].st # "none"
                      /\ \E k \in Order : Names(e, r.open[n].id, r.open[n].grid, k)
    BY DEF ListOK
  <2>1. n \in Tracked(s) /\ n \notin ns /\ r.open[n] = s.open[n] /\ n \in Order
    BY <1>2, <1>3, TrackedFinite
  <2>2. \A m \in ns : s.open[m].grid # s.open[n].grid
    BY <2>1 DEF Sound, ListOK
  <2> QED
    BY <1>2, <2>1, <2>2 DEF Sound, ListOK
<1>7. IndexOK(r)
  <2> SUFFICES ASSUME NEW g \in Grid, r.byGrid[g] # None
               PROVE  r.byGrid[g] \in Tracked(r) /\ r.open[r.byGrid[g]].grid = g
    BY DEF IndexOK
  <2>1. r.byGrid[g] = s.byGrid[g] /\ \A m \in ns : s.open[m].grid # g
    BY <1>2
  <2>2. s.byGrid[g] \in Tracked(s) /\ s.open[s.byGrid[g]].grid = g
    BY <2>1 DEF Sound, IndexOK
  <2> QED
    BY <1>2, <1>3, <2>1, <2>2, TrackedFinite
<1>8. GridsOK(r, e)
  BY <1>2 DEF GridsOK, Sound
<1> QED
  BY <1>2, <1>3, <1>4, <1>5, <1>6, <1>7, <1>8 DEF Sound

\* Only the grids change: nothing else of the state s does.
LEMMA GridsSound ==
  ASSUME NEW s, NEW e, Sound(s, e), NEW grid, Held(e, grid),
         NEW levels \in SUBSET Grid, NEW cancelling \in BOOLEAN, NEW freeze \in 0..FreezeTicks
  PROVE  LET r == Regrid(s, grid, levels, cancelling, freeze)
         IN Sound(r, e) /\ r.open = s.open /\ r.grid = grid /\ r.levels = levels
<1> DEFINE r == Regrid(s, grid, levels, cancelling, freeze)
<1>1. s \in State
  BY DEF Sound
<1>2. /\ r.open = s.open /\ r.byGrid = s.byGrid /\ r.count = s.count /\ r.grid = grid
      /\ r.levels = levels
  BY <1>1 DEF State, Regrid
<1>3. r \in State
  BY <1>1 DEF State, Regrid, Held
<1>4. Tracked(r) = Tracked(s)
  BY <1>2 DEF Tracked
<1> HIDE DEF r
<1>5. Sound(r, e)
  BY <1>2, <1>3, <1>4 DEF Sound, ListOK, IndexOK, GridsOK, CountOK, Held
<1> QED
  BY <1>2, <1>5 DEF r

LEMMA GridSound ==
  ASSUME NEW s, NEW e, Sound(s, e), NEW grid, Held(e, grid)
  PROVE  LET r == [s EXCEPT !.grid = grid]
         IN Sound(r, e) /\ r.open = s.open /\ r.grid = grid /\ r.levels = s.levels
<1>1. /\ s \in State /\ s.levels \in SUBSET Grid /\ s.cancelling \in BOOLEAN
      /\ s.freeze \in 0..FreezeTicks
  BY DEF Sound, State
<1>2. [s EXCEPT !.grid = grid] = Regrid(s, grid, s.levels, s.cancelling, s.freeze)
  BY <1>1 DEF State, Regrid
<1> QED
  BY <1>1, <1>2, GridsSound

\* Every grid of a sound state is typed and holds an id of its own.
LEMMA GridsOf ==
  ASSUME NEW s, NEW e, Sound(s, e)
  PROVE  /\ Held(e, s.grid) /\ s.grid \in [Grid -> [st : {"IDLE", "ACTIVE"}, oid : Id]]
         /\ s.levels \in SUBSET Grid /\ s.open \in [Order -> Entry]
         /\ \A g \in Grid : s.grid[g].oid # None => \E k \in Order : Names(e, s.grid[g].oid, g, k)
         /\ Idle \in [st : {"IDLE", "ACTIVE"}, oid : Id]
<1>1. Idle \in [st : {"IDLE", "ACTIVE"}, oid : Id]
  BY OrdersAssumption DEF Idle, Id, None
<1> QED
  BY <1>1 DEF Sound, State, GridsOK, Held

LEMMA ReconcileSound ==
  ASSUME NEW s, NEW e, Sound(s, e)
  PROVE  Sound(Reconcile(s), e) /\ Reconcile(s).open = s.open /\ Reconcile(s).levels = s.levels
<1> DEFINE entry(g) == CHOOSE n \in Tracked(s) : s.open[n].grid = g
           active(g) == [st |-> "ACTIVE", oid |-> s.open[entry(g)].id]
           grid == [g \in Grid |->
             IF g \notin s.levels THEN s.grid[g]
             ELSE IF \E n \in Tracked(s) : s.open[n].grid = g THEN active(g)
                  ELSE IF s.grid[g].st = "ACTIVE" THEN Idle ELSE s.grid[g]]
<1>1. ASSUME NEW g \in Grid, \E n \in Tracked(s) : s.open[n].grid = g
      PROVE  /\ active(g) \in [st : {"IDLE", "ACTIVE"}, oid : Id]
             /\ \E k \in Order : Names(e, active(g).oid, g, k)
  <2>1. entry(g) \in Tracked(s) /\ s.open[entry(g)].grid = g
    BY <1>1
  <2>2. s.open[entry(g)].id \in Id
    BY <2>1, GridsOf, TrackedFinite DEF Entry
  <2>3. \E k \in Order : Names(e, s.open[entry(g)].id, g, k)
    BY <2>1 DEF Sound, ListOK
  <2> QED
    BY <2>2, <2>3
<1> HIDE DEF active, entry
<1>2. grid \in [Grid -> [st : {"IDLE", "ACTIVE"}, oid : Id]]
  BY <1>1, GridsOf
<1>3. Held(e, grid)
  BY <1>1, <1>2, GridsOf DEF Idle, Held
<1>4. Reconcile(s) = [s EXCEPT !.grid = grid]
  BY DEF Reconcile, grid, active, entry
<1> HIDE DEF grid
<1> QED
  BY <1>3, <1>4, GridSound

LEMMA CancelSound ==
  ASSUME NEW s, NEW e, Sound(s, e), NEW gs \in SUBSET Grid, NEW fails \in SUBSET gs
  PROVE  Sound(Cancel(s, gs, fails), e) /\ Cancel(s, gs, fails).levels = s.levels
<1> DEFINE gone == {n \in Tracked(s) : \E g \in gs \ fails : s.open[n].id = s.grid[g].oid}
           grid == [g \in Grid |-> CASE g \in gs \ fails -> Idle
                                     [] g \in fails -> [s.grid[g] EXCEPT !.st = "IDLE"]
                                     [] OTHER -> s.grid[g]]
           r == Remove(s, gone)
<1>1. Sound(r, e) /\ r.levels = s.levels /\ r.grid = s.grid
  BY RemoveSound
<1>2. \A g \in Grid : grid[g] \in [st : {"IDLE", "ACTIVE"}, oid : Id]
                       /\ (grid[g].oid = s.grid[g].oid \/ grid[g].oid = None)
  <2> SUFFICES ASSUME NEW g \in Grid
               PROVE  grid[g] \in [st : {"IDLE", "ACTIVE"}, oid : Id]
                      /\ (grid[g].oid = s.grid[g].oid \/ grid[g].oid = None)
    OBVIOUS
  <2>1. s.grid[g] \in [st : {"IDLE", "ACTIVE"}, oid : Id] /\ Idle.oid = None
    BY GridsOf DEF Idle
  <2>2. CASE g \in gs \ fails
    BY <2>1, <2>2, GridsOf
  <2>3. CASE g \in fails
    BY <2>1, <2>3
  <2>4. CASE g \notin gs
    BY <2>1, <2>4
  <2> QED
    BY <2>2, <2>3, <2>4
<1>3. grid \in [Grid -> [st : {"IDLE", "ACTIVE"}, oid : Id]]
  BY <1>2
<1>4. Held(e, grid)
  BY <1>2, <1>3, GridsOf DEF Held
<1>5. Cancel(s, gs, fails) = [r EXCEPT !.grid = grid]
  BY DEF Cancel
<1> HIDE DEF r, grid
<1> QED
  BY <1>1, <1>4, <1>5, GridSound

LEMMA CancelAllSound ==
  ASSUME NEW s, NEW e, Sound(s, e), NEW fails \in SUBSET Active(s)
  PROVE  Sound(CancelAll(s, fails), e) /\ CancelAll(s, fails).levels = s.levels
<1> DEFINE c == Cancel(s, Active(s), fails)
<1>1. Active(s) \in SUBSET Grid
  BY GridsOf DEF Active
<1>2. Sound(c, e) /\ c.levels = s.levels
  BY <1>1, CancelSound
<1>3. c \in State /\ 0 \in 0..FreezeTicks
  BY <1>2, OrdersAssumption DEF Sound
<1>4. CancelAll(s, fails) = [c EXCEPT !.cancelling = TRUE, !.freeze = 0]
  BY DEF CancelAll
<1> HIDE DEF c
<1>5. CancelAll(s, fails) = Regrid(c, c.grid, c.levels, TRUE, 0)
  BY <1>3, <1>4 DEF State, Regrid
<1>6. Held(e, c.grid) /\ c.levels \in SUBSET Grid /\ TRUE \in BOOLEAN
  BY <1>2, GridsOf
<1>7. Sound(Regrid(c, c.grid, c.levels, TRUE, 0), e)
  BY <1>2, <1>3, <1>6, GridsSound
<1>8. Regrid(c, c.grid, c.levels, TRUE, 0).levels = c.levels
  BY <1>3 DEF State, Regrid
<1> QED
  BY <1>2, <1>5, <1>7, <1>8

LEMMA TickedSound ==
  ASSUME Sound(state, exchange)
  PROVE  Sound(Ticked, exchange) /\ Sound(Awake, exchange)
<1> DEFINE f == IF state.cancelling /\ state.freeze < FreezeTicks THEN state.freeze + 1
                ELSE state.freeze
<1>1. state \in State /\ state.freeze \in 0..FreezeTicks /\ state.cancelling \in BOOLEAN
  BY DEF Sound, State
<1>2. f \in 0..FreezeTicks /\ 0 \in 0..FreezeTicks
  BY <1>1, OrdersAssumption
<1>3. Ticked = [state EXCEPT !.freeze = f]
  BY <1>1 DEF Ticked, State
<1> HIDE DEF f
<1>4. /\ Ticked = Regrid(state, state.grid, state.levels, state.cancelling, f)
      /\ [Ticked EXCEPT !.cancelling = FALSE, !.freeze = 0]
           = Regrid(state, state.grid, state.levels, FALSE, 0)
  BY <1>1, <1>3 DEF State, Regrid
<1>5. Held(exchange, state.grid) /\ state.levels \in SUBSET Grid /\ FALSE \in BOOLEAN
  BY GridsOf
<1>6. Sound(Ticked, exchange)
  BY <1>1, <1>2, <1>4, <1>5, GridsSound
<1>7. Sound([Ticked EXCEPT !.cancelling = FALSE, !.freeze = 0], exchange)
  <2>1. Sound(Regrid(state, state.grid, state.levels, FALSE, 0), exchange)
    BY <1>2, <1>5, GridsSound
  <2> QED
    BY <1>4, <2>1
<1> QED
  BY <1>6, <1>7, ReconcileSound DEF Awake

LEMMA RebuiltSound ==
  ASSUME NEW s, NEW e, Sound(s, e), NEW ls \in SUBSET Grid
  PROVE  Sound(Rebuilt(s, ls), e)
<1> DEFINE grid == [g \in Grid |-> IF g \in ls THEN Idle ELSE s.grid[g]]
<1>1. s \in State /\ s.cancelling \in BOOLEAN /\ s.freeze \in 0..FreezeTicks
  BY DEF Sound, State
<1>2. Held(e, grid)
  BY GridsOf DEF Held, Idle
<1>3. Rebuilt(s, ls) = Regrid(s, grid, ls, s.cancelling, s.freeze)
  BY <1>1 DEF Rebuilt, Regrid, State
<1> HIDE DEF grid
<1> QED
  BY <1>1, <1>2, <1>3, GridsSound

LEMMA PolicedSound ==
  ASSUME NEW s, NEW e, Sound(s, e), NEW drop \in SUBSET Active(s), NEW fails \in SUBSET drop
  PROVE  Sound(Policed(s, drop, fails), e)
<1>1. drop \in SUBSET Grid
  BY GridsOf DEF Active
<1> DEFINE c == Cancel(s, drop, fails)
<1>2. Sound(c, e)
  BY <1>1, CancelSound
<1> HIDE DEF c
<1> DEFINE ns == {n \in Tracked(c) : \E g \in drop : c.open[n].id = s.grid[g].oid}
<1>3. ns \in SUBSET Tracked(c)
  OBVIOUS
<1>4. Policed(s, drop, fails) = Remove(c, ns)
  BY DEF Policed, c
<1> HIDE DEF ns
<1>5. Sound(Remove(c, ns), e)
  BY <1>2, <1>3, RemoveSound
<1> QED
  BY <1>4, <1>5

\* An order sent for a grid without one.
LEMMA PlacedSound ==
  ASSUME NEW s, NEW e, Sound(s, e), NEW g \in Grid, NEW n \in Order, NEW f,
         e[n].st = "none", f[n].st # "none", f[n].grid = g, Grows(e, f), MayPlace(s, g)
  PROVE  Sound(Placed(s, g, n), f)
<1> DEFINE entry == [id |-> Pending(n), grid |-> g, cum |-> 0]
           r == Placed(s, g, n)
<1>1. Sound(s, f)
  BY SoundGrows
<1>2. n \notin Tracked(s)
  BY DEF Sound, ListOK
<1>3. /\ s \in State /\ s.grid \in [Grid -> [st : {"IDLE", "ACTIVE"}, oid : Id]]
      /\ s.open \in [Order -> Entry] /\ s.byGrid \in [Grid -> Order \cup {None}]
      /\ s.count \in Nat
  BY DEF Sound, State
<1>4. Pending(n) \in Id /\ entry \in Entry /\ entry # Untracked /\ entry.grid = g
  BY OrdersAssumption DEF Pending, Id, Order, Entry, Untracked, None, Grid
<1>5. /\ r.grid = [s.grid EXCEPT ![g] = [st |-> "ACTIVE", oid |-> Pending(n)]]
      /\ r.open = [s.open EXCEPT ![n] = entry] /\ r.byGrid = [s.byGrid EXCEPT ![g] = n]
      /\ r.count = s.count + 1 /\ r.levels = s.levels /\ r.cancelling = s.cancelling
      /\ r.freeze = s.freeze
  BY <1>3 DEF Placed, State
<1>6. Names(f, Pending(n), g, n)
  BY DEF Names, Pending
<1>7. r \in State
  <2> DEFINE grid == [s.grid EXCEPT ![g] = [st |-> "ACTIVE", oid |-> Pending(n)]]
             open == [s.open EXCEPT ![n] = entry]
             byGrid == [s.byGrid EXCEPT ![g] = n]
  <2>1. /\ grid \in [Grid -> [st : {"IDLE", "ACTIVE"}, oid : Id]] /\ open \in [Order -> Entry]
        /\ byGrid \in [Grid -> Order \cup {None}] /\ s.count + 1 \in Nat
    BY <1>3, <1>4
  <2>2. r = [s EXCEPT !.grid = grid, !.open = open, !.byGrid = byGrid, !.count = s.count + 1]
    BY <1>3 DEF Placed, State
  <2> HIDE DEF grid, open, byGrid, r
  <2> QED
    BY <1>3, <2>1, <2>2 DEF State
<1>8. Tracked(r) = Tracked(s) \cup {n}
  BY <1>3, <1>4, <1>5 DEF Tracked
<1>9. CountOK(r)
  <2>1. Cardinality(Tracked(s) \cup {n}) = Cardinality(Tracked(s)) + 1
    BY <1>2, TrackedFinite, FS_AddElement
  <2> QED
    BY <1>3, <1>5, <1>8, <2>1, OrdersAssumption DEF Sound, CountOK, MayPlace
<1> HIDE DEF r, entry
<1>10. ListOK(r, f)
  <2> SUFFICES ASSUME NEW m \in Tracked(r)
               PROVE  /\ r.open[m].grid \in Grid /\ r.byGrid[r.open[m].grid] = m
                      /\ f[m].st # "none"
                      /\ \E k \in Order : Names(f, r.open[m].id, r.open[m].grid, k)
    BY DEF ListOK
  <2>1. CASE m = n
    BY <1>3, <1>4, <1>5, <1>6, <2>1 DEF entry
  <2>2. CASE m # n
    <3>1. m \in Tracked(s) /\ m \in Order /\ r.open[m] = s.open[m]
      BY <1>3, <1>5, <1>8, <2>2, TrackedFinite
    <3>2. /\ s.open[m].grid \in Grid /\ s.byGrid[s.open[m].grid] = m /\ f[m].st # "none"
          /\ \E k \in Order : Names(f, s.open[m].id, s.open[m].grid, k)
      BY <1>1, <3>1 DEF Sound, ListOK
    <3>3. s.open[m].grid # g
      BY <3>1, <3>2 DEF MayPlace, Order, None
    <3> QED
      BY <1>3, <1>5, <3>1, <3>2, <3>3
  <2> QED
    BY <2>1, <2>2
<1>11. IndexOK(r)
  <2> SUFFICES ASSUME NEW h \in Grid, r.byGrid[h] # None
               PROVE  r.byGrid[h] \in Tracked(r) /\ r.open[r.byGrid[h]].grid = h
    BY DEF IndexOK
  <2>1. CASE h = g
    BY <1>3, <1>4, <1>5, <1>8, <2>1
  <2>2. CASE h # g
    <3>1. r.byGrid[h] = s.byGrid[h]
      BY <1>3, <1>5, <2>2
    <3>2. s.byGrid[h] \in Tracked(s) /\ s.open[s.byGrid[h]].grid = h
      BY <3>1 DEF Sound, IndexOK
    <3>3. s.byGrid[h] # n /\ s.byGrid[h] \in Order
      BY <1>2, <3>2, TrackedFinite
    <3> QED
      BY <1>3, <1>5, <1>8, <3>1, <3>2, <3>3
  <2> QED
    BY <2>1, <2>2
<1>12. GridsOK(r, f)
  <2> SUFFICES ASSUME NEW h \in Grid, r.grid[h].oid # None
               PROVE  \E k \in Order : Names(f, r.grid[h].oid, h, k)
    BY DEF GridsOK
  <2>1. CASE h = g
    BY <1>3, <1>5, <1>6, <2>1
  <2>2. CASE h # g
    BY <1>1, <1>3, <1>5, <2>2 DEF Sound, GridsOK
  <2> QED
    BY <2>1, <2>2
<1> QED
  BY <1>7, <1>9, <1>10, <1>11, <1>12 DEF Sound, r

\* Entries may change their ids and fills, not their grids.
LEMMA EntriesSound ==
  ASSUME NEW s, NEW e, Sound(s, e), NEW open \in [Order -> Entry],
         \A m \in Order : open[m].grid = s.open[m].grid
                          /\ (m \notin Tracked(s) => open[m] = s.open[m]),
         \A m \in Tracked(s) : \E k \in Order : Names(e, open[m].id, s.open[m].grid, k)
  PROVE  Sound([s EXCEPT !.open = open], e)
<1> DEFINE r == [s EXCEPT !.open = open]
<1>1. s \in State
  BY DEF Sound
<1>2. /\ r.open = open /\ r.byGrid = s.byGrid /\ r.grid = s.grid /\ r.count = s.count
      /\ r \in State
  BY <1>1 DEF State
<1> HIDE DEF r
<1>3. Tracked(r) = Tracked(s)
  <2>1. ASSUME NEW m \in Tracked(s) PROVE open[m] # Untracked
    <3>1. m \in Order /\ open[m].grid \in Grid
      BY TrackedFinite DEF Sound, ListOK
    <3> QED
      BY <3>1 DEF Untracked, Grid, None
  <2>2. ASSUME NEW m \in Order, m \notin Tracked(s) PROVE open[m] = Untracked
    BY <2>2 DEF Tracked
  <2> QED
    BY <1>2, <2>1, <2>2, TrackedFinite DEF Tracked
<1>4. ListOK(r, e)
  BY <1>2, <1>3, TrackedFinite DEF Sound, ListOK
<1>5. IndexOK(r) /\ GridsOK(r, e) /\ CountOK(r)
  BY <1>2, <1>3, TrackedFinite DEF Sound, IndexOK, GridsOK, CountOK
<1> QED
  BY <1>2, <1>4, <1>5 DEF Sound, r

LEMMA NotedSound ==
  ASSUME NEW s, Sound(s, exchange), NEW n \in Order, exchange[n].cum \in 0..Qty,
         NEW final \in BOOLEAN
  PROVE  Sound(Noted(s, n, final), exchange)
<1>1. CASE final
  <2>1. Known(s, n) \in SUBSET Tracked(s)
    BY DEF Known
  <2>2. Sound(Remove(s, Known(s, n)), exchange)
    BY <2>1, RemoveSound
  <2> QED
    BY <1>1, <2>2 DEF Noted
<1>2. CASE ~final
  <2> DEFINE open == [m \in Order |-> IF m \in Known(s, n)
                                      THEN [s.open[m] EXCEPT !.cum = exchange[n].cum]
                                      ELSE s.open[m]]
  <2>1. s.open \in [Order -> Entry] /\ Known(s, n) \subseteq Tracked(s)
    BY GridsOf DEF Known
  <2>2. open \in [Order -> Entry]
    BY <2>1 DEF Entry
  <2>3. \A m \in Order : open[m].grid = s.open[m].grid /\ open[m].id = s.open[m].id
                          /\ (m \notin Tracked(s) => open[m] = s.open[m])
    BY <2>1 DEF Entry
  <2>4. \A m \in Tracked(s) : \E k \in Order : Names(exchange, open[m].id, s.open[m].grid, k)
    BY <2>3, TrackedFinite DEF Sound, ListOK
  <2>5. Noted(s, n, final) = [s EXCEPT !.open = open]
    BY <1>2 DEF Noted
  <2> HIDE DEF open
  <2>6. Sound([s EXCEPT !.open = open], exchange)
    BY <2>2, <2>3, <2>4, EntriesSound
  <2> QED
    BY <2>5, <2>6
<1> QED
  BY <1>1, <1>2

\* The update's order was placed for its grid, and so was whatever the grid held.
LEMMA MappedSound ==
  ASSUME NEW s, Sound(s, exchange), NEW n \in Order
  PROVE  Sound(Mapped(s, n), exchange)
<1> DEFINE g == exchange[n].grid
           known == Known(s, s.grid[g].oid)
           open == [m \in Order |-> IF m \in known THEN [s.open[m] EXCEPT !.id = n]
                                    ELSE s.open[m]]
           grid == [s.grid EXCEPT ![g].oid = n]
<1>1. CASE g \notin s.levels \/ s.grid[g].oid = n
  BY <1>1 DEF Mapped
<1>2. CASE g \in s.levels /\ s.grid[g].oid # n
  <2>1. /\ g \in Grid /\ s.open \in [Order -> Entry] /\ known \subseteq Tracked(s)
        /\ s.grid \in [Grid -> [st : {"IDLE", "ACTIVE"}, oid : Id]] /\ n \in Id
    BY <1>2, GridsOf, OrdersAssumption DEF Known, Id, Order
  <2>2. Names(exchange, n, g, n)
    BY DEF Names
  <2>3. ASSUME NEW m \in known PROVE s.open[m].grid = g
    <3>1. PICK k \in Order : Names(exchange, s.open[m].id, s.open[m].grid, k)
      BY <2>1 DEF Sound, ListOK
    <3>2. s.open[m].id = s.grid[g].oid
      BY DEF Known
    <3>3. s.grid[g].oid # None
      BY <3>1, <3>2 DEF Names, None, Order
    <3>4. PICK j \in Order : Names(exchange, s.grid[g].oid, g, j)
      BY <2>1, <3>3 DEF Sound, GridsOK
    <3>5. j = k
      BY <3>1, <3>2, <3>4 DEF Names, Order
    <3> QED
      BY <3>1, <3>4, <3>5 DEF Names
  <2>4. open \in [Order -> Entry]
    BY <2>1 DEF Entry
  <2>5. \A m \in Order : open[m].grid = s.open[m].grid
                         /\ (m \notin Tracked(s) => open[m] = s.open[m])
    BY <2>1 DEF Entry
  <2>12. \A m \in Order : open[m].id = IF m \in known THEN n ELSE s.open[m].id
    BY <2>1 DEF Entry
  <2>6. \A m \in Tracked(s) : \E k \in Order : Names(exchange, open[m].id, s.open[m].grid, k)
    BY <2>2, <2>3, <2>12, TrackedFinite DEF Sound, ListOK
  <2>7. /\ grid \in [Grid -> [st : {"IDLE", "ACTIVE"}, oid : Id]]
        /\ \A h \in Grid : grid[h].oid = IF h = g THEN n ELSE s.grid[h].oid
    BY <2>1
  <2>8. Held(exchange, grid)
    BY <2>2, <2>7 DEF Held, Sound, GridsOK
  <2> DEFINE r == [s EXCEPT !.open = open]
  <2>9. Mapped(s, n) = [r EXCEPT !.grid = grid]
    <3>1. s \in State
      BY DEF Sound
    <3>2. Mapped(s, n) = [s EXCEPT !.grid = grid, !.open = open]
      BY <1>2, <3>1 DEF Mapped, State
    <3> HIDE DEF open, grid
    <3> QED
      BY <3>1, <3>2 DEF State
  <2> HIDE DEF open, grid
  <2>10. Sound(r, exchange)
    <3>1. Sound([s EXCEPT !.open = open], exchange)
      BY <2>4, <2>5, <2>6, EntriesSound
    <3> QED
      BY <3>1
  <2> HIDE DEF r
  <2>11. Sound([r EXCEPT !.grid = grid], exchange)
    BY <2>8, <2>10, GridSound
  <2> QED
    BY <2>9, <2>11
<1> QED
  BY <1>1, <1>2

\* What a restart reads is sound: rebuilding changes nothing of a sound copy.
LEMMA LoadedSound ==
  ASSUME NEW s, NEW e, Sound(s, e)
  PROVE  Sound(Loaded(s), e) /\ Loaded(s) = s
<1> DEFINE b == [g \in Grid |-> IF \E n \in Tracked(s) : s.open[n].grid = g
                                THEN CHOOSE n \in Tracked(s) : s.open[n].grid = g ELSE None]
<1>1. s \in State /\ s.byGrid \in [Grid -> Order \cup {None}]
  BY DEF Sound, State
<1>2. ASSUME NEW g \in Grid PROVE b[g] = s.byGrid[g]
  <2>1. CASE \E n \in Tracked(s) : s.open[n].grid = g
    <3>1. b[g] \in Tracked(s) /\ s.open[b[g]].grid = g
      BY <2>1
    <3> QED
      BY <3>1 DEF Sound, ListOK
  <2>2. CASE ~\E n \in Tracked(s) : s.open[n].grid = g
    BY <2>2 DEF Sound, IndexOK
  <2> QED
    BY <2>1, <2>2
<1>3. b = s.byGrid
  BY <1>1, <1>2
<1>4. Loaded(s) = [s EXCEPT !.byGrid = b, !.count = Cardinality(Tracked(s))]
  BY DEF Loaded
<1> HIDE DEF b
<1>5. Loaded(s) = s
  BY ZenonT(60), <1>1, <1>3, <1>4 DEF State, Sound, CountOK
<1> QED
  BY <1>5

-----------------------------------------------------------------------------
(* The steps *)

LEMMA Initially == Init => Inv
<1> SUFFICES ASSUME Init PROVE Inv
  OBVIOUS
<1>1. /\ Idle \in [st : {"IDLE", "ACTIVE"}, oid : Id] /\ Untracked \in Entry
      /\ 0 \in 0..FreezeTicks /\ 0 \in 0..MaxCrashes /\ 1..Width \in SUBSET Grid
  BY OrdersAssumption DEF Idle, Untracked, Entry, Id, None, Grid
<1>2. state \in State
  BY <1>1 DEF Init, State
<1>3. Tracked(state) = {}
  BY DEF Init, Tracked
<1>4. Cardinality(Tracked(state)) = 0
  BY <1>3, FS_EmptySet
<1>5. /\ state.count = 0 /\ state.byGrid = [g \in Grid |-> None]
      /\ state.grid = [g \in Grid |-> Idle]
  BY DEF Init
<1>6. Sound(state, exchange)
  BY <1>2, <1>3, <1>4, <1>5, OrdersAssumption
  DEF Sound, ListOK, IndexOK, GridsOK, CountOK, Idle
<1>7. exchange \in [Order -> [st : {"none", "sent", "live", "cancelling", "filled",
                                   "cancelled", "rejected"},
                              grid : Grid \cup {None}, cum : 0..Qty]]
      /\ Unplaced(exchange)
  BY OrdersAssumption DEF Init, Unplaced
<1> QED
  BY <1>1, <1>2, <1>6, <1>7 DEF Init, Inv, OrdersTypeOK

Status == {"none", "sent", "live", "cancelling", "filled", "cancelled", "rejected"}
Exchange == [Order -> [st : Status, grid : Grid \cup {None}, cum : 0..Qty]]

LEMMA TypeForm ==
  OrdersTypeOK <=> /\ state \in State /\ saved \in State /\ tripped \in BOOLEAN
                   /\ exchange \in Exchange /\ crashes \in 0..MaxCrashes
BY DEF OrdersTypeOK, Exchange, Status

\* A step that keeps the book sound, whatever the exchange has become.
LEMMA StepSound ==
  ASSUME Inv, tripped' \in BOOLEAN, crashes' \in 0..MaxCrashes, exchange' \in Exchange,
         Unplaced(exchange'), Grows(exchange, exchange'),
         Sound(state', exchange'), Sound(saved', exchange')
  PROVE  Inv'
<1>1. state' \in State /\ saved' \in State
  BY DEF Sound
<1>2. OrdersTypeOK'
  BY <1>1 DEF OrdersTypeOK, Exchange, Status
<1> QED
  BY <1>2 DEF Inv, Unplaced, Sound, ListOK, IndexOK, GridsOK, CountOK, Names, Tracked, State,
              Entry, Id, Grid, Order, None, Untracked

LEMMA ReachedGrows ==
  ASSUME Inv, NEW s, NEW gs
  PROVE  /\ Reached(s, gs) \in Exchange /\ Unplaced(Reached(s, gs))
         /\ Grows(exchange, Reached(s, gs))
         /\ \A n \in Order : exchange[n].st = "none" => Reached(s, gs)[n].st = "none"
<1> DEFINE f == Reached(s, gs)
<1>1. exchange \in Exchange /\ Unplaced(exchange)
  BY TypeForm DEF Inv
<1>2. ASSUME NEW n \in Order
      PROVE  /\ f[n] \in [st : Status, grid : Grid \cup {None}, cum : 0..Qty]
             /\ f[n].grid = exchange[n].grid /\ f[n].cum = exchange[n].cum
             /\ f[n].st = "none" <=> exchange[n].st = "none"
             /\ f[n].st = exchange[n].st \/ exchange[n].st = "live"
  BY <1>1 DEF Reached, Exchange, Status
<1>3. f \in Exchange
  BY <1>2 DEF Reached, Exchange
<1> HIDE DEF f
<1>4. Unplaced(f) /\ Grows(exchange, f) /\ \A n \in Order : exchange[n].st = "none" => f[n].st = "none"
  BY <1>1, <1>2 DEF Unplaced, Grows
<1> QED
  BY <1>3, <1>4 DEF f

LEMMA SameGrows == \A e : Grows(e, e)
BY DEF Grows

\* The order n at the exchange goes from one status to another.
LEMMA MovesSound ==
  ASSUME Inv, NEW n \in Order, exchange[n].st # "none", NEW st \in Status \ {"none"},
         NEW cum \in 0..Qty, st \in {"sent", "live", "cancelling"} => cum < Qty,
         UNCHANGED <<state, saved, tripped, crashes>>,
         exchange' = [exchange EXCEPT ![n].st = st, ![n].cum = cum]
  PROVE  Inv'
<1>1. exchange \in Exchange /\ Unplaced(exchange) /\ tripped \in BOOLEAN /\ crashes \in 0..MaxCrashes
  BY TypeForm DEF Inv
<1>2. ASSUME NEW k \in Order
      PROVE  /\ exchange'[k] \in [st : Status, grid : Grid \cup {None}, cum : 0..Qty]
             /\ exchange'[k].grid = exchange[k].grid
             /\ exchange'[k].st = "none" <=> exchange[k].st = "none"
             /\ (k # n => exchange'[k] = exchange[k])
             /\ (k = n => exchange'[k].st = st /\ exchange'[k].cum = cum)
  BY <1>1 DEF Exchange
<1>3. exchange' \in Exchange
  BY <1>1, <1>2 DEF Exchange
<1>4. Unplaced(exchange') /\ Grows(exchange, exchange')
  BY <1>1, <1>2 DEF Unplaced, Grows
<1>5. Sound(state', exchange') /\ Sound(saved', exchange')
  BY <1>4, SoundGrows DEF Inv
<1> QED
  BY <1>1, <1>3, <1>4, <1>5, StepSound

LEMMA HeartbeatTripsKeeps == ASSUME Inv, HeartbeatTrips PROVE Inv'
<1>1. PICK fails \in SUBSET Active(state) :
        /\ tripped' = TRUE
        /\ state' = CancelAll(Ticked, fails)
        /\ saved' = IF fails = Active(state) THEN saved ELSE state'
        /\ exchange' = Reached(state, Active(state) \ fails)
        /\ UNCHANGED crashes
  BY DEF HeartbeatTrips, SavesState
<1>2. /\ exchange' \in Exchange /\ Unplaced(exchange') /\ Grows(exchange, exchange')
  BY <1>1, ReachedGrows
<1>3. Sound(state, exchange) /\ Sound(saved, exchange)
  BY DEF Inv
<1>4. Sound(Ticked, exchange)
  BY <1>3, TickedSound
<1>5. state \in State
  BY <1>3 DEF Sound
<1>6. Active(Ticked) = Active(state)
  BY <1>5 DEF Active, Ticked, State
<1>7. Sound(state', exchange)
  BY <1>1, <1>4, <1>6, CancelAllSound
<1>8. Sound(state', exchange') /\ Sound(saved', exchange')
  BY <1>1, <1>2, <1>3, <1>7, SoundGrows
<1>9. crashes \in 0..MaxCrashes
  BY TypeForm DEF Inv
<1> QED
  BY <1>1, <1>2, <1>8, <1>9, StepSound

LEMMA HeartbeatIdleKeeps ==
  ASSUME Inv, tripped' \in BOOLEAN, state' \in {Ticked, Awake},
         UNCHANGED <<saved, exchange, crashes>>
  PROVE  Inv'
<1>1. /\ exchange' \in Exchange /\ Unplaced(exchange') /\ Grows(exchange, exchange')
      /\ crashes' \in 0..MaxCrashes
  BY TypeForm, SameGrows DEF Inv
<1>2. Sound(state', exchange') /\ Sound(saved', exchange')
  BY TickedSound DEF Inv
<1> QED
  BY <1>1, <1>2, StepSound

LEMMA RecenterKeeps == ASSUME Inv, Recenter PROVE Inv'
<1>1. PICK fails \in SUBSET Active(Awake) :
        /\ state' = Rebuilt(CancelAll(Awake, fails), NextLevels(state))
        /\ exchange' = Reached(Awake, Active(Awake) \ fails)
  BY DEF Recenter
<1>2. saved' = state' /\ tripped' = tripped /\ crashes' = crashes
  BY DEF Recenter, SavesState
<1>3. /\ exchange' \in Exchange /\ Unplaced(exchange') /\ Grows(exchange, exchange')
  BY <1>1, ReachedGrows
<1>4. Sound(Awake, exchange)
  BY TickedSound DEF Inv
<1>5. Sound(CancelAll(Awake, fails), exchange)
  BY <1>4, CancelAllSound
<1>6. NextLevels(state) \in SUBSET Grid
  BY DEF NextLevels
<1>7. Sound(state', exchange)
  BY <1>1, <1>5, <1>6, RebuiltSound
<1>8. Sound(state', exchange') /\ Sound(saved', exchange')
  BY <1>2, <1>3, <1>7, SoundGrows
<1>9. crashes \in 0..MaxCrashes /\ tripped \in BOOLEAN
  BY TypeForm DEF Inv
<1> QED
  BY <1>2, <1>3, <1>8, <1>9, StepSound

LEMMA HeartbeatWorksKeeps == ASSUME Inv, HeartbeatWorks PROVE Inv'
<1>0. PICK drop \in SUBSET Active(Awake) : \E fails \in SUBSET drop :
        LET s == Policed(Awake, drop, fails)
            e == Reached(Awake, drop \ fails)
        IN \/ state' = s /\ exchange' = e
           \/ \E g \in {h \in Awake.levels : Awake.grid[h].st = "IDLE"}, n \in Unsent :
                /\ MayPlace(s, g)
                /\ state' = Placed(s, g, n)
                /\ exchange' = [e EXCEPT ![n].st = "sent", ![n].grid = g]
  BY DEF HeartbeatWorks
<1>1. PICK fails \in SUBSET drop :
        LET s == Policed(Awake, drop, fails)
            e == Reached(Awake, drop \ fails)
        IN \/ state' = s /\ exchange' = e
           \/ \E g \in {h \in Awake.levels : Awake.grid[h].st = "IDLE"}, n \in Unsent :
                /\ MayPlace(s, g)
                /\ state' = Placed(s, g, n)
                /\ exchange' = [e EXCEPT ![n].st = "sent", ![n].grid = g]
  BY <1>0
<1> DEFINE s == Policed(Awake, drop, fails)
           e == Reached(Awake, drop \ fails)
<1>2. saved' = state' /\ tripped' = tripped /\ crashes' = crashes
  BY DEF HeartbeatWorks, SavesState
<1>3. /\ e \in Exchange /\ Unplaced(e) /\ Grows(exchange, e)
      /\ \A n \in Order : exchange[n].st = "none" => e[n].st = "none"
  BY ReachedGrows
<1>4. Sound(Awake, exchange)
  BY TickedSound DEF Inv
<1>5. Sound(s, exchange)
  BY <1>4, PolicedSound
<1>6. crashes' \in 0..MaxCrashes /\ tripped' \in BOOLEAN
  BY <1>2, TypeForm DEF Inv
<1>7. CASE state' = s /\ exchange' = e
  <2>1. Sound(state', exchange') /\ Sound(saved', exchange')
    BY <1>2, <1>3, <1>5, <1>7, SoundGrows
  <2> QED
    BY <1>3, <1>6, <1>7, <2>1, StepSound
<1>8. ASSUME NEW g \in Awake.levels, NEW n \in Unsent, MayPlace(s, g),
             state' = Placed(s, g, n),
             exchange' = [e EXCEPT ![n].st = "sent", ![n].grid = g]
      PROVE  Inv'
  <2>1. /\ g \in Grid /\ n \in Order /\ exchange[n].st = "none" /\ e[n].st = "none"
        /\ exchange[n].grid = None
    BY <1>3, <1>4, <1>8, GridsOf DEF Unsent, Inv, Unplaced
  <2>2. ASSUME NEW k \in Order
        PROVE  /\ exchange'[k] \in [st : Status, grid : Grid \cup {None}, cum : 0..Qty]
               /\ (k # n => exchange'[k] = e[k])
               /\ (k = n => /\ exchange'[k].st = "sent" /\ exchange'[k].grid = g
                            /\ exchange'[k].cum = e[k].cum)
    BY <1>3, <1>8, <2>1 DEF Exchange, Status
  <2>3. exchange' \in Exchange
    BY <1>3, <1>8, <2>2 DEF Exchange
  <2>4. Unplaced(exchange')
    BY ZenonT(60), <1>3, <2>1, <2>2 DEF Unplaced
  <2>5. Grows(exchange, exchange')
    <3> SUFFICES ASSUME NEW k \in Order
                 PROVE  /\ exchange[k].st # "none" => exchange'[k].st # "none"
                        /\ exchange[k].grid \in Grid => exchange'[k].grid = exchange[k].grid
      BY DEF Grows
    <3>1. CASE k = n
      BY <2>1, <2>2, <3>1 DEF Grid, None
    <3>2. CASE k # n
      <4>1. exchange'[k] = e[k]
        BY <2>2, <3>2
      <4> QED
        BY <1>3, <4>1 DEF Grows
    <3> QED
      BY <3>1, <3>2
  <2>6. exchange'[n].st # "none" /\ exchange'[n].grid = g
    BY <2>1, <2>2
  <2> HIDE DEF s, e
  <2>7. Sound(state', exchange')
    BY <1>5, <1>8, <2>1, <2>5, <2>6, PlacedSound
  <2> QED
    BY <1>2, <1>6, <2>3, <2>4, <2>5, <2>7, StepSound
<1> QED
  BY <1>1, <1>7, <1>8

LEMMA OrderUpdateKeeps == ASSUME Inv, NEW n \in Order, OrderUpdate(n) PROVE Inv'
<1>1. PICK final \in BOOLEAN :
        \/ state' = Noted(state, n, final) /\ UNCHANGED saved
        \/ state' = Mapped(Noted(state, n, final), n) /\ saved' = state'
  BY DEF OrderUpdate, SavesState
<1>2. UNCHANGED <<tripped, exchange, crashes>>
  BY DEF OrderUpdate
<1>3. /\ exchange \in Exchange /\ Unplaced(exchange) /\ Grows(exchange, exchange)
      /\ tripped \in BOOLEAN /\ crashes \in 0..MaxCrashes
  BY TypeForm, SameGrows DEF Inv
<1>4. exchange[n].cum \in 0..Qty
  BY <1>3 DEF Exchange
<1>5. Sound(Noted(state, n, final), exchange)
  BY <1>4, NotedSound DEF Inv
<1>6. Sound(Mapped(Noted(state, n, final), n), exchange)
  BY <1>5, MappedSound
<1>7. Sound(state', exchange') /\ Sound(saved', exchange')
  BY <1>1, <1>2, <1>5, <1>6 DEF Inv
<1> QED
  BY <1>2, <1>3, <1>7, StepSound

LEMMA Stepwise == Inv /\ [Next]_vars => Inv'
<1> SUFFICES ASSUME Inv, [Next]_vars PROVE Inv'
  OBVIOUS
<1>1. CASE HeartbeatTrips
  BY <1>1, HeartbeatTripsKeeps
<1>2. CASE HeartbeatHalted
  BY <1>2, HeartbeatIdleKeeps DEF HeartbeatHalted
<1>3. CASE HeartbeatFrozen \/ HeartbeatBarred
  <2>1. tripped' \in BOOLEAN
    BY <1>3, TypeForm DEF HeartbeatFrozen, HeartbeatBarred, Inv
  <2> QED
    BY <1>3, <2>1, HeartbeatIdleKeeps DEF HeartbeatFrozen, HeartbeatBarred
<1>4. CASE Recenter
  BY <1>4, RecenterKeeps
<1>5. CASE HeartbeatWorks
  BY <1>5, HeartbeatWorksKeeps
<1>6. CASE Restart
  <2>1. /\ exchange' \in Exchange /\ Unplaced(exchange') /\ Grows(exchange, exchange')
        /\ tripped' \in BOOLEAN
    BY <1>6, TypeForm, SameGrows DEF Restart, Inv
  <2>2. crashes' \in 0..MaxCrashes
    BY <1>6, TypeForm, OrdersAssumption DEF Restart, Inv
  <2>3. Sound(state', exchange') /\ Sound(saved', exchange')
    BY <1>6, LoadedSound DEF Restart, Inv
  <2> QED
    BY <2>1, <2>2, <2>3, StepSound
<1>7. ASSUME NEW n \in Order, OrderUpdate(n) PROVE Inv'
  BY <1>7, OrderUpdateKeeps
<1>8. ASSUME NEW n \in Order, Answers(n) \/ Fills(n) \/ Cancels(n) PROVE Inv'
  <2>1. exchange \in Exchange
    BY TypeForm DEF Inv
  <2>2. exchange[n] \in [st : Status, grid : Grid \cup {None}, cum : 0..Qty]
    BY <2>1 DEF Exchange
  <2>6. exchange[n].st \in {"none", "sent", "live", "cancelling"} => exchange[n].cum < Qty
    BY DEF Inv, Unplaced
  <2>3. CASE Answers(n)
    <3>1. PICK st \in {"live", "rejected"} : exchange' = [exchange EXCEPT ![n].st = st]
      BY <2>3 DEF Answers
    <3>2. exchange' = [exchange EXCEPT ![n].st = st, ![n].cum = exchange[n].cum]
      BY <2>1, <3>1 DEF Exchange
    <3> QED
      BY <2>2, <2>3, <2>6, <3>2, MovesSound DEF Answers, Status
  <2>4. CASE Fills(n)
    <3> DEFINE st == IF exchange[n].cum + 1 = Qty THEN "filled" ELSE exchange[n].st
    <3>1. exchange' = [exchange EXCEPT ![n].st = st, ![n].cum = exchange[n].cum + 1]
      BY <2>1, <2>4 DEF Fills, Exchange
    <3>2. /\ exchange[n].cum + 1 \in 0..Qty /\ st \in Status \ {"none"}
          /\ st \in {"sent", "live", "cancelling"} => exchange[n].cum + 1 < Qty
      BY <2>2, <2>4, <2>6, OrdersAssumption DEF Fills, Status
    <3> QED
      BY <2>4, <3>1, <3>2, MovesSound DEF Fills
  <2>5. CASE Cancels(n)
    <3>1. exchange' = [exchange EXCEPT ![n].st = "cancelled", ![n].cum = exchange[n].cum]
      BY <2>1, <2>5 DEF Cancels, Exchange
    <3>2. "cancelled" \in Status \ {"none"} /\ exchange[n].cum \in 0..Qty
          /\ "cancelled" \notin {"sent", "live", "cancelling"}
      BY <2>2 DEF Status
    <3>3. exchange[n].st # "none" /\ UNCHANGED <<state, saved, tripped, crashes>>
      BY <2>5 DEF Cancels
    <3> QED
      BY <3>1, <3>2, <3>3, MovesSound
  <2> QED
    BY <1>8, <2>3, <2>4, <2>5
<1>9. CASE UNCHANGED vars
  BY <1>9, TypeForm, SameGrows, StepSound DEF Inv, vars
<1> QED
  BY <1>1, <1>2, <1>3, <1>4, <1>5, <1>6, <1>7, <1>8, <1>9 DEF Next

-----------------------------------------------------------------------------
(* Theorems *)

\* No execution leaves the inductive invariant.
LEMMA Invariance == Spec => []Inv
<1> QED
  BY Initially, Stepwise, PTL DEF Spec

\* The types hold always: the counter in particular never goes below zero.
THEOREM OrdersTypeCorrect == Spec => []OrdersTypeOK
<1>1. Inv => OrdersTypeOK
  BY DEF Inv
<1> QED
  BY <1>1, Invariance, PTL

\* The index by grid and openOrders agree always, for any number of levels:
\* reconcileGridOrderLinks, loadState and an update by id are never at a loss
\* which order is meant.
THEOREM IndexIsExact == Spec => []IndexAgrees
<1>1. ASSUME Inv PROVE IndexAgrees
  <2>1. ListOK(state, exchange) /\ IndexOK(state)
    BY <1>1 DEF Inv, Sound
  <2>2. ASSUME NEW n \in Tracked(state), NEW m \in Tracked(state),
               state.open[n].id = state.open[m].id
        PROVE  n = m
    <3>1. PICK k \in Order : Names(exchange, state.open[n].id, state.open[n].grid, k)
      BY <2>1 DEF ListOK
    <3>2. PICK j \in Order : Names(exchange, state.open[m].id, state.open[m].grid, j)
      BY <2>1 DEF ListOK
    <3>3. j = k
      BY <2>2, <3>1, <3>2 DEF Names, Order
    <3>4. state.open[n].grid = state.open[m].grid
      BY <3>1, <3>2, <3>3 DEF Names
    <3> QED
      BY <2>1, <3>4 DEF ListOK
  <2> QED
    BY <2>1, <2>2 DEF ListOK, IndexOK, IndexAgrees
<1> QED
  BY <1>1, Invariance, PTL

\* The counter is the number of open orders always, and so these never exceed
\* maxActiveOrders.
THEOREM LimitHolds == Spec => []CountAgrees
<1>1. Inv => CountAgrees
  BY TrackedFinite DEF Inv, Sound, CountOK, CountAgrees
<1> QED
  BY <1>1, Invariance, PTL

-----------------------------------------------------------------------------
(* The index is a book of orders *)

\* The index b, and what is left of it without some of its levels.
Index == [Grid -> Order \cup {None}]
Cleared(b, G) == [g \in Grid |-> IF g \in G THEN None ELSE b[g]]
Clears(b, c) == \E G \in SUBSET Grid : c = Cleared(b, G)

UsedAt(e) == {n \in Order : e[n].st # "none"}

LEMMA ClearsNothing == ASSUME NEW b \in Index PROVE Clears(b, b)
<1>1. b = Cleared(b, {}) /\ {} \in SUBSET Grid
  BY DEF Cleared, Index
<1> QED
  BY <1>1 DEF Clears

LEMMA ClearsTwice ==
  ASSUME NEW b, NEW c, NEW d, Clears(b, c), Clears(c, d)
  PROVE  Clears(b, d)
<1>1. PICK G \in SUBSET Grid : c = Cleared(b, G)
  BY DEF Clears
<1>2. PICK H \in SUBSET Grid : d = Cleared(c, H)
  BY DEF Clears
<1>3. d = Cleared(b, G \cup H) /\ G \cup H \in SUBSET Grid
  BY <1>1, <1>2 DEF Cleared
<1> QED
  BY <1>3 DEF Clears

LEMMA RemoveClears ==
  ASSUME NEW s \in State, NEW ns
  PROVE  Clears(s.byGrid, Remove(s, ns).byGrid)
<1> DEFINE G == {g \in Grid : \E n \in ns : s.open[n].grid = g}
<1>1. Remove(s, ns).byGrid = Cleared(s.byGrid, G)
  BY DEF Remove, State, Cleared
<1>2. G \in SUBSET Grid
  OBVIOUS
<1> QED
  BY <1>1, <1>2 DEF Clears

LEMMA CancelClears ==
  ASSUME NEW s, NEW e, Sound(s, e), NEW gs \in SUBSET Grid, NEW fails \in SUBSET gs
  PROVE  Clears(s.byGrid, Cancel(s, gs, fails).byGrid)
<1> DEFINE gone == {n \in Tracked(s) : \E g \in gs \ fails : s.open[n].id = s.grid[g].oid}
           r == Remove(s, gone)
<1>1. r \in State
  BY RemoveSound DEF Sound
<1>2. Cancel(s, gs, fails).byGrid = r.byGrid
  BY <1>1 DEF Cancel, State
<1>3. s \in State
  BY DEF Sound
<1> QED
  BY <1>2, <1>3, RemoveClears

LEMMA CancelAllClears ==
  ASSUME NEW s, NEW e, Sound(s, e), NEW fails \in SUBSET Active(s)
  PROVE  Clears(s.byGrid, CancelAll(s, fails).byGrid)
<1>1. Active(s) \in SUBSET Grid
  BY GridsOf DEF Active
<1>2. Cancel(s, Active(s), fails) \in State
  BY <1>1, CancelSound DEF Sound
<1>3. CancelAll(s, fails).byGrid = Cancel(s, Active(s), fails).byGrid
  BY <1>2 DEF CancelAll, State
<1> QED
  BY <1>1, <1>3, CancelClears

LEMMA PolicedClears ==
  ASSUME NEW s, NEW e, Sound(s, e), NEW drop \in SUBSET Active(s), NEW fails \in SUBSET drop
  PROVE  Clears(s.byGrid, Policed(s, drop, fails).byGrid)
<1> DEFINE c == Cancel(s, drop, fails)
           ns == {n \in Tracked(c) : \E g \in drop : c.open[n].id = s.grid[g].oid}
<1>1. drop \in SUBSET Grid
  BY GridsOf DEF Active
<1>2. Clears(s.byGrid, c.byGrid)
  BY <1>1, CancelClears
<1>3. c \in State
  BY <1>1, CancelSound DEF Sound
<1>4. Policed(s, drop, fails) = Remove(c, ns)
  BY DEF Policed
<1>5. Clears(c.byGrid, Remove(c, ns).byGrid)
  BY <1>3, RemoveClears
<1> QED
  BY <1>2, <1>4, <1>5, ClearsTwice

LEMMA NotedClears ==
  ASSUME NEW s, NEW e, Sound(s, e), NEW n \in Order, NEW final \in BOOLEAN
  PROVE  Clears(s.byGrid, Noted(s, n, final).byGrid)
<1>1. s \in State /\ s.byGrid \in Index
  BY DEF Sound, State, Index
<1>2. CASE final
  BY <1>1, <1>2, RemoveClears DEF Noted
<1>3. CASE ~final
  <2>1. Noted(s, n, final).byGrid = s.byGrid
    BY <1>1, <1>3 DEF Noted, State
  <2> QED
    BY <1>1, <2>1, ClearsNothing
<1> QED
  BY <1>2, <1>3

\* Neither waking up nor taking an id over touches the index.
LEMMA IndexLeftAlone ==
  ASSUME state \in State
  PROVE  /\ Ticked.byGrid = state.byGrid /\ Awake.byGrid = state.byGrid
         /\ \A s \in State : \A n \in Order : Mapped(s, n).byGrid = s.byGrid
         /\ \A s \in State : \A ls : Rebuilt(s, ls).byGrid = s.byGrid
<1>1. Ticked.byGrid = state.byGrid
  BY DEF Ticked, State
<1>2. Awake.byGrid = state.byGrid
  BY DEF Awake, Reconcile, Ticked, State
<1>3. \A s \in State : \A n \in Order : Mapped(s, n).byGrid = s.byGrid
  BY DEF Mapped, State
<1>4. \A s \in State : \A ls : Rebuilt(s, ls).byGrid = s.byGrid
  BY DEF Rebuilt, State
<1> QED
  BY <1>1, <1>2, <1>3, <1>4

\* The orders the index lists are the list.
LEMMA ListedIsTracked ==
  ASSUME NEW s, NEW e, Sound(s, e)
  PROVE  Book!Listed(s.byGrid) = Tracked(s)
<1>1. \A n \in Tracked(s) : s.open[n].grid \in Grid /\ s.byGrid[s.open[n].grid] = n /\ n # None
  BY TrackedFinite DEF Sound, ListOK, Order, None
<1>2. \A g \in Grid : s.byGrid[g] # None => s.byGrid[g] \in Tracked(s)
  BY DEF Sound, IndexOK
<1> QED
  BY <1>1, <1>2 DEF Book!Listed

\* A turn takes orders out of the book, and saves it or not.
TakesOut ==
  /\ Clears(state.byGrid, state'.byGrid)
  /\ saved'.byGrid = saved.byGrid \/ saved'.byGrid = state'.byGrid
  /\ UsedAt(exchange') = UsedAt(exchange)

LEMMA TakesOutDrops == ASSUME TakesOut PROVE Book!Drop
BY DEF TakesOut, Clears, Cleared, UsedAt, Book!Drop, Book!Without

LEMMA ReachedUses == ASSUME Inv, NEW s, NEW gs PROVE UsedAt(Reached(s, gs)) = UsedAt(exchange)
BY ReachedGrows DEF UsedAt, Grows

LEMMA StateIndex == ASSUME Inv PROVE state \in State /\ state.byGrid \in Index
BY DEF Inv, Sound, State, Index

LEMMA TripsDrops == ASSUME Inv, HeartbeatTrips PROVE TakesOut
<1>1. PICK fails \in SUBSET Active(state) :
        /\ state' = CancelAll(Ticked, fails)
        /\ saved' = IF fails = Active(state) THEN saved ELSE state'
        /\ exchange' = Reached(state, Active(state) \ fails)
  BY DEF HeartbeatTrips, SavesState
<1>2. Sound(Ticked, exchange) /\ Active(Ticked) = Active(state)
  BY StateIndex, TickedSound DEF Inv, Active, Ticked, State
<1>3. Clears(Ticked.byGrid, state'.byGrid)
  BY <1>1, <1>2, CancelAllClears
<1> QED
  BY <1>1, <1>3, StateIndex, IndexLeftAlone, ReachedUses DEF TakesOut

LEMMA RecenterDrops == ASSUME Inv, Recenter PROVE TakesOut
<1>1. PICK fails \in SUBSET Active(Awake) :
        /\ state' = Rebuilt(CancelAll(Awake, fails), NextLevels(state))
        /\ exchange' = Reached(Awake, Active(Awake) \ fails)
  BY DEF Recenter
<1>2. saved' = state'
  BY DEF Recenter, SavesState
<1>3. Sound(Awake, exchange)
  BY TickedSound DEF Inv
<1>4. CancelAll(Awake, fails) \in State
  BY <1>3, CancelAllSound DEF Sound
<1>5. state'.byGrid = CancelAll(Awake, fails).byGrid
  BY <1>1, <1>4, StateIndex, IndexLeftAlone
<1>6. Clears(Awake.byGrid, state'.byGrid)
  BY <1>3, <1>5, CancelAllClears
<1> QED
  BY <1>1, <1>2, <1>6, StateIndex, IndexLeftAlone, ReachedUses DEF TakesOut

\* The heartbeat polices the book, and then places one order or none.
LEMMA WorksDropsOrPlaces == ASSUME Inv, HeartbeatWorks PROVE Book!Drop \/ Book!Place
<1>0. PICK drop \in SUBSET Active(Awake) : \E fails \in SUBSET drop :
        LET s == Policed(Awake, drop, fails)
            e == Reached(Awake, drop \ fails)
        IN \/ state' = s /\ exchange' = e
           \/ \E g \in {h \in Awake.levels : Awake.grid[h].st = "IDLE"}, n \in Unsent :
                /\ MayPlace(s, g)
                /\ state' = Placed(s, g, n)
                /\ exchange' = [e EXCEPT ![n].st = "sent", ![n].grid = g]
  BY DEF HeartbeatWorks
<1>1. PICK fails \in SUBSET drop :
        LET s == Policed(Awake, drop, fails)
            e == Reached(Awake, drop \ fails)
        IN \/ state' = s /\ exchange' = e
           \/ \E g \in {h \in Awake.levels : Awake.grid[h].st = "IDLE"}, n \in Unsent :
                /\ MayPlace(s, g)
                /\ state' = Placed(s, g, n)
                /\ exchange' = [e EXCEPT ![n].st = "sent", ![n].grid = g]
  BY <1>0
<1> DEFINE s == Policed(Awake, drop, fails)
           e == Reached(Awake, drop \ fails)
<1>2. saved' = state'
  BY DEF HeartbeatWorks, SavesState
<1>3. Sound(Awake, exchange) /\ Awake.byGrid = state.byGrid
  BY StateIndex, TickedSound, IndexLeftAlone DEF Inv
<1>4. Sound(s, exchange) /\ Clears(state.byGrid, s.byGrid)
  BY <1>3, PolicedSound, PolicedClears
<1>5. UsedAt(e) = UsedAt(exchange) /\ e \in Exchange
  BY ReachedUses, ReachedGrows
<1>6. CASE state' = s /\ exchange' = e
  BY <1>2, <1>4, <1>5, <1>6, TakesOutDrops DEF TakesOut
<1>7. ASSUME NEW g \in Awake.levels, NEW n \in Unsent, MayPlace(s, g),
             state' = Placed(s, g, n),
             exchange' = [e EXCEPT ![n].st = "sent", ![n].grid = g]
      PROVE  Book!Place
  <2>1. PICK G \in SUBSET Grid : s.byGrid = Book!Without(G)
    BY <1>4 DEF Clears, Cleared, Book!Without
  <2>2. g \in Grid /\ n \in Order \ UsedAt(exchange)
    BY <1>3, <1>7, GridsOf DEF Unsent, UsedAt
  <2>3. s.byGrid[g] = None /\ Cardinality(Book!Listed(s.byGrid)) < MaxActiveOrders
    BY <1>4, <1>7, ListedIsTracked DEF MayPlace, Sound, CountOK
  <2>4. state'.byGrid = [s.byGrid EXCEPT ![g] = n]
    BY <1>4, <1>7 DEF Placed, Sound, State
  <2>5. UsedAt(exchange') = UsedAt(exchange) \cup {n}
    <3> HIDE DEF e
    <3>1. \A k \in Order : exchange'[k].st = IF k = n THEN "sent" ELSE e[k].st
      BY <1>5, <1>7, <2>2 DEF Exchange
    <3>2. UsedAt(exchange') = UsedAt(e) \cup {n}
      BY <2>2, <3>1 DEF UsedAt
    <3> QED
      BY <1>5, <3>2
  <2> HIDE DEF s
  <2>6. \A S : Book!Cardinality(S) = Cardinality(S)
    BY DEF Book!Cardinality, Cardinality
  <2> QED
    BY <1>2, <2>1, <2>2, <2>3, <2>4, <2>5, <2>6 DEF Book!Place, UsedAt
<1> QED
  BY <1>1, <1>6, <1>7

LEMMA UpdateDrops == ASSUME Inv, NEW n \in Order, OrderUpdate(n) PROVE TakesOut
<1>1. PICK final \in BOOLEAN :
        \/ state' = Noted(state, n, final) /\ UNCHANGED saved
        \/ state' = Mapped(Noted(state, n, final), n) /\ saved' = state'
  BY DEF OrderUpdate, SavesState
<1>2. exchange' = exchange /\ Sound(state, exchange) /\ exchange[n].cum \in 0..Qty
  BY TypeForm DEF OrderUpdate, Inv, Exchange
<1>3. Noted(state, n, final) \in State
  BY <1>2, NotedSound DEF Sound
<1>4. state'.byGrid = Noted(state, n, final).byGrid
  BY <1>1, <1>3, StateIndex, IndexLeftAlone
<1> QED
  BY <1>1, <1>2, <1>4, NotedClears DEF TakesOut

LEMMA MovesUse ==
  ASSUME Inv, NEW n \in Order, Answers(n) \/ Fills(n) \/ Cancels(n)
  PROVE  UsedAt(exchange') = UsedAt(exchange)
<1>1. exchange \in Exchange
  BY TypeForm DEF Inv
<1>2. \A k \in Order : exchange'[k].st = "none" <=> exchange[k].st = "none"
  BY <1>1 DEF Answers, Fills, Cancels, Exchange
<1> QED
  BY <1>2 DEF UsedAt

LEMMA StepBook == Inv /\ [Next]_vars => [Book!Next]_(Book!vars)
<1> SUFFICES ASSUME Inv, [Next]_vars PROVE [Book!Next]_(Book!vars)
  OBVIOUS
<1> DEFINE same == /\ state'.byGrid = state.byGrid /\ saved'.byGrid = saved.byGrid
                   /\ UsedAt(exchange') = UsedAt(exchange)
<1>1. same => UNCHANGED Book!vars
  BY DEF Book!vars, UsedAt
<1>2. CASE HeartbeatTrips
  BY <1>2, TripsDrops, TakesOutDrops DEF Book!Next
<1>3. CASE HeartbeatHalted \/ HeartbeatFrozen \/ HeartbeatBarred
  BY <1>1, <1>3, StateIndex, IndexLeftAlone DEF HeartbeatHalted, HeartbeatFrozen, HeartbeatBarred
<1>4. CASE Recenter
  BY <1>4, RecenterDrops, TakesOutDrops DEF Book!Next
<1>5. CASE HeartbeatWorks
  BY <1>5, WorksDropsOrPlaces DEF Book!Next
<1>6. CASE Restart
  <2>1. state' = saved /\ UNCHANGED <<saved, exchange>>
    BY <1>6, LoadedSound DEF Restart, Inv
  <2> QED
    BY <2>1 DEF Book!Next, Book!Restore
<1>7. ASSUME NEW n \in Order, OrderUpdate(n) PROVE Book!Next
  BY <1>7, UpdateDrops, TakesOutDrops DEF Book!Next
<1>8. ASSUME NEW n \in Order, Answers(n) \/ Fills(n) \/ Cancels(n) PROVE UNCHANGED Book!vars
  BY <1>1, <1>8, MovesUse DEF Answers, Fills, Cancels
<1>9. CASE UNCHANGED vars
  BY <1>1, <1>9 DEF vars
<1> QED
  BY <1>2, <1>3, <1>4, <1>5, <1>6, <1>7, <1>8, <1>9 DEF Next

\* The strategy implements the abstract book: an order enters it once, at a level
\* without one and below the limit, saved in the same turn.
THEOREM BookIsKept == Spec => KeepsBook
<1>1. Init => Book!Init
  BY DEF Init, Book!Init
<1>2. Inv /\ [Next]_vars => [Book!Next]_(Book!vars)
  BY StepBook
<1> QED
  BY <1>1, <1>2, Invariance, PTL DEF Spec, KeepsBook, Book!Spec

\* Every order the strategy lists is in the copy a restart reads, at its level:
\* what is only in memory are removals.
RestartForgetsNone ==
  \A g \in Grid : state.byGrid[g] # None => saved.byGrid[g] = state.byGrid[g]

LEMMA SavedBook ==
  RestartForgetsNone /\ [Book!Next]_(Book!vars) => RestartForgetsNone'
<1>1. CASE Book!Drop
  BY <1>1 DEF Book!Drop, Book!Without, RestartForgetsNone
<1>2. CASE Book!Place
  BY <1>2 DEF Book!Place, RestartForgetsNone
<1>3. CASE Book!Restore
  BY <1>3 DEF Book!Restore, RestartForgetsNone
<1>4. CASE UNCHANGED Book!vars
  BY <1>4 DEF Book!vars, RestartForgetsNone
<1> QED
  BY <1>1, <1>2, <1>3, <1>4 DEF Book!Next

\* loadState brings back every order that was listed when the strategy ended.
THEOREM NothingUnsaved == Spec => []RestartForgetsNone
<1>1. Init => RestartForgetsNone
  BY DEF Init, RestartForgetsNone
<1>2. KeepsBook => [][Book!Next]_(Book!vars)
  BY PTL DEF KeepsBook, Book!Spec
<1> QED
  BY <1>1, <1>2, SavedBook, BookIsKept, PTL DEF Spec

=============================================================================
