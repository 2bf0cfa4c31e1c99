-------------------------- MODULE GalesGuard_proofs --------------------------
(***************************************************************************)
(* Proofs about GalesGuard, for any limits, equities, counts and positions. *)
(***************************************************************************)
EXTENDS GalesGuard, TLAPS

\* Calm heartbeats are counted while tripped and cooled, and nowhere else.
CountIsFresh == ~tripped \/ ~cooled => recovery = 0

Inv == GuardTypeOK /\ CountIsFresh /\ OrdersAreGuarded

\* Every count may be zero.
LEMMA Zeros ==
  /\ 0 \in 0..RecoveryBeats - 1 /\ 0 \in 0..MaxHeld /\ 0 \in 0..GapBeats
  /\ 0 \in 0..MaxCritical /\ 0 \in 0..MaxRestarts /\ 0 \in Equities
BY GuardAssumption

LEMMA Initially == Init => Inv
<1> SUFFICES ASSUME Init PROVE Inv
  OBVIOUS
<1>1. GuardTypeOK
  <2>1. held \in 0..MaxHeld /\ exch \in 0..MaxHeld /\ ledger \in 0..MaxHeld
    BY DEF Init
  <2>2. tripped \in BOOLEAN /\ cooled \in BOOLEAN /\ block \in BOOLEAN /\ capped \in BOOLEAN
        /\ hard \in BOOLEAN /\ order \in Leverage \cup {"none"}
    BY DEF Init
  <2>3. /\ recovery \in 0..RecoveryBeats - 1 /\ offset \in 0..MaxHeld /\ over \in 0..GapBeats
        /\ critical \in 0..MaxCritical /\ restarts \in 0..MaxRestarts
        /\ peak \in Equities /\ net \in Equities
    BY Zeros DEF Init
  <2> QED
    BY <2>1, <2>2, <2>3 DEF GuardTypeOK
<1> QED
  BY <1>1 DEF Inv, Init, CountIsFresh, OrdersAreGuarded

\* What every heartbeat leaves typed.
LEMMA BeatTypes ==
  ASSUME GuardTypeOK, NEW n \in Equities, Beat(n)
  PROVE  /\ exch' \in 0..MaxHeld /\ ledger' \in 0..MaxHeld /\ net' \in Equities
         /\ held' \in 0..MaxHeld /\ offset' \in 0..MaxHeld /\ restarts' \in 0..MaxRestarts
BY DEF GuardTypeOK, Beat, Refresh

LEMMA WatchesTypes ==
  ASSUME GuardTypeOK, NEW n \in Equities, Watches(n)
  PROVE  /\ exch' \in 0..MaxHeld /\ ledger' \in 0..MaxHeld /\ net' = n
         /\ held' \in 0..MaxHeld /\ offset' \in 0..MaxHeld /\ restarts' \in 0..MaxRestarts
         /\ peak' \in Equities
BY BeatTypes DEF Watches, Beat, GuardTypeOK

LEMMA JudgeTypes ==
  ASSUME GuardTypeOK, Judge
  PROVE  over' \in 0..GapBeats /\ hard' \in BOOLEAN
<1>1. over' \in 0..GapBeats
  BY GuardAssumption DEF GuardTypeOK, Judge
<1>2. hard' \in BOOLEAN
  BY DEF GuardTypeOK, Judge
<1> QED
  BY <1>1, <1>2

LEMMA CapTypes ==
  ASSUME GuardTypeOK, NEW lev \in Leverage, LeverageHardCap(lev)
  PROVE  /\ block' \in BOOLEAN /\ capped' \in BOOLEAN
         /\ ~block' => lev # "high"
         /\ ~block' /\ Over' => capped /\ ~capped'
<1>1. Over' \in BOOLEAN /\ capped \in BOOLEAN
  BY DEF Over, GuardTypeOK
<1>2. CASE lev = "high"
  BY <1>1, <1>2 DEF LeverageHardCap
<1>3. CASE lev # "high" /\ lev = "low" /\ Over' /\ capped
  BY <1>1, <1>3 DEF LeverageHardCap
<1>4. CASE lev # "high" /\ ~(lev = "low" /\ Over' /\ capped)
  BY <1>1, <1>4 DEF LeverageHardCap
<1> QED
  BY <1>2, <1>3, <1>4

-----------------------------------------------------------------------------
LEMMA HeartbeatHaltedKeeps == ASSUME Inv, HeartbeatHalted PROVE Inv'
<1>1. PICK n \in Equities : Beat(n)
  BY DEF HeartbeatHalted
<1>2. GuardTypeOK'
  <2>1. recovery' \in 0..RecoveryBeats - 1
    BY GuardAssumption DEF Inv, GuardTypeOK, HeartbeatHalted
  <2> QED
    BY <1>1, <2>1, BeatTypes DEF Inv, GuardTypeOK, HeartbeatHalted, flags, trust
<1> QED
  BY <1>2 DEF Inv, CountIsFresh, OrdersAreGuarded, HeartbeatHalted

LEMMA HeartbeatRecoversKeeps == ASSUME Inv, HeartbeatRecovers PROVE Inv'
<1>1. PICK n \in Equities : Beat(n)
  BY DEF HeartbeatRecovers
<1>2. GuardTypeOK'
  BY <1>1, BeatTypes, Zeros DEF Inv, GuardTypeOK, HeartbeatRecovers, flags, trust
<1> QED
  BY <1>2 DEF Inv, CountIsFresh, OrdersAreGuarded, HeartbeatRecovers

LEMMA HeartbeatTripsKeeps == ASSUME Inv, HeartbeatTrips PROVE Inv'
<1>1. PICK n \in Equities : Watches(n)
  BY DEF HeartbeatTrips
<1>2. recovery = 0
  BY <1>1 DEF Inv, CountIsFresh, Watches
<1>3. GuardTypeOK'
  BY <1>1, WatchesTypes DEF Inv, GuardTypeOK, HeartbeatTrips, flags, trust
<1> QED
  BY <1>2, <1>3 DEF Inv, CountIsFresh, OrdersAreGuarded, HeartbeatTrips

LEMMA HeartbeatStopsKeeps == ASSUME Inv, HeartbeatStops PROVE Inv'
<1>1. PICK n \in Equities : Watches(n)
  BY DEF HeartbeatStops
<1>2. GuardTypeOK'
  <2>1. over' \in 0..GapBeats /\ hard' \in BOOLEAN
    BY JudgeTypes DEF Inv, HeartbeatStops
  <2>2. block' \in BOOLEAN
    BY DEF HeartbeatStops, Over
  <2> QED
    BY <1>1, <2>1, <2>2, WatchesTypes DEF Inv, GuardTypeOK, HeartbeatStops, breaker
<1> QED
  BY <1>2 DEF Inv, CountIsFresh, OrdersAreGuarded, HeartbeatStops, breaker

LEMMA HeartbeatWorksKeeps ==
  ASSUME Inv, HeartbeatWorks
  PROVE  Inv' /\ (order' # "none" /\ Over' => capped /\ ~capped')
<1>1. PICK n \in Equities, lev \in Leverage :
        /\ Watches(n) /\ ~Drawn(peak', n)
        /\ Judge /\ Passes
        /\ LeverageHardCap(lev)
        /\ \/ order' = "none" /\ critical' = critical
           \/ ~block' /\ order' = lev /\ critical' = critical
           \/ ~block' /\ order' = "none" /\ critical' = critical + 1
        /\ UNCHANGED breaker
  BY DEF HeartbeatWorks
<1>2. /\ block' \in BOOLEAN /\ capped' \in BOOLEAN
      /\ ~block' => lev # "high"
      /\ ~block' /\ Over' => capped /\ ~capped'
  BY <1>1, CapTypes DEF Inv
<1>3. /\ ~(Large' /\ over' = GapBeats) /\ critical < MaxCritical
      /\ critical \in 0..MaxCritical /\ critical' \in 0..MaxCritical
  BY <1>1, GuardAssumption DEF Passes, Blocked, Inv, GuardTypeOK
<1>4. over' \in 0..GapBeats /\ hard' \in BOOLEAN
  BY <1>1, JudgeTypes DEF Inv
<1>5. tripped' = tripped /\ cooled' = cooled /\ recovery' = recovery /\ ~tripped
  BY <1>1 DEF breaker, Watches
<1>6. GuardTypeOK'
  <2>1. order' \in Leverage \cup {"none"}
    BY <1>1
  <2>2. /\ exch' \in 0..MaxHeld /\ ledger' \in 0..MaxHeld /\ net' \in Equities
        /\ held' \in 0..MaxHeld /\ offset' \in 0..MaxHeld /\ restarts' \in 0..MaxRestarts
        /\ peak' \in Equities
    BY <1>1, WatchesTypes DEF Inv
  <2> QED
    BY <1>2, <1>3, <1>4, <1>5, <2>1, <2>2 DEF Inv, GuardTypeOK
<1>7. OrdersAreGuarded'
  <2> SUFFICES ASSUME order' # "none"
               PROVE  /\ ~tripped' /\ ~Drawn(peak', net') /\ order' # "high"
                      /\ ~(Large' /\ over' = GapBeats) /\ critical' < MaxCritical
    BY DEF OrdersAreGuarded
  <2>1. ~block' /\ order' = lev /\ critical' = critical
    BY <1>1
  <2>2. net' = n
    BY <1>1, WatchesTypes DEF Inv
  <2> QED
    BY <1>1, <1>2, <1>3, <1>5, <2>1, <2>2
<1>8. CountIsFresh'
  BY <1>5 DEF Inv, CountIsFresh
<1>9. order' # "none" => ~block'
  BY <1>1
<1> QED
  BY <1>2, <1>6, <1>7, <1>8, <1>9 DEF Inv

LEMMA FillKeeps == ASSUME Inv, Fill PROVE Inv'
<1>1. GuardTypeOK'
  BY DEF Inv, GuardTypeOK, Fill, breaker, flags, trust
<1> QED
  BY <1>1 DEF Inv, CountIsFresh, OrdersAreGuarded, Fill, breaker

LEMMA DistanceTypes ==
  ASSUME NEW x \in 0..MaxHeld, NEW y \in 0..MaxHeld
  PROVE  Distance(x, y) \in 0..MaxHeld
<1>1. CASE x > y
  BY <1>1, GuardAssumption DEF Distance
<1>2. CASE ~(x > y)
  BY <1>2, GuardAssumption DEF Distance
<1> QED
  BY <1>1, <1>2

LEMMA RestartKeeps == ASSUME Inv, Restart PROVE Inv'
<1>1. exch' \in 0..MaxHeld /\ ledger' \in 0..MaxHeld
  BY Zeros DEF Inv, GuardTypeOK, Restart
<1>2. offset' \in 0..MaxHeld
  <2>1. held \in 0..MaxHeld /\ ledger \in 0..MaxHeld
    BY DEF Inv, GuardTypeOK
  <2>2. Distance(held, ledger) \in 0..MaxHeld
    BY <2>1, DistanceTypes
  <2>3. offset' \in {Distance(held, ledger), ledger}
    BY DEF Restart
  <2> QED
    BY <2>1, <2>2, <2>3
<1>3. restarts' \in 0..MaxRestarts
  BY GuardAssumption DEF Inv, GuardTypeOK, Restart
<1>4. GuardTypeOK'
  <2>1. recovery' \in 0..RecoveryBeats - 1 /\ critical' \in 0..MaxCritical
    BY Zeros DEF Restart
  <2>2. tripped' \in BOOLEAN /\ cooled' \in BOOLEAN /\ block' \in BOOLEAN /\ capped' \in BOOLEAN
        /\ order' \in Leverage \cup {"none"}
    BY DEF Restart
  <2>3. /\ peak' \in Equities /\ held' \in 0..MaxHeld /\ net' \in Equities
        /\ over' \in 0..GapBeats /\ hard' \in BOOLEAN
    BY DEF Inv, GuardTypeOK, Restart, trust
  <2> QED
    BY <1>1, <1>2, <1>3, <2>1, <2>2, <2>3 DEF GuardTypeOK
<1> QED
  BY <1>4 DEF Inv, CountIsFresh, OrdersAreGuarded, Restart

LEMMA AroundKeeps == ASSUME Inv, CooldownEnds \/ WindowEnds PROVE Inv'
<1>1. CASE CooldownEnds
  <2>1. GuardTypeOK'
    BY <1>1 DEF Inv, GuardTypeOK, CooldownEnds, flags, trust
  <2> QED
    BY <1>1, <2>1 DEF Inv, CountIsFresh, OrdersAreGuarded, CooldownEnds
<1>2. CASE WindowEnds
  <2>1. GuardTypeOK'
    BY <1>2, GuardAssumption DEF Inv, GuardTypeOK, WindowEnds, breaker, flags, trust
  <2> QED
    BY <1>2, <2>1 DEF Inv, CountIsFresh, OrdersAreGuarded, WindowEnds, breaker
<1> QED
  BY <1>1, <1>2

LEMMA Stepwise == Inv /\ [Next]_vars => Inv'
<1> SUFFICES ASSUME Inv, [Next]_vars PROVE Inv'
  OBVIOUS
<1>1. CASE Heartbeat
  BY <1>1, HeartbeatHaltedKeeps, HeartbeatRecoversKeeps, HeartbeatTripsKeeps,
     HeartbeatStopsKeeps, HeartbeatWorksKeeps DEF Heartbeat
<1>2. CASE CooldownEnds \/ WindowEnds
  BY <1>2, AroundKeeps
<1>3. CASE Fill
  BY <1>3, FillKeeps
<1>4. CASE Restart
  BY <1>4, RestartKeeps
<1>5. CASE UNCHANGED vars
  <2>1. GuardTypeOK'
    BY <1>5 DEF Inv, GuardTypeOK, vars, breaker, flags, trust
  <2>2. CountIsFresh'
    BY <1>5 DEF Inv, CountIsFresh, vars, breaker
  <2>3. OrdersAreGuarded'
    BY <1>5 DEF Inv, OrdersAreGuarded, vars, breaker, trust, Large, Gap, Drawn
  <2> QED
    BY <2>1, <2>2, <2>3 DEF Inv
<1> QED
  BY <1>1, <1>2, <1>3, <1>4, <1>5 DEF Next

LEMMA Invariance == Spec => []Inv
<1> QED
  BY Initially, Stepwise, PTL DEF Spec

-----------------------------------------------------------------------------
\* The types hold always; in particular no count of heartbeats or failures gets
\* past the number that acts on it.
THEOREM GuardTypeCorrect == Spec => []GuardTypeOK
<1>1. Inv => GuardTypeOK
  BY DEF Inv
<1> QED
  BY <1>1, Invariance, PTL

\* Whatever the equities, leverages, fills and failures, and in whatever order the
\* heartbeats find them, an order goes out only past every check.
THEOREM OrdersGuarded == Spec => []OrdersAreGuarded
<1>1. Inv => OrdersAreGuarded
  BY DEF Inv
<1> QED
  BY <1>1, Invariance, PTL

\* An order beyond the position limit goes out only in the heartbeat that lifts a
\* leverage cap: so at most once for each time the cap was reached.
THEOREM LimitYields == Spec => LimitYieldsOnce
<1>1. ASSUME Inv, Next
      PROVE  order' # "none" /\ Over' => capped /\ ~capped'
  <2>1. CASE HeartbeatWorks
    BY <1>1, <2>1, HeartbeatWorksKeeps
  <2>2. CASE ~HeartbeatWorks
    <3>1. order' = "none"
      BY <1>1, <2>2 DEF Next, Heartbeat, HeartbeatHalted, HeartbeatRecovers, HeartbeatTrips,
                        HeartbeatStops, CooldownEnds, WindowEnds, Fill, Restart
    <3> QED
      BY <3>1
  <2> QED
    BY <2>1, <2>2
<1>2. Inv /\ [Next]_vars => [order' # "none" /\ Over' => capped /\ ~capped']_vars
  BY <1>1
<1> QED
  BY <1>2, Invariance, PTL DEF Spec, LimitYieldsOnce

=============================================================================
