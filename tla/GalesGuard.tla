----------------------------- MODULE GalesGuard -----------------------------
(***************************************************************************)
(* What may stop a live gales grid from placing orders                     *)
(* (quant-lab/strategies/grid/gales-simple.js, circuit breaker active, no  *)
(* bypass configured): the drawdown breaker with its cooldown and counted  *)
(* recovery, the position limit and the leverage cap, which share one      *)
(* flag, the block on a ledger that disagrees with the exchange, and the   *)
(* block on failing requests.  The ledger drifts with fills that are       *)
(* missed or counted twice, and is aligned from time to time.              *)
(* Positions are long and counted in units above every smaller threshold   *)
(* of the code (100 U), so what the code does within one unit is left out. *)
(***************************************************************************)
EXTENDS Integers

CONSTANTS MaxHeld,       \* bound: positions, at the exchange or in the ledger
          PositionLimit, \* CONFIG.maxPosition * maxPositionRatio
          GapHigh,       \* the gap that counts against the ledger (2000 U)
          GapLow,        \* the gap below which it is trusted again (1000 U)
          GapBeats,      \* heartbeats until the ledger is distrusted (3)
          Equities,      \* net equities of the account; 0 is "not known"
          MaxDrawdown,   \* percent of the peak (40)
          RecoveryBeats, \* calm heartbeats to recover from a trip (3)
          MaxCritical,   \* critical failures of requests that block (3)
          MaxRestarts    \* bound: restarts of the strategy

ASSUME GuardAssumption ==
  /\ MaxHeld \in Nat /\ PositionLimit \in Nat /\ GapHigh \in Nat /\ GapLow \in Nat
  /\ GapBeats \in Nat \ {0} /\ RecoveryBeats \in Nat \ {0} /\ MaxCritical \in Nat \ {0}
  /\ Equities \subseteq Nat /\ 0 \in Equities /\ MaxDrawdown \in Nat /\ MaxRestarts \in Nat

\* The leverage of the account against maxLeverage: "low" is below nine tenths
\* of it, "high" reaches it; null without an equity.
Leverage == {"unknown", "low", "mid", "high"}

VARIABLES
  tripped, cooled, recovery, \* the breaker, its cooldown, its calm heartbeats
  peak,        \* peakNetEq
  block, capped, \* blockNewOrders, and whether leverageHardCapTriggeredAt is set
  held,        \* the position at the exchange
  exch,        \* exchangePosition, as last read
  ledger,      \* positionNotional, what the strategy believes to hold
  offset,      \* positionDiffState.initialOffset, without its sign
  over, hard,  \* ledgerGapOverCount and ledgerGapHardblocked
  critical,    \* critical failures within their window
  net, order,  \* of the last heartbeat: the equity it saw, and the leverage at
               \* which it placed an order, if it did
  restarts

breaker == <<tripped, cooled, recovery>>
flags   == <<block, capped>>
trust   == <<over, hard>>
vars    == <<breaker, peak, flags, held, exch, ledger, offset, trust, critical, net, order,
             restarts>>

Over == ledger > PositionLimit \/ exch > PositionLimit
Calm == ledger < PositionLimit /\ exch < PositionLimit

Drawn(top, now) == top > 0 /\ (top - now) * 100 > MaxDrawdown * top

Distance(x, y) == IF x > y THEN x - y ELSE y - x

\* The gap between the ledger and the exchange, less the initial offset; it
\* counts only when both sides hold something.
Gap   == Distance(exch - offset, ledger)
Large == exch > 0 /\ ledger > 0 /\ Gap > GapHigh

Init ==
  /\ tripped = FALSE /\ cooled = TRUE /\ recovery = 0 /\ peak = 0
  /\ block = FALSE /\ capped = FALSE
  /\ held \in 0..MaxHeld /\ exch = held /\ ledger = held
  /\ offset = 0 /\ over = 0 /\ hard = FALSE /\ critical = 0
  /\ net = 0 /\ order = "none" /\ restarts = 0

-----------------------------------------------------------------------------
(* The heartbeat *)

\* Every 60th heartbeat reads the position, if it can, and aligns the ledger.  The
\* heartbeat's other two corrections of the ledger do nothing here: the replay of
\* executions finds none, as no host has bridge_getExecutions (2540), and the one
\* at 3080 closes gaps of less than a unit.
Refresh == \/ exch' = exch /\ ledger' = ledger
           \/ exch' = held /\ ledger' = held

\* The part of every heartbeat: what it reads, and that it may place no order.
Beat(n) ==
  /\ Refresh
  /\ net' = n
  /\ UNCHANGED <<held, offset, restarts>>

\* Tripped: nothing happens in the cooldown, then the calm heartbeats in a row
\* are counted.
HeartbeatHalted ==
  /\ tripped /\ \E n \in Equities : Beat(n)
  /\ recovery' = IF ~cooled THEN recovery ELSE IF Calm' THEN recovery + 1 ELSE 0
  /\ recovery' < RecoveryBeats
  /\ order' = "none"
  /\ UNCHANGED <<tripped, cooled, peak, flags, trust, critical>>

\* Mutant: one calm heartbeat more than the count ever reaches.
HeartbeatRecovers_OneMore ==
  /\ tripped /\ cooled /\ \E n \in Equities : Beat(n)
  /\ Calm' /\ recovery + 1 > RecoveryBeats
  /\ tripped' = FALSE /\ recovery' = 0
  /\ order' = "none"
  /\ UNCHANGED <<cooled, peak, flags, trust, critical>>

\* The last calm heartbeat ends the trip, and itself in an exception before
\* peakNetEq is reset: currentNetEq is declared further down.
HeartbeatRecovers ==
  /\ tripped /\ cooled /\ \E n \in Equities : Beat(n)
  /\ Calm' /\ recovery + 1 = RecoveryBeats
  /\ tripped' = FALSE /\ recovery' = 0
  /\ order' = "none"
  /\ UNCHANGED <<cooled, peak, flags, trust, critical>>

\* Not tripped: the peak follows the equity.
Watches(n) ==
  /\ ~tripped /\ Beat(n)
  /\ peak' = IF n > peak THEN n ELSE peak

\* A drawdown beyond the limit trips; so does an equity that is not known.
HeartbeatTrips ==
  /\ \E n \in Equities : Watches(n) /\ Drawn(peak', n)
  /\ tripped' = TRUE /\ cooled' = FALSE
  /\ order' = "none"
  /\ UNCHANGED <<recovery, flags, trust, critical>>

\* Mutant: a small gap starts the count afresh, the block stays.
Judge_BlockStays ==
  /\ over' = IF Large' THEN IF over < GapBeats THEN over + 1 ELSE over
             ELSE IF Gap' < GapLow THEN 0 ELSE over
  /\ hard' = (hard \/ (Large' /\ over' = GapBeats))

\* The ledger is judged: a large gap counts, a small one forgives, one between
\* leaves the count and the block as they are.
Judge ==
  /\ over' = IF Large' THEN IF over < GapBeats THEN over + 1 ELSE over
             ELSE IF Gap' < GapLow THEN 0 ELSE over
  /\ hard' = IF Large' THEN hard \/ over' = GapBeats ELSE hard /\ Gap' >= GapLow

\* A hard block: a ledger not to be trusted, or too many critical failures.
Blocked == (Large' /\ over' = GapBeats) \/ critical = MaxCritical

\* The breaker lets the heartbeat pass or not, having judged everything; the
\* flag is the position's alone.
HeartbeatStops ==
  /\ \E n \in Equities : Watches(n) /\ ~Drawn(peak', n)
  /\ block' = Over' /\ Judge
  /\ order' = "none"
  /\ UNCHANGED <<breaker, capped, critical>>

\* Mutant: the cap is not looked at while the position blocks.
LeverageHardCap_Skipped(lev) ==
  IF lev = "high" /\ ~capped THEN block' = TRUE /\ capped' = ~Over'
  ELSE IF lev = "low" /\ Over' /\ capped THEN block' = FALSE /\ capped' = FALSE
       ELSE block' = Over' /\ capped' = capped

\* Mutant: a low leverage lifts the block, whosesoever it is.
LeverageHardCap_LiftsAny(lev) ==
  IF lev = "high" THEN block' = TRUE /\ capped' = (capped \/ ~Over')
  ELSE IF lev = "low" THEN block' = FALSE /\ capped' = FALSE
       ELSE block' = Over' /\ capped' = capped

\* checkLeverageHardCap, on the flag the position has just set or cleared: the
\* cap sets it too, and lifts it when the leverage is low again and the flag
\* is taken for its own.
LeverageHardCap(lev) ==
  IF lev = "high" THEN block' = TRUE /\ capped' = (capped \/ ~Over')
  ELSE IF lev = "low" /\ Over' /\ capped THEN block' = FALSE /\ capped' = FALSE
       ELSE block' = Over' /\ capped' = capped

\* No hard block stops the heartbeat.
Passes == ~Blocked

\* An ordinary heartbeat: an order may be placed, which may fail, unless the flag
\* is set.
HeartbeatWorks ==
  \E n \in Equities, lev \in Leverage :
    /\ n = 0 => lev = "unknown"
    /\ Watches(n) /\ ~Drawn(peak', n)
    /\ Judge /\ Passes
    /\ LeverageHardCap(lev)
    /\ \/ order' = "none" /\ critical' = critical
       \/ ~block' /\ order' = lev /\ critical' = critical
       \/ ~block' /\ order' = "none" /\ critical' = critical + 1
    /\ UNCHANGED breaker

-----------------------------------------------------------------------------
(* Around the heartbeats *)

CooldownEnds ==
  /\ tripped /\ ~cooled
  /\ cooled' = TRUE
  /\ order' = "none"
  /\ UNCHANGED <<tripped, recovery, peak, flags, held, exch, ledger, offset, trust, critical,
                 net, restarts>>

\* Five minutes after the first of them, critical failures are forgotten.
WindowEnds ==
  /\ critical > 0
  /\ critical' = 0
  /\ order' = "none"
  /\ UNCHANGED <<breaker, peak, flags, held, exch, ledger, offset, trust, net, restarts>>

\* A fill changes the position by one; the ledger misses it, counts it, or counts
\* it twice (st_onExecution and updatePositionFromFill).
Fill ==
  \E d \in {-1, 1}, times \in 0..2 :
    /\ held' = held + d /\ held' \in 0..MaxHeld
    /\ ledger' = ledger + times * d /\ ledger' \in 0..MaxHeld
    /\ order' = "none"
    /\ UNCHANGED <<breaker, peak, flags, exch, offset, trust, critical, net, restarts>>

\* st_stop saves, st_init starts afresh, but for the peak, the ledger and its
\* block.  The offset is what the ledger was off before it is aligned.  Without an
\* answer the ledger stays, and the offset is against a position of 0; so is what
\* was last read of the position, unless reading it throws: then it stays as saved.
Restart ==
  /\ restarts < MaxRestarts
  /\ restarts' = restarts + 1
  /\ tripped' = FALSE /\ cooled' = TRUE /\ recovery' = 0
  /\ block' = FALSE /\ capped' = FALSE /\ critical' = 0
  /\ \/ exch' = held /\ ledger' = held /\ offset' = Distance(held, ledger)
     \/ exch' \in {0, exch} /\ ledger' = ledger /\ offset' = ledger
  /\ order' = "none"
  /\ UNCHANGED <<peak, held, trust, net>>

Heartbeat == HeartbeatHalted \/ HeartbeatRecovers \/ HeartbeatTrips \/ HeartbeatStops
             \/ HeartbeatWorks

Next == Heartbeat \/ CooldownEnds \/ WindowEnds \/ Fill \/ Restart

Spec == Init /\ [][Next]_vars

\* A heartbeat that reads the position.
Aligned == Heartbeat /\ exch' = held /\ ledger' = held

\* Heartbeats come every 5 s, every 60th reads the position and not every reading
\* fails; the cooldown is a matter of time.
Fairness == WF_vars(CooldownEnds) /\ WF_vars(Heartbeat) /\ SF_vars(Aligned)

FairSpec == Spec /\ Fairness

-----------------------------------------------------------------------------
(* Properties *)

GuardTypeOK ==
  /\ tripped \in BOOLEAN /\ cooled \in BOOLEAN /\ recovery \in 0..RecoveryBeats - 1
  /\ peak \in Equities /\ block \in BOOLEAN /\ capped \in BOOLEAN
  /\ held \in 0..MaxHeld /\ exch \in 0..MaxHeld /\ ledger \in 0..MaxHeld
  /\ offset \in 0..MaxHeld /\ over \in 0..GapBeats /\ hard \in BOOLEAN
  /\ critical \in 0..MaxCritical /\ net \in Equities
  /\ order \in Leverage \cup {"none"} /\ restarts \in 0..MaxRestarts

\* No check undoes another: an order goes out only in a heartbeat that found the
\* breaker closed, the equity within the drawdown of the peak, the leverage
\* below its cap, the ledger not off for the third time, and no more critical
\* failures than allowed.
OrdersAreGuarded ==
  order # "none" =>
    /\ ~tripped /\ ~Drawn(peak, net) /\ order # "high"
    /\ ~(Large /\ over = GapBeats) /\ critical < MaxCritical

\* The position limit and the leverage cap share one flag: an order beyond the
\* limit goes out only in the one heartbeat that takes the limit's block for the
\* cap's and lifts it.
LimitYieldsOnce == [][order' # "none" /\ Over' => capped /\ ~capped']_vars

\* A trip is not for ever: while the position is calm, the breaker recovers, even
\* though the heartbeat that recovers throws.
TripEnds == []<>(~tripped \/ ~Calm)

\* A hard block of the ledger ends with an alignment, unless the breaker keeps
\* tripping or the offset, which no alignment changes, is a gap in itself.
HardBlockEnds == []<>(~hard \/ tripped \/ offset >= GapLow)

\* A recovery starts from the current equity, and so does not trip at once.
RecoveryResetsPeak ==
  [][tripped /\ ~tripped' /\ restarts' = restarts /\ net' # 0 => peak' = net']_vars

=============================================================================
