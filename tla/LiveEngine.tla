----------------------------- MODULE LiveEngine -----------------------------
(***************************************************************************)
(* The life of quant-lab's live engine (engine/live.ts): start() awaits    *)
(* the database, the account, the strategy's onInit and the subscription   *)
(* before it arms its intervals; stop() disarms them, awaits the           *)
(* strategy's onStop and closes the database; every bar awaits the         *)
(* database and the strategy, and may stop the engine itself, by an error  *)
(* it awaits the stop of, or by the drawdown check, which it does not.     *)
(*                                                                         *)
(* The engine is one event loop and an action is one turn of it.  Its      *)
(* orders are in LiveOrders; here the interval of their poll and that of   *)
(* the funding fee are one, being armed and disarmed in the same turns.    *)
(***************************************************************************)
EXTENDS Naturals

CONSTANTS MaxStart,    \* bound: calls of start()
          MaxStop,     \* bound: detached calls of stop() at once
          MaxBar,      \* bound: bars in flight at once
          StopOnError  \* config.stopOnError

ASSUME EngineAssumption ==
  MaxStart \in Nat /\ MaxStop \in Nat /\ MaxBar \in Nat /\ StopOnError \in BOOLEAN

Stopper  == 1..MaxStop
Bar      == 1..MaxBar
Interval == 1..MaxStart     \* an interval is named by the start() that armed it

VARIABLES
  running,
  start,       \* the await start() is in, or how it ended
  starts,      \* calls of start() so far
  timer,       \* orderPollTimer: the interval it holds, 0 for none
  armed,       \* the intervals that fire
  subscribed,  \* the provider has the callback for bars: nothing takes it back
  db,          \* the database is open
  bar,         \* calls of onKlineUpdate: the await each is in
  stop,        \* calls of stop() that no bar awaits
  crossed      \* history: a call of stop() ran beside one of start()

vars == <<running, start, starts, timer, armed, subscribed, db, bar, stop, crossed>>

Starting == {"db", "account", "onInit", "subscribe"}
Stopping == {"onStop", "close"}

Init ==
  /\ running = FALSE
  /\ start = "idle" /\ starts = 0
  /\ timer = 0 /\ armed = {}
  /\ subscribed = FALSE /\ db = FALSE
  /\ bar = [b \in Bar |-> "idle"]
  /\ stop = [s \in Stopper |-> "idle"]
  /\ crossed = FALSE

\* A call of stop() is under way, detached or awaited by a bar.
BeingStopped == \/ \E s \in Stopper : stop[s] # "idle"
                \/ \E b \in Bar : bar[b] \in Stopping

-----------------------------------------------------------------------------
(* start(): one action per await, each of which may reject instead.        *)

\* start() itself looks at nothing.  That the engine does not run, or has failed to
\* start, and is not starting, is an assumption on whoever calls it.
Start ==
  /\ ~running \/ start = "failed"
  /\ start \notin Starting /\ starts < MaxStart
  /\ running' = TRUE
  /\ start' = "db"
  /\ starts' = starts + 1
  /\ crossed' = (crossed \/ BeingStopped)
  /\ UNCHANGED <<timer, armed, subscribed, db, bar, stop>>

Opened ==
  /\ start = "db"
  /\ start' = "account"
  /\ db' = TRUE
  /\ UNCHANGED <<running, starts, timer, armed, subscribed, bar, stop, crossed>>

AccountLoaded ==
  /\ start = "account"
  /\ start' = "onInit"
  /\ UNCHANGED <<running, starts, timer, armed, subscribed, db, bar, stop, crossed>>

\* The provider has the callback as soon as it is asked: bars may come
\* before its promise resolves.
Initialised ==
  /\ start = "onInit"
  /\ start' = "subscribe"
  /\ subscribed' = TRUE
  /\ UNCHANGED <<running, starts, timer, armed, db, bar, stop, crossed>>

\* startOrderPolling and startFundingFeeCheck, whatever became of running.
Subscribed ==
  /\ start = "subscribe"
  /\ start' = "done"
  /\ timer' = starts
  /\ armed' = armed \cup {starts}
  /\ UNCHANGED <<running, starts, subscribed, db, bar, stop, crossed>>

StartFails ==
  /\ start \in Starting
  /\ start' = "failed"
  /\ UNCHANGED <<running, starts, timer, armed, subscribed, db, bar, stop, crossed>>

-----------------------------------------------------------------------------
(* stop().                                                                 *)

\* Mutant: the handle is forgotten, its interval is not cleared.
Disarm_HandleOnly ==
  /\ running' = FALSE
  /\ timer' = 0
  /\ armed' = armed
  /\ crossed' = (crossed \/ start \in Starting)

\* Mutant: the engine still runs while the strategy stops.
Disarm_StillRunning ==
  /\ running' = running
  /\ timer' = 0
  /\ armed' = armed \ {timer}
  /\ crossed' = (crossed \/ start \in Starting)

\* The turn stop() is called in.
Disarm ==
  /\ running' = FALSE
  /\ timer' = 0
  /\ armed' = armed \ {timer}
  /\ crossed' = (crossed \/ start \in Starting)

\* stop() is called by the user, who stops what runs.
Stop(s) ==
  /\ running /\ stop[s] = "idle"
  /\ Disarm
  /\ stop' = [stop EXCEPT ![s] = "onStop"]
  /\ UNCHANGED <<start, starts, subscribed, db, bar>>

OnStopReturns(s) ==
  /\ stop[s] = "onStop"
  /\ stop' = [stop EXCEPT ![s] = "close"]
  /\ UNCHANGED <<running, start, starts, timer, armed, subscribed, db, bar, crossed>>

\* onStop throws: the call rejects and the database stays open.
OnStopThrows(s) ==
  /\ stop[s] = "onStop"
  /\ stop' = [stop EXCEPT ![s] = "idle"]
  /\ UNCHANGED <<running, start, starts, timer, armed, subscribed, db, bar, crossed>>

Closed(s) ==
  /\ stop[s] = "close"
  /\ stop' = [stop EXCEPT ![s] = "idle"]
  /\ db' = FALSE
  /\ UNCHANGED <<running, start, starts, timer, armed, subscribed, bar, crossed>>

-----------------------------------------------------------------------------
(* onKlineUpdate.                                                          *)

\* Mutant: a bar is taken though the engine does not run.
BarArrives_Always(b) ==
  /\ subscribed /\ bar[b] = "idle"
  /\ bar' = [bar EXCEPT ![b] = "db"]
  /\ UNCHANGED <<running, start, starts, timer, armed, subscribed, db, stop, crossed>>

BarArrives(b) ==
  /\ subscribed /\ bar[b] = "idle" /\ running
  /\ bar' = [bar EXCEPT ![b] = "db"]
  /\ UNCHANGED <<running, start, starts, timer, armed, subscribed, db, stop, crossed>>

BarStored(b) ==
  /\ bar[b] = "db" /\ db
  /\ bar' = [bar EXCEPT ![b] = "onBar"]
  /\ UNCHANGED <<running, start, starts, timer, armed, subscribed, db, stop, crossed>>

\* The database rejects, as it does once closed: neither the strategy nor
\* the drawdown check sees the bar.
BarRejected(b) ==
  /\ bar[b] = "db"
  /\ bar' = [bar EXCEPT ![b] = "idle"]
  /\ UNCHANGED <<running, start, starts, timer, armed, subscribed, db, stop, crossed>>

\* checkRiskControl finds the drawdown too large and calls stop(), running
\* or not, without awaiting it.
RiskStops ==
  /\ \E s \in Stopper :
       stop[s] = "idle" /\ stop' = [stop EXCEPT ![s] = "onStop"]
  /\ Disarm

RiskAccepts == UNCHANGED <<running, timer, armed, stop, crossed>>

\* The handler's end.  A drawdown that finds no free Stopper waits for one:
\* MaxStop bounds the calls, not the drawdowns.
RiskChecked(b) ==
  /\ bar' = [bar EXCEPT ![b] = "idle"]
  /\ RiskStops \/ RiskAccepts

OnBarReturns(b) ==
  /\ bar[b] = "onBar"
  /\ RiskChecked(b)
  /\ UNCHANGED <<start, starts, subscribed, db>>

OnBarThrows(b) ==
  /\ bar[b] = "onBar"
  /\ \/ /\ StopOnError
        /\ Disarm
        /\ bar' = [bar EXCEPT ![b] = "onStop"]
        /\ stop' = stop
     \/ /\ ~StopOnError
        /\ RiskChecked(b)
  /\ UNCHANGED <<start, starts, subscribed, db>>

\* The stop() a bar awaits.
BarOnStopReturns(b) ==
  /\ bar[b] = "onStop"
  /\ bar' = [bar EXCEPT ![b] = "close"]
  /\ UNCHANGED <<running, start, starts, timer, armed, subscribed, db, stop, crossed>>

\* onStop throws: the rejection leaves the handler, past the drawdown check.
BarOnStopThrows(b) ==
  /\ bar[b] = "onStop"
  /\ bar' = [bar EXCEPT ![b] = "idle"]
  /\ UNCHANGED <<running, start, starts, timer, armed, subscribed, db, stop, crossed>>

BarClosed(b) ==
  /\ bar[b] = "close"
  /\ db' = FALSE
  /\ RiskChecked(b)
  /\ UNCHANGED <<start, starts, subscribed>>

-----------------------------------------------------------------------------
StartStep   == Opened \/ AccountLoaded \/ Initialised \/ Subscribed \/ StartFails
StopStep(s) == OnStopReturns(s) \/ OnStopThrows(s) \/ Closed(s)
BarStep(b)  == \/ BarStored(b) \/ BarRejected(b) \/ OnBarReturns(b) \/ OnBarThrows(b)
               \/ BarOnStopReturns(b) \/ BarOnStopThrows(b) \/ BarClosed(b)

Next ==
  \/ Start \/ StartStep
  \/ \E s \in Stopper : Stop(s) \/ StopStep(s)
  \/ \E b \in Bar : BarArrives(b) \/ BarStep(b)

\* What the engine awaits settles: the database, the provider and the
\* strategy answer or reject.  Nobody has to start, stop or send a bar.
Fairness == /\ WF_vars(StartStep)
            /\ \A s \in Stopper : WF_vars(StopStep(s))
            /\ \A b \in Bar : WF_vars(BarStep(b))

Spec == Init /\ [][Next]_vars /\ Fairness

-----------------------------------------------------------------------------
(* Type invariant: an interval that fires was armed by an earlier start(). *)
EngineTypeOK ==
  /\ running \in BOOLEAN /\ subscribed \in BOOLEAN /\ db \in BOOLEAN /\ crossed \in BOOLEAN
  /\ start \in {"idle", "done", "failed"} \cup Starting
  /\ starts \in 0..MaxStart
  /\ timer \in 0..starts
  /\ armed \in SUBSET (1..starts)
  /\ bar \in [Bar -> {"idle", "db", "onBar"} \cup Stopping]
  /\ stop \in [Stopper -> {"idle"} \cup Stopping]

(* A stopped engine polls nothing: as long as no stop() ran beside a       *)
(* start(), whatever bars and stops overlapped and whichever start failed, *)
(* no interval fires but the one orderPollTimer holds, and none at all     *)
(* while the engine does not run.                                          *)
StoppedIsQuiet ==
  ~crossed => armed \subseteq {timer} \ {0} /\ (armed # {} => running)

(* A running engine is whole: once a start() that no stop() crossed has    *)
(* come through and while the engine runs, its database is open, it has    *)
(* its bars, and its interval fires; no late stop closed what the new      *)
(* start opened.                                                           *)
RunningIsWhole ==
  ~crossed /\ running /\ start = "done" => db /\ subscribed /\ armed = {starts}

(* A stopped engine comes to rest: the bars taken before it stopped, the   *)
(* stops they cause and the stop itself all end, unless it is started      *)
(* again, however many bars were on their way.                             *)
StopsSettle ==
  ~running ~> (running \/ (~BeingStopped /\ \A b \in Bar : bar[b] = "idle"))
=============================================================================
