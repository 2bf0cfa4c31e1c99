------------------------- MODULE LiveEngine_proofs -------------------------
(***************************************************************************)
(* Proofs about LiveEngine, for any numbers of starts, stops and bars.     *)
(***************************************************************************)
EXTENDS LiveEngine, TLAPS

\* While no stop() has run beside a start(): what the two leave behind.
Uncrossed ==
  /\ armed = {timer} \ {0}
  /\ timer # 0 => running /\ start = "done"
  /\ start \in Starting => running
  /\ running /\ start \in Starting \cup {"done"} => ~BeingStopped
  /\ start \in {"account", "onInit", "subscribe"} => db
  /\ start = "subscribe" => subscribed
  /\ running /\ start = "done" => db /\ subscribed /\ timer = starts

Inv == /\ EngineTypeOK
       /\ start # "idle" => starts # 0
       /\ ~crossed => Uncrossed

LEMMA Progressing ==
  ASSUME Inv, StartStep
  PROVE  Inv'
<1> USE DEF Inv, EngineTypeOK, Starting, Stopping, BeingStopped, Uncrossed
<1>1. CASE Opened
  BY <1>1 DEF Opened
<1>2. CASE AccountLoaded
  BY <1>2 DEF AccountLoaded
<1>3. CASE Initialised
  BY <1>3 DEF Initialised
<1>4. CASE Subscribed
  <2>1. starts \in 1..starts /\ starts # 0
    BY <1>4, EngineAssumption DEF Subscribed
  <2>2. EngineTypeOK'
    BY <1>4, <2>1 DEF Subscribed
  <2>3. ASSUME ~crossed PROVE Uncrossed'
    BY <1>4, <2>1, <2>3 DEF Subscribed
  <2> QED
    BY <1>4, <2>1, <2>2, <2>3 DEF Subscribed
<1>5. CASE StartFails
  BY <1>5 DEF StartFails
<1> QED
  BY <1>1, <1>2, <1>3, <1>4, <1>5 DEF StartStep

\* A turn that calls stop(), whatever it does to the calls under way.
LEMMA Disarmed ==
  ASSUME Inv, Disarm, UNCHANGED <<start, starts, subscribed>>,
         db' \in BOOLEAN, db' # db => BeingStopped,
         bar' \in [Bar -> {"idle", "db", "onBar"} \cup Stopping],
         stop' \in [Stopper -> {"idle"} \cup Stopping]
  PROVE  Inv'
<1>1. EngineTypeOK'
  <2>1. crossed' \in BOOLEAN
    BY DEF Disarm
  <2>2. timer' \in 0..starts /\ armed' \in SUBSET (1..starts)
    BY EngineAssumption DEF Inv, EngineTypeOK, Disarm
  <2> QED
    BY <2>1, <2>2 DEF Inv, EngineTypeOK, Disarm
<1>2. ASSUME ~crossed' PROVE Uncrossed'
  <2>1. ~crossed /\ start \notin Starting
    BY <1>2 DEF Disarm
  <2> QED
    BY <2>1 DEF Inv, EngineTypeOK, Uncrossed, Disarm, Starting
<1> QED
  BY <1>1, <1>2 DEF Inv

\* A turn that neither calls stop() nor begins one: it may close the
\* database only as a step of a stop under way.
LEMMA Carried ==
  ASSUME Inv, UNCHANGED <<running, start, starts, timer, armed, subscribed, crossed>>,
         db' \in BOOLEAN, db' # db => BeingStopped, BeingStopped' => BeingStopped,
         bar' \in [Bar -> {"idle", "db", "onBar"} \cup Stopping],
         stop' \in [Stopper -> {"idle"} \cup Stopping]
  PROVE  Inv'
BY DEF Inv, EngineTypeOK, Uncrossed, Starting

LEMMA StopKeeps ==
  ASSUME Inv, NEW s \in Stopper, Stop(s) \/ StopStep(s)
  PROVE  Inv'
<1> USE DEF Stopping
<1>1. CASE Stop(s)
  BY <1>1, Disarmed DEF Stop, Inv, EngineTypeOK
<1>2. CASE OnStopReturns(s) \/ OnStopThrows(s) \/ Closed(s)
  <2>1. /\ UNCHANGED <<running, start, starts, timer, armed, subscribed, bar, crossed>>
        /\ stop[s] # "idle"
        /\ \E p \in {"idle", "close"} : stop' = [stop EXCEPT ![s] = p]
        /\ db' \in {db, FALSE}
    BY <1>2 DEF OnStopReturns, OnStopThrows, Closed
  <2>2. BeingStopped
    BY <2>1 DEF BeingStopped
  <2>3. stop' \in [Stopper -> {"idle"} \cup Stopping]
    BY <2>1 DEF Inv, EngineTypeOK
  <2> QED
    BY <2>1, <2>2, <2>3, Carried DEF Inv, EngineTypeOK
<1> QED
  BY <1>1, <1>2 DEF StopStep

\* The end of a handler.
LEMMA Checked ==
  ASSUME Inv, NEW b \in Bar, RiskChecked(b), UNCHANGED <<start, starts, subscribed>>,
         db' \in BOOLEAN, db' # db => BeingStopped
  PROVE  Inv'
<1>1. bar' \in [Bar -> {"idle", "db", "onBar"} \cup Stopping]
  BY DEF RiskChecked, Inv, EngineTypeOK
<1>2. CASE RiskStops
  BY <1>1, <1>2, Disarmed DEF RiskStops, Inv, EngineTypeOK, Stopping
<1>3. CASE RiskAccepts
  <2>1. BeingStopped' => BeingStopped
    BY <1>3 DEF RiskAccepts, RiskChecked, BeingStopped, Stopping, Inv, EngineTypeOK
  <2> QED
    BY <1>1, <1>3, <2>1, Carried DEF RiskAccepts, Inv, EngineTypeOK
<1> QED
  BY <1>2, <1>3 DEF RiskChecked

LEMMA BarKeeps ==
  ASSUME Inv, NEW b \in Bar, BarArrives(b) \/ BarStep(b)
  PROVE  Inv'
<1> USE DEF Stopping
<1>1. CASE BarArrives(b) \/ BarStored(b) \/ BarRejected(b) \/ BarOnStopReturns(b) \/ BarOnStopThrows(b)
  <2>1. /\ UNCHANGED <<running, start, starts, timer, armed, subscribed, db, stop, crossed>>
        /\ \E p \in {"idle", "db", "onBar", "close"} :
             /\ bar' = [bar EXCEPT ![b] = p]
             /\ p = "close" => bar[b] = "onStop"
    BY <1>1 DEF BarArrives, BarStored, BarRejected, BarOnStopReturns, BarOnStopThrows
  <2>2. bar' \in [Bar -> {"idle", "db", "onBar"} \cup Stopping]
    BY <2>1 DEF Inv, EngineTypeOK
  <2>3. BeingStopped' => BeingStopped
    BY <2>1 DEF Inv, EngineTypeOK, BeingStopped
  <2> QED
    BY <2>1, <2>2, <2>3, Carried DEF Inv, EngineTypeOK
<1>2. CASE OnBarReturns(b)
  BY <1>2, Checked DEF OnBarReturns, Inv, EngineTypeOK
<1>3. CASE OnBarThrows(b)
  <2>1. CASE StopOnError
    BY <1>3, <2>1, Disarmed DEF OnBarThrows, Inv, EngineTypeOK
  <2>2. CASE ~StopOnError
    BY <1>3, <2>2, Checked DEF OnBarThrows, Inv, EngineTypeOK
  <2> QED
    BY <2>1, <2>2
<1>4. CASE BarClosed(b)
  <2>1. BeingStopped
    BY <1>4 DEF BarClosed, BeingStopped
  <2> QED
    BY <1>4, <2>1, Checked DEF BarClosed
<1> QED
  BY <1>1, <1>2, <1>3, <1>4 DEF BarStep

LEMMA Invariance == Spec => []Inv
<1>1. Init => Inv
  <2> SUFFICES ASSUME Init PROVE Inv
    OBVIOUS
  <2>1. EngineTypeOK
    <3>1. starts \in 0..MaxStart /\ timer \in 0..starts /\ armed \in SUBSET (1..starts)
      BY EngineAssumption DEF Init
    <3>2. /\ bar \in [Bar -> {"idle", "db", "onBar"} \cup Stopping]
          /\ stop \in [Stopper -> {"idle"} \cup Stopping]
      BY DEF Init
    <3>3. running \in BOOLEAN /\ subscribed \in BOOLEAN /\ db \in BOOLEAN /\ crossed \in BOOLEAN
      BY DEF Init
    <3> QED
      BY <3>1, <3>2, <3>3 DEF Init, EngineTypeOK
  <2>2. Uncrossed
    BY DEF Init, Uncrossed, Starting
  <2> QED
    BY <2>1, <2>2 DEF Init, Inv
<1>2. Inv /\ [Next]_vars => Inv'
  <2> SUFFICES ASSUME Inv, [Next]_vars PROVE Inv'
    OBVIOUS
  <2>1. CASE Start
    <3>1. starts' = starts + 1 /\ starts' \in 1..MaxStart /\ 0..starts \subseteq 0..starts'
          /\ 1..starts \subseteq 1..starts'
      BY <2>1, EngineAssumption DEF Start, Inv, EngineTypeOK
    <3>2. crossed' \in BOOLEAN /\ (~crossed' => ~crossed /\ ~BeingStopped)
      BY <2>1 DEF Start
    <3>3. EngineTypeOK'
      BY <2>1, <3>1, <3>2 DEF Start, Inv, EngineTypeOK, Starting
    <3>4. BeingStopped' <=> BeingStopped
      BY <2>1 DEF Start, BeingStopped
    <3>5. ASSUME ~crossed' PROVE Uncrossed'
      BY <2>1, <3>2, <3>4, <3>5 DEF Start, Inv, Uncrossed, Starting
    <3> QED
      BY <3>1, <3>3, <3>5, EngineAssumption DEF Inv
  <2>2. CASE StartStep
    BY <2>2, Progressing
  <2>3. ASSUME NEW s \in Stopper, Stop(s) \/ StopStep(s) PROVE Inv'
    BY <2>3, StopKeeps
  <2>4. ASSUME NEW b \in Bar, BarArrives(b) \/ BarStep(b) PROVE Inv'
    BY <2>4, BarKeeps
  <2>5. CASE UNCHANGED vars
    BY <2>5 DEF vars, Inv, EngineTypeOK, Uncrossed, BeingStopped
  <2> QED
    BY <2>1, <2>2, <2>3, <2>4, <2>5 DEF Next
<1> QED
  BY <1>1, <1>2, PTL DEF Spec

(* The types of the engine's life hold, and an interval that fires was     *)
(* armed by an earlier start(), whatever the bounds.                       *)
THEOREM EngineTypeCorrect == Spec => []EngineTypeOK
<1>1. Inv => EngineTypeOK
  BY DEF Inv
<1> QED
  BY Invariance, <1>1, PTL

(* A stopped engine polls nothing (stop() clears what orderPollTimer       *)
(* holds), for any number of bars, stops and starts that overlap, as long  *)
(* as no stop() ran beside a start().                                      *)
THEOREM StopSilences == Spec => []StoppedIsQuiet
<1>1. Inv => StoppedIsQuiet
  BY DEF Inv, Uncrossed, StoppedIsQuiet
<1> QED
  BY Invariance, <1>1, PTL

(* A running engine has its database, its bars and its interval under the  *)
(* same condition: what start() awaited is still there.                    *)
THEOREM RunningHasAll == Spec => []RunningIsWhole
<1>1. Inv => RunningIsWhole
  BY DEF Inv, EngineTypeOK, Uncrossed, RunningIsWhole
<1> QED
  BY Invariance, <1>1, PTL
=============================================================================
