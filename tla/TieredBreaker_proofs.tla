------------------------ MODULE TieredBreaker_proofs ------------------------
(***************************************************************************)
(* Proofs about TieredBreaker, for any set of levels, any configuration    *)
(* and any equities.                                                       *)
(***************************************************************************)
EXTENDS TieredBreaker, TLAPS

Content == [state : [Level -> CircuitState], failCount : [Level -> 0..MaxCount],
            globalState : CircuitState, peakNetEq : Equities \cup {0}]

\* A content of the memory or the file is sound: its global state is that of
\* its levels, and no enabled level is closed that has failed too often.
Agrees(g, s) == /\ g = "OPEN" <=> \E l \in Level : s[l] = "OPEN"
                /\ g = "CLOSED" <=> \A l \in Level : s[l] = "CLOSED"
Counts(s, f) == \A l \in Enabled : f[l] >= MaxFailures[l] => s[l] # "CLOSED"
Sound(m) == m \in Content /\ Agrees(m.globalState, m.state) /\ Counts(m.state, m.failCount)

Memory == Snapshot(state, failCount, globalState, peakNetEq)

Inv == /\ Sound(Memory) /\ Sound(saved)
       /\ BreakerTypeOK /\ SavedIsCurrent /\ ArmedWhileOpen

LEMMA GlobalAgrees ==
  ASSUME NEW s \in [Level -> CircuitState]
  PROVE  Global(s) \in CircuitState /\ Agrees(Global(s), s)
BY DEF Global, Agrees, CircuitState

LEMMA SnapshotFields ==
  ASSUME NEW s, NEW f, NEW g, NEW p
  PROVE  /\ Snapshot(s, f, g, p).state = s /\ Snapshot(s, f, g, p).failCount = f
         /\ Snapshot(s, f, g, p).globalState = g /\ Snapshot(s, f, g, p).peakNetEq = p
         /\ Snapshot(s, f, g, p) \in Content
              <=> /\ s \in [Level -> CircuitState] /\ f \in [Level -> 0..MaxCount]
                  /\ g \in CircuitState /\ p \in Equities \cup {0}
BY DEF Snapshot, Content

LEMMA SoundSnapshot ==
  ASSUME NEW s \in [Level -> CircuitState], NEW f \in [Level -> 0..MaxCount],
         NEW g \in CircuitState, NEW p \in Equities \cup {0}, Agrees(g, s), Counts(s, f)
  PROVE  Sound(Snapshot(s, f, g, p))
BY SnapshotFields DEF Sound

\* What the memory and the file start from is sound.
LEMMA InitialSound ==
  /\ Sound(Initial)
  /\ \A tripped \in BOOLEAN, peak \in Equities \cup {0} : Sound(OldFormat(tripped, peak))
<1> DEFINE s0 == [l \in Level |-> "CLOSED"]
           f0 == [l \in Level |-> 0]
           s1(t) == [l \in Level |-> IF t /\ l = "C" THEN "OPEN" ELSE "CLOSED"]
           g1(t) == IF t /\ "C" \in Level THEN "OPEN" ELSE "CLOSED"
<1>1. /\ s0 \in [Level -> CircuitState] /\ f0 \in [Level -> 0..MaxCount]
      /\ \A t \in BOOLEAN : s1(t) \in [Level -> CircuitState] /\ g1(t) \in CircuitState
  BY BreakerAssumption DEF CircuitState
<1>2. Agrees("CLOSED", s0) /\ \A t \in BOOLEAN : Agrees(g1(t), s1(t))
  BY DEF Agrees
<1>3. \A s : Counts(s, f0)
  <2>1. \A l \in Enabled : MaxFailures[l] \in Nat /\ MaxFailures[l] > 0 /\ f0[l] = 0
    BY BreakerAssumption
  <2> HIDE DEF f0
  <2> SUFFICES ASSUME NEW l \in Enabled PROVE ~(f0[l] >= MaxFailures[l])
    BY DEF Counts
  <2> QED
    BY <2>1
<1>4. Initial = Snapshot(s0, f0, "CLOSED", 0)
  BY DEF Initial
<1>5. "CLOSED" \in CircuitState /\ 0 \in Equities \cup {0}
  BY DEF CircuitState
<1>6. Sound(Initial)
  <2> HIDE DEF s0, f0
  <2> QED
    BY <1>1, <1>2, <1>3, <1>4, <1>5, SoundSnapshot
<1>7. ASSUME NEW t \in BOOLEAN, NEW p \in Equities \cup {0}
      PROVE  Sound(OldFormat(t, p))
  <2>1. OldFormat(t, p) = Snapshot(s1(t), f0, g1(t), p)
    BY DEF OldFormat
  <2>2. /\ s1(t) \in [Level -> CircuitState] /\ g1(t) \in CircuitState
        /\ Agrees(g1(t), s1(t)) /\ Counts(s1(t), f0)
    BY <1>1, <1>2, <1>3
  <2> HIDE DEF s1, f0, g1
  <2> QED
    BY <1>1, <2>1, <2>2, SoundSnapshot
<1> QED
  BY <1>6, <1>7

LEMMA InitInv == Init => Inv
<1> SUFFICES ASSUME Init PROVE Inv
  OBVIOUS
<1>1. /\ state = [l \in Level |-> "CLOSED"] /\ failCount = [l \in Level |-> 0]
      /\ Memory = Initial
  BY SnapshotFields DEF Init, Initial, Memory
<1>2. Sound(Memory) /\ Sound(saved)
  BY <1>1, InitialSound DEF Init
<1>3. BreakerTypeOK
  BY <1>1, <1>2, SnapshotFields DEF Init, Sound, Memory, Content, BreakerTypeOK
<1> QED
  BY <1>2, <1>3 DEF Init, Inv, SavedIsCurrent, ArmedWhileOpen

\* A step of a living process that leaves sound memory and saves it, or does
\* not and says so, or changes nothing that would have to be saved.
Writes == \/ saved' = Memory' /\ behind' = FALSE
          \/ saved' = saved /\ behind' = TRUE
          \/ saved' = saved /\ behind' = behind /\ state' = state

LEMMA LivingStep ==
  ASSUME Inv, alive, alive' = TRUE, Sound(Memory)', Writes,
         cooled' \in [Level -> BOOLEAN], resetTimer' \in [Level -> BOOLEAN],
         unarmed' \subseteq Level,
         \A l \in AutoReset \cap Timed : state'[l] = "OPEN" /\ l \notin unarmed' => resetTimer'[l]
  PROVE  Inv'
<1>1. Sound(saved)'
  BY DEF Writes, Inv, Sound
<1>2. /\ state' \in [Level -> CircuitState] /\ failCount' \in [Level -> 0..MaxCount]
      /\ globalState' \in CircuitState /\ peakNetEq' \in Equities \cup {0}
      /\ Memory'.state = state'
  BY SnapshotFields DEF Sound, Memory
<1>3. BreakerTypeOK'
  BY <1>1, <1>2 DEF BreakerTypeOK, Sound, Content, Writes, Inv
<1>4. SavedIsCurrent'
  BY <1>2 DEF SavedIsCurrent, Writes, Inv
<1>5. ArmedWhileOpen'
  BY DEF ArmedWhileOpen
<1> QED
  BY <1>1, <1>3, <1>4, <1>5 DEF Inv

\* SaveState, and a listener that throws, write as LivingStep wants.
LEMMA SaveWrites ==
  ASSUME SaveState \/ ListenerThrows
  PROVE  Writes
BY DEF SaveState, ListenerThrows, Writes, Memory

\* Memory is sound after a level has moved, if its counter allows the move.
LEMMA MoveSound ==
  ASSUME Inv, NEW l \in Level, NEW c \in CircuitState, NEW f \in [Level -> 0..MaxCount],
         NEW p \in Equities \cup {0},
         state' = [state EXCEPT ![l] = c], globalState' = Global(state'),
         failCount' = f, peakNetEq' = p,
         \A k \in Level \ {l} : f[k] = failCount[k],
         c = "CLOSED" => f[l] = 0
  PROVE  Sound(Memory)' /\ state' \in [Level -> CircuitState]
<1>1. state' \in [Level -> CircuitState]
  BY DEF Inv, BreakerTypeOK
<1>2. Global(state') \in CircuitState /\ Agrees(Global(state'), state')
  BY <1>1, GlobalAgrees
<1>3. Counts(state', f)
  <2>1. Counts(state, failCount)
    BY SnapshotFields DEF Inv, Sound, Memory
  <2> SUFFICES ASSUME NEW k \in Enabled, f[k] >= MaxFailures[k], state'[k] = "CLOSED"
               PROVE  FALSE
    BY DEF Counts
  <2>k. k \in Level /\ MaxFailures[k] \in Nat /\ MaxFailures[k] > 0
    BY BreakerAssumption
  <2>2. CASE k = l
    <3>1. c = "CLOSED"
      BY <2>2 DEF Inv, BreakerTypeOK
    <3> QED
      BY <2>k, <2>2, <3>1
  <2>3. CASE k # l
    BY <2>k, <2>1, <2>3 DEF Counts, Inv, BreakerTypeOK
  <2> QED
    BY <2>2, <2>3
<1>4. Sound(Snapshot(state', f, Global(state'), p))
  BY <1>1, <1>2, <1>3, SoundSnapshot
<1> QED
  BY <1>1, <1>4 DEF Memory

\* Memory is sound when levels have not moved and no counter has reached its
\* limit since.
LEMMA StaySound ==
  ASSUME Inv, NEW f \in [Level -> 0..MaxCount], NEW p \in Equities \cup {0},
         UNCHANGED <<state, globalState>>, failCount' = f, peakNetEq' = p,
         \A k \in Enabled : f[k] <= failCount[k] \/ f[k] < MaxFailures[k]
  PROVE  Sound(Memory)'
<1>1. Sound(Memory) /\ Counts(state, failCount) /\ Agrees(globalState, state)
  BY SnapshotFields DEF Inv, Sound, Memory
<1>2. Counts(state', f)
  <2> SUFFICES ASSUME NEW k \in Enabled, f[k] >= MaxFailures[k]
               PROVE  state'[k] # "CLOSED"
    BY DEF Counts
  <2>1. /\ f[k] \in Nat /\ failCount[k] \in Nat /\ MaxFailures[k] \in Nat
        /\ f[k] <= failCount[k] \/ f[k] < MaxFailures[k]
    BY BreakerAssumption DEF Inv, BreakerTypeOK
  <2> QED
    BY <1>1, <2>1 DEF Counts
<1>3. Memory' = Snapshot(state, f, globalState, p)
  BY DEF Memory
<1> QED
  BY <1>1, <1>2, <1>3, SnapshotFields DEF Sound, Inv, BreakerTypeOK

-----------------------------------------------------------------------------
\* A trip within a call that has set the counters and the peak.
LEMMA TripInv ==
  ASSUME Inv, NEW l \in Level, Trip(l), alive, alive' = alive,
         NEW f \in [Level -> 0..MaxCount], failCount' = f,
         \A k \in Level \ {l} : f[k] = failCount[k],
         peakNetEq' \in Equities \cup {0}
  PROVE  Inv'
<1>1. "OPEN" \in CircuitState /\ "OPEN" # "CLOSED"
  BY DEF CircuitState
<1>2. Sound(Memory)' /\ state' \in [Level -> CircuitState]
  BY <1>1, MoveSound DEF Trip
<1>3. Writes
  BY SaveWrites DEF Trip
<1>4. cooled' \in [Level -> BOOLEAN]
  BY DEF Trip, Inv, BreakerTypeOK
<1>5. /\ resetTimer' \in [Level -> BOOLEAN] /\ unarmed' \subseteq Level
      /\ \A k \in AutoReset \cap Timed : state'[k] = "OPEN" /\ k \notin unarmed' => resetTimer'[k]
  <2>1. CASE /\ resetTimer' = [resetTimer EXCEPT ![l] = @ \/ l \in AutoReset \cap Timed]
             /\ unarmed' = unarmed \ {l}
    BY <2>1, BreakerAssumption DEF Trip, Inv, BreakerTypeOK, ArmedWhileOpen
  <2>2. CASE ListenerThrows /\ unarmed' = unarmed \cup {l}
    BY <2>2, BreakerAssumption DEF Trip, ListenerThrows, Inv, BreakerTypeOK, ArmedWhileOpen
  <2> QED
    BY <2>1, <2>2 DEF Trip
<1> QED
  BY <1>2, <1>3, <1>4, <1>5, LivingStep

LEMMA TripCalledInv ==
  ASSUME Inv, NEW l \in Level, TripCalled(l)
  PROVE  Inv'
BY TripInv DEF TripCalled, Inv, BreakerTypeOK

\* Nothing moves but counters and the peak.
LEMMA CountsOnly ==
  ASSUME Inv, alive, alive' = alive, UNCHANGED <<state, globalState, timers, saved, behind>>,
         NEW f \in [Level -> 0..MaxCount], failCount' = f,
         peakNetEq' \in Equities \cup {0},
         \A k \in Enabled : f[k] <= failCount[k] \/ f[k] < MaxFailures[k]
  PROVE  Inv'
<1>1. Sound(Memory)'
  BY StaySound
<1>2. Writes
  BY DEF Writes
<1> QED
  BY <1>1, <1>2, LivingStep DEF timers, Inv, BreakerTypeOK, ArmedWhileOpen

LEMMA RecordFailureInv ==
  ASSUME Inv, NEW l \in Level, RecordFailure(l)
  PROVE  Inv'
<1> DEFINE f == [failCount EXCEPT ![l] = @ + 1]
<1>1. f \in [Level -> 0..MaxCount] /\ f[l] = failCount[l] + 1
  BY BreakerAssumption DEF RecordFailure, Inv, BreakerTypeOK
<1>2. \A k \in Level \ {l} : f[k] = failCount[k] /\ failCount[k] \in Nat
  BY DEF Inv, BreakerTypeOK
<1>3. failCount' = f /\ alive /\ alive' = alive /\ peakNetEq' \in Equities \cup {0}
  BY DEF RecordFailure, Inv, BreakerTypeOK
<1> HIDE DEF f
<1>4. CASE Trip(l)
  BY <1>1, <1>2, <1>3, <1>4, TripInv
<1>5. CASE /\ f[l] < MaxFailures[l] \/ l \notin Enabled
           /\ UNCHANGED <<state, globalState, timers, saved, behind>>
  <2>1. \A k \in Enabled : f[k] <= failCount[k] \/ f[k] < MaxFailures[k]
    BY <1>2, <1>5, BreakerAssumption
  <2> QED
    BY <1>1, <1>3, <1>5, <2>1, CountsOnly
<1> QED
  BY <1>3, <1>4, <1>5 DEF RecordFailure

LEMMA RecordSuccessInv ==
  ASSUME Inv, NEW l \in Level, RecordSuccess(l)
  PROVE  Inv'
<1> DEFINE f == [failCount EXCEPT ![l] = 0]
<1>1. f \in [Level -> 0..MaxCount] /\ f[l] = 0
  BY BreakerAssumption DEF Inv, BreakerTypeOK
<1>2. \A k \in Level \ {l} : f[k] = failCount[k]
  BY DEF Inv, BreakerTypeOK
<1>3. failCount' = f /\ alive /\ alive' = alive /\ peakNetEq' \in Equities \cup {0}
  BY DEF RecordSuccess, Inv, BreakerTypeOK
<1> HIDE DEF f
<1>4. CASE ConfirmReset(l)
  <2>1. Sound(Memory)' /\ state' \in [Level -> CircuitState]
    BY <1>1, <1>2, <1>3, <1>4, MoveSound DEF ConfirmReset, CircuitState
  <2>2. Writes
    BY <1>4, SaveWrites DEF ConfirmReset
  <2>3. /\ cooled' \in [Level -> BOOLEAN] /\ unarmed' \subseteq Level
        /\ resetTimer' \in [Level -> BOOLEAN]
        /\ \A k \in AutoReset \cap Timed : state'[k] = "OPEN" /\ k \notin unarmed' => resetTimer'[k]
    <3>1. /\ state' = [state EXCEPT ![l] = "CLOSED"]
          /\ cooled' = cooled /\ unarmed' = unarmed \ {l}
          /\ resetTimer' \in {resetTimer, [resetTimer EXCEPT ![l] = FALSE]}
      BY <1>4 DEF ConfirmReset, ListenerThrows
    <3>2. cooled' \in [Level -> BOOLEAN] /\ unarmed' \subseteq Level
      BY <3>1 DEF Inv, BreakerTypeOK
    <3>3. resetTimer' \in [Level -> BOOLEAN]
      BY <3>1 DEF Inv, BreakerTypeOK
    <3>4. ASSUME NEW k \in AutoReset \cap Timed, state'[k] = "OPEN", k \notin unarmed'
          PROVE  resetTimer'[k]
      <4>1. k # l /\ k \in Level /\ state[k] = "OPEN" /\ k \notin unarmed
        BY <3>1, <3>4, BreakerAssumption DEF Inv, BreakerTypeOK
      <4>2. resetTimer[k]
        BY <1>3, <4>1 DEF Inv, ArmedWhileOpen
      <4> QED
        BY <3>1, <4>1, <4>2 DEF Inv, BreakerTypeOK
    <3> QED
      BY <3>2, <3>3, <3>4
  <2> QED
    BY <1>3, <2>1, <2>2, <2>3, LivingStep
<1>5. CASE UNCHANGED <<state, globalState, timers, saved, behind>>
  <2>1. \A k \in Enabled : f[k] <= failCount[k] \/ f[k] < MaxFailures[k]
    <3> TAKE k \in Enabled
    <3>1. k \in Level /\ failCount[k] \in Nat
      BY BreakerAssumption DEF Inv, BreakerTypeOK
    <3> QED
      BY <1>1, <1>2, <3>1
  <2> QED
    BY <1>1, <1>3, <1>5, <2>1, CountsOnly
<1> QED
  BY <1>4, <1>5 DEF RecordSuccess

LEMMA CheckDrawdownInv ==
  ASSUME Inv, NEW e \in Equities, "C" \in Level, CheckDrawdown(e)
  PROVE  Inv'
<1>1. /\ failCount' = failCount /\ failCount \in [Level -> 0..MaxCount]
      /\ alive /\ alive' = alive /\ peakNetEq' \in Equities \cup {0}
  BY DEF CheckDrawdown, Inv, BreakerTypeOK
<1>2. CASE Trip("C")
  BY <1>1, <1>2, TripInv
<1>3. CASE UNCHANGED <<state, globalState, timers, saved, behind>>
  <2>1. \A k \in Enabled : failCount[k] <= failCount[k]
    BY <1>1, BreakerAssumption
  <2> QED
    BY <1>1, <1>3, <2>1, CountsOnly
<1> QED
  BY <1>2, <1>3 DEF CheckDrawdown

LEMMA HalfOpenInv ==
  ASSUME Inv, alive, alive' = alive, NEW l \in Level, ToHalfOpen(l),
         unarmed' = unarmed,
         resetTimer' \in {resetTimer, [resetTimer EXCEPT ![l] = FALSE]}
  PROVE  Inv'
<1>1. Sound(Memory)' /\ state' \in [Level -> CircuitState]
  BY MoveSound DEF ToHalfOpen, CircuitState, Inv, BreakerTypeOK
<1>2. Writes
  BY SaveWrites DEF ToHalfOpen
<1>3. /\ cooled' \in [Level -> BOOLEAN] /\ unarmed' \subseteq Level
      /\ resetTimer' \in [Level -> BOOLEAN]
      /\ \A k \in AutoReset \cap Timed : state'[k] = "OPEN" /\ k \notin unarmed' => resetTimer'[k]
  BY BreakerAssumption DEF ToHalfOpen, Inv, BreakerTypeOK, ArmedWhileOpen
<1> QED
  BY <1>1, <1>2, <1>3, LivingStep

LEMMA ResetInv ==
  ASSUME Inv, NEW l \in Level, AttemptReset(l) \/ ResetTimer(l) \/ Cools(l)
  PROVE  Inv'
<1>1. CASE AttemptReset(l)
  BY <1>1, HalfOpenInv DEF AttemptReset
<1>2. CASE ResetTimer(l)
  <2>1. CASE ToHalfOpen(l) /\ UNCHANGED unarmed
    BY <1>2, <2>1, HalfOpenInv DEF ResetTimer
  <2>2. CASE /\ unarmed' = IF state[l] = "OPEN" THEN unarmed \cup {l} ELSE unarmed
             /\ UNCHANGED <<memory, saved, cooled, behind>>
    <3>1. Sound(Memory)' /\ Writes
      BY <2>2 DEF memory, Memory, Inv, Writes
    <3> QED
      BY <1>2, <2>2, <3>1, LivingStep, BreakerAssumption
         DEF ResetTimer, memory, Inv, BreakerTypeOK, ArmedWhileOpen
  <2> QED
    BY <1>2, <2>1, <2>2 DEF ResetTimer
<1>3. CASE Cools(l)
  BY <1>3 DEF Cools, memory, Inv, Memory, BreakerTypeOK, SavedIsCurrent, ArmedWhileOpen
<1> QED
  BY <1>1, <1>2, <1>3

LEMMA AutoSaveInv ==
  ASSUME Inv, AutoSave
  PROVE  Inv'
<1>1. Writes /\ Sound(Memory)'
  BY SaveWrites DEF AutoSave, memory, Memory, Inv
<1> QED
  BY <1>1, LivingStep DEF AutoSave, memory, timers, Inv, BreakerTypeOK, ArmedWhileOpen

\* The file is sound, so what a restart loads is.
LEMMA EndsInv ==
  ASSUME Inv, Ends
  PROVE  Inv'
<1>1. Memory' = Initial
  BY SnapshotFields DEF Ends, Memory, Initial
<1>2. Sound(Memory)' /\ Sound(saved)'
  BY <1>1, InitialSound DEF Ends, Inv
<1>3. BreakerTypeOK'
  BY <1>1, <1>2, SnapshotFields DEF Ends, Sound, Memory, Content, BreakerTypeOK, Inv
<1> QED
  BY <1>2, <1>3 DEF Ends, Inv, SavedIsCurrent, ArmedWhileOpen

LEMMA RestartInv ==
  ASSUME Inv, Restart
  PROVE  Inv'
<1>1. saved = Snapshot(saved.state, saved.failCount, saved.globalState, saved.peakNetEq)
  BY DEF Inv, Sound, Content, Snapshot
<1>2. Memory' = saved /\ saved' = saved
  BY <1>1 DEF Restart, Memory
<1>3. Sound(Memory)' /\ Sound(saved)'
  BY <1>2 DEF Inv
<1>4. BreakerTypeOK'
  BY <1>3 DEF Restart, Sound, Content, BreakerTypeOK, Inv
<1> QED
  BY <1>3, <1>4, BreakerAssumption DEF Restart, Inv, SavedIsCurrent, ArmedWhileOpen

LEMMA NextInv == Inv /\ [Next]_vars => Inv'
<1> SUFFICES ASSUME Inv, [Next]_vars PROVE Inv'
  OBVIOUS
<1>1. CASE UNCHANGED vars
  BY <1>1 DEF vars, memory, timers, Inv, Memory, BreakerTypeOK, SavedIsCurrent, ArmedWhileOpen
<1>2. CASE Next
  BY <1>2, TripCalledInv, RecordFailureInv, RecordSuccessInv, ResetInv, CheckDrawdownInv,
     AutoSaveInv, EndsInv, RestartInv DEF Next
<1> QED
  BY <1>1, <1>2

LEMMA Invariance == Spec => []Inv
BY InitInv, NextInv, PTL DEF Spec

-----------------------------------------------------------------------------
\* The types of the breaker's state; a process that is down holds nothing.
THEOREM BreakerTypeCorrect == Spec => []BreakerTypeOK
BY Invariance, PTL DEF Inv

\* canTrade() answers for the levels, in memory and in the file.
THEOREM GlobalIsDerived == Spec => []GlobalFollows
<1>1. Inv => GlobalFollows
  BY DEF Inv, Sound, Agrees, GlobalFollows, Memory
<1> QED
  BY <1>1, Invariance, PTL

\* The file holds every move of the levels that could be saved.
THEOREM FileIsCurrent == Spec => []SavedIsCurrent
BY Invariance, PTL DEF Inv

\* A level that failed too often is not closed, across restarts.
THEOREM FailuresCount == Spec => []FailuresTrip
<1>1. Inv => FailuresTrip
  BY SnapshotFields DEF Inv, Sound, Counts, Memory, FailuresTrip
<1> QED
  BY <1>1, Invariance, PTL

\* An open breaker that resets itself has its timer, with three exceptions.
THEOREM OpenIsArmed == Spec => []ArmedWhileOpen
BY Invariance, PTL DEF Inv

\* No restart closes an open breaker: what is in force for an open level is
\* in the file as soon as the turn that opened it ends.
THEOREM OpenIsKept == Spec => OpenSurvives
<1> DEFINE Kept == \A l \in Level :
             Effective(l) = "OPEN" => \/ Effective(l)' = "OPEN"
                                      \/ Effective(l)' = "HALF_OPEN" /\ l \in AutoReset
                                      \/ behind
                                      \/ saved' # saved /\ ~alive'
<1>1. ASSUME Inv, Next
      PROVE  Kept
  <2> SUFFICES ASSUME NEW l \in Level, Effective(l) = "OPEN", ~behind,
                      Effective(l)' # "OPEN", saved' = saved \/ alive'
               PROVE  Effective(l)' = "HALF_OPEN" /\ l \in AutoReset
    OBVIOUS
  <2>t. state \in [Level -> CircuitState]
    BY <1>1 DEF Inv, BreakerTypeOK
  <2>1. CASE \E k \in Level : TripCalled(k) \/ RecordFailure(k)
    BY <2>1, <2>t DEF TripCalled, RecordFailure, Trip, Effective
  <2>2. CASE \E k \in Level : RecordSuccess(k)
    BY <2>2, <2>t DEF RecordSuccess, ConfirmReset, Effective
  <2>3. CASE \E k \in Level : AttemptReset(k) \/ ResetTimer(k) \/ Cools(k)
    BY <2>3, <2>t DEF AttemptReset, ResetTimer, Cools, ToHalfOpen, Effective, memory
  <2>4. CASE "C" \in Level /\ \E e \in Equities : CheckDrawdown(e)
    BY <2>4, <2>t DEF CheckDrawdown, Trip, Effective
  <2>5. CASE AutoSave
    BY <2>5 DEF AutoSave, memory, Effective
  <2>6. CASE Ends
    BY <1>1, <2>6 DEF Ends, Inv, SavedIsCurrent, Effective
  <2>7. CASE Restart
    BY <2>7 DEF Restart, Effective
  <2> QED
    BY <1>1, <2>1, <2>2, <2>3, <2>4, <2>5, <2>6, <2>7 DEF Next
<1>2. ASSUME Inv, [Next]_vars
      PROVE  [Kept]_vars
  BY <1>1, <1>2
<1> QED
  BY <1>2, Invariance, PTL DEF Spec, OpenSurvives
=============================================================================
