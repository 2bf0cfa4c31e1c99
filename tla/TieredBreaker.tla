---------------------------- MODULE TieredBreaker ----------------------------
(***************************************************************************)
(* The circuit breakers of quant-lab (execution/tiered-circuit-breaker.ts):*)
(* one per level, each closed, open or half open, a global state derived   *)
(* from them that decides whether a strategy may trade, timers that reset  *)
(* an open breaker, and a file from which all of it is loaded again.       *)
(*                                                                         *)
(* Every method is one turn of the event loop.  The process may end between*)
(* two turns, or while it writes the file.                                 *)
(***************************************************************************)
EXTENDS Integers

CONSTANTS Level,          \* those that can trip: "A", "B", "C"
          Enabled,        \* config: the levels that are switched on
          AutoReset,      \* config: the levels that reset themselves
          Timed,          \* config: the levels whose resetTimeoutMs is above 0
          MaxFailures,    \* maxConsecutiveFailures of each level
          MaxDrawdown,    \* maxDrawdownPercent, in hundredths
          Equities,       \* the net equities checked
          MaxCount        \* bound: failures counted

ASSUME BreakerAssumption ==
  /\ Enabled \subseteq Level /\ AutoReset \subseteq Level /\ Timed \subseteq Level
  /\ MaxFailures \in [Level -> Nat \ {0}]
  /\ MaxDrawdown \in Nat /\ MaxCount \in Nat
  /\ Equities \subseteq Int

CircuitState == {"CLOSED", "OPEN", "HALF_OPEN"}

VARIABLES
  state, failCount, globalState, peakNetEq,   \* what is in the object and the file
  alive,         \* the process that holds the breaker runs
  saved,         \* the file
  cooled,        \* resetTimeoutMs have gone by since triggeredAt
  resetTimer,    \* the reset timer of a level is armed
  unarmed,       \* history: open levels left without a timer that can reset them
  behind         \* history: the last save failed, or was not reached

memory == <<state, failCount, globalState, peakNetEq>>
timers == <<cooled, resetTimer, unarmed>>
vars == <<memory, alive, saved, timers, behind>>

-----------------------------------------------------------------------------
(* The file.                                                               *)

Global_Partial(s) ==
  CASE \A l \in Level : s[l] = "OPEN" -> "OPEN"
    [] ~(\A l \in Level : s[l] = "OPEN") /\ \E l \in Level : s[l] # "CLOSED" -> "HALF_OPEN"
    [] OTHER -> "CLOSED"

\* updateGlobalState
Global(s) ==
  CASE \E l \in Level : s[l] = "OPEN" -> "OPEN"
    [] ~(\E l \in Level : s[l] = "OPEN") /\ \E l \in Level : s[l] = "HALF_OPEN" -> "HALF_OPEN"
    [] OTHER -> "CLOSED"

Snapshot(s, f, g, p) == [state |-> s, failCount |-> f, globalState |-> g, peakNetEq |-> p]

\* createInitialState
Initial == Snapshot([l \in Level |-> "CLOSED"], [l \in Level |-> 0], "CLOSED", 0)

\* migrateFromOldFormat: a file without a version, of a breaker of one level.
OldFormat(tripped, peak) ==
  Snapshot([l \in Level |-> IF tripped /\ l = "C" THEN "OPEN" ELSE "CLOSED"],
           [l \in Level |-> 0], IF tripped /\ "C" \in Level THEN "OPEN" ELSE "CLOSED", peak)

\* A save that fails is logged, and the program goes on.
SaveState ==
  \/ /\ saved' = Snapshot(state', failCount', globalState', peakNetEq')
     /\ behind' = FALSE
  \/ /\ behind' = TRUE
     /\ UNCHANGED saved

Init ==
  /\ \/ saved = Initial
     \/ \E tripped \in BOOLEAN, peak \in Equities \cup {0} : saved = OldFormat(tripped, peak)
  /\ state = Initial.state /\ failCount = Initial.failCount
  /\ globalState = "CLOSED" /\ peakNetEq = 0
  /\ alive = FALSE
  /\ cooled = [l \in Level |-> FALSE] /\ resetTimer = [l \in Level |-> FALSE]
  /\ unarmed = {}
  /\ behind = FALSE

-----------------------------------------------------------------------------
(* The three moves of a breaker.  The listeners of a move run before the   *)
(* timer is set or cleared and before the save: one that throws ends it.   *)

ListenerThrows ==
  /\ behind' = TRUE
  /\ UNCHANGED <<saved, resetTimer>>

Trip_NoTimer(l) ==
  /\ l \in Enabled
  /\ state' = [state EXCEPT ![l] = "OPEN"]
  /\ globalState' = Global(state')
  /\ cooled' = [cooled EXCEPT ![l] = l \notin Timed]
  /\ unarmed' = unarmed \ {l}
  /\ SaveState
  /\ UNCHANGED resetTimer

Trip(l) ==
  /\ l \in Enabled
  /\ state' = [state EXCEPT ![l] = "OPEN"]
  /\ globalState' = Global(state')
  /\ cooled' = [cooled EXCEPT ![l] = l \notin Timed]
  /\ \/ /\ resetTimer' = [resetTimer EXCEPT ![l] = @ \/ l \in AutoReset \cap Timed]
        /\ unarmed' = unarmed \ {l}
        /\ SaveState
     \/ /\ ListenerThrows
        /\ unarmed' = unarmed \cup {l}

ToHalfOpen(l) ==
  /\ state[l] = "OPEN" /\ l \in AutoReset /\ cooled[l]
  /\ state' = [state EXCEPT ![l] = "HALF_OPEN"]
  /\ globalState' = Global(state')
  /\ UNCHANGED <<failCount, peakNetEq, cooled>>
  /\ SaveState

ConfirmReset(l) ==
  /\ state' = [state EXCEPT ![l] = "CLOSED"]
  /\ globalState' = Global(state')
  /\ unarmed' = unarmed \ {l}
  /\ \/ /\ resetTimer' = [resetTimer EXCEPT ![l] = FALSE]
        /\ SaveState
     \/ ListenerThrows
  /\ UNCHANGED cooled

-----------------------------------------------------------------------------
(* Calls.                                                                  *)

TripCalled(l) ==
  /\ alive
  /\ UNCHANGED <<failCount, peakNetEq, alive>>
  /\ Trip(l)

RecordFailure_OneLate(l) ==
  /\ alive /\ failCount[l] < MaxCount
  /\ failCount' = [failCount EXCEPT ![l] = @ + 1]
  /\ UNCHANGED <<peakNetEq, alive>>
  /\ \/ failCount'[l] > MaxFailures[l] /\ Trip(l)
     \/ /\ failCount'[l] <= MaxFailures[l] \/ l \notin Enabled
        /\ UNCHANGED <<state, globalState, timers, saved, behind>>

\* A failure that does not trip is not saved.
RecordFailure(l) ==
  /\ alive /\ failCount[l] < MaxCount
  /\ failCount' = [failCount EXCEPT ![l] = @ + 1]
  /\ UNCHANGED <<peakNetEq, alive>>
  /\ \/ failCount'[l] >= MaxFailures[l] /\ Trip(l)
     \/ /\ failCount'[l] < MaxFailures[l] \/ l \notin Enabled
        /\ UNCHANGED <<state, globalState, timers, saved, behind>>

RecordSuccess(l) ==
  /\ alive
  /\ failCount' = [failCount EXCEPT ![l] = 0]
  /\ UNCHANGED <<peakNetEq, alive>>
  /\ \/ state[l] = "HALF_OPEN" /\ ConfirmReset(l)
     \/ /\ state[l] # "HALF_OPEN"
        /\ UNCHANGED <<state, globalState, timers, saved, behind>>

Drawn(peak, equity) == peak > 0 /\ (peak - equity) * 100 >= MaxDrawdown * peak

\* The peak is kept for good: a drawdown trips the breaker at every check.
CheckDrawdown(equity) ==
  /\ alive
  /\ peakNetEq' = IF equity > peakNetEq THEN equity ELSE peakNetEq
  /\ UNCHANGED <<failCount, alive>>
  /\ \/ Drawn(peakNetEq', equity) /\ Trip("C")
     \/ /\ ~Drawn(peakNetEq', equity) \/ "C" \notin Enabled
        /\ UNCHANGED <<state, globalState, timers, saved, behind>>

AttemptReset(l) ==
  /\ alive /\ ToHalfOpen(l)
  /\ UNCHANGED <<alive, resetTimer, unarmed>>

-----------------------------------------------------------------------------
(* Time.                                                                   *)

\* The timer counts from the start of its turn of the loop and attemptReset
\* from the trip: when it comes too soon the attempt fails, and nobody tries again.
ResetTimer(l) ==
  /\ alive /\ resetTimer[l]
  /\ resetTimer' = [resetTimer EXCEPT ![l] = FALSE]
  /\ \/ ToHalfOpen(l) /\ UNCHANGED unarmed
     \/ /\ state[l] # "OPEN" \/ ~cooled[l]
        /\ unarmed' = IF state[l] = "OPEN" THEN unarmed \cup {l} ELSE unarmed
        /\ UNCHANGED <<memory, saved, cooled, behind>>
  /\ UNCHANGED alive

Cools(l) ==
  /\ state[l] = "OPEN" /\ ~cooled[l]
  /\ cooled' = [cooled EXCEPT ![l] = TRUE]
  /\ UNCHANGED <<memory, alive, saved, resetTimer, unarmed, behind>>

AutoSave ==
  /\ alive
  /\ UNCHANGED <<memory, alive, timers>>
  /\ SaveState

Ends_KeepsTimers ==
  /\ alive /\ alive' = FALSE
  /\ state' = Initial.state /\ failCount' = Initial.failCount
  /\ globalState' = Initial.globalState /\ peakNetEq' = Initial.peakNetEq
  /\ unarmed' = {}
  /\ behind' = FALSE
  /\ UNCHANGED <<saved, cooled, resetTimer>>

\* destroy(), or the end of the process: what was not saved is lost, and an
\* end in the middle of a save leaves half a file, which is read as none.
Ends ==
  /\ alive /\ alive' = FALSE
  /\ saved' \in {saved, Initial}
  /\ state' = Initial.state /\ failCount' = Initial.failCount
  /\ globalState' = Initial.globalState /\ peakNetEq' = Initial.peakNetEq
  /\ resetTimer' = [l \in Level |-> FALSE]
  /\ unarmed' = {}
  /\ behind' = FALSE
  /\ UNCHANGED cooled

Restart_AllClosed ==
  /\ ~alive /\ alive' = TRUE
  /\ state' = [l \in Level |-> "CLOSED"] /\ failCount' = saved.failCount
  /\ globalState' = "CLOSED" /\ peakNetEq' = saved.peakNetEq
  /\ UNCHANGED <<saved, timers, behind>>

\* The constructor.  loadState sets no timer.
Restart ==
  /\ ~alive /\ alive' = TRUE
  /\ state' = saved.state /\ failCount' = saved.failCount
  /\ globalState' = saved.globalState /\ peakNetEq' = saved.peakNetEq
  /\ unarmed' = {l \in Level : saved.state[l] = "OPEN"}
  /\ UNCHANGED <<saved, cooled, resetTimer, behind>>

Next ==
  \/ \E l \in Level : TripCalled(l) \/ RecordFailure(l) \/ RecordSuccess(l) \/ AttemptReset(l)
  \/ \E l \in Level : ResetTimer(l) \/ Cools(l)
  \/ "C" \in Level /\ \E e \in Equities : CheckDrawdown(e)
  \/ AutoSave \/ Ends \/ Restart

Spec == Init /\ [][Next]_vars

\* The event loop fires the timers; those that come too soon need no help.
Fairness == \A l \in Level : WF_vars(Cools(l)) /\ WF_vars(cooled[l] /\ ResetTimer(l))

FairSpec == Spec /\ Fairness

-----------------------------------------------------------------------------
(* Properties.                                                             *)

\* While the process is down there is nothing but the file.
BreakerTypeOK ==
  /\ state \in [Level -> CircuitState]
  /\ failCount \in [Level -> 0..MaxCount]
  /\ globalState \in CircuitState
  /\ peakNetEq \in Equities \cup {0}
  /\ alive \in BOOLEAN
  /\ saved \in [state : [Level -> CircuitState], failCount : [Level -> 0..MaxCount],
                globalState : CircuitState, peakNetEq : Equities \cup {0}]
  /\ cooled \in [Level -> BOOLEAN] /\ resetTimer \in [Level -> BOOLEAN]
  /\ unarmed \subseteq Level
  /\ behind \in BOOLEAN
  /\ ~alive => Snapshot(state, failCount, globalState, peakNetEq) = Initial
              /\ \A l \in Level : ~resetTimer[l]

\* canTrade() (tiered-circuit-breaker.ts:574): nobody trades past an open
\* level, and nobody is kept from trading when none is open, also after the
\* state was loaded, migrated, or left by a listener that threw.
GlobalFollows ==
  \A m \in {Snapshot(state, failCount, globalState, peakNetEq), saved} :
    /\ m.globalState = "OPEN" <=> \E l \in Level : m.state[l] = "OPEN"
    /\ m.globalState = "CLOSED" <=> \A l \in Level : m.state[l] = "CLOSED"

\* Each move is in the file before its turn ends (408, 450, 488), unless that
\* save failed or was not reached: what would be restored is what is in force.
SavedIsCurrent == alive /\ ~behind => saved.state = state

\* What is in force for a level, now or after the next restart.
Effective(l) == IF alive THEN state[l] ELSE saved.state[l]

\* No restart, however often and whenever it comes, closes an open breaker,
\* and one that does not reset itself stays open for good: unless the last
\* save failed, or the process ended while it wrote the file (386-408, 277).
OpenSurvives ==
  [][\A l \in Level :
       Effective(l) = "OPEN" => \/ Effective(l)' = "OPEN"
                                \/ Effective(l)' = "HALF_OPEN" /\ l \in AutoReset
                                \/ behind
                                \/ saved' # saved /\ ~alive']_vars

\* A level that has failed too often in a row is not closed, also when the
\* failures were counted on both sides of a restart (504).
FailuresTrip ==
  \A l \in Enabled : alive /\ failCount[l] >= MaxFailures[l] => state[l] # "CLOSED"

\* An open breaker that resets itself after a while has its timer, unless it was loaded
\* open, its trip was cut short by a listener, or its timer came too soon.
ArmedWhileOpen ==
  \A l \in AutoReset \cap Timed :
    alive /\ state[l] = "OPEN" /\ l \notin unarmed => resetTimer[l]

\* So it becomes half open, if it is not tripped again for ever (403).
SelfResets ==
  \A l \in AutoReset \cap Timed :
    \/ []<><<cooled[l] /\ ~cooled'[l]>>_vars
    \/ (alive /\ state[l] = "OPEN" /\ l \notin unarmed)
         ~> (state[l] # "OPEN" \/ l \in unarmed \/ ~alive)
=============================================================================
