--------------------------- MODULE PositionReducer ---------------------------
(***************************************************************************)
(* How quant-lab sells a part of a position whose leverage is too high:    *)
(* the state machine of execution/position-reducer.ts, and the execution   *)
(* layer to which execution/position-risk-manager.ts hands its actions.    *)
(*                                                                         *)
(* Every method is one turn of the event loop.  Between turns the executor *)
(* works on the actions it was given, and confirms them when it likes,     *)
(* more than once, or never.                                               *)
(***************************************************************************)
EXTENDS Integers, Sequences

CONSTANTS Leverages,          \* the leverages a position is seen with
          NoPosition,         \* before the first position is reported
          WarningLeverage, ReduceLeverage, TargetLeverage,   \* the thresholds
          MaxActions          \* bound: actions ever created

ASSUME ThresholdAssumption ==
  /\ Leverages \subseteq Int
  /\ {WarningLeverage, ReduceLeverage, TargetLeverage} \subseteq Int
  /\ NoPosition \notin Leverages
  /\ MaxActions \in Nat

ReducePositionState == {"IDLE", "WARNING", "REDUCE", "RECOVERY"}
Calm == {"IDLE", "RECOVERY"}
Action == 1..MaxActions

VARIABLES
  state, reduceInProgress,
  position,     \* the leverage of the current position, or NoPosition
  cooling,      \* less than cooldownMs have gone by since lastReduceTime
  audit,        \* the actions in order: who asked for them, and `executed`
  executor,     \* what became of each action in the execution layer
  strayed,      \* history: a confirmation or a reset ended what it did not mean
  grounds       \* history: what speaks for selling since the machine was last calm

vars == <<state, reduceInProgress, position, cooling, audit, executor, strayed, grounds>>

Init ==
  /\ state = "IDLE"
  /\ reduceInProgress = FALSE
  /\ position = NoPosition
  /\ cooling = FALSE
  /\ audit = <<>>
  /\ executor = [a \in Action |-> "none"]
  /\ strayed = FALSE
  /\ grounds = {}

Created    == 1..Len(audit)
\* The actions somebody may still carry out or confirm for the first time.
Pending(a) == executor[a] \in {"returned", "working", "silent"}

-----------------------------------------------------------------------------
(* The state machine.                                                      *)

\* Out of danger, or not yet in it.
Calmer(leverage) ==
  CASE leverage > WarningLeverage -> "WARNING"
    [] leverage <= WarningLeverage /\ leverage > TargetLeverage
         /\ state = "RECOVERY" -> "RECOVERY"
    [] OTHER -> "IDLE"

TargetState_Eager(leverage) ==
  IF state = "REDUCE" \/ leverage > ReduceLeverage THEN "REDUCE" ELSE Calmer(leverage)

\* Where the leverage leads: never out of REDUCE, and into it from WARNING only.
TargetState(leverage) ==
  IF state = "REDUCE" \/ (state = "WARNING" /\ leverage > ReduceLeverage)
  THEN "REDUCE" ELSE Calmer(leverage)

ExecuteReduce_Unrecorded(forced) ==
  /\ Len(audit) < MaxActions
  /\ reduceInProgress' = TRUE
  /\ cooling' = TRUE
  /\ executor' = [executor EXCEPT ![Len(audit) + 1] =
                    IF forced THEN "returned" ELSE "working"]
  /\ UNCHANGED audit

\* canReduce is not asked when somebody forces a reduction.
ExecuteReduce(forced) ==
  /\ Len(audit) < MaxActions
  /\ reduceInProgress' = TRUE
  /\ cooling' = TRUE
  /\ audit' = Append(audit, [forced |-> forced, executed |-> FALSE])
  /\ executor' = [executor EXCEPT ![Len(audit) + 1] =
                    IF forced THEN "returned" ELSE "working"]

\* History: a sample over the warning threshold, and after that one over the
\* threshold for selling.  Nothing is left of either once the machine is calm.
Remember(leverage) ==
  grounds' = IF state' \in Calm THEN {}
             ELSE grounds \cup {g \in {"warned"} : leverage > WarningLeverage}
                          \cup {g \in {"excess"} : leverage > ReduceLeverage /\ "warned" \in grounds}

UpdatePosition(leverage) ==
  /\ position' = leverage
  /\ state' = TargetState(leverage)
  /\ Remember(leverage)
  /\ \/ /\ state' = "REDUCE" /\ ~reduceInProgress /\ ~cooling
        /\ ExecuteReduce(FALSE)
     \/ /\ state' # "REDUCE" \/ reduceInProgress \/ cooling
        /\ UNCHANGED <<reduceInProgress, cooling, audit, executor>>
  /\ UNCHANGED strayed

\* The action is returned, and `reduce:initiated` is not emitted.
ForceReduce_Again ==
  /\ position # NoPosition
  /\ state' = "REDUCE"
  /\ ExecuteReduce(TRUE)
  /\ grounds' = grounds \cup {"forced"}
  /\ UNCHANGED <<position, strayed>>

ForceReduce ==
  /\ position # NoPosition /\ ~reduceInProgress
  /\ state' = "REDUCE"
  /\ ExecuteReduce(TRUE)
  /\ grounds' = grounds \cup {"forced"}
  /\ UNCHANGED <<position, strayed>>

\* Any action of the audit will do, whatever the state is by now.
ConfirmReduce_Stays(a, executed) ==
  /\ a \in Created
  /\ audit' = [audit EXCEPT ![a].executed = executed]
  /\ state' = IF executed THEN "RECOVERY" ELSE state
  /\ grounds' = IF executed THEN {} ELSE grounds
  /\ UNCHANGED <<reduceInProgress, position, cooling>>

ConfirmReduce(a, executed) ==
  /\ a \in Created
  /\ audit' = [audit EXCEPT ![a].executed = executed]
  /\ reduceInProgress' = FALSE
  /\ state' = IF executed THEN "RECOVERY" ELSE state
  /\ grounds' = IF executed THEN {} ELSE grounds
  /\ UNCHANGED <<position, cooling>>

Reset ==
  /\ state' = "IDLE"
  /\ reduceInProgress' = FALSE
  /\ strayed' = (strayed \/ reduceInProgress)
  /\ grounds' = {}
  /\ UNCHANGED <<position, cooling, audit, executor>>

CooldownEnds ==
  /\ cooling
  /\ cooling' = FALSE
  /\ UNCHANGED <<state, reduceInProgress, position, audit, executor, strayed, grounds>>

-----------------------------------------------------------------------------
(* The execution layer: the callback of onReduce, and callers of           *)
(* forceReduce.  What the callback returns, or throws, is only logged.     *)

TakeReturned(a) ==
  /\ executor[a] = "returned"
  /\ executor' = [executor EXCEPT ![a] = "working"]
  /\ UNCHANGED <<state, reduceInProgress, position, cooling, audit, strayed, grounds>>

Confirms(a, executed) ==
  /\ Pending(a)
  /\ executor' = [executor EXCEPT ![a] = "confirmed"]
  /\ ConfirmReduce(a, executed)
  /\ UNCHANGED strayed

ConfirmsAgain(a, executed) ==
  /\ executor[a] = "confirmed"
  /\ ConfirmReduce(a, executed)
  /\ strayed' = (strayed \/ reduceInProgress)
  /\ UNCHANGED executor

\* The callback returns, or throws, without a confirmation.
HandleReduceInitiated(a) ==
  /\ executor[a] = "working"
  /\ executor' = [executor EXCEPT ![a] = "silent"]
  /\ UNCHANGED <<state, reduceInProgress, position, cooling, audit, strayed, grounds>>

Next ==
  \/ \E l \in Leverages : UpdatePosition(l)
  \/ ForceReduce \/ Reset \/ CooldownEnds
  \/ \E a \in Action, ok \in BOOLEAN : Confirms(a, ok) \/ ConfirmsAgain(a, ok)
  \/ \E a \in Action : TakeReturned(a) \/ HandleReduceInitiated(a)

Spec == Init /\ [][Next]_vars

\* Positions are reported again and again, the clock runs, and an executor
\* that works on an action does not fail for ever.
Fairness ==
  /\ WF_vars(\E l \in Leverages : UpdatePosition(l))
  /\ WF_vars(CooldownEnds)
  /\ \A a \in Action : WF_vars(executor[a] = "working" /\ \E ok \in BOOLEAN : Confirms(a, ok))

FairSpec == Spec /\ Fairness

-----------------------------------------------------------------------------
(* Properties.                                                             *)

\* An action exists for the executor when it is in the audit, and not before.
ReducerTypeOK ==
  /\ state \in ReducePositionState
  /\ reduceInProgress \in BOOLEAN
  /\ position \in Leverages \cup {NoPosition}
  /\ cooling \in BOOLEAN
  /\ audit \in Seq([forced : BOOLEAN, executed : BOOLEAN])
  /\ executor \in [Action -> {"none", "returned", "working", "silent", "confirmed"}]
  /\ strayed \in BOOLEAN
  /\ grounds \subseteq {"warned", "excess", "forced"}
  /\ Len(audit) <= MaxActions
  /\ \A a \in Action : executor[a] = "none" <=> a > Len(audit)

\* Unless a reset or a repeated confirmation hits a reduction in progress
\* (position-reducer.ts:209, 229), at most one reduction waits to be carried
\* out or confirmed, and the reducer knows of it.
OneReductionInFlight ==
  ~strayed => /\ \A a, b \in Action : Pending(a) /\ Pending(b) => a = b
              /\ (\E a \in Action : Pending(a)) => reduceInProgress
              /\ reduceInProgress => \E a \in Action : Pending(a)

\* The last reduction asked for has been confirmed as failed.
LastFailed ==
  /\ Len(audit) > 0
  /\ executor[Len(audit)] = "confirmed" /\ ~audit[Len(audit)].executed

\* The reducer sells by itself on two grounds only.  Since the machine was last
\* calm, one sample was over the warning threshold and a later one over that for
\* selling (264-298): no single spike sells, however high.  Or a reduction was
\* forced and has failed (215), and this one repeats it, with no warning at all;
\* a repeated confirmation of an older action may stand in for the failure (209).
\* The grounds may be long past: a calm sample sells, too, while in REDUCE.
SellsOnGrounds ==
  [][Len(audit') > Len(audit) /\ ~audit'[Len(audit')].forced
       => \/ "excess" \in grounds'
          \/ "forced" \in grounds /\ (strayed \/ LastFailed)]_vars

\* A reduction that failed is tried again: once in REDUCE, the reducer gets
\* an action under way, and it leaves REDUCE unless every attempt fails, as
\* long as no action is returned to a caller or dropped in silence (186;
\* position-risk-manager.ts:321).
RetriesUntilDone ==
  state = "REDUCE" ~> \/ state # "REDUCE"
                      \/ Len(audit) = MaxActions
                      \/ \E a \in Action : executor[a] \in {"returned", "silent"}
=============================================================================
