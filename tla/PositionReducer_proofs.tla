----------------------- MODULE PositionReducer_proofs -----------------------
(***************************************************************************)
(* Proofs about PositionReducer, for any thresholds and leverages.         *)
(***************************************************************************)
EXTENDS PositionReducer, TLAPS

Inv == ReducerTypeOK /\ OneReductionInFlight

LEMMA TargetIsState ==
  ASSUME NEW leverage
  PROVE  TargetState(leverage) \in ReducePositionState
BY DEF TargetState, Calmer, ReducePositionState

LEMMA InitInv == Init => Inv
<1> SUFFICES ASSUME Init PROVE Inv
  OBVIOUS
<1>1. Len(audit) = 0 /\ audit \in Seq([forced : BOOLEAN, executed : BOOLEAN])
  BY DEF Init
<1>2. \A a \in Action : executor[a] = "none" /\ a > 0
  BY ThresholdAssumption DEF Init, Action
<1>3. ReducerTypeOK
  <2>1. executor \in [Action -> {"none", "returned", "working", "silent", "confirmed"}]
    BY DEF Init
  <2>2. Len(audit) <= MaxActions /\ \A a \in Action : executor[a] = "none" <=> a > Len(audit)
    BY <1>1, <1>2, ThresholdAssumption
  <2> QED
    BY <1>1, <2>1, <2>2 DEF Init, ReducerTypeOK, ReducePositionState
<1>4. OneReductionInFlight
  BY <1>2 DEF Init, OneReductionInFlight, Pending
<1> QED
  BY <1>3, <1>4 DEF Inv

\* A new action is the only pending one, since none was in progress.
LEMMA ExecuteInv ==
  ASSUME Inv, NEW forced \in BOOLEAN, ~reduceInProgress, ExecuteReduce(forced),
         state' \in ReducePositionState, position' \in Leverages \cup {NoPosition},
         UNCHANGED strayed, grounds' \subseteq {"warned", "excess", "forced"}
  PROVE  Inv'
<1>n. MaxActions \in Nat /\ Len(audit) \in Nat /\ Len(audit) + 1 \in Action
  BY ThresholdAssumption DEF Inv, ReducerTypeOK, ExecuteReduce, Action
<1>1. /\ audit' \in Seq([forced : BOOLEAN, executed : BOOLEAN])
      /\ Len(audit') = Len(audit) + 1
  BY DEF Inv, ReducerTypeOK, ExecuteReduce
<1>2. /\ executor' \in [Action -> {"none", "returned", "working", "silent", "confirmed"}]
      /\ executor'[Len(audit) + 1] \in {"returned", "working"}
      /\ \A a \in Action \ {Len(audit) + 1} : executor'[a] = executor[a]
  BY <1>n DEF Inv, ReducerTypeOK, ExecuteReduce
<1>3. ReducerTypeOK'
  <2>1. \A a \in Action : executor'[a] = "none" <=> a > Len(audit')
    BY <1>n, <1>1, <1>2 DEF Inv, ReducerTypeOK, Action
  <2>2. Len(audit') <= MaxActions
    BY <1>n, <1>1 DEF ExecuteReduce
  <2> QED
    BY <1>1, <1>2, <2>1, <2>2 DEF Inv, ReducerTypeOK, ExecuteReduce
<1>4. OneReductionInFlight'
  BY <1>n, <1>2 DEF Inv, OneReductionInFlight, Pending, ExecuteReduce
<1> QED
  BY <1>3, <1>4 DEF Inv

\* Recording the outcome of an action of the audit.
LEMMA ConfirmType ==
  ASSUME Inv, NEW a \in Action, NEW ok \in BOOLEAN, ConfirmReduce(a, ok)
  PROVE  /\ audit' \in Seq([forced : BOOLEAN, executed : BOOLEAN])
         /\ Len(audit') = Len(audit)
         /\ state' \in ReducePositionState
         /\ reduceInProgress' = FALSE
         /\ UNCHANGED <<position, cooling>>
         /\ grounds' \subseteq grounds
<1> DEFINE Rec == [forced : BOOLEAN, executed : BOOLEAN]
<1>1. audit \in Seq(Rec) /\ a \in 1..Len(audit)
  BY DEF Inv, ReducerTypeOK, ConfirmReduce, Created
<1> HIDE DEF Rec
<1>2. audit[a] \in Rec
  BY <1>1
<1>3. [audit[a] EXCEPT !.executed = ok] \in Rec
  <2>1. audit[a].forced \in BOOLEAN
        /\ audit[a] = [forced |-> audit[a].forced, executed |-> audit[a].executed]
    BY <1>2 DEF Rec
  <2>2. [audit[a] EXCEPT !.executed = ok] = [forced |-> audit[a].forced, executed |-> ok]
    BY <2>1
  <2> QED
    BY <2>1, <2>2 DEF Rec
<1>4. audit' = [audit EXCEPT ![a] = [audit[a] EXCEPT !.executed = ok]]
  BY <1>1 DEF ConfirmReduce
<1>5. audit' \in Seq(Rec) /\ Len(audit') = Len(audit)
  BY <1>1, <1>3, <1>4
<1> QED
  BY <1>5 DEF ConfirmReduce, Inv, ReducerTypeOK, ReducePositionState, Rec

LEMMA ConfirmsInv ==
  ASSUME Inv, NEW a \in Action, NEW ok \in BOOLEAN, Confirms(a, ok)
  PROVE  Inv'
<1>1. ConfirmReduce(a, ok)
  BY DEF Confirms
<1>2. /\ executor' \in [Action -> {"none", "returned", "working", "silent", "confirmed"}]
      /\ executor'[a] = "confirmed" /\ executor[a] # "none"
      /\ \A b \in Action \ {a} : executor'[b] = executor[b]
  BY DEF Confirms, Inv, ReducerTypeOK, Pending
<1>3. ReducerTypeOK'
  BY <1>1, <1>2, ConfirmType DEF Confirms, Inv, ReducerTypeOK
<1>4. OneReductionInFlight'
  BY <1>1, <1>2, ConfirmType DEF Confirms, Inv, OneReductionInFlight, Pending
<1> QED
  BY <1>3, <1>4 DEF Inv

LEMMA ConfirmsAgainInv ==
  ASSUME Inv, NEW a \in Action, NEW ok \in BOOLEAN, ConfirmsAgain(a, ok)
  PROVE  Inv'
<1>1. ConfirmReduce(a, ok)
  BY DEF ConfirmsAgain
<1>2. ReducerTypeOK'
  BY <1>1, ConfirmType DEF ConfirmsAgain, Inv, ReducerTypeOK
<1>3. OneReductionInFlight'
  BY <1>1, ConfirmType DEF ConfirmsAgain, Inv, ReducerTypeOK, OneReductionInFlight, Pending
<1> QED
  BY <1>2, <1>3 DEF Inv

LEMMA UpdateInv ==
  ASSUME Inv, NEW l \in Leverages, UpdatePosition(l)
  PROVE  Inv'
<1>1. /\ state' \in ReducePositionState /\ position' \in Leverages \cup {NoPosition}
      /\ grounds' \subseteq {"warned", "excess", "forced"}
  BY TargetIsState DEF UpdatePosition, Remember, Inv, ReducerTypeOK
<1>2. CASE ~reduceInProgress /\ ExecuteReduce(FALSE)
  BY <1>1, <1>2, ExecuteInv DEF UpdatePosition
<1>3. CASE UNCHANGED <<reduceInProgress, cooling, audit, executor>>
  BY <1>1, <1>3 DEF UpdatePosition, Inv, ReducerTypeOK, OneReductionInFlight, Pending
<1> QED
  BY <1>2, <1>3 DEF UpdatePosition

LEMMA ForceInv ==
  ASSUME Inv, ForceReduce
  PROVE  Inv'
<1>1. /\ state' \in ReducePositionState /\ position' \in Leverages \cup {NoPosition}
      /\ grounds' \subseteq {"warned", "excess", "forced"}
  BY DEF ForceReduce, Inv, ReducerTypeOK, ReducePositionState
<1> QED
  BY <1>1, ExecuteInv DEF ForceReduce

LEMMA OtherInv ==
  ASSUME Inv,
         \/ Reset \/ CooldownEnds
         \/ \E a \in Action : TakeReturned(a) \/ HandleReduceInitiated(a)
         \/ UNCHANGED vars
  PROVE  Inv'
<1>1. CASE Reset
  BY <1>1 DEF Reset, Inv, ReducerTypeOK, ReducePositionState, OneReductionInFlight, Pending
<1>2. CASE CooldownEnds
  BY <1>2 DEF CooldownEnds, Inv, ReducerTypeOK, OneReductionInFlight, Pending
<1>3. CASE \E a \in Action : TakeReturned(a) \/ HandleReduceInitiated(a)
  <2> PICK a \in Action : TakeReturned(a) \/ HandleReduceInitiated(a)
    BY <1>3
  <2>1. /\ executor' \in [Action -> {"none", "returned", "working", "silent", "confirmed"}]
        /\ \A b \in Action : /\ (executor'[b] = "none" <=> executor[b] = "none")
                             /\ (Pending(b)' <=> Pending(b))
    BY DEF TakeReturned, HandleReduceInitiated, Inv, ReducerTypeOK, Pending
  <2>2. UNCHANGED <<state, reduceInProgress, position, cooling, audit, strayed, grounds>>
    BY DEF TakeReturned, HandleReduceInitiated
  <2>3. ReducerTypeOK'
    BY <2>1, <2>2 DEF Inv, ReducerTypeOK
  <2>4. OneReductionInFlight'
    BY <2>1, <2>2 DEF Inv, OneReductionInFlight
  <2> QED
    BY <2>3, <2>4 DEF Inv
<1>4. CASE UNCHANGED vars
  BY <1>4 DEF vars, Inv, ReducerTypeOK, OneReductionInFlight, Pending
<1> QED
  BY <1>1, <1>2, <1>3, <1>4

LEMMA Invariance == Spec => []Inv
<1>1. Inv /\ [Next]_vars => Inv'
  BY UpdateInv, ForceInv, ConfirmsInv, ConfirmsAgainInv, OtherInv DEF Next
<1> QED
  BY <1>1, InitInv, PTL DEF Spec

\* The types of the reducer's state, and an action is the executor's business
\* exactly when it is in the audit (position-reducer.ts:371).
THEOREM ReducerTypeCorrect == Spec => []ReducerTypeOK
BY Invariance, PTL DEF Inv

\* While no confirmation or reset strays, one reduction is in flight at most,
\* whatever the leverage does and however often reductions are forced.
THEOREM OneReduction == Spec => []OneReductionInFlight
BY Invariance, PTL DEF Inv

-----------------------------------------------------------------------------
\* What the machine's state says about the history.  A forced spell lasts until the
\* machine is calm, and its last action has not been carried out.
Grounded ==
  /\ state = "WARNING" => "warned" \in grounds
  /\ state = "REDUCE" => "excess" \in grounds \/ "forced" \in grounds
  /\ "forced" \in grounds => /\ state = "REDUCE"
                            /\ Len(audit) > 0 /\ ~audit[Len(audit)].executed

\* A new action is the last one, and not carried out yet.
LEMMA ExecuteLast ==
  ASSUME Inv, NEW forced \in BOOLEAN, ExecuteReduce(forced)
  PROVE  /\ Len(audit') = Len(audit) + 1 /\ Len(audit') > 0
         /\ audit'[Len(audit')].forced = forced /\ ~audit'[Len(audit')].executed
<1>1. audit \in Seq([forced : BOOLEAN, executed : BOOLEAN]) /\ Len(audit) \in Nat
  BY DEF Inv, ReducerTypeOK
<1> QED
  BY <1>1 DEF ExecuteReduce

LEMMA UpdateGrounded ==
  ASSUME Inv, Grounded, NEW l \in Leverages, UpdatePosition(l)
  PROVE  /\ Grounded'
         /\ Len(audit') > Len(audit) => state' = "REDUCE" /\ ~reduceInProgress
<1>t. Len(audit) \in Nat /\ state \in ReducePositionState
  BY DEF Inv, ReducerTypeOK
<1>1. Len(audit') > Len(audit) => state' = "REDUCE" /\ ~reduceInProgress
  <2>1. CASE UNCHANGED <<reduceInProgress, cooling, audit, executor>>
    BY <1>t, <2>1
  <2> QED
    BY <2>1 DEF UpdatePosition
<1>2. state' \in Calm => grounds' = {}
  BY DEF UpdatePosition, Remember
<1>3. state' = "WARNING" => "warned" \in grounds' /\ "forced" \notin grounds'
  BY <1>t DEF UpdatePosition, TargetState, Calmer, Remember, Calm, Grounded, ReducePositionState
<1>4. state' = "REDUCE" =>
        /\ "excess" \in grounds' \/ "forced" \in grounds'
        /\ "forced" \in grounds' => "forced" \in grounds
  BY <1>t DEF UpdatePosition, TargetState, Calmer, Remember, Calm, Grounded, ReducePositionState
<1>5. "forced" \in grounds' => Len(audit') > 0 /\ ~audit'[Len(audit')].executed
  <2>1. SUFFICES ASSUME "forced" \in grounds' PROVE Len(audit') > 0 /\ ~audit'[Len(audit')].executed
    OBVIOUS
  <2>2. Len(audit) > 0 /\ ~audit[Len(audit)].executed
    BY <2>1 DEF UpdatePosition, Remember, Grounded
  <2> QED
    BY <2>2, ExecuteLast DEF UpdatePosition
<1>6. state' \in {"IDLE", "RECOVERY", "WARNING", "REDUCE"}
  BY TargetIsState DEF UpdatePosition, ReducePositionState
<1> QED
  BY <1>1, <1>2, <1>3, <1>4, <1>5, <1>6 DEF Grounded, Calm

LEMMA ConfirmGrounded ==
  ASSUME Inv, Grounded, NEW a \in Action, NEW ok \in BOOLEAN, ConfirmReduce(a, ok)
  PROVE  Grounded' /\ Len(audit') = Len(audit)
<1>1. /\ audit \in Seq([forced : BOOLEAN, executed : BOOLEAN]) /\ a \in 1..Len(audit)
      /\ Len(audit') = Len(audit)
  BY ConfirmType DEF Inv, ReducerTypeOK, ConfirmReduce, Created
<1>2. CASE ok
  BY <1>1, <1>2 DEF ConfirmReduce, Grounded
<1>3. CASE ~ok
  <2>1. \A b \in 1..Len(audit) : audit'[b].executed => audit[b].executed
    BY <1>1, <1>3 DEF ConfirmReduce
  <2> QED
    BY <1>1, <1>3, <2>1 DEF ConfirmReduce, Grounded
<1> QED
  BY <1>2, <1>3

LEMMA StepGrounded ==
  ASSUME Inv, Grounded, [Next]_vars
  PROVE  Grounded'
<1>1. CASE \E l \in Leverages : UpdatePosition(l)
  BY <1>1, UpdateGrounded
<1>2. CASE ForceReduce
  BY <1>2, ExecuteLast DEF ForceReduce, Grounded
<1>3. CASE \E a \in Action, ok \in BOOLEAN : Confirms(a, ok) \/ ConfirmsAgain(a, ok)
  BY <1>3, ConfirmGrounded DEF Confirms, ConfirmsAgain
<1>4. CASE Reset
  BY <1>4 DEF Reset, Grounded
<1>5. CASE \/ CooldownEnds \/ \E a \in Action : TakeReturned(a) \/ HandleReduceInitiated(a)
           \/ UNCHANGED vars
  BY <1>5 DEF CooldownEnds, TakeReturned, HandleReduceInitiated, vars, Grounded
<1> QED
  BY <1>1, <1>2, <1>3, <1>4, <1>5 DEF Next

\* With nothing in progress and no stray, the last action has been confirmed.
LEMMA NothingPends ==
  ASSUME Inv, Len(audit) > 0, ~audit[Len(audit)].executed, ~reduceInProgress
  PROVE  strayed \/ LastFailed
<1>1. Len(audit) \in Action
  BY ThresholdAssumption DEF Inv, ReducerTypeOK, Action
<1>2. executor[Len(audit)] \in {"returned", "working", "silent", "confirmed"}
  BY <1>1 DEF Inv, ReducerTypeOK
<1>3. ~strayed => ~Pending(Len(audit))
  BY <1>1 DEF Inv, OneReductionInFlight
<1> QED
  BY <1>2, <1>3 DEF Pending, LastFailed

\* For any thresholds: a reduction nobody forced was preceded by a warning and a
\* later excess since the machine was last calm, or it repeats a forced one that
\* failed.
THEOREM NoSpikeSells == Spec => SellsOnGrounds
<1>1. Init => Grounded
  BY DEF Init, Grounded
<1>2. Inv /\ Grounded /\ [Next]_vars => Grounded'
  BY StepGrounded
<1>3. ASSUME Inv, Grounded, Next, Len(audit') > Len(audit), ~audit'[Len(audit')].forced
      PROVE  \/ "excess" \in grounds'
             \/ "forced" \in grounds /\ (strayed \/ LastFailed)
  <2>t. Len(audit) \in Nat
    BY <1>3 DEF Inv, ReducerTypeOK
  <2>1. ASSUME NEW l \in Leverages, UpdatePosition(l)
        PROVE  \/ "excess" \in grounds'
               \/ "forced" \in grounds /\ (strayed \/ LastFailed)
    <3>1. Grounded' /\ state' = "REDUCE" /\ ~reduceInProgress
      BY <1>3, <2>1, UpdateGrounded
    <3>2. "excess" \in grounds' \/ "forced" \in grounds
      BY <2>1, <3>1 DEF Grounded, UpdatePosition, Remember
    <3>3. "forced" \in grounds => strayed \/ LastFailed
      BY <1>3, <3>1, NothingPends DEF Grounded
    <3> QED
      BY <3>2, <3>3
  <2>2. CASE ForceReduce
    BY <1>3, <2>2, ExecuteLast DEF ForceReduce
  <2>3. CASE \E a \in Action, ok \in BOOLEAN : Confirms(a, ok) \/ ConfirmsAgain(a, ok)
    BY <1>3, <2>t, <2>3, ConfirmGrounded DEF Confirms, ConfirmsAgain
  <2>4. CASE \/ Reset \/ CooldownEnds
             \/ \E a \in Action : TakeReturned(a) \/ HandleReduceInitiated(a)
    BY <1>3, <2>t, <2>4 DEF Reset, CooldownEnds, TakeReturned, HandleReduceInitiated
  <2> QED
    BY <1>3, <2>1, <2>2, <2>3, <2>4 DEF Next
<1>4. Inv /\ Grounded /\ [Next]_vars =>
        [Len(audit') > Len(audit) /\ ~audit'[Len(audit')].forced
           => \/ "excess" \in grounds'
              \/ "forced" \in grounds /\ (strayed \/ LastFailed)]_vars
  BY <1>3
<1> QED
  BY <1>1, <1>2, <1>4, Invariance, PTL DEF Spec, SellsOnGrounds
=============================================================================
