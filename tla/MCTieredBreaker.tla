--------------------------- MODULE MCTieredBreaker ---------------------------
(* The circuit breakers for TLC: level "A" waits for a person, level "C"   *)
(* resets itself and watches the drawdown.                                 *)
EXTENDS TieredBreaker, TLC

MCLevel       == {"A", "C"}
MCAutoReset   == {"C"}
MCTimed       == {"A", "C"}
MCMaxFailures == [A |-> 1, C |-> 2]
MCEquities    == {3, 5}
=============================================================================
