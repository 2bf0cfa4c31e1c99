----------------------------- MODULE Supervisor -----------------------------
(***************************************************************************)
(* What ProcessManager promises about one ProcessInstance, whatever        *)
(* requests, timers and exits interleave: it runs one child at a time,     *)
(* relaunches it only after it has ended and at most MaxRestarts times,    *)
(* and once stopped never launches anything again.                         *)
(***************************************************************************)
EXTENDS Naturals

CONSTANTS Inst, Pid, MaxRestarts

VARIABLES phase,    \* where each instance is in its life
          retries,  \* relaunches granted so far
          alive     \* the children not yet known to have ended

vars == <<phase, retries, alive>>

Phase == {"new", "up", "dying", "backoff", "ended"}

Init == /\ phase = [i \in Inst |-> "new"]
        /\ retries = [i \in Inst |-> 0]
        /\ alive = [i \in Inst |-> {}]

\* Pointwise effects: an instance goes to a phase with so many children.
Goes(i, to, kids) == phase'[i] = to /\ alive'[i] = kids

Launch(i) ==      \* the first child, or the next one when the back-off is over
  /\ phase[i] \in {"new", "backoff"}
  /\ \E p \in Pid : Goes(i, "up", {p})
  /\ retries'[i] = retries[i]

Abandon(i) ==     \* a spawn that throws, or a stop with no child to wait for
  /\ phase[i] \in {"new", "backoff"}
  /\ Goes(i, "ended", {})
  /\ retries'[i] = retries[i]

Stop(i) ==
  /\ phase[i] = "up"
  /\ Goes(i, "dying", alive[i])
  /\ retries'[i] = retries[i]

Retry(i) ==
  /\ phase[i] = "up" /\ retries[i] < MaxRestarts
  /\ Goes(i, "backoff", {})
  /\ retries'[i] = retries[i] + 1

End(i) ==
  /\ phase[i] \in {"up", "dying"}
  /\ Goes(i, "ended", {})
  /\ retries'[i] = retries[i]

Rest(i) == /\ Goes(i, phase[i], alive[i])
           /\ retries'[i] = retries[i]

Move(i) == Launch(i) \/ Abandon(i) \/ Stop(i) \/ Retry(i) \/ End(i) \/ Rest(i)

\* stopAll() moves every instance at once.
Next == \A i \in Inst : Move(i)

Spec == Init /\ [][Next]_vars

=============================================================================
