------------------------------ MODULE Service ------------------------------
(***************************************************************************)
(* What ProcessManager promises about one name to callers who wait for the *)
(* old process to be gone before they start the name again: the name is    *)
(* one service.  It has one process at a time, each launched when the last *)
(* has ended, by a start or at most MaxRestarts times after it by itself,  *)
(* and after a stop by the next start only.                                *)
(***************************************************************************)
EXTENDS Naturals

CONSTANTS Name, Pid, MaxRestarts

VARIABLES phase,    \* where each service is
          retries,  \* relaunches since it was started
          alive     \* its processes not yet known to have ended

vars == <<phase, retries, alive>>

Init == /\ phase = [n \in Name |-> "down"]
        /\ retries = [n \in Name |-> 0]
        /\ alive = [n \in Name |-> {}]

Becomes(n, to, again, procs) ==
  phase'[n] = to /\ retries'[n] = again /\ alive'[n] = procs

Start(n) == phase[n] = "down" /\ \E p \in Pid : Becomes(n, "up", 0, {p})

Stop(n) == phase[n] = "up" /\ Becomes(n, "dying", retries[n], alive[n])

BackOff(n) == /\ phase[n] = "up" /\ retries[n] < MaxRestarts
              /\ Becomes(n, "backoff", retries[n] + 1, {})

Relaunch(n) == phase[n] = "backoff" /\ \E p \in Pid : Becomes(n, "up", retries[n], {p})

End(n) == phase[n] # "down" /\ Becomes(n, "down", 0, {})

Rest(n) == Becomes(n, phase[n], retries[n], alive[n])

Move(n) == Rest(n) \/ Start(n) \/ Stop(n) \/ BackOff(n) \/ Relaunch(n) \/ End(n)

\* stopAll() moves every name at once.
Next == \A n \in Name : Move(n)

Spec == Init /\ [][Next]_vars

=============================================================================
