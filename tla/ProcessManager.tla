--------------------------- MODULE ProcessManager ---------------------------
(***************************************************************************)
(* The process supervisor of workerpool-lib (process/ProcessManager.ts):   *)
(* a single-threaded event loop that starts, stops and restarts named      *)
(* child processes and keeps one record per name in processes.json         *)
(* (process/ProcessState.ts).                                              *)
(*                                                                         *)
(* One action is one turn of the event loop: a request, a timer, the exit  *)
(* event of a child.  The code's awaits between turns are the pieces of    *)
(* state below: the one-second startup window of a spawn, the back-off     *)
(* timer, and the half-second sleep of restart().                          *)
(***************************************************************************)
EXTENDS Naturals, FiniteSets

CONSTANTS Name,         \* process names
          MaxInst,      \* bound: ProcessInstance objects ever created
          MaxPid,       \* bound: child processes ever spawned
          MaxRestarts,  \* config.maxRestarts
          MaxSleep,     \* bound: restart() calls asleep at once for one name
          AutoRestart,  \* config.autorestart of each name
          Writable      \* every write of processes.json succeeds

ASSUME BoundsAssumption ==
  /\ MaxInst \in Nat /\ MaxPid \in Nat /\ MaxSleep \in Nat
  /\ MaxRestarts \in Nat
ASSUME ConfigAssumption == AutoRestart \in [Name -> BOOLEAN] /\ Writable \in BOOLEAN

Inst   == 1..MaxInst
Pid    == 1..MaxPid
NoInst == 0
NoPid  == 0
NoName == "no name"

VARIABLES
  processes,       \* the Map `processes`: the instance a name stands for
  instance,        \* every ProcessInstance, also those the Map has dropped
  child,           \* the ChildProcess objects and the processes behind them
  record,          \* processes.json: the saved status of each name
  isShuttingDown,  \* set by stopAll()
  restarting       \* restart() calls of a name between their stop and start

vars == <<processes, instance, child, record, isShuttingDown, restarting>>

ProcessStatus == {"online", "starting", "stopping", "stopped", "errored", "crashed"}

\* `pid` is state.pid; the child object of the instance is the one of that pid.
Blank(n, s) ==
  [name |-> n, status |-> s, pid |-> NoPid, restarts |-> 0,
   restartTimer |-> FALSE, monitorTimer |-> FALSE,
   intentionallyStopped |-> FALSE, startupCompleted |-> FALSE]
NewInstance(n) == Blank(n, "starting")
Uncreated      == Blank(NoName, "none")

\* "live": running.  "exited": ended, its exit event still to be handled.
\* `startup` is the one-second promise of spawnProcess, still unsettled.
Fresh(st, i, starting) ==
  [st |-> st, owner |-> i, killed |-> FALSE, signal |-> "none", startup |-> starting]
Unspawned  == Fresh("none", NoInst, FALSE)
Spawned(i) == Fresh("live", i, TRUE)

Init ==
  /\ processes = [n \in Name |-> NoInst]
  /\ instance = [i \in Inst |-> Uncreated]
  /\ child = [p \in Pid |-> Unspawned]
  /\ record = [n \in Name |-> "absent"]
  /\ isShuttingDown = FALSE
  /\ restarting = [n \in Name |-> 0]

\* Objects and pids are handed out in order, so that no two states differ only
\* in which identity was taken.
NextInst(i) == /\ instance[i].status = "none"
               /\ \A j \in Inst : j < i => instance[j].status # "none"
NextPid(p) == /\ child[p].st = "none"
              /\ \A q \in Pid : q < p => child[q].st # "none"

\* saveState: a write that fails is caught and logged, and the file stays as it was.
Saved(file) == record' = file \/ (~Writable /\ UNCHANGED record)

-----------------------------------------------------------------------------
(* spawnProcess: everything up to its await is one turn.  The spawn itself *)
(* (or the log set-up before it) may throw, which the catch turns into     *)
(* 'errored'.  `r` is the instance object as the caller left it.           *)

\* Mutant: the save after the spawn is missing.
SpawnProcess_NotSaved(i, r) ==
  /\ \E p \in Pid :
       /\ NextPid(p)
       /\ instance' = [instance EXCEPT ![i] =
            [r EXCEPT !.pid = p, !.status = "online", !.monitorTimer = TRUE]]
       /\ child' = [child EXCEPT ![p] = Spawned(i)]
  /\ Saved([record EXCEPT ![r.name] = "starting"])

SpawnProcess(i, r) ==
  \/ \E p \in Pid :
       /\ NextPid(p)
       /\ instance' = [instance EXCEPT ![i] =
            [r EXCEPT !.pid = p, !.status = "online", !.monitorTimer = TRUE]]
       /\ child' = [child EXCEPT ![p] = Spawned(i)]
       /\ Saved([record EXCEPT ![r.name] = "online"])
  \/ /\ instance' = [instance EXCEPT ![i] = [r EXCEPT !.status = "errored"]]
     /\ Saved([record EXCEPT ![r.name] = "errored"])
     /\ UNCHANGED child

Running(n) == /\ processes[n] # NoInst
              /\ instance[processes[n]].status \in {"online", "starting"}

\* The body of start(): refuse a running name, otherwise replace its entry.
StartBody(n) ==
  /\ ~Running(n)
  /\ \E i \in Inst : /\ NextInst(i)
                     /\ processes' = [processes EXCEPT ![n] = i]
                     /\ SpawnProcess(i, NewInstance(n))

Start(n) == StartBody(n) /\ UNCHANGED <<isShuttingDown, restarting>>

-----------------------------------------------------------------------------
(* stop(): child.kill() sets child.killed, so waitForExit resolves at once *)
(* and the whole call is one turn.                                         *)

\* kill(SIGTERM), waitForExit, and the escalation to SIGKILL that its guard
\* `!child.killed` was meant to allow.
KillSequence(c) ==
  LET termed == [c EXCEPT !.signal = "TERM", !.killed = TRUE]
  IN  IF termed.killed THEN termed ELSE [termed EXCEPT !.signal = "KILL"]

\* Mutant: the back-off timer is not cleared.
StoppedInstance_KeepsTimer(r) ==
  [r EXCEPT !.monitorTimer = FALSE, !.intentionallyStopped = TRUE,
            !.status = "stopped", !.pid = NoPid]

StoppedInstance(r) ==
  [r EXCEPT !.restartTimer = FALSE, !.monitorTimer = FALSE,
            !.intentionallyStopped = TRUE, !.status = "stopped", !.pid = NoPid]

\* stop() of every name in S, each of them in the Map.
StopBody(S) ==
  LET stopped == {processes[n] : n \in S}
      Signalled(p) == \E i \in stopped : instance[i].pid = p /\ ~child[p].killed
  IN  /\ instance' = [i \in Inst |-> IF i \in stopped
                                     THEN StoppedInstance(instance[i]) ELSE instance[i]]
      /\ child' = [p \in Pid |-> IF Signalled(p) THEN KillSequence(child[p]) ELSE child[p]]
      /\ processes' = [n \in Name |-> IF n \in S THEN NoInst ELSE processes[n]]

Managed == {n \in Name : processes[n] # NoInst}

Stop(n) ==
  /\ n \in Managed
  /\ StopBody({n})
  /\ Saved([record EXCEPT ![n] = "stopped"])
  /\ UNCHANGED <<isShuttingDown, restarting>>

\* delete(): stop if managed, then drop the record.
Delete(n) ==
  /\ StopBody({n} \cap Managed)
  /\ Saved([record EXCEPT ![n] = "absent"])
  /\ UNCHANGED <<isShuttingDown, restarting>>

StopAll ==
  /\ isShuttingDown' = TRUE
  /\ StopBody(Managed)
  /\ Saved([n \in Name |-> IF n \in Managed THEN "stopped" ELSE record[n]])
  /\ UNCHANGED restarting

-----------------------------------------------------------------------------
(* restart(): stop a managed name and sleep 500 ms before start(); a name  *)
(* known only from processes.json is started at once.                      *)

RestartBody(n) ==
  \/ /\ n \in Managed
     /\ restarting[n] < MaxSleep
     /\ StopBody({n})
     /\ Saved([record EXCEPT ![n] = "stopped"])
     /\ restarting' = [restarting EXCEPT ![n] = @ + 1]
  \/ /\ n \notin Managed
     /\ StartBody(n)
     /\ UNCHANGED restarting

Restart(n) ==
  /\ n \in Managed \/ record[n] # "absent"
  /\ RestartBody(n)
  /\ UNCHANGED isShuttingDown

\* Mutant: the sleeping call is resumed twice.
RestartResume_Twice(n) ==
  /\ restarting' = [restarting EXCEPT ![n] = @ - 1]
  /\ \/ StartBody(n)
     \/ Running(n) /\ UNCHANGED <<processes, instance, child, record>>
  /\ UNCHANGED isShuttingDown

\* The sleep is over: start(), which fails if someone else started the name.
RestartResume(n) ==
  /\ restarting[n] > 0
  /\ restarting' = [restarting EXCEPT ![n] = @ - 1]
  /\ \/ StartBody(n)
     \/ Running(n) /\ UNCHANGED <<processes, instance, child, record>>
  /\ UNCHANGED isShuttingDown

-----------------------------------------------------------------------------
(* Timers *)

\* The one-second window of a spawn closes with the child not known to have
\* exited.
StartupWindow(p) ==
  /\ child[p].startup
  /\ child' = [child EXCEPT ![p].startup = FALSE]
  /\ instance' = [instance EXCEPT ![child[p].owner].startupCompleted = TRUE]
  /\ UNCHANGED <<processes, record, isShuttingDown, restarting>>

\* Mutant: an interval instead of a one-shot timer.
RestartTimer_Repeats(i) ==
  /\ instance[i].restartTimer
  /\ SpawnProcess(i, instance[i])
  /\ UNCHANGED <<processes, isShuttingDown, restarting>>

\* The back-off timer fires: spawn again, whatever the Map now says.
RestartTimer(i) ==
  /\ instance[i].restartTimer
  /\ SpawnProcess(i, [instance[i] EXCEPT !.restartTimer = FALSE])
  /\ UNCHANGED <<processes, isShuttingDown, restarting>>

\* The resource monitor samples a child: save the instance and, over the memory
\* limit, restart whatever its name stands for.
MonitorTick(i) ==
  /\ instance[i].monitorTimer /\ instance[i].pid # NoPid
  /\ \/ /\ Saved([record EXCEPT ![instance[i].name] = instance[i].status])
        /\ UNCHANGED <<processes, instance, child, restarting>>
     \/ RestartBody(instance[i].name)
  /\ UNCHANGED isShuttingDown

-----------------------------------------------------------------------------
(* Children.  A child may end at any time, with or without a signal.       *)

ChildDies(p) ==
  /\ child[p].st = "live"
  /\ child' = [child EXCEPT ![p].st = "exited"]
  /\ UNCHANGED <<processes, instance, record, isShuttingDown, restarting>>

\* handleExit: what becomes of the instance, and whether its name is dropped.
\* `clean` is exit code 0 and no signal.
\* Mutant: an intentional stop is not looked at.
Supervised_IgnoresStop(r) == AutoRestart[r.name]

Supervised(r) == AutoRestart[r.name] /\ ~r.intentionallyStopped

ExitVerdict(r, clean) ==
  CASE isShuttingDown                            -> "keep"
    [] ~isShuttingDown /\ ~Supervised(r)         -> "drop"
    [] ~isShuttingDown /\ Supervised(r) /\ ~r.startupCompleted /\ ~clean -> "drop"
    [] ~isShuttingDown /\ Supervised(r) /\ (r.startupCompleted \/ clean)
         /\ r.restarts >= MaxRestarts            -> "give up"
    [] OTHER                                     -> "back off"

\* Mutant: the timer is not armed.
AfterExit_NoTimer(r, verdict) ==
  LET ended == [r EXCEPT !.monitorTimer = FALSE, !.pid = NoPid, !.status = "stopped",
                         !.startupCompleted = TRUE]
  IN  CASE verdict = "give up"  -> [ended EXCEPT !.status = "errored"]
        [] verdict = "back off" -> [ended EXCEPT !.status = "crashed", !.restarts = @ + 1]
        [] OTHER                -> ended

AfterExit(r, verdict) ==
  LET ended == [r EXCEPT !.monitorTimer = FALSE, !.pid = NoPid, !.status = "stopped"]
  IN  CASE verdict = "give up"  -> [ended EXCEPT !.status = "errored",
                                                 !.startupCompleted = TRUE]
        [] verdict = "back off" -> [ended EXCEPT !.status = "crashed",
                                                 !.startupCompleted = TRUE,
                                                 !.restarts = @ + 1,
                                                 !.restartTimer = TRUE]
        [] OTHER                -> ended

\* The 'exit' event: handleExit, then, inside the startup window, the rejection
\* that spawnProcess catches.
ExitEvent(p) ==
  /\ child[p].st = "exited"
  /\ \E clean \in BOOLEAN :
       LET i       == child[p].owner
           n       == instance[i].name
           verdict == ExitVerdict(instance[i], clean)
           after   == AfterExit(instance[i], verdict)
           final   == IF child[p].startup THEN [after EXCEPT !.status = "errored"]
                                          ELSE after
       IN  /\ instance' = [instance EXCEPT ![i] = final]
           /\ Saved([record EXCEPT ![n] = final.status])
           /\ processes' = IF verdict \in {"drop", "give up"}
                           THEN [processes EXCEPT ![n] = NoInst] ELSE processes
  /\ child' = [child EXCEPT ![p] = [@ EXCEPT !.st = "reaped", !.startup = FALSE]]
  /\ UNCHANGED <<isShuttingDown, restarting>>

-----------------------------------------------------------------------------
Next ==
  \/ \E n \in Name : Start(n) \/ Stop(n) \/ Delete(n) \/ Restart(n) \/ RestartResume(n)
  \/ StopAll
  \/ \E p \in Pid : StartupWindow(p) \/ ChildDies(p) \/ ExitEvent(p)
  \/ \E i \in Inst : RestartTimer(i) \/ MonitorTick(i)

Spec == Init /\ [][Next]_vars

(* Timers fire, exit events are delivered and a child sent SIGKILL dies.   *)
(* Nothing is assumed of requests, nor of children sent only SIGTERM.      *)
Fairness ==
  /\ \A p \in Pid : /\ WF_vars(StartupWindow(p))
                    /\ WF_vars(ExitEvent(p))
                    /\ WF_vars(child[p].signal = "KILL" /\ ChildDies(p))
  /\ \A i \in Inst : WF_vars(RestartTimer(i))
  /\ \A n \in Name : WF_vars(RestartResume(n))

FairSpec == Spec /\ Fairness

(* The same supervisor under an assumption on its surroundings, patience:  *)
(* a name is started only once every earlier process of that name is gone  *)
(* and no back-off timer of that name is pending.  It is more than a rule  *)
(* for callers.  It also says that a child told to end by restart(), asked *)
(* for or by the memory monitor, is gone before the 500 ms sleep is over,  *)
(* which the code does not wait for.  And the disk takes every write.      *)
Quiet(n) ==
  /\ \A p \in Pid : child[p].st \in {"live", "exited"} => instance[child[p].owner].name # n
  /\ \A i \in Inst : instance[i].restartTimer => instance[i].name # n

PatientNext ==
  /\ Next
  /\ \A n \in Name : processes'[n] \notin {processes[n], NoInst} => Quiet(n)

PatientSpec == Writable /\ Init /\ [][PatientNext]_vars

-----------------------------------------------------------------------------
(* Properties *)

InstanceRecord ==
  [name : Name \cup {NoName}, status : ProcessStatus \cup {"none"},
   pid : Pid \cup {NoPid}, restarts : Nat,
   restartTimer : BOOLEAN, monitorTimer : BOOLEAN,
   intentionallyStopped : BOOLEAN, startupCompleted : BOOLEAN]
ChildRecord ==
  [st : {"none", "live", "exited", "reaped"}, owner : Inst \cup {NoInst},
   killed : BOOLEAN, signal : {"none", "TERM", "KILL"}, startup : BOOLEAN]

\* The types of the state, of which only `restarting` could go wrong by itself:
\* a sleeping restart() is resumed once.
TypeOK ==
  /\ processes \in [Name -> Inst \cup {NoInst}]
  /\ instance \in [Inst -> InstanceRecord]
  /\ child \in [Pid -> ChildRecord]
  /\ record \in [Name -> ProcessStatus \cup {"absent"}]
  /\ isShuttingDown \in BOOLEAN
  /\ restarting \in [Name -> Nat]

Unreaped(p) == child[p].st \in {"live", "exited"}
Children(i) == {p \in Pid : Unreaped(p) /\ child[p].owner = i}

\* However exits, back-off timers and restarts interleave, one instance never
\* has two children, and none at all while its back-off timer is pending:
\* spawnProcess itself checks nothing.
OneChildPerInstance ==
  /\ \A p, q \in Pid : Unreaped(p) /\ Unreaped(q) /\ child[p].owner = child[q].owner => p = q
  /\ \A p \in Pid : Unreaped(p) => ~instance[child[p].owner].restartTimer

\* A stop reaches the child: while a stopped instance still has a child, the
\* child has been signalled, also when the stop fell in the startup window or
\* just after a respawn.
StoppedIsSignalled ==
  \A p \in Pid : Unreaped(p) /\ instance[child[p].owner].intentionallyStopped
                 => child[p].killed

\* Once stop() has taken an instance, no later timer, exit or restart gives that
\* instance a child or a back-off timer again ("by stop(), no autorestart").
StoppedStaysDown ==
  [][\A i \in Inst : instance[i].intentionallyStopped =>
       /\ instance'[i].intentionallyStopped
       /\ ~instance'[i].restartTimer
       /\ \A p \in Pid : child'[p].owner = i => child[p].owner = i]_vars

\* A supervised child that ends is replaced, unless the instance is stopped, out
\* of restarts, failed at startup, or could not be spawned.
SupervisionResumes ==
  \A i \in Inst :
    instance[i].status = "crashed" ~> instance[i].status \in {"online", "stopped", "errored"}

NameOf(p) == instance[child[p].owner].name

\* Something of the instance is still to be stopped: a child that has not been
\* signalled, or a pending back-off.
Unfinished(i) ==
  \/ instance[i].restartTimer
  \/ \E p \in Children(i) : ~child[p].killed

\* A start replaces the instance in its back-off: start() refuses only a name that
\* is online or starting.
ReplacedInBackOff(i) ==
  /\ instance[i].restartTimer
  /\ \E j \in Inst : NextInst(j) /\ processes'[instance[i].name] = j

\* The late exit event of another instance of the name drops this one.
DroppedByLateExit(i) ==
  /\ processes'[instance[i].name] = NoInst
  /\ \E p \in Pid : /\ Unreaped(p) /\ ~Unreaped(p)'
                    /\ child[p].owner # i /\ NameOf(p) = instance[i].name

\* Whoever starts, stops and restarts a name, and whenever: an instance of which
\* something is left to stop goes out of the Map, and so out of the reach of
\* stop(), in two ways only.  Nothing else that drops or replaces a Map entry
\* (stop(), delete(), the end of the instance's own child, a sleeping restart)
\* leaves a child or a timer behind.
OnlyTwoEscapes ==
  [][\A i \in Inst :
       /\ instance[i].name \in Name /\ processes[instance[i].name] = i
       /\ processes'[instance[i].name] # i
       /\ Unfinished(i)'
       => ReplacedInBackOff(i) \/ DroppedByLateExit(i)]_vars

-----------------------------------------------------------------------------
(* Patient callers *)

\* With patient callers every child not yet signalled, and every pending
\* back-off, can be stopped by name: the Map leads to its instance.
NothingEscapes ==
  /\ \A p \in Pid : Unreaped(p) /\ ~child[p].killed => processes[NameOf(p)] = child[p].owner
  /\ \A i \in Inst : instance[i].restartTimer => processes[instance[i].name] = i

\* With patient callers processes.json agrees with the Map: it is what the next
\* daemon restores from.
RecordAgrees ==
  \A n \in Name : processes[n] # NoInst => record[n] = instance[processes[n]].status

-----------------------------------------------------------------------------
(* The supervisor's promise about each instance.                           *)

Phase(i) ==
  IF instance[i].status = "none" THEN "new"
  ELSE IF Children(i) # {} THEN IF instance[i].intentionallyStopped THEN "dying" ELSE "up"
  ELSE IF instance[i].restartTimer THEN "backoff" ELSE "ended"

Abstract == INSTANCE Supervisor WITH
  phase   <- [i \in Inst |-> Phase(i)],
  retries <- [i \in Inst |-> instance[i].restarts],
  alive   <- [i \in Inst |-> Children(i)]

\* Every step of the manager is, for every instance, a step the abstract
\* supervisor allows.
Supervises == Abstract!Spec

-----------------------------------------------------------------------------
(* The promise about each name, to patient callers.                        *)

\* The instances of a name that run, end, or are about to be relaunched.
Serving(n) ==
  {i \in Inst : instance[i].name = n /\ (instance[i].restartTimer \/ Children(i) # {})}

ServicePhase(n) ==
  IF Serving(n) = {} THEN "down" ELSE Phase(CHOOSE i \in Serving(n) : TRUE)

ServiceRetries(n) ==
  IF Serving(n) = {} THEN 0 ELSE instance[CHOOSE i \in Serving(n) : TRUE].restarts

ProcessesOf(n) == {p \in Pid : Unreaped(p) /\ NameOf(p) = n}

Services == INSTANCE Service WITH
  phase   <- [n \in Name |-> ServicePhase(n)],
  retries <- [n \in Name |-> ServiceRetries(n)],
  alive   <- [n \in Name |-> ProcessesOf(n)]

\* With patient callers the instances a name goes through are one service: the
\* next one begins when the last has ended, whatever exits, back-offs, sleeping
\* restarts and memory restarts of earlier ones are still to come.
ServesByName == Services!Spec

=============================================================================
