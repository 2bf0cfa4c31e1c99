------------------------------- MODULE Daemon -------------------------------
(***************************************************************************)
(* The background daemon of workerpool-lib (daemon/Daemon.ts) around its   *)
(* ProcessManager: it serves requests, may be shut down or die at any      *)
(* instant, and when started again restores from processes.json what the   *)
(* previous daemon left there.  Children are spawned detached: they        *)
(* outlive the daemon, and the next one knows nothing of them.             *)
(***************************************************************************)
EXTENDS ProcessManager

CONSTANT MaxCrashes  \* bound: deaths of the daemon, shutdowns not counted

\* NoName stands for the absence of a name, in instances and orphans.
ASSUME DaemonAssumption == MaxCrashes \in Nat /\ NoName \notin Name

VARIABLES
  daemon,        \* "down", "restoring" (restoreProcesses) or "up" (IPC open)
  restoreQueue,  \* names restoreProcesses has still to start
  restoreWait,   \* the child whose startup window it is awaiting
  orphan,        \* the name of each process that outlived its daemon untold
  crashes,       \* daemon deaths so far
  wanted         \* history: names started since they were last stopped

daemonVars == <<daemon, restoreQueue, restoreWait, orphan, crashes, wanted>>
allVars    == <<vars, daemonVars>>

DaemonInit ==
  /\ Init
  /\ daemon = "down"
  /\ restoreQueue = {}
  /\ restoreWait = NoPid
  /\ orphan = [p \in Pid |-> NoName]
  /\ crashes = 0
  /\ wanted = {}

\* Mutant: the child's end is awaited instead of its startup window.
RestoreSettled_OnExit == restoreWait \in {NoPid} \cup {p \in Pid : child[p].st = "reaped"}

\* The start() restoreProcesses awaits, if any, has succeeded or failed.
RestoreSettled == restoreWait \in {NoPid} \cup {p \in Pid : ~child[p].startup}

-----------------------------------------------------------------------------
(* The memory of the daemon is lost; its live children become orphans,     *)
(* kept here unless they have been told to end.                            *)

MemoryLost(told) ==
  /\ processes' = [n \in Name |-> NoInst]
  /\ instance' = [i \in Inst |-> Uncreated]
  /\ child' = [p \in Pid |-> IF child[p].st = "none" THEN Unspawned
                             ELSE Fresh("reaped", NoInst, FALSE)]
  /\ orphan' = [p \in Pid |-> IF child[p].st = "live" /\ ~child[p].killed /\ p \notin told
                              THEN instance[child[p].owner].name ELSE orphan[p]]
  /\ isShuttingDown' = FALSE
  /\ restarting' = [n \in Name |-> 0]
  /\ daemon' = "down"
  /\ restoreQueue' = {}
  /\ restoreWait' = NoPid

\* The daemon is killed between two turns, or inside a turn of start() or
\* stop() that has saved 'starting' or 'stopping' and done nothing else yet.
Crash ==
  /\ daemon # "down"
  /\ crashes < MaxCrashes
  /\ crashes' = crashes + 1
  /\ MemoryLost({})
  /\ \/ UNCHANGED <<record, wanted>>
     \/ \E n \in Name : /\ ~Running(n)
                        /\ daemon = "up" \/ n \in restoreQueue
                        /\ record' = [record EXCEPT ![n] = "starting"]
                        /\ wanted' = wanted \cup {n}
     \/ \E n \in Managed : /\ daemon = "up"
                           /\ record' = [record EXCEPT ![n] = "stopping"]
                           /\ wanted' = wanted \ {n}

\* A command that cannot be spawned (ENOENT) is saved as 'online', then the child's
\* 'error' event makes handleError emit 'error' on a manager nobody listens to: it
\* throws, uncaught.
SpawnErrorCrash(n) ==
  /\ ~Running(n)
  /\ daemon = "up" \/ (n \in restoreQueue /\ RestoreSettled)
  /\ crashes < MaxCrashes
  /\ crashes' = crashes + 1
  /\ MemoryLost({})
  /\ record' = [record EXCEPT ![n] = "online"]
  /\ wanted' = wanted \cup {n}

\* handleShutdown: stopAll, whose awaits never wait, then process.exit(0).
Shutdown ==
  /\ daemon = "up"
  /\ MemoryLost({instance[processes[n]].pid : n \in Managed})
  /\ record' = [n \in Name |-> IF n \in Managed THEN "stopped" ELSE record[n]]
  /\ wanted' = wanted \ Managed
  /\ UNCHANGED crashes

-----------------------------------------------------------------------------
(* restoreProcesses: start() each name saved as online or starting, one    *)
(* after the other; a start that fails is logged and skipped.              *)

\* Mutant: a name whose stop was cut short is restored too.
Restorable_AlsoStopping == {n \in Name : record[n] \in {"online", "starting", "stopping"}}

Restorable == {n \in Name : record[n] \in {"online", "starting"}}

DaemonStart ==
  /\ daemon = "down"
  /\ daemon' = "restoring"
  /\ restoreQueue' = Restorable
  /\ restoreWait' = NoPid
  /\ UNCHANGED <<vars, orphan, crashes, wanted>>

RestoreNext(n) ==
  /\ daemon = "restoring" /\ RestoreSettled
  /\ n \in restoreQueue
  /\ restoreQueue' = restoreQueue \ {n}
  /\ Start(n)
  /\ restoreWait' = instance'[processes'[n]].pid
  /\ UNCHANGED <<daemon, orphan, crashes, wanted>>

\* Mutant: the IPC server opens while names are still to be restored.
RestoreDone_Early ==
  /\ daemon = "restoring"
  /\ daemon' = "up"
  /\ restoreWait' = NoPid
  /\ UNCHANGED <<vars, restoreQueue, orphan, crashes, wanted>>

RestoreDone ==
  /\ daemon = "restoring" /\ RestoreSettled
  /\ restoreQueue = {}
  /\ daemon' = "up"
  /\ restoreWait' = NoPid
  /\ UNCHANGED <<vars, restoreQueue, orphan, crashes, wanted>>

-----------------------------------------------------------------------------
(* Requests are served when the IPC server is open; timers and exits, as   *)
(* soon as the daemon runs.                                                *)

Started(n) == processes'[n] \notin {processes[n], NoInst}

Request ==
  /\ daemon = "up"
  /\ \/ \E n \in Name : /\ Start(n) \/ Restart(n)
                        /\ wanted' = IF Started(n) THEN wanted \cup {n} ELSE wanted \ {n}
     \/ \E n \in Name : (Stop(n) \/ Delete(n)) /\ wanted' = wanted \ {n}
  /\ UNCHANGED <<daemon, restoreQueue, restoreWait, orphan, crashes>>

\* Bound: the instances left are kept for the names still to be restored.
RoomToStart ==
  Cardinality({i \in Inst : instance[i].status = "none"}) > Cardinality(restoreQueue)

Turn ==
  /\ daemon # "down"
  /\ \/ \E p \in Pid : StartupWindow(p) \/ ChildDies(p) \/ ExitEvent(p)
     \/ \E i \in Inst : RestartTimer(i) \/ MonitorTick(i)
     \/ \E n \in Name : RestartResume(n)
  /\ (\E n \in Name : Started(n)) => RoomToStart
  /\ wanted' = wanted \cup {n \in Name : Started(n)}
  /\ UNCHANGED <<daemon, restoreQueue, restoreWait, orphan, crashes>>

OrphanDies(p) ==
  /\ orphan[p] # NoName
  /\ orphan' = [orphan EXCEPT ![p] = NoName]
  /\ UNCHANGED <<vars, daemon, restoreQueue, restoreWait, crashes, wanted>>

DaemonNext ==
  \/ Crash \/ Shutdown \/ DaemonStart \/ RestoreDone \/ Request \/ Turn
  \/ \E n \in Name : SpawnErrorCrash(n) \/ RestoreNext(n)
  \/ \E p \in Pid : OrphanDies(p)

\* The daemon's own steps are taken; requests, crashes and exits need not be.
DaemonFairness ==
  /\ \A p \in Pid : /\ WF_allVars(daemon # "down" /\ StartupWindow(p) /\ UNCHANGED daemonVars)
                    /\ WF_allVars(daemon # "down" /\ ExitEvent(p) /\ UNCHANGED daemonVars)
  /\ \A n \in Name : WF_allVars(RestoreNext(n))
  /\ WF_allVars(RestoreDone)
  /\ WF_allVars(DaemonStart)

\* Patient callers and a disk that takes every write, as in ProcessManager; and a
\* daemon restored patiently.
PatientDaemonNext == DaemonNext /\ \A n \in Name : Started(n) => Quiet(n)
PatientDaemonSpec ==
  Writable /\ DaemonInit /\ [][PatientDaemonNext]_allVars /\ DaemonFairness

-----------------------------------------------------------------------------
(* Properties *)

\* Types; and a dead daemon manages nothing, an open one has restored everything.
DaemonTypeOK ==
  /\ daemon \in {"down", "restoring", "up"}
  /\ restoreQueue \subseteq Name /\ wanted \subseteq Name
  /\ restoreWait \in Pid \cup {NoPid}
  /\ orphan \in [Pid -> Name \cup {NoName}]
  /\ crashes \in 0..MaxCrashes
  /\ daemon = "down" => Managed = {} /\ \A p \in Pid : ~Unreaped(p)
  /\ daemon # "restoring" => restoreQueue = {}

\* With patient callers a daemon never restores a name that was stopped or
\* deleted, wherever in a request, an exit or a shutdown the last one died.
NoResurrection == restoreQueue \subseteq wanted

\* Nothing ends the processes a dead daemon leaves behind, and the next one
\* starts a copy of each: with patient callers, at most one more per death among
\* those not told to end, the deaths a broken command causes included.
Copies(n) ==
  {p \in Pid : orphan[p] = n \/ (Unreaped(p) /\ ~child[p].killed /\ NameOf(p) = n)}

OneCopyPerCrash == \A n \in Name : Cardinality(Copies(n)) <= crashes + 1

\* Whenever the daemon dies, also in the middle of a restore and also by a command
\* it was restoring: when it stops dying it gets through the restore, startup windows
\* included, and opens for requests.
RestoreEnds == (daemon = "restoring") ~> (daemon = "up")

=============================================================================
