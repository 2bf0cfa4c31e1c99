----------------------- MODULE ProcessManager_proofs -----------------------
(***************************************************************************)
(* Proofs about ProcessManager, and about Daemon, which runs it: for every *)
(* number of names, instances, children, restarts and daemon deaths.       *)
(*                                                                         *)
(* First the manager alone, under any callers; then under patient callers; *)
(* then the daemon that loses the manager's memory and restores from its   *)
(* records; then the ways out of the Map, under any callers again; last,   *)
(* each name as one service of patient callers.  Each part uses the step   *)
(* lemmas of the parts before.                                             *)
(***************************************************************************)
EXTENDS Daemon, TLAPS, FiniteSetTheorems

(* The links between the three kinds of object.  A created instance has a  *)
(* name; whatever is armed, stopped, managed or owns a child was created;  *)
(* an open startup window belongs to a child not yet reaped.               *)
Linked ==
  /\ \A i \in Inst : instance[i].status # "none" => instance[i].name \in Name
  /\ \A i \in Inst : instance[i].status = "none" => instance[i].restarts = 0
  /\ \A i \in Inst : \/ instance[i].restartTimer
                     \/ instance[i].monitorTimer
                     \/ instance[i].intentionallyStopped
                     => instance[i].status # "none"
  /\ \A n \in Name : processes[n] # NoInst => instance[processes[n]].status # "none"
  /\ \A p \in Pid : Unreaped(p) => /\ child[p].owner \in Inst
                                   /\ instance[child[p].owner].status # "none"
  /\ \A p \in Pid : child[p].startup => Unreaped(p)

(* The pid an instance holds is its running child, and it holds it until   *)
(* it is stopped.                                                          *)
PidIsChild ==
  /\ \A i \in Inst : instance[i].pid # NoPid => /\ Unreaped(instance[i].pid)
                                                /\ child[instance[i].pid].owner = i
  /\ \A p \in Pid : Unreaped(p) /\ ~instance[child[p].owner].intentionallyStopped
                    => instance[child[p].owner].pid = p

StoppedHasNoTimer ==
  \A i \in Inst : instance[i].intentionallyStopped => ~instance[i].restartTimer

(* What the objects satisfy at all times, and the whole invariant.         *)
Objects == Linked /\ OneChildPerInstance /\ PidIsChild /\ StoppedHasNoTimer /\ StoppedIsSignalled
Inv == TypeOK /\ Objects

-----------------------------------------------------------------------------
(* Types *)

LEMMA RecordTypes ==
  /\ \A n \in Name : NewInstance(n) \in InstanceRecord
  /\ Uncreated \in InstanceRecord
  /\ Unspawned \in ChildRecord
  /\ \A i \in Inst : Spawned(i) \in ChildRecord
  /\ \A r \in InstanceRecord : StoppedInstance(r) \in InstanceRecord
  /\ \A c \in ChildRecord : KillSequence(c) \in ChildRecord
BY DEF Blank, Fresh, NewInstance, Uncreated, Unspawned, Spawned, StoppedInstance, KillSequence,
       InstanceRecord, ChildRecord, ProcessStatus, NoPid, NoInst, NoName

-----------------------------------------------------------------------------
(* stop(), of any set of managed names *)

ObjectTypes == /\ processes \in [Name -> Inst \cup {NoInst}]
               /\ instance \in [Inst -> InstanceRecord]
               /\ child \in [Pid -> ChildRecord]

LEMMA StopKeepsObjects ==
  ASSUME Inv, NEW S \in SUBSET Managed, StopBody(S)
  PROVE  ObjectTypes' /\ Objects'
<1> DEFINE stopped == {processes[n] : n \in S}
<1>1. stopped \subseteq Inst
  BY DEF Inv, TypeOK, Managed
<1>2. \A i \in stopped : instance[i].status # "none"
  BY DEF Inv, Objects, Linked, Managed
<1>3. ObjectTypes'
  <2>1. processes' \in [Name -> Inst \cup {NoInst}]
    BY DEF StopBody, Inv, TypeOK
  <2>2. instance' \in [Inst -> InstanceRecord]
    BY RecordTypes DEF StopBody, Inv, TypeOK
  <2>3. child' \in [Pid -> ChildRecord]
    BY RecordTypes DEF StopBody, Inv, TypeOK
  <2>4. QED  BY <2>1, <2>2, <2>3 DEF ObjectTypes
<1>4. \A i \in Inst : /\ instance'[i].name = instance[i].name
                      /\ instance'[i].status # "none" <=> instance[i].status # "none"
                      /\ i \notin stopped => instance'[i] = instance[i]
                      /\ i \in stopped => /\ instance'[i].pid = NoPid
                                          /\ instance'[i].intentionallyStopped
                                          /\ ~instance'[i].restartTimer
                                          /\ ~instance'[i].monitorTimer
  BY ZenonT(60), <1>2 DEF StopBody, StoppedInstance, Inv, TypeOK, InstanceRecord
<1>5. \A p \in Pid : /\ child'[p].st = child[p].st
                     /\ child'[p].owner = child[p].owner
                     /\ child'[p].startup = child[p].startup
                     /\ child[p].killed => child'[p].killed
                     /\ (\E i \in stopped : instance[i].pid = p) => child'[p].killed
  <2>1. child \in [Pid -> ChildRecord]
    BY DEF Inv, TypeOK
  <2>2. \A c \in ChildRecord : KillSequence(c) = [c EXCEPT !.signal = "TERM", !.killed = TRUE]
    BY DEF KillSequence, ChildRecord
  <2>3. SUFFICES ASSUME NEW p \in Pid
                 PROVE  /\ child'[p].st = child[p].st
                        /\ child'[p].owner = child[p].owner
                        /\ child'[p].startup = child[p].startup
                        /\ child[p].killed => child'[p].killed
                        /\ (\E i \in stopped : instance[i].pid = p) => child'[p].killed
    OBVIOUS
  <2> DEFINE Signalled == \E i \in stopped : instance[i].pid = p /\ ~child[p].killed
  <2>4. child'[p] = IF Signalled THEN KillSequence(child[p]) ELSE child[p]
    BY DEF StopBody
  <2>5. CASE Signalled
    <3>1. child'[p] = [child[p] EXCEPT !.signal = "TERM", !.killed = TRUE]
      BY <2>1, <2>2, <2>4, <2>5
    <3>2. QED  BY <2>1, <3>1 DEF ChildRecord
  <2>6. CASE ~Signalled
    <3>1. child'[p] = child[p]
      BY <2>4, <2>6
    <3>2. QED  BY <2>6, <3>1
  <2>7. QED  BY <2>5, <2>6
<1>6. \A n \in Name : processes'[n] \in {processes[n], NoInst}
  BY DEF StopBody, Inv, TypeOK
<1>7. Linked'
  BY <1>2, <1>4, <1>5, <1>6 DEF Inv, Objects, Linked, TypeOK, Unreaped, NoInst
<1>8. OneChildPerInstance'
  BY <1>4, <1>5 DEF Inv, Objects, Linked, OneChildPerInstance, Unreaped
<1>9. PidIsChild'
  <2>1. \A i \in Inst : instance[i].pid # NoPid => instance[i].pid \in Pid
    BY DEF Inv, TypeOK, InstanceRecord
  <2>2. QED
    BY <1>4, <1>5, <2>1 DEF Inv, Objects, Linked, PidIsChild, Unreaped
<1>10. StoppedHasNoTimer'
  BY <1>4 DEF Inv, Objects, StoppedHasNoTimer
<1>11. StoppedIsSignalled'
  BY <1>1, <1>4, <1>5 DEF Inv, Objects, Linked, StoppedIsSignalled, PidIsChild, Unreaped
<1>12. QED  BY <1>3, <1>7, <1>8, <1>9, <1>10, <1>11 DEF Objects

-----------------------------------------------------------------------------
(* spawnProcess, for an instance that is to have no other child *)

(* `r` is instance i with its back-off timer cleared, or a new one.        *)
Spawnable(i, r) ==
  /\ r \in InstanceRecord
  /\ r.name \in Name
  /\ r.status # "none" /\ r.pid = NoPid
  /\ ~r.intentionallyStopped /\ ~r.restartTimer
  /\ \A p \in Pid : Unreaped(p) => child[p].owner # i

LEMMA SpawnKeepsObjects ==
  ASSUME Inv, NEW i \in Inst, NEW r, Spawnable(i, r), SpawnProcess(i, r),
         processes' = processes \/ \E n \in Name : processes' = [processes EXCEPT ![n] = i]
  PROVE  ObjectTypes' /\ Objects'
<1>a. ASSUME NEW p \in Pid, NextPid(p),
             instance' = [instance EXCEPT ![i] =
               [r EXCEPT !.pid = p, !.status = "online", !.monitorTimer = TRUE]],
             child' = [child EXCEPT ![p] = Spawned(i)]
      PROVE  /\ instance' \in [Inst -> InstanceRecord]
             /\ child' \in [Pid -> ChildRecord]
             /\ \A j \in Inst : j # i => instance'[j] = instance[j]
             /\ instance'[i].name \in Name /\ instance'[i].status # "none"
             /\ ~instance'[i].intentionallyStopped /\ ~instance'[i].restartTimer
             /\ instance'[i].pid = p
  BY <1>a, RecordTypes DEF Spawnable, Inv, TypeOK, InstanceRecord, ProcessStatus
<1>b. ASSUME instance' = [instance EXCEPT ![i] = [r EXCEPT !.status = "errored"]]
      PROVE  /\ instance' \in [Inst -> InstanceRecord]
             /\ \A j \in Inst : j # i => instance'[j] = instance[j]
             /\ instance'[i].name \in Name /\ instance'[i].status # "none"
             /\ ~instance'[i].intentionallyStopped /\ ~instance'[i].restartTimer
             /\ instance'[i].pid = NoPid
  BY <1>b DEF Spawnable, Inv, TypeOK, InstanceRecord, ProcessStatus
<1>c. \/ \E p \in Pid :
           /\ NextPid(p) /\ child' = [child EXCEPT ![p] = Spawned(i)]
           /\ instance' = [instance EXCEPT ![i] =
                [r EXCEPT !.pid = p, !.status = "online", !.monitorTimer = TRUE]]
      \/ /\ child' = child
         /\ instance' = [instance EXCEPT ![i] = [r EXCEPT !.status = "errored"]]
  BY DEF SpawnProcess
<1>1. ObjectTypes'
  <2>1. processes' \in [Name -> Inst \cup {NoInst}]
    BY DEF Inv, TypeOK
  <2>2. instance' \in [Inst -> InstanceRecord] /\ child' \in [Pid -> ChildRecord]
    BY <1>a, <1>b, <1>c DEF Inv, TypeOK
  <2>3. QED  BY <2>1, <2>2 DEF ObjectTypes
<1>2. /\ \A j \in Inst : j # i => instance'[j] = instance[j]
      /\ instance'[i].name \in Name /\ instance'[i].status # "none"
      /\ ~instance'[i].intentionallyStopped /\ ~instance'[i].restartTimer
  BY <1>a, <1>b, <1>c
<1>3. \A n \in Name : processes'[n] \in {processes[n], i}
  BY DEF Inv, TypeOK
<1>4. CASE child' = child /\ instance'[i].pid = NoPid
  <2>1. Linked'
    BY <1>2, <1>3, <1>4 DEF Inv, Objects, Linked, TypeOK, Unreaped
  <2>2. OneChildPerInstance' /\ StoppedHasNoTimer' /\ StoppedIsSignalled'
    BY <1>2, <1>4 DEF Inv, Objects, Linked, OneChildPerInstance, StoppedHasNoTimer,
                      StoppedIsSignalled, Unreaped, Spawnable
  <2>3. PidIsChild'
    BY <1>2, <1>4 DEF Inv, Objects, Linked, PidIsChild, Unreaped, Spawnable
  <2>4. QED  BY <1>1, <2>1, <2>2, <2>3 DEF Objects
<1>5. CASE \E p \in Pid : NextPid(p) /\ child' = [child EXCEPT ![p] = Spawned(i)]
                          /\ instance'[i].pid = p
  <2>1. PICK p \in Pid : /\ NextPid(p) /\ child' = [child EXCEPT ![p] = Spawned(i)]
                         /\ instance'[i].pid = p
    BY <1>5
  <2>2. /\ child[p].st = "none" /\ p # NoPid
        /\ child'[p].st = "live" /\ child'[p].owner = i
        /\ \A q \in Pid : q # p => child'[q] = child[q]
    BY <2>1 DEF NextPid, Spawned, Fresh, Inv, TypeOK, Pid, NoPid
  <2>3. ~Unreaped(p) /\ \A j \in Inst : instance[j].pid # p
    BY <2>2 DEF Unreaped, Inv, Objects, PidIsChild
  <2>4. Linked'
    BY <1>2, <1>3, <2>2 DEF Inv, Objects, Linked, TypeOK, Unreaped
  <2>5. OneChildPerInstance' /\ StoppedHasNoTimer' /\ StoppedIsSignalled'
    BY <1>2, <2>2 DEF Inv, Objects, Linked, OneChildPerInstance, StoppedHasNoTimer,
                      StoppedIsSignalled, Unreaped, Spawnable
  <2>6. PidIsChild'
    BY <1>2, <2>1, <2>2, <2>3 DEF Inv, Objects, Linked, PidIsChild, Unreaped, Spawnable
  <2>7. QED  BY <1>1, <2>4, <2>5, <2>6 DEF Objects
<1>6. QED  BY <1>a, <1>b, <1>c, <1>4, <1>5

LEMMA StartKeepsObjects ==
  ASSUME Inv, NEW n \in Name, StartBody(n)
  PROVE  ObjectTypes' /\ Objects'
<1>1. PICK i \in Inst : /\ NextInst(i) /\ processes' = [processes EXCEPT ![n] = i]
                        /\ SpawnProcess(i, NewInstance(n))
  BY DEF StartBody
<1>2. Spawnable(i, NewInstance(n))
  BY <1>1, RecordTypes DEF Spawnable, NextInst, NewInstance, Blank, Inv, Objects, Linked, Unreaped
<1>3. QED  BY <1>1, <1>2, SpawnKeepsObjects

LEMMA SpawnSaves ==
  ASSUME TypeOK, NEW i \in Inst, NEW r \in InstanceRecord, r.name \in Name, SpawnProcess(i, r)
  PROVE  record' \in [Name -> ProcessStatus \cup {"absent"}]
BY DEF TypeOK, SpawnProcess, Saved, ProcessStatus

LEMMA StartSaves ==
  ASSUME TypeOK, NEW n \in Name, StartBody(n)
  PROVE  record' \in [Name -> ProcessStatus \cup {"absent"}]
BY SpawnSaves, RecordTypes DEF StartBody, NewInstance, Blank

-----------------------------------------------------------------------------
(* handleExit *)

LEMMA BackOffVerdict ==
  ASSUME NEW r \in InstanceRecord, NEW clean \in BOOLEAN, ExitVerdict(r, clean) = "back off"
  PROVE  ~r.intentionallyStopped /\ r.restarts < MaxRestarts
BY BoundsAssumption DEF ExitVerdict, Supervised, InstanceRecord

LEMMA AfterExitFields ==
  ASSUME NEW r \in InstanceRecord, NEW v
  PROVE  /\ AfterExit(r, v) \in InstanceRecord
         /\ AfterExit(r, v).name = r.name
         /\ AfterExit(r, v).pid = NoPid
         /\ AfterExit(r, v).status \in {"stopped", "errored", "crashed"}
         /\ AfterExit(r, v).intentionallyStopped = r.intentionallyStopped
         /\ v # "back off" => /\ AfterExit(r, v).restartTimer = r.restartTimer
                              /\ AfterExit(r, v).restarts = r.restarts
         /\ v = "back off" => /\ AfterExit(r, v).restartTimer
                              /\ AfterExit(r, v).restarts = r.restarts + 1
<1> DEFINE ended == [r EXCEPT !.monitorTimer = FALSE, !.pid = NoPid, !.status = "stopped"]
<1>1. /\ v = "give up" => AfterExit(r, v) = [ended EXCEPT !.status = "errored",
                                                          !.startupCompleted = TRUE]
      /\ v = "back off" => AfterExit(r, v) = [ended EXCEPT !.status = "crashed",
                                                           !.startupCompleted = TRUE,
                                                           !.restarts = @ + 1,
                                                           !.restartTimer = TRUE]
      /\ v \notin {"give up", "back off"} => AfterExit(r, v) = ended
  BY Zenon DEF AfterExit
<1>2. ended \in InstanceRecord /\ ended.name = r.name /\ ended.pid = NoPid
      /\ ended.status = "stopped" /\ ended.intentionallyStopped = r.intentionallyStopped
      /\ ended.restartTimer = r.restartTimer /\ ended.restarts = r.restarts
  BY DEF InstanceRecord, ProcessStatus, NoPid
<1> HIDE DEF ended
<1>3. CASE v = "give up"
  BY ZenonT(60), <1>1, <1>2, <1>3 DEF InstanceRecord, ProcessStatus
<1>4. CASE v = "back off"
  <2> DEFINE more == ended.restarts + 1
  <2>1. more \in Nat /\ more = r.restarts + 1
    BY <1>2 DEF InstanceRecord
  <2>2. AfterExit(r, v) = [ended EXCEPT !.status = "crashed", !.startupCompleted = TRUE,
                                        !.restarts = more, !.restartTimer = TRUE]
    BY <1>1, <1>4
  <2> HIDE DEF more
  <2>3. QED  BY ZenonT(60), <1>2, <1>4, <2>1, <2>2 DEF InstanceRecord, ProcessStatus
<1>5. CASE v \notin {"give up", "back off"}
  BY <1>1, <1>2, <1>5 DEF ProcessStatus
<1>6. QED  BY <1>3, <1>4, <1>5

(* From `r` to `f`: no timer armed, or a restart granted.                  *)
ExitEffect(r, f) ==
  \/ f.restartTimer = r.restartTimer /\ f.restarts = r.restarts
  \/ /\ ~r.intentionallyStopped /\ r.restarts < MaxRestarts
     /\ f.restartTimer /\ f.restarts = r.restarts + 1

LEMMA ExitKeepsInv ==
  ASSUME Inv, NEW p \in Pid, ExitEvent(p)
  PROVE  /\ Inv'
         /\ \A j \in Inst : /\ instance'[j].intentionallyStopped = instance[j].intentionallyStopped
                            /\ instance'[j].name = instance[j].name
                            /\ instance'[j].status = "none" <=> instance[j].status = "none"
         /\ \A j \in Inst : j # child[p].owner => instance'[j] = instance[j]
         /\ instance'[child[p].owner].pid = NoPid
         /\ ExitEffect(instance[child[p].owner], instance'[child[p].owner])
<1> DEFINE i == child[p].owner
<1>1. i \in Inst /\ instance[i].status # "none" /\ instance[i].name \in Name
      /\ instance[i] \in InstanceRecord
  BY DEF ExitEvent, Inv, TypeOK, Objects, Linked, Unreaped
<1>2. PICK clean \in BOOLEAN :
        LET verdict == ExitVerdict(instance[i], clean)
            after   == AfterExit(instance[i], verdict)
            final   == IF child[p].startup THEN [after EXCEPT !.status = "errored"] ELSE after
        IN  /\ instance' = [instance EXCEPT ![i] = final]
            /\ Saved([record EXCEPT ![instance[i].name] = final.status])
            /\ processes' = IF verdict \in {"drop", "give up"}
                            THEN [processes EXCEPT ![instance[i].name] = NoInst] ELSE processes
  BY DEF ExitEvent
<1> DEFINE after == AfterExit(instance[i], ExitVerdict(instance[i], clean))
           final == IF child[p].startup THEN [after EXCEPT !.status = "errored"] ELSE after
<1>3. /\ final \in InstanceRecord
      /\ final.name = instance[i].name /\ final.pid = NoPid
      /\ final.status \in ProcessStatus
      /\ final.intentionallyStopped = instance[i].intentionallyStopped
      /\ ExitEffect(instance[i], final)
  <2>1. /\ after \in InstanceRecord
        /\ after.name = instance[i].name /\ after.pid = NoPid
        /\ after.status \in ProcessStatus
        /\ after.intentionallyStopped = instance[i].intentionallyStopped
    BY <1>1, AfterExitFields DEF ProcessStatus
  <2>2. ExitEffect(instance[i], after)
    BY <1>1, BackOffVerdict, AfterExitFields DEF ExitEffect
  <2> HIDE DEF after
  <2>3. QED  BY <2>1, <2>2 DEF ExitEffect, InstanceRecord, ProcessStatus
<1>4. /\ instance' = [instance EXCEPT ![i] = final]
      /\ Saved([record EXCEPT ![instance[i].name] = final.status])
      /\ \A n \in Name : processes'[n] \in {processes[n], NoInst}
      /\ processes' \in [Name -> Inst \cup {NoInst}]
  BY <1>2 DEF Inv, TypeOK
<1> HIDE DEF final
<1>5. /\ instance'[i] = final
      /\ \A j \in Inst : j # i => instance'[j] = instance[j]
      /\ instance' \in [Inst -> InstanceRecord]
  BY <1>1, <1>3, <1>4 DEF Inv, TypeOK
<1>6. /\ child'[p].st = "reaped" /\ child'[p].owner = i /\ ~child'[p].startup
      /\ \A q \in Pid : q # p => child'[q] = child[q]
      /\ child' \in [Pid -> ChildRecord]
  <2>1. child' = [child EXCEPT ![p] = [@ EXCEPT !.st = "reaped", !.startup = FALSE]]
    BY DEF ExitEvent
  <2> DEFINE reaped == [child[p] EXCEPT !.st = "reaped", !.startup = FALSE]
  <2>2. reaped \in ChildRecord /\ reaped.st = "reaped" /\ reaped.owner = i /\ ~reaped.startup
    BY DEF Inv, TypeOK, ChildRecord
  <2> HIDE DEF reaped
  <2>3. QED
    <3>1. child' = [child EXCEPT ![p] = reaped]
      BY <2>1 DEF reaped
    <3>2. QED  BY <2>2, <3>1 DEF Inv, TypeOK
<1>7. Unreaped(p)
  BY DEF ExitEvent, Unreaped
<1>8. TypeOK'
  BY <1>1, <1>3, <1>4, <1>5, <1>6 DEF ExitEvent, Saved, Inv, TypeOK, ProcessStatus
<1>9. Linked'
  BY <1>1, <1>3, <1>4, <1>5, <1>6 DEF Inv, TypeOK, Objects, Linked, Unreaped, ProcessStatus
<1>10. OneChildPerInstance'
  BY <1>1, <1>5, <1>6, <1>7 DEF Inv, Objects, Linked, OneChildPerInstance, Unreaped
<1>11. PidIsChild'
  <2>1. \A j \in Inst : j # i /\ instance[j].pid # NoPid => instance[j].pid # p
    BY DEF Inv, Objects, PidIsChild
  <2>2. \A j \in Inst : instance[j].pid # NoPid => instance[j].pid \in Pid
    BY DEF Inv, TypeOK, InstanceRecord
  <2>3. \A q \in Pid : Unreaped(q) /\ q # p => child[q].owner # i
    BY <1>7 DEF Inv, Objects, OneChildPerInstance
  <2>4. QED
    BY <1>1, <1>3, <1>5, <1>6, <2>1, <2>2, <2>3 DEF Inv, Objects, Linked, PidIsChild, Unreaped
<1>12. StoppedHasNoTimer'
  BY <1>3, <1>5 DEF Inv, Objects, StoppedHasNoTimer, ExitEffect
<1>13. StoppedIsSignalled'
  BY <1>1, <1>3, <1>5, <1>6 DEF Inv, Objects, Linked, StoppedIsSignalled, Unreaped
<1>14. QED
  BY <1>1, <1>3, <1>5, <1>8, <1>9, <1>10, <1>11, <1>12, <1>13 DEF Inv, Objects, ProcessStatus

-----------------------------------------------------------------------------
(* The other turns of the event loop *)

LEMMA RestartBodyKeeps ==
  ASSUME Inv, NEW n \in Name, RestartBody(n)
  PROVE  /\ ObjectTypes' /\ Objects'
         /\ record' \in [Name -> ProcessStatus \cup {"absent"}]
         /\ restarting' \in [Name -> Nat]
<1>1. CASE n \in Managed /\ StopBody({n}) /\ Saved([record EXCEPT ![n] = "stopped"])
           /\ restarting' = [restarting EXCEPT ![n] = @ + 1]
  BY <1>1, StopKeepsObjects DEF Saved, Inv, TypeOK, ProcessStatus
<1>2. CASE StartBody(n) /\ UNCHANGED restarting
  BY <1>2, StartKeepsObjects, StartSaves DEF Inv, TypeOK
<1>3. QED  BY <1>1, <1>2 DEF RestartBody

LEMMA StartupWindowKeepsInv ==
  ASSUME Inv, NEW p \in Pid, StartupWindow(p)
  PROVE  Inv'
<1> DEFINE i == child[p].owner
<1>1. i \in Inst /\ instance[i].status # "none"
  BY DEF StartupWindow, Inv, TypeOK, Objects, Linked, Unreaped
<1>2. /\ \A j \in Inst : /\ instance'[j].name = instance[j].name
                         /\ instance'[j].status = instance[j].status
                         /\ instance'[j].pid = instance[j].pid
                         /\ instance'[j].restarts = instance[j].restarts
                         /\ instance'[j].restartTimer = instance[j].restartTimer
                         /\ instance'[j].monitorTimer = instance[j].monitorTimer
                         /\ instance'[j].intentionallyStopped = instance[j].intentionallyStopped
      /\ instance' \in [Inst -> InstanceRecord]
  <2> DEFINE done == [instance[i] EXCEPT !.startupCompleted = TRUE]
  <2>1. instance' = [instance EXCEPT ![i] = done]
    BY DEF StartupWindow
  <2>2. /\ done \in InstanceRecord
        /\ done.name = instance[i].name /\ done.status = instance[i].status
        /\ done.pid = instance[i].pid /\ done.restarts = instance[i].restarts
        /\ done.restartTimer = instance[i].restartTimer
        /\ done.monitorTimer = instance[i].monitorTimer
        /\ done.intentionallyStopped = instance[i].intentionallyStopped
    BY ZenonT(60), <1>1 DEF Inv, TypeOK, InstanceRecord
  <2> HIDE DEF done
  <2>3. QED  BY <1>1, <2>1, <2>2 DEF Inv, TypeOK
<1>3. /\ \A q \in Pid : /\ child'[q].st = child[q].st
                        /\ child'[q].owner = child[q].owner
                        /\ child'[q].killed = child[q].killed
                        /\ child'[q].startup => child[q].startup
      /\ child' \in [Pid -> ChildRecord]
  BY ZenonT(60) DEF StartupWindow, Inv, TypeOK, ChildRecord
<1>4. UNCHANGED <<processes, record, isShuttingDown, restarting>>
  BY DEF StartupWindow
<1>5. TypeOK'
  BY <1>2, <1>3, <1>4 DEF Inv, TypeOK
<1>6. Linked'
  <2>1. /\ \A j \in Inst : instance'[j].status # "none" => instance'[j].name \in Name
        /\ \A j \in Inst : instance'[j].status = "none" => instance'[j].restarts = 0
        /\ \A j \in Inst : \/ instance'[j].restartTimer
                           \/ instance'[j].monitorTimer
                           \/ instance'[j].intentionallyStopped
                           => instance'[j].status # "none"
    BY <1>2 DEF Inv, Objects, Linked
  <2>2. \A n \in Name : processes'[n] # NoInst => instance'[processes'[n]].status # "none"
    BY <1>2, <1>4 DEF Inv, TypeOK, Objects, Linked
  <2>3. /\ \A q \in Pid : Unreaped(q)' => /\ child'[q].owner \in Inst
                                           /\ instance'[child'[q].owner].status # "none"
        /\ \A q \in Pid : child'[q].startup => Unreaped(q)'
    BY <1>2, <1>3 DEF Inv, Objects, Linked, Unreaped
  <2>4. QED  BY <2>1, <2>2, <2>3 DEF Linked
<1>7. OneChildPerInstance' /\ StoppedHasNoTimer' /\ StoppedIsSignalled'
  BY <1>2, <1>3 DEF Inv, Objects, Linked, OneChildPerInstance, StoppedHasNoTimer,
                    StoppedIsSignalled, Unreaped
<1>8. PidIsChild'
  <2>1. \A j \in Inst : instance[j].pid # NoPid => instance[j].pid \in Pid
    BY DEF Inv, TypeOK, InstanceRecord
  <2>2. QED  BY <1>2, <1>3, <2>1 DEF Inv, Objects, Linked, PidIsChild, Unreaped
<1>9. QED  BY <1>5, <1>6, <1>7, <1>8 DEF Inv, Objects

LEMMA TimerSpawns ==
  ASSUME Inv, NEW i \in Inst, RestartTimer(i)
  PROVE  \E r : /\ Spawnable(i, r) /\ SpawnProcess(i, r)
                /\ r.restarts = instance[i].restarts /\ instance[i].restartTimer
                /\ r.name = instance[i].name
<1> DEFINE r == [instance[i] EXCEPT !.restartTimer = FALSE]
<1>1. /\ instance[i] \in InstanceRecord /\ instance[i].restartTimer
      /\ ~instance[i].intentionallyStopped
      /\ instance[i].status # "none" /\ instance[i].name \in Name
      /\ \A p \in Pid : Unreaped(p) => child[p].owner # i
  BY DEF RestartTimer, Inv, TypeOK, Objects, Linked, OneChildPerInstance, StoppedHasNoTimer
<1>2. instance[i].pid = NoPid
  BY <1>1 DEF Inv, TypeOK, Objects, PidIsChild, InstanceRecord
<1>3. Spawnable(i, r) /\ r.restarts = instance[i].restarts /\ r.name = instance[i].name
  BY <1>1, <1>2 DEF Spawnable, InstanceRecord
<1>4. SpawnProcess(i, r)
  BY DEF RestartTimer
<1>5. QED  BY <1>1, <1>3, <1>4

LEMMA RestartTimerKeepsInv ==
  ASSUME Inv, NEW i \in Inst, RestartTimer(i)
  PROVE  Inv'
<1>1. PICK r : Spawnable(i, r) /\ SpawnProcess(i, r)
  BY TimerSpawns
<1>2. UNCHANGED <<processes, isShuttingDown, restarting>>
  BY DEF RestartTimer
<1>3. ObjectTypes' /\ Objects'
  BY <1>1, <1>2, SpawnKeepsObjects
<1>4. record' \in [Name -> ProcessStatus \cup {"absent"}]
  BY <1>1, SpawnSaves DEF Spawnable, Inv
<1>5. QED  BY <1>2, <1>3, <1>4 DEF Inv, TypeOK, ObjectTypes

LEMMA ChildDiesKeepsInv ==
  ASSUME Inv, NEW p \in Pid, ChildDies(p)
  PROVE  Inv'
<1>1. /\ \A q \in Pid : /\ Unreaped(q)' <=> Unreaped(q)
                        /\ child'[q].st # "none" <=> child[q].st # "none"
                        /\ child'[q].owner = child[q].owner
                        /\ child'[q].killed = child[q].killed
                        /\ child'[q].startup = child[q].startup
      /\ child' \in [Pid -> ChildRecord]
  BY DEF ChildDies, Inv, TypeOK, ChildRecord, Unreaped
<1>2. UNCHANGED <<processes, instance, record, isShuttingDown, restarting>>
  BY DEF ChildDies
<1>3. TypeOK' /\ Linked'
  BY <1>1, <1>2 DEF Inv, TypeOK, Objects, Linked
<1>4. OneChildPerInstance' /\ StoppedHasNoTimer' /\ StoppedIsSignalled'
  BY <1>1, <1>2 DEF Inv, Objects, OneChildPerInstance, StoppedHasNoTimer, StoppedIsSignalled
<1>5. PidIsChild'
  <2>1. \A j \in Inst : instance[j].pid # NoPid => instance[j].pid \in Pid
    BY DEF Inv, TypeOK, InstanceRecord
  <2>2. QED  BY <1>1, <1>2, <2>1 DEF Inv, Objects, PidIsChild
<1>6. QED  BY <1>3, <1>4, <1>5 DEF Inv, Objects

-----------------------------------------------------------------------------
LEMMA InitInv == Init => Inv
<1> SUFFICES ASSUME Init PROVE Inv
  OBVIOUS
<1>1. TypeOK
  BY RecordTypes DEF Init, TypeOK
<1>2. Objects
  BY DEF Init, Objects, Linked, OneChildPerInstance, PidIsChild, StoppedHasNoTimer,
         StoppedIsSignalled, Unreaped, Uncreated, Unspawned, Blank, Fresh, NoInst, NoPid
<1>3. QED  BY <1>1, <1>2 DEF Inv

LEMMA StepInv == Inv /\ [Next]_vars => Inv'
<1> SUFFICES ASSUME Inv, [Next]_vars PROVE Inv'
  OBVIOUS
<1>1. ASSUME NEW n \in Name, Start(n) PROVE Inv'
  BY <1>1, StartKeepsObjects, StartSaves DEF Start, Inv, TypeOK, ObjectTypes
<1>2. ASSUME NEW n \in Name, Stop(n) PROVE Inv'
  <2>1. ObjectTypes' /\ Objects'
    BY <1>2, StopKeepsObjects DEF Stop
  <2>2. QED  BY <1>2, <2>1 DEF Stop, Saved, Inv, TypeOK, ObjectTypes, ProcessStatus
<1>3. ASSUME NEW n \in Name, Delete(n) PROVE Inv'
  <2>1. ObjectTypes' /\ Objects'
    BY <1>3, StopKeepsObjects DEF Delete
  <2>2. QED  BY <1>3, <2>1 DEF Delete, Saved, Inv, TypeOK, ObjectTypes
<1>4. ASSUME NEW n \in Name, Restart(n) PROVE Inv'
  BY <1>4, RestartBodyKeeps DEF Restart, Inv, TypeOK, ObjectTypes
<1>5. ASSUME NEW n \in Name, RestartResume(n) PROVE Inv'
  <2>1. restarting' \in [Name -> Nat] /\ UNCHANGED isShuttingDown
    BY <1>5 DEF RestartResume, Inv, TypeOK
  <2>2. CASE StartBody(n)
    BY <2>1, <2>2, StartKeepsObjects, StartSaves DEF Inv, TypeOK, ObjectTypes
  <2>3. CASE UNCHANGED <<processes, instance, child, record>>
    BY <2>1, <2>3 DEF Inv, TypeOK, Objects, Linked, OneChildPerInstance, PidIsChild,
                      StoppedHasNoTimer, StoppedIsSignalled, Unreaped
  <2>4. QED  BY <1>5, <2>2, <2>3 DEF RestartResume
<1>6. ASSUME StopAll PROVE Inv'
  <2>1. ObjectTypes' /\ Objects'
    BY <1>6, StopKeepsObjects DEF StopAll
  <2>2. QED  BY <1>6, <2>1 DEF StopAll, Saved, Inv, TypeOK, ObjectTypes, ProcessStatus
<1>7. ASSUME NEW i \in Inst, MonitorTick(i) PROVE Inv'
  <2>1. instance[i].name \in Name /\ instance[i].status \in ProcessStatus
    BY <1>7 DEF MonitorTick, Inv, TypeOK, InstanceRecord, Objects, Linked
  <2>2. CASE Saved([record EXCEPT ![instance[i].name] = instance[i].status])
             /\ UNCHANGED <<processes, instance, child, restarting, isShuttingDown>>
    BY <2>1, <2>2 DEF Saved, Inv, TypeOK, Objects, Linked, OneChildPerInstance, PidIsChild,
                      StoppedHasNoTimer, StoppedIsSignalled, Unreaped
  <2>3. CASE RestartBody(instance[i].name) /\ UNCHANGED isShuttingDown
    BY <2>1, <2>3, RestartBodyKeeps DEF Inv, TypeOK, ObjectTypes
  <2>4. QED  BY <1>7, <2>2, <2>3 DEF MonitorTick
<1>8. CASE UNCHANGED vars
  BY <1>8 DEF vars, Inv, TypeOK, Objects, Linked, OneChildPerInstance, PidIsChild,
              StoppedHasNoTimer, StoppedIsSignalled, Unreaped
<1>9. QED
  BY <1>1, <1>2, <1>3, <1>4, <1>5, <1>6, <1>7, <1>8, ExitKeepsInv, StartupWindowKeepsInv,
     RestartTimerKeepsInv, ChildDiesKeepsInv DEF Next

LEMMA Invariant == Spec => []Inv
BY InitInv, StepInv, PTL DEF Spec

(* Every spawn, stop, exit and timer keeps the types of the model: no      *)
(* handler writes to an object that does not exist.                        *)
THEOREM TypeCorrect == Spec => []TypeOK
BY Invariant, PTL DEF Inv

(* However exits, back-off timers and requests interleave, an instance has *)
(* one child at most, and none while its back-off timer is pending.        *)
THEOREM OneChild == Spec => []OneChildPerInstance
BY Invariant, PTL DEF Inv, Objects

(* A child that outlives the stop of its instance has been signalled.      *)
THEOREM StopSignals == Spec => []StoppedIsSignalled
BY Invariant, PTL DEF Inv, Objects

-----------------------------------------------------------------------------
(* A stopped instance gets nothing any more *)

Persists ==
  \A i \in Inst : instance[i].intentionallyStopped =>
    /\ instance'[i].intentionallyStopped
    /\ \A p \in Pid : child'[p].owner = i => child[p].owner = i

LEMMA StopPersists ==
  ASSUME Inv, NEW S \in SUBSET Managed, StopBody(S)
  PROVE  Persists
<1>1. \A i \in Inst : \/ instance'[i] = instance[i]
                      \/ instance'[i] = StoppedInstance(instance[i])
  BY DEF StopBody
<1>2. \A p \in Pid : child'[p] = child[p] \/ child'[p] = KillSequence(child[p])
  BY DEF StopBody
<1>3. \A i \in Inst : StoppedInstance(instance[i]).intentionallyStopped
  BY DEF StoppedInstance, Inv, TypeOK, InstanceRecord
<1>4. \A p \in Pid : KillSequence(child[p]).owner = child[p].owner
  BY DEF KillSequence, Inv, TypeOK, ChildRecord
<1>5. QED  BY <1>1, <1>2, <1>3, <1>4 DEF Persists

LEMMA SpawnPersists ==
  ASSUME Inv, NEW i \in Inst, NEW r, ~instance[i].intentionallyStopped, SpawnProcess(i, r)
  PROVE  Persists
<1>1. \A j \in Inst : j # i => instance'[j] = instance[j]
  BY DEF SpawnProcess, Inv, TypeOK
<1>2. \A p \in Pid : child'[p].owner \in {child[p].owner, i}
  <2>1. Spawned(i).owner = i
    BY DEF Spawned, Fresh
  <2>2. child' = child \/ \E p \in Pid : child' = [child EXCEPT ![p] = Spawned(i)]
    BY DEF SpawnProcess
  <2>3. QED  BY <2>1, <2>2 DEF Inv, TypeOK
<1>3. QED  BY <1>1, <1>2 DEF Persists

LEMMA StartPersists ==
  ASSUME Inv, NEW n \in Name, StartBody(n)
  PROVE  Persists
BY SpawnPersists DEF StartBody, NextInst, Inv, Objects, Linked

LEMMA StepPersists == Inv /\ [Next]_vars => Persists
<1> SUFFICES ASSUME Inv, [Next]_vars PROVE Persists
  OBVIOUS
<1>1. ASSUME NEW n \in Name, Start(n) \/ Stop(n) \/ Delete(n) PROVE Persists
  BY <1>1, StartPersists, StopPersists DEF Start, Stop, Delete
<1>2. ASSUME NEW n \in Name, RestartBody(n) PROVE Persists
  BY <1>2, StartPersists, StopPersists DEF RestartBody
<1>3. ASSUME UNCHANGED <<instance, child>> PROVE Persists
  BY <1>3 DEF Persists
<1>4. ASSUME NEW n \in Name, Restart(n) \/ RestartResume(n) PROVE Persists
  BY <1>2, <1>3, <1>4, StartPersists DEF Restart, RestartResume
<1>5. ASSUME StopAll PROVE Persists
  BY <1>5, StopPersists DEF StopAll
<1>6. ASSUME NEW p \in Pid, StartupWindow(p) PROVE Persists
  BY <1>6 DEF StartupWindow, Persists, Inv, TypeOK, InstanceRecord, ChildRecord
<1>7. ASSUME NEW p \in Pid, ChildDies(p) PROVE Persists
  BY <1>7 DEF ChildDies, Persists, Inv, TypeOK, ChildRecord
<1>8. ASSUME NEW p \in Pid, ExitEvent(p) PROVE Persists
  <2>1. \A q \in Pid : child'[q].owner = child[q].owner
    BY ZenonT(60), <1>8 DEF ExitEvent, Inv, TypeOK, ChildRecord
  <2>2. \A i \in Inst : instance'[i].intentionallyStopped = instance[i].intentionallyStopped
    BY <1>8, ExitKeepsInv
  <2>3. QED  BY <2>1, <2>2 DEF Persists
<1>9. ASSUME NEW i \in Inst, RestartTimer(i) PROVE Persists
  BY <1>9, SpawnPersists DEF RestartTimer, Inv, Objects, StoppedHasNoTimer
<1>10. ASSUME NEW i \in Inst, MonitorTick(i) PROVE Persists
  <2>1. instance[i].name \in Name
    BY <1>10 DEF MonitorTick, Inv, TypeOK, InstanceRecord, Objects, Linked
  <2>2. QED  BY <1>2, <1>3, <1>10, <2>1 DEF MonitorTick
<1>11. CASE UNCHANGED vars
  BY <1>3, <1>11 DEF vars
<1>12. QED
  BY <1>1, <1>4, <1>5, <1>6, <1>7, <1>8, <1>9, <1>10, <1>11 DEF Next

(* Once stop() has taken an instance, nothing gives that instance a child  *)
(* or a back-off timer again.                                              *)
THEOREM StopIsFinal == Spec => StoppedStaysDown
<1>1. Inv /\ Inv' /\ [Next]_vars => [\A i \in Inst : instance[i].intentionallyStopped =>
         /\ instance'[i].intentionallyStopped
         /\ ~instance'[i].restartTimer
         /\ \A p \in Pid : child'[p].owner = i => child[p].owner = i]_vars
  BY StepPersists DEF Persists, Inv, Objects, StoppedHasNoTimer
<1>2. QED  BY <1>1, Invariant, PTL DEF Spec, StoppedStaysDown

-----------------------------------------------------------------------------
(* The manager implements Supervisor: what one step does to one instance.  *)

Same(i) ==
  /\ Children(i)' = Children(i)
  /\ instance'[i].status = "none" <=> instance[i].status = "none"
  /\ instance'[i].intentionallyStopped = instance[i].intentionallyStopped
  /\ instance'[i].restartTimer = instance[i].restartTimer
  /\ instance'[i].restarts = instance[i].restarts

Stops(i) ==
  /\ Children(i)' = Children(i)
  /\ instance[i].status # "none" /\ instance'[i].status # "none"
  /\ instance'[i].intentionallyStopped /\ ~instance'[i].restartTimer
  /\ instance'[i].restarts = instance[i].restarts

Spawns(i) ==
  /\ Children(i) = {}
  /\ instance[i].status = "none" \/ instance[i].restartTimer
  /\ ~instance'[i].intentionallyStopped /\ ~instance'[i].restartTimer
  /\ instance'[i].status # "none"
  /\ instance'[i].restarts = instance[i].restarts
  /\ Children(i)' = {} \/ \E p \in Pid : Children(i)' = {p}

Exits(i) ==
  /\ Children(i) # {} /\ Children(i)' = {}
  /\ instance'[i].status # "none"
  /\ \/ /\ ~instance'[i].restartTimer
        /\ instance'[i].restarts = instance[i].restarts
     \/ /\ ~instance[i].intentionallyStopped
        /\ instance'[i].restartTimer
        /\ instance[i].restarts < MaxRestarts
        /\ instance'[i].restarts = instance[i].restarts + 1

Behaves(i) == Same(i) \/ Stops(i) \/ Spawns(i) \/ Exits(i)

PhaseFacts(i) ==
  /\ instance[i].status = "none" => Phase(i) = "new" /\ Children(i) = {}
  /\ instance[i].status # "none" =>
       /\ Children(i) # {} /\ instance[i].intentionallyStopped => Phase(i) = "dying"
       /\ Children(i) # {} /\ ~instance[i].intentionallyStopped => Phase(i) = "up"
       /\ Children(i) = {} /\ instance[i].restartTimer => Phase(i) = "backoff"
       /\ Children(i) = {} /\ ~instance[i].restartTimer => Phase(i) = "ended"

LEMMA PhaseIs == Inv => \A i \in Inst : PhaseFacts(i)
<1> SUFFICES ASSUME Inv, NEW i \in Inst PROVE PhaseFacts(i)
  OBVIOUS
<1>1. instance[i].status = "none" => Children(i) = {}
  BY DEF Inv, Objects, Linked, Children, Unreaped
<1>2. QED  BY <1>1 DEF Phase, PhaseFacts

LEMMA PhaseIsNext == Inv' => (\A i \in Inst : PhaseFacts(i))'
BY PhaseIs, PTL

LEMMA BehavesMoves ==
  ASSUME Inv, Inv', NEW i \in Inst, Behaves(i)
  PROVE  Abstract!Move(i)
<1>1. PhaseFacts(i)
  BY PhaseIs
<1>2. PhaseFacts(i)'
  BY PhaseIsNext
<1>3. CASE Same(i)
  <2>1. Phase(i)' = Phase(i)
    BY <1>1, <1>2, <1>3 DEF PhaseFacts, Same
  <2>2. Abstract!Rest(i)
    BY <2>1, <1>3 DEF Same, Abstract!Rest, Abstract!Goes
  <2>3. QED  BY <2>2 DEF Abstract!Move
<1>4. CASE Stops(i) /\ ~Same(i)
  <2>1. CASE Children(i) # {}
    <3>1. Phase(i)' = "dying" /\ Phase(i) \in {"up", "dying"}
      BY <1>1, <1>2, <1>4, <2>1 DEF PhaseFacts, Stops
    <3>2. Abstract!Stop(i) \/ Abstract!Rest(i)
      BY <1>4, <3>1 DEF Stops, Abstract!Stop, Abstract!Rest, Abstract!Goes
    <3>3. QED  BY <3>2 DEF Abstract!Move
  <2>2. CASE Children(i) = {}
    <3>1. Phase(i)' = "ended" /\ Phase(i) \in {"backoff", "ended"}
      BY <1>1, <1>2, <1>4, <2>2 DEF PhaseFacts, Stops
    <3>2. Abstract!Abandon(i) \/ Abstract!Rest(i)
      BY <1>4, <2>2, <3>1 DEF Stops, Abstract!Abandon, Abstract!Rest, Abstract!Goes
    <3>3. QED  BY <3>2 DEF Abstract!Move
  <2>3. QED  BY <2>1, <2>2
<1>5. CASE Spawns(i)
  <2>1. Phase(i) \in {"new", "backoff"}
    BY <1>1, <1>5 DEF PhaseFacts, Spawns
  <2>2. CASE Children(i)' = {}
    <3>1. Phase(i)' = "ended"
      BY <1>2, <1>5, <2>2 DEF PhaseFacts, Spawns
    <3>2. Abstract!Abandon(i)
      BY <1>5, <2>1, <2>2, <3>1 DEF Spawns, Abstract!Abandon, Abstract!Goes
    <3>3. QED  BY <3>2 DEF Abstract!Move
  <2>3. CASE \E p \in Pid : Children(i)' = {p}
    <3>1. Phase(i)' = "up"
      BY <1>2, <1>5, <2>3 DEF PhaseFacts, Spawns
    <3>2. Abstract!Launch(i)
      BY <1>5, <2>1, <2>3, <3>1 DEF Spawns, Abstract!Launch, Abstract!Goes
    <3>3. QED  BY <3>2 DEF Abstract!Move
  <2>4. QED  BY <1>5, <2>2, <2>3 DEF Spawns
<1>6. CASE Exits(i)
  <2>1. /\ Phase(i) \in {"up", "dying"}
        /\ ~instance[i].intentionallyStopped => Phase(i) = "up"
    BY <1>1, <1>6 DEF PhaseFacts, Exits
  <2>2. CASE ~instance'[i].restartTimer /\ instance'[i].restarts = instance[i].restarts
    <3>1. Phase(i)' = "ended"
      BY <1>2, <1>6, <2>2 DEF PhaseFacts, Exits
    <3>2. Abstract!End(i)
      BY <1>6, <2>1, <2>2, <3>1 DEF Exits, Abstract!End, Abstract!Goes
    <3>3. QED  BY <3>2 DEF Abstract!Move
  <2>3. CASE /\ ~instance[i].intentionallyStopped
             /\ instance'[i].restartTimer
             /\ instance[i].restarts < MaxRestarts
             /\ instance'[i].restarts = instance[i].restarts + 1
    <3>1. Phase(i)' = "backoff"
      BY <1>2, <1>6, <2>3 DEF PhaseFacts, Exits
    <3>2. Abstract!Retry(i)
      BY <1>6, <2>1, <2>3, <3>1 DEF Exits, Abstract!Retry, Abstract!Goes
    <3>3. QED  BY <3>2 DEF Abstract!Move
  <2>4. QED  BY <1>6, <2>2, <2>3 DEF Exits
<1>7. QED  BY <1>3, <1>4, <1>5, <1>6 DEF Behaves

LEMMA StopBehaves ==
  ASSUME Inv, NEW S \in SUBSET Managed, StopBody(S), NEW i \in Inst
  PROVE  Behaves(i)
<1>1. Children(i)' = Children(i)
  <2>1. \A p \in Pid : child'[p] = child[p] \/ child'[p] = KillSequence(child[p])
    BY DEF StopBody
  <2>2. \A p \in Pid : /\ KillSequence(child[p]).owner = child[p].owner
                       /\ KillSequence(child[p]).st = child[p].st
    BY DEF KillSequence, Inv, TypeOK, ChildRecord
  <2>3. QED  BY <2>1, <2>2 DEF Children, Unreaped
<1>2. CASE instance'[i] = instance[i]
  BY <1>1, <1>2 DEF Same, Behaves
<1>3. CASE i \in {processes[n] : n \in S} /\ instance'[i] = StoppedInstance(instance[i])
  <2>1. instance[i].status # "none"
    BY <1>3 DEF Inv, Objects, Linked, Managed
  <2>2. /\ instance'[i].status # "none" /\ instance'[i].intentionallyStopped
        /\ ~instance'[i].restartTimer /\ instance'[i].restarts = instance[i].restarts
    BY <1>3 DEF StoppedInstance, Inv, TypeOK, InstanceRecord
  <2>3. QED  BY <1>1, <2>1, <2>2 DEF Stops, Behaves
<1>4. QED  BY <1>2, <1>3 DEF StopBody

LEMMA SpawnBehaves ==
  ASSUME Inv, Inv', NEW i \in Inst, NEW r, Spawnable(i, r), SpawnProcess(i, r),
         instance[i].status = "none" \/ instance[i].restartTimer,
         r.restarts = instance[i].restarts, NEW j \in Inst
  PROVE  Behaves(j)
<1>1. /\ \A k \in Inst : k # i => instance'[k] = instance[k]
      /\ instance'[i].restarts = r.restarts /\ instance'[i].status # "none"
      /\ ~instance'[i].restartTimer /\ ~instance'[i].intentionallyStopped
  <2>1. CASE \E p \in Pid : instance' = [instance EXCEPT ![i] =
               [r EXCEPT !.pid = p, !.status = "online", !.monitorTimer = TRUE]]
    BY <2>1 DEF Spawnable, Inv, TypeOK, InstanceRecord
  <2>2. CASE instance' = [instance EXCEPT ![i] = [r EXCEPT !.status = "errored"]]
    BY <2>2 DEF Spawnable, Inv, TypeOK, InstanceRecord
  <2>3. QED  BY <2>1, <2>2 DEF SpawnProcess
<1>2. Children(i) = {}
  BY DEF Spawnable, Children
<1>3. CASE child' = child
  <2>1. \A k \in Inst : Children(k)' = Children(k)
    BY <1>3 DEF Children, Unreaped
  <2>2. j = i => Spawns(j)
    BY <1>1, <1>2, <2>1 DEF Spawns
  <2>3. j # i => Same(j)
    BY <1>1, <2>1 DEF Same
  <2>4. QED  BY <2>2, <2>3 DEF Behaves
<1>4. CASE \E p \in Pid : NextPid(p) /\ child' = [child EXCEPT ![p] = Spawned(i)]
  <2>1. PICK p \in Pid : NextPid(p) /\ child' = [child EXCEPT ![p] = Spawned(i)]
    BY <1>4
  <2>2. /\ ~Unreaped(p) /\ child'[p].st = "live" /\ child'[p].owner = i
        /\ \A q \in Pid : q # p => child'[q] = child[q]
    BY <2>1 DEF NextPid, Spawned, Fresh, Unreaped, Inv, TypeOK
  <2>3. Children(i)' = {p}
    BY <1>2, <2>2 DEF Children, Unreaped
  <2>4. \A k \in Inst : k # i => Children(k)' = Children(k)
    BY <2>2 DEF Children, Unreaped
  <2>5. j = i => Spawns(j)
    BY <1>1, <1>2, <2>3 DEF Spawns
  <2>6. j # i => Same(j)
    BY <1>1, <2>4 DEF Same
  <2>7. QED  BY <2>5, <2>6 DEF Behaves
<1>5. QED  BY <1>3, <1>4 DEF SpawnProcess

LEMMA StartBehaves ==
  ASSUME Inv, Inv', NEW n \in Name, StartBody(n), NEW j \in Inst
  PROVE  Behaves(j)
<1>1. PICK i \in Inst : NextInst(i) /\ SpawnProcess(i, NewInstance(n))
  BY DEF StartBody
<1>2. Spawnable(i, NewInstance(n)) /\ NewInstance(n).restarts = instance[i].restarts
  BY <1>1, RecordTypes DEF Spawnable, NextInst, NewInstance, Blank, Inv, Objects, Linked, Unreaped
<1>3. QED  BY <1>1, <1>2, SpawnBehaves DEF NextInst

LEMMA ExitBehaves ==
  ASSUME Inv, NEW p \in Pid, ExitEvent(p), NEW j \in Inst
  PROVE  Behaves(j)
<1> DEFINE i == child[p].owner
<1>1. /\ i \in Inst /\ instance[i].status # "none"
      /\ Unreaped(p) /\ ~instance[i].restartTimer
  BY DEF ExitEvent, Inv, TypeOK, Objects, Linked, OneChildPerInstance, Unreaped
<1>2. /\ child'[p].st = "reaped" /\ child'[p].owner = i
      /\ \A q \in Pid : q # p => child'[q] = child[q]
  <2>1. child' = [child EXCEPT ![p] = [@ EXCEPT !.st = "reaped", !.startup = FALSE]]
    BY DEF ExitEvent
  <2>2. QED  BY <2>1 DEF Inv, TypeOK, ChildRecord
<1>3. Children(i) # {} /\ Children(i)' = {}
  BY <1>1, <1>2 DEF Children, Unreaped, Inv, Objects, OneChildPerInstance
<1>4. \A k \in Inst : k # i => Children(k)' = Children(k)
  BY <1>2 DEF Children, Unreaped
<1>5. /\ Inv' /\ ExitEffect(instance[i], instance'[i])
      /\ \A k \in Inst : k # i => instance'[k] = instance[k]
      /\ instance'[i].status = "none" <=> instance[i].status = "none"
  BY <1>1, ExitKeepsInv
<1>6. instance'[i].status # "none"
  BY <1>1, <1>5
<1>7. Exits(i)
  <2>1. CASE /\ instance'[i].restartTimer = instance[i].restartTimer
             /\ instance'[i].restarts = instance[i].restarts
    <3>1. ~instance'[i].restartTimer
      BY <1>1, <2>1
    <3>2. QED  BY <1>3, <1>6, <2>1, <3>1 DEF Exits
  <2>2. CASE /\ ~instance[i].intentionallyStopped /\ instance[i].restarts < MaxRestarts
             /\ instance'[i].restartTimer
             /\ instance'[i].restarts = instance[i].restarts + 1
    BY <1>3, <1>6, <2>2 DEF Exits
  <2>3. QED  BY <1>5, <2>1, <2>2 DEF ExitEffect
<1>8. j # i => Same(j)
  BY <1>4, <1>5 DEF Same
<1>9. QED  BY <1>7, <1>8 DEF Behaves

LEMMA QuietBehaves ==
  ASSUME UNCHANGED <<instance, child>>, NEW j \in Inst
  PROVE  Behaves(j)
BY DEF Behaves, Same, Children, Unreaped

LEMMA StepBehaves ==
  ASSUME Inv, Inv', [Next]_vars, NEW j \in Inst
  PROVE  Behaves(j)
<1>1. ASSUME NEW n \in Name, Start(n) \/ Stop(n) \/ Delete(n) PROVE Behaves(j)
  BY <1>1, StartBehaves, StopBehaves DEF Start, Stop, Delete
<1>2. ASSUME NEW n \in Name, RestartBody(n) PROVE Behaves(j)
  BY <1>2, StartBehaves, StopBehaves DEF RestartBody
<1>3. ASSUME NEW n \in Name, Restart(n) \/ RestartResume(n) PROVE Behaves(j)
  BY <1>2, <1>3, StartBehaves, QuietBehaves DEF Restart, RestartResume
<1>4. ASSUME StopAll PROVE Behaves(j)
  BY <1>4, StopBehaves DEF StopAll
<1>5. ASSUME NEW p \in Pid, StartupWindow(p) PROVE Behaves(j)
  <2>1. Children(j)' = Children(j)
    BY <1>5 DEF StartupWindow, Children, Unreaped, Inv, TypeOK, ChildRecord
  <2>2. QED  BY <1>5, <2>1 DEF StartupWindow, Behaves, Same, Inv, TypeOK, InstanceRecord
<1>6. ASSUME NEW p \in Pid, ChildDies(p) PROVE Behaves(j)
  <2>1. Children(j)' = Children(j)
    BY <1>6 DEF ChildDies, Children, Unreaped, Inv, TypeOK, ChildRecord
  <2>2. QED  BY <1>6, <2>1 DEF ChildDies, Behaves, Same
<1>7. ASSUME NEW p \in Pid, ExitEvent(p) PROVE Behaves(j)
  BY <1>7, ExitBehaves
<1>8. ASSUME NEW i \in Inst, RestartTimer(i) PROVE Behaves(j)
  BY <1>8, TimerSpawns, SpawnBehaves
<1>9. ASSUME NEW i \in Inst, MonitorTick(i) PROVE Behaves(j)
  <2>1. instance[i].name \in Name
    BY <1>9 DEF MonitorTick, Inv, TypeOK, InstanceRecord, Objects, Linked
  <2>2. QED  BY <1>2, <1>9, <2>1, QuietBehaves DEF MonitorTick
<1>10. CASE UNCHANGED vars
  BY <1>10, QuietBehaves DEF vars
<1>11. QED
  BY <1>1, <1>3, <1>4, <1>5, <1>6, <1>7, <1>8, <1>9, <1>10 DEF Next

(* The manager implements the abstract supervisor: one child at a time,    *)
(* relaunched at most MaxRestarts times, never again once stopped.         *)
THEOREM Refinement == Spec => Supervises
<1>1. Init => Abstract!Init
  BY DEF Init, Abstract!Init, Phase, Children, Unreaped, Uncreated, Unspawned, Blank, Fresh
<1>2. Inv /\ Inv' /\ [Next]_vars => [Abstract!Next]_(Abstract!vars)
  BY StepBehaves, BehavesMoves DEF Abstract!Next
<1>3. QED  BY <1>1, <1>2, Invariant, PTL DEF Spec, Supervises, Abstract!Spec

-----------------------------------------------------------------------------
(* Patient callers *)

(* An instance is active while it has a child or is about to get one.      *)
Active(i) == instance[i].restartTimer \/ \E p \in Pid : Unreaped(p) /\ child[p].owner = i

NamesAgree == \A n \in Name : processes[n] # NoInst => instance[processes[n]].name = n

OneActivePerName ==
  \A i, j \in Inst : Active(i) /\ Active(j) /\ instance[i].name = instance[j].name => i = j

(* The Map never leads past an active instance to another one of its name, *)
(* and leads to it unless it was stopped.                                  *)
ActiveIsManaged ==
  \A i \in Inst : Active(i) =>
    /\ processes[instance[i].name] \in {NoInst, i}
    /\ ~instance[i].intentionallyStopped => processes[instance[i].name] = i

StoppedHasNoPid == \A i \in Inst : instance[i].intentionallyStopped => instance[i].pid = NoPid

PatientObjects == NamesAgree /\ OneActivePerName /\ ActiveIsManaged /\ StoppedHasNoPid
PatientInv == Writable /\ Inv /\ PatientObjects /\ RecordAgrees

(* No start() while an earlier process of its name is around.              *)
Patient == \A n \in Name : Started(n) => Quiet(n)

LEMMA StopKeepsPatient ==
  ASSUME PatientInv, NEW S \in SUBSET Managed, StopBody(S),
         \A n \in Name : n \notin S => record'[n] = record[n]
  PROVE  PatientObjects' /\ RecordAgrees'
<1> DEFINE stopped == {processes[n] : n \in S}
<1>1. S \subseteq Name /\ stopped \subseteq Inst
      /\ \A n \in S : instance[processes[n]].name = n
  BY DEF PatientInv, PatientObjects, NamesAgree, Inv, TypeOK, Managed
<1>2. \A i \in Inst : /\ instance'[i].name = instance[i].name
                      /\ i \notin stopped => instance'[i] = instance[i]
                      /\ i \in stopped => /\ instance'[i].pid = NoPid
                                          /\ instance'[i].intentionallyStopped
                                          /\ ~instance'[i].restartTimer
  <2>1. \A i \in Inst : instance'[i] = IF i \in stopped THEN StoppedInstance(instance[i])
                                                       ELSE instance[i]
    BY DEF StopBody
  <2>2. \A r \in InstanceRecord : /\ StoppedInstance(r).name = r.name
                                  /\ StoppedInstance(r).pid = NoPid
                                  /\ StoppedInstance(r).intentionallyStopped
                                  /\ ~StoppedInstance(r).restartTimer
    BY DEF StoppedInstance, InstanceRecord
  <2>3. QED  BY <2>1, <2>2 DEF PatientInv, Inv, TypeOK
<1>3. \A p \in Pid : child'[p].st = child[p].st /\ child'[p].owner = child[p].owner
  <2>1. \A p \in Pid : child'[p] = child[p] \/ child'[p] = KillSequence(child[p])
    BY DEF StopBody
  <2>2. \A p \in Pid : /\ KillSequence(child[p]).owner = child[p].owner
                       /\ KillSequence(child[p]).st = child[p].st
    BY DEF KillSequence, PatientInv, Inv, TypeOK, ChildRecord
  <2>3. QED  BY <2>1, <2>2
<1>4. \A n \in Name : /\ n \in S => processes'[n] = NoInst
                      /\ n \notin S => processes'[n] = processes[n]
  BY DEF StopBody
<1>5. \A i \in Inst : Active(i)' => Active(i)
  BY <1>2, <1>3 DEF Active, Unreaped
<1>6. \A n \in Name : processes'[n] # NoInst => processes[n] \in Inst \ stopped
  BY <1>1, <1>4 DEF PatientInv, PatientObjects, NamesAgree, Inv, TypeOK
<1> HIDE DEF stopped
<1>7. NamesAgree'
  BY <1>2, <1>4, <1>6 DEF PatientInv, PatientObjects, NamesAgree
<1>8. OneActivePerName'
  BY <1>2, <1>5 DEF PatientInv, PatientObjects, OneActivePerName
<1>9. ActiveIsManaged'
  <2> SUFFICES ASSUME NEW i \in Inst, Active(i)'
               PROVE  /\ processes'[instance'[i].name] \in {NoInst, i}
                      /\ ~instance'[i].intentionallyStopped
                         => processes'[instance'[i].name] = i
    BY DEF ActiveIsManaged
  <2>1. instance[i].name \in Name /\ instance'[i].name = instance[i].name /\ Active(i)
    BY <1>2, <1>5 DEF Active, PatientInv, Inv, Objects, Linked
  <2>2. processes[instance[i].name] \in {NoInst, i}
    BY <2>1 DEF PatientInv, PatientObjects, ActiveIsManaged
  <2>3. ASSUME ~instance'[i].intentionallyStopped PROVE instance[i].name \notin S
    <3>1. i \notin stopped /\ processes[instance[i].name] = i
      BY <1>2, <2>1, <2>3 DEF PatientInv, PatientObjects, ActiveIsManaged
    <3>2. QED  BY <3>1 DEF stopped
  <2>4. ASSUME ~instance'[i].intentionallyStopped PROVE processes[instance[i].name] = i
    BY <1>2, <2>1, <2>4 DEF PatientInv, PatientObjects, ActiveIsManaged
  <2>5. QED  BY <1>4, <2>1, <2>2, <2>3, <2>4
<1>10. StoppedHasNoPid'
  BY <1>2 DEF PatientInv, PatientObjects, StoppedHasNoPid
<1>11. RecordAgrees'
  BY <1>2, <1>4, <1>6 DEF PatientInv, RecordAgrees
<1>12. QED  BY <1>7, <1>8, <1>9, <1>10, <1>11 DEF PatientObjects

(* What spawnProcess leaves behind, of whichever of its outcomes.          *)
LEMMA SpawnLeaves ==
  ASSUME Inv, NEW i \in Inst, NEW r, Spawnable(i, r), SpawnProcess(i, r)
  PROVE  /\ \A j \in Inst : j # i => instance'[j] = instance[j]
         /\ instance'[i].name = r.name
         /\ instance'[i].status # "none"
         /\ ~instance'[i].intentionallyStopped /\ ~instance'[i].restartTimer
         /\ \/ record' = [record EXCEPT ![r.name] = instance'[i].status]
            \/ ~Writable /\ record' = record
         /\ \A p \in Pid : \/ child'[p] = child[p]
                           \/ ~Unreaped(p) /\ Unreaped(p)' /\ child'[p].owner = i
<1>1. CASE \E p \in Pid :
             /\ NextPid(p)
             /\ instance' = [instance EXCEPT ![i] =
                  [r EXCEPT !.pid = p, !.status = "online", !.monitorTimer = TRUE]]
             /\ child' = [child EXCEPT ![p] = Spawned(i)]
             /\ Saved([record EXCEPT ![r.name] = "online"])
  <2>1. PICK p \in Pid :
             /\ NextPid(p)
             /\ instance' = [instance EXCEPT ![i] =
                  [r EXCEPT !.pid = p, !.status = "online", !.monitorTimer = TRUE]]
             /\ child' = [child EXCEPT ![p] = Spawned(i)]
             /\ Saved([record EXCEPT ![r.name] = "online"])
    BY <1>1
  <2> DEFINE up == [r EXCEPT !.pid = p, !.status = "online", !.monitorTimer = TRUE]
  <2>2. /\ up.name = r.name /\ up.status = "online"
        /\ ~up.intentionallyStopped /\ ~up.restartTimer
    BY DEF Spawnable, InstanceRecord
  <2>3. instance'[i] = up /\ \A j \in Inst : j # i => instance'[j] = instance[j]
    BY <2>1 DEF Inv, TypeOK
  <2>4. \A q \in Pid : \/ child'[q] = child[q]
                       \/ ~Unreaped(q) /\ Unreaped(q)' /\ child'[q].owner = i
    BY <2>1 DEF NextPid, Spawned, Fresh, Unreaped, Inv, TypeOK
  <2> HIDE DEF up
  <2>5. QED  BY <2>1, <2>2, <2>3, <2>4 DEF Saved
<1>2. CASE /\ instance' = [instance EXCEPT ![i] = [r EXCEPT !.status = "errored"]]
           /\ Saved([record EXCEPT ![r.name] = "errored"])
           /\ UNCHANGED child
  BY <1>2 DEF Saved, Unreaped, Spawnable, Inv, TypeOK, InstanceRecord
<1>3. QED  BY <1>1, <1>2 DEF SpawnProcess

(* spawnProcess of the one instance a name stands for, or is about to.     *)
LEMMA SpawnKeepsPatient ==
  ASSUME PatientInv, NEW i \in Inst, NEW r, Spawnable(i, r), SpawnProcess(i, r),
         \A j \in Inst : j # i /\ Active(j) => instance[j].name # r.name,
         \A n \in Name : n # r.name => processes[n] # i,
         \A n \in Name : n # r.name => processes'[n] = processes[n],
         processes'[r.name] = i
  PROVE  PatientObjects' /\ RecordAgrees'
<1>1. /\ r.name \in Name
      /\ \A j \in Inst : j # i => instance'[j] = instance[j]
      /\ instance'[i].name = r.name
      /\ ~instance'[i].intentionallyStopped
      /\ record' = [record EXCEPT ![r.name] = instance'[i].status]
  BY SpawnLeaves DEF PatientInv, Spawnable
<1>2. \A j \in Inst : j # i /\ Active(j)' => Active(j)
  BY SpawnLeaves DEF PatientInv, Active, Unreaped
<1>3. NamesAgree'
  BY <1>1 DEF PatientInv, PatientObjects, NamesAgree, Inv, TypeOK
<1>4. OneActivePerName'
  BY <1>1, <1>2 DEF PatientInv, PatientObjects, OneActivePerName
<1>5. ActiveIsManaged'
  <2>1. \A j \in Inst : Active(j) => instance[j].name \in Name
    BY DEF Active, PatientInv, Inv, Objects, Linked
  <2>2. QED  BY <1>1, <1>2, <2>1 DEF PatientInv, PatientObjects, ActiveIsManaged
<1>6. StoppedHasNoPid'
  BY <1>1 DEF PatientInv, PatientObjects, StoppedHasNoPid
<1>7. RecordAgrees'
  BY <1>1 DEF PatientInv, RecordAgrees, Inv, TypeOK
<1>8. QED  BY <1>3, <1>4, <1>5, <1>6, <1>7 DEF PatientObjects

LEMMA StartKeepsPatient ==
  ASSUME PatientInv, NEW n \in Name, StartBody(n), Patient
  PROVE  PatientObjects' /\ RecordAgrees'
<1>1. PICK i \in Inst : /\ NextInst(i) /\ processes' = [processes EXCEPT ![n] = i]
                        /\ SpawnProcess(i, NewInstance(n))
  BY DEF StartBody
<1>2. Spawnable(i, NewInstance(n)) /\ NewInstance(n).name = n
  BY <1>1, RecordTypes DEF Spawnable, NextInst, NewInstance, Blank, PatientInv, Inv, Objects,
                           Linked, Unreaped
<1>3. \A m \in Name : processes[m] # i
  BY <1>1 DEF NextInst, PatientInv, Inv, Objects, Linked, Inst, NoInst
<1>4. processes'[n] = i /\ \A m \in Name : m # n => processes'[m] = processes[m]
  BY <1>1 DEF PatientInv, Inv, TypeOK
<1>5. Quiet(n)
  BY <1>3, <1>4 DEF Patient, Started, Inst, NoInst
<1>6. \A j \in Inst : Active(j) => instance[j].name # n
  BY <1>5 DEF Quiet, Active, Unreaped
<1>7. QED  BY <1>1, <1>2, <1>3, <1>4, <1>6, SpawnKeepsPatient

LEMMA TimerKeepsPatient ==
  ASSUME PatientInv, NEW i \in Inst, RestartTimer(i)
  PROVE  /\ PatientObjects' /\ RecordAgrees'
         /\ processes[instance[i].name] = i
<1>1. PICK r : /\ Spawnable(i, r) /\ SpawnProcess(i, r)
               /\ instance[i].restartTimer /\ r.name = instance[i].name
  BY TimerSpawns DEF PatientInv
<1>2. UNCHANGED processes
  BY DEF RestartTimer
<1>3. Active(i) /\ ~instance[i].intentionallyStopped
  BY <1>1 DEF Active, PatientInv, Inv, Objects, StoppedHasNoTimer
<1>4. processes[instance[i].name] = i
  BY <1>3 DEF PatientInv, PatientObjects, ActiveIsManaged
<1>5. \A j \in Inst : j # i /\ Active(j) => instance[j].name # instance[i].name
  BY <1>3 DEF PatientInv, PatientObjects, OneActivePerName
<1>6. \A n \in Name : n # instance[i].name => processes[n] # i
  BY DEF PatientInv, PatientObjects, NamesAgree, Inst, NoInst
<1>7. QED  BY <1>1, <1>2, <1>4, <1>5, <1>6, SpawnKeepsPatient

(* What an exit event does to the Map and to the record.                   *)
LEMMA ExitSaves ==
  ASSUME Inv, NEW p \in Pid, ExitEvent(p)
  PROVE  LET i == child[p].owner
             n == instance[i].name
         IN  /\ i \in Inst /\ n \in Name
             /\ Saved([record EXCEPT ![n] = instance'[i].status])
             /\ instance'[i].status \in {"stopped", "errored", "crashed"}
             /\ \/ UNCHANGED processes
                \/ /\ processes' = [processes EXCEPT ![n] = NoInst]
                   /\ ~instance'[i].restartTimer
<1> DEFINE i == child[p].owner
           n == instance[i].name
<1>1. /\ i \in Inst /\ n \in Name /\ instance[i] \in InstanceRecord
      /\ ~instance[i].restartTimer
  BY DEF ExitEvent, Inv, TypeOK, Objects, Linked, Unreaped, OneChildPerInstance
<1>2. PICK clean \in BOOLEAN :
        LET verdict == ExitVerdict(instance[i], clean)
            after   == AfterExit(instance[i], verdict)
            final   == IF child[p].startup THEN [after EXCEPT !.status = "errored"] ELSE after
        IN  /\ instance' = [instance EXCEPT ![i] = final]
            /\ Saved([record EXCEPT ![n] = final.status])
            /\ processes' = IF verdict \in {"drop", "give up"}
                            THEN [processes EXCEPT ![n] = NoInst] ELSE processes
  BY DEF ExitEvent
<1> DEFINE verdict == ExitVerdict(instance[i], clean)
           after == AfterExit(instance[i], verdict)
           final == IF child[p].startup THEN [after EXCEPT !.status = "errored"] ELSE after
<1> HIDE DEF verdict
<1>3. /\ after \in InstanceRecord
      /\ after.status \in {"stopped", "errored", "crashed"}
      /\ verdict \in {"drop", "give up"} => ~after.restartTimer
  <2>1. /\ after \in InstanceRecord
        /\ after.status \in {"stopped", "errored", "crashed"}
        /\ verdict # "back off" => after.restartTimer = instance[i].restartTimer
    BY <1>1, AfterExitFields
  <2>2. QED  BY <1>1, <2>1
<1> HIDE DEF after
<1>4. /\ final.status \in {"stopped", "errored", "crashed"}
      /\ verdict \in {"drop", "give up"} => ~final.restartTimer
  BY <1>3 DEF InstanceRecord
<1>5. /\ instance' = [instance EXCEPT ![i] = final]
      /\ Saved([record EXCEPT ![n] = final.status])
      /\ processes' = IF verdict \in {"drop", "give up"}
                      THEN [processes EXCEPT ![n] = NoInst] ELSE processes
  BY <1>2 DEF final, after, verdict
<1> HIDE DEF final
<1>6. instance'[i] = final
  BY <1>1, <1>5 DEF Inv, TypeOK
<1>7. QED  BY <1>1, <1>4, <1>5, <1>6

LEMMA ExitKeepsPatient ==
  ASSUME PatientInv, NEW p \in Pid, ExitEvent(p)
  PROVE  PatientObjects' /\ RecordAgrees'
<1> DEFINE i == child[p].owner
           n == instance[i].name
<1>1. /\ i \in Inst /\ n \in Name /\ Active(i)
      /\ record' = [record EXCEPT ![n] = instance'[i].status]
      /\ \/ UNCHANGED processes
         \/ processes' = [processes EXCEPT ![n] = NoInst] /\ ~instance'[i].restartTimer
  BY ExitSaves DEF PatientInv, ExitEvent, Saved, Active, Unreaped
<1>2. /\ \A j \in Inst : /\ instance'[j].intentionallyStopped = instance[j].intentionallyStopped
                         /\ instance'[j].name = instance[j].name
      /\ \A j \in Inst : j # i => instance'[j] = instance[j]
      /\ instance'[i].pid = NoPid
  BY ExitKeepsInv DEF PatientInv
<1>3. \A q \in Pid : /\ child'[q].owner = child[q].owner
                     /\ Unreaped(q)' <=> Unreaped(q) /\ q # p
  BY ZenonT(60) DEF ExitEvent, Unreaped, PatientInv, Inv, TypeOK, ChildRecord
<1>4. /\ \A j \in Inst : Active(j)' => Active(j)
      /\ \A j \in Inst : j = i /\ Active(j)' => instance'[j].restartTimer
  <2>1. \A q \in Pid : Unreaped(q) /\ child[q].owner = i => q = p
    BY DEF PatientInv, Inv, Objects, OneChildPerInstance, ExitEvent, Unreaped
  <2>2. \A j \in Inst : j = i /\ Active(j)' => instance'[j].restartTimer
    BY <1>3, <2>1 DEF Active
  <2>3. \A j \in Inst : j # i /\ Active(j)' => Active(j)
    BY <1>2, <1>3 DEF Active
  <2>4. QED  BY <1>1, <2>2, <2>3
<1>5. processes[n] \in {NoInst, i}
  BY <1>1 DEF PatientInv, PatientObjects, ActiveIsManaged
<1>6. NamesAgree'
  BY <1>1, <1>2 DEF PatientInv, PatientObjects, NamesAgree, Inv, TypeOK
<1>7. OneActivePerName'
  BY <1>2, <1>4 DEF PatientInv, PatientObjects, OneActivePerName
<1>8. ActiveIsManaged'
  <2>1. CASE UNCHANGED processes
    BY <1>2, <1>4, <2>1 DEF PatientInv, PatientObjects, ActiveIsManaged
  <2>2. CASE processes' = [processes EXCEPT ![n] = NoInst] /\ ~instance'[i].restartTimer
    <3>1. \A j \in Inst : Active(j)' => j # i
      BY <1>4, <2>2
    <3>2. \A j \in Inst : Active(j)' => j # i /\ instance[j].name # n
      BY <1>1, <1>4, <3>1 DEF PatientInv, PatientObjects, OneActivePerName
    <3>3. \A m \in Name : m # n => processes'[m] = processes[m]
      BY <2>2 DEF PatientInv, Inv, TypeOK
    <3>4. \A j \in Inst : Active(j) => instance[j].name \in Name
      BY DEF Active, PatientInv, Inv, Objects, Linked
    <3>5. QED
      BY <1>2, <1>4, <3>2, <3>3, <3>4 DEF PatientInv, PatientObjects, ActiveIsManaged
  <2>3. QED  BY <1>1, <2>1, <2>2
<1>9. StoppedHasNoPid'
  BY <1>2 DEF PatientInv, PatientObjects, StoppedHasNoPid
<1>10. RecordAgrees'
  <2>1. \A m \in Name : m # n => processes'[m] = processes[m] /\ record'[m] = record[m]
    BY <1>1 DEF PatientInv, Inv, TypeOK
  <2>2. \A m \in Name : m # n /\ processes[m] # NoInst => processes[m] # i
    BY DEF PatientInv, PatientObjects, NamesAgree
  <2>3. processes'[n] \in {NoInst, i} /\ record'[n] = instance'[i].status
    BY <1>1, <1>5 DEF PatientInv, Inv, TypeOK
  <2>4. QED  BY <1>1, <1>2, <2>1, <2>2, <2>3 DEF PatientInv, RecordAgrees, Inv, TypeOK
<1>11. QED  BY <1>6, <1>7, <1>8, <1>9, <1>10 DEF PatientObjects

(* A turn that touches nothing the patient invariant speaks of.            *)
Untouched ==
  /\ UNCHANGED <<processes, record>>
  /\ \A i \in Inst : /\ instance'[i].name = instance[i].name
                     /\ instance'[i].status = instance[i].status
                     /\ instance'[i].pid = instance[i].pid
                     /\ instance'[i].restartTimer = instance[i].restartTimer
                     /\ instance'[i].intentionallyStopped = instance[i].intentionallyStopped
  /\ \A p \in Pid : /\ Unreaped(p)' <=> Unreaped(p)
                    /\ child'[p].owner = child[p].owner

LEMMA UntouchedKeepsPatient ==
  ASSUME PatientInv, Untouched
  PROVE  PatientObjects' /\ RecordAgrees'
<1>1. \A i \in Inst : Active(i)' <=> Active(i)
  BY DEF Untouched, Active
<1>2. \A n \in Name : processes[n] # NoInst => processes[n] \in Inst
  BY DEF PatientInv, Inv, TypeOK
<1>3. NamesAgree' /\ RecordAgrees'
  BY <1>2 DEF Untouched, PatientInv, PatientObjects, NamesAgree, RecordAgrees
<1>4. OneActivePerName'
  BY <1>1 DEF Untouched, PatientInv, PatientObjects, OneActivePerName
<1>5. ActiveIsManaged'
  BY <1>1 DEF Untouched, PatientInv, PatientObjects, ActiveIsManaged
<1>6. StoppedHasNoPid'
  BY DEF Untouched, PatientInv, PatientObjects, StoppedHasNoPid
<1>7. QED  BY <1>3, <1>4, <1>5, <1>6 DEF PatientObjects

LEMMA WindowUntouched ==
  ASSUME Inv, NEW p \in Pid, StartupWindow(p)
  PROVE  Untouched
<1> DEFINE i == child[p].owner
           done == [instance[i] EXCEPT !.startupCompleted = TRUE]
<1>1. i \in Inst
  BY DEF StartupWindow, Inv, TypeOK, Objects, Linked, Unreaped
<1>2. /\ instance' = [instance EXCEPT ![i] = done]
      /\ UNCHANGED <<processes, record>>
  BY DEF StartupWindow
<1>3. /\ done.name = instance[i].name /\ done.status = instance[i].status
      /\ done.pid = instance[i].pid
      /\ done.restartTimer = instance[i].restartTimer
      /\ done.intentionallyStopped = instance[i].intentionallyStopped
  BY <1>1 DEF Inv, TypeOK, InstanceRecord
<1> HIDE DEF done
<1>4. \A q \in Pid : child'[q].st = child[q].st /\ child'[q].owner = child[q].owner
  BY DEF StartupWindow, Inv, TypeOK, ChildRecord
<1>5. QED  BY <1>1, <1>2, <1>3, <1>4 DEF Untouched, Unreaped, Inv, TypeOK

LEMMA DeathUntouched ==
  ASSUME Inv, NEW p \in Pid, ChildDies(p)
  PROVE  Untouched
<1>1. \A q \in Pid : /\ Unreaped(q)' <=> Unreaped(q)
                     /\ child'[q].owner = child[q].owner
  BY DEF ChildDies, Inv, TypeOK, ChildRecord, Unreaped
<1>2. QED  BY <1>1 DEF ChildDies, Untouched

LEMMA RestartBodyKeepsPatient ==
  ASSUME PatientInv, Patient, NEW n \in Name, RestartBody(n)
  PROVE  PatientObjects' /\ RecordAgrees'
<1>1. CASE n \in Managed /\ StopBody({n}) /\ Saved([record EXCEPT ![n] = "stopped"])
  BY <1>1, StopKeepsPatient DEF Saved, PatientInv, Inv, TypeOK
<1>2. CASE StartBody(n)
  BY <1>2, StartKeepsPatient
<1>3. QED  BY <1>1, <1>2 DEF RestartBody

(* A sampled instance is the one its name stands for.                      *)
LEMMA SampledIsManaged ==
  ASSUME PatientInv, NEW i \in Inst, instance[i].pid # NoPid
  PROVE  /\ instance[i].name \in Name
         /\ processes[instance[i].name] = i
<1>1. Unreaped(instance[i].pid) /\ child[instance[i].pid].owner = i /\ instance[i].pid \in Pid
  BY DEF PatientInv, Inv, TypeOK, InstanceRecord, Objects, PidIsChild
<1>2. Active(i) /\ ~instance[i].intentionallyStopped
  BY <1>1 DEF Active, PatientInv, PatientObjects, StoppedHasNoPid
<1>3. QED
  BY <1>1, <1>2 DEF PatientInv, Inv, Objects, Linked, PatientObjects, ActiveIsManaged

LEMMA TickKeepsPatient ==
  ASSUME PatientInv, Patient, NEW i \in Inst, MonitorTick(i)
  PROVE  PatientObjects' /\ RecordAgrees'
<1> DEFINE n == instance[i].name
<1>1. n \in Name /\ processes[n] = i
  BY SampledIsManaged DEF MonitorTick
<1>2. CASE /\ Saved([record EXCEPT ![n] = instance[i].status])
           /\ UNCHANGED <<processes, instance, child, restarting>>
  <2>1. \A m \in Name : processes[m] # NoInst => record'[m] = instance[processes[m]].status
    BY <1>1, <1>2 DEF Saved, PatientInv, RecordAgrees, Inv, TypeOK
  <2>2. RecordAgrees'
    BY <1>2, <2>1 DEF RecordAgrees
  <2>3. \A j \in Inst : Active(j)' <=> Active(j)
    BY <1>2 DEF Active, Unreaped
  <2>4. PatientObjects'
    BY <1>2, <2>3 DEF PatientInv, PatientObjects, NamesAgree, OneActivePerName,
                      ActiveIsManaged, StoppedHasNoPid
  <2>5. QED  BY <2>2, <2>4
<1>3. CASE RestartBody(n)
  BY <1>1, <1>3, RestartBodyKeepsPatient
<1>4. QED  BY <1>2, <1>3 DEF MonitorTick

LEMMA StepPatient == PatientInv /\ [Next]_vars /\ Patient => PatientInv'
<1> SUFFICES ASSUME PatientInv, [Next]_vars, Patient PROVE PatientInv'
  OBVIOUS
<1> DEFINE Kept == PatientObjects' /\ RecordAgrees'
<1>1. Inv'
  BY StepInv DEF PatientInv
<1>2. ASSUME Untouched PROVE Kept
  BY <1>2, UntouchedKeepsPatient
<1>3. ASSUME UNCHANGED <<processes, instance, child, record>> PROVE Kept
  BY <1>2, <1>3 DEF Untouched, Unreaped
<1>4. ASSUME NEW n \in Name, Start(n) PROVE Kept
  BY <1>4, StartKeepsPatient DEF Start
<1>5. ASSUME NEW n \in Name, Stop(n) PROVE Kept
  BY <1>5, StopKeepsPatient DEF Stop, Saved, PatientInv, Inv, TypeOK
<1>6. ASSUME NEW n \in Name, Delete(n) PROVE Kept
  <2>1. CASE n \in Managed
    <3>1. StopBody({n}) /\ record' = [record EXCEPT ![n] = "absent"]
      <4>1. {n} \cap Managed = {n}
        BY <2>1
      <4>2. QED  BY <1>6, <4>1 DEF Delete, Saved, PatientInv
    <3>2. QED  BY <2>1, <3>1, StopKeepsPatient DEF PatientInv, Inv, TypeOK
  <2>2. CASE n \notin Managed
    <3>1. StopBody({}) /\ record' = [record EXCEPT ![n] = "absent"]
      <4>1. {n} \cap Managed = {}
        BY <2>2
      <4>2. QED  BY <1>6, <4>1 DEF Delete, Saved, PatientInv
    <3>2. UNCHANGED <<processes, instance, child>>
      BY <3>1 DEF StopBody, PatientInv, Inv, TypeOK
    <3>3. \A m \in Name : processes[m] # NoInst => m # n
      BY <2>2 DEF Managed
    <3>4. RecordAgrees'
      BY <3>1, <3>2, <3>3 DEF PatientInv, RecordAgrees, Inv, TypeOK
    <3>5. \A j \in Inst : Active(j)' <=> Active(j)
      BY <3>2 DEF Active, Unreaped
    <3>6. PatientObjects'
      BY <3>2, <3>5 DEF PatientInv, PatientObjects, NamesAgree, OneActivePerName,
                        ActiveIsManaged, StoppedHasNoPid
    <3>7. QED  BY <3>4, <3>6
  <2>3. QED  BY <2>1, <2>2
<1>7. ASSUME NEW n \in Name, Restart(n) PROVE Kept
  BY <1>7, RestartBodyKeepsPatient DEF Restart
<1>8. ASSUME NEW n \in Name, RestartResume(n) PROVE Kept
  BY <1>3, <1>8, StartKeepsPatient DEF RestartResume
<1>9. ASSUME StopAll PROVE Kept
  BY <1>9, StopKeepsPatient DEF StopAll, Saved, PatientInv
<1>10. ASSUME NEW p \in Pid, StartupWindow(p) PROVE Kept
  BY <1>2, <1>10, WindowUntouched DEF PatientInv
<1>11. ASSUME NEW p \in Pid, ChildDies(p) PROVE Kept
  BY <1>2, <1>11, DeathUntouched DEF PatientInv
<1>12. ASSUME NEW p \in Pid, ExitEvent(p) PROVE Kept
  BY <1>12, ExitKeepsPatient
<1>13. ASSUME NEW i \in Inst, RestartTimer(i) PROVE Kept
  BY <1>13, TimerKeepsPatient
<1>14. ASSUME NEW i \in Inst, MonitorTick(i) PROVE Kept
  BY <1>14, TickKeepsPatient
<1>15. ASSUME UNCHANGED vars PROVE Kept
  BY <1>3, <1>15 DEF vars
<1>16. Kept
  BY <1>4, <1>5, <1>6, <1>7, <1>8, <1>9, <1>10, <1>11, <1>12, <1>13, <1>14, <1>15 DEF Next
<1>17. QED  BY <1>1, <1>16 DEF PatientInv

LEMMA InitPatient == Writable /\ Init => PatientInv
<1> SUFFICES ASSUME Writable, Init PROVE PatientInv
  OBVIOUS
<1>1. \A i \in Inst : ~Active(i)
  BY DEF Init, Active, Unreaped, Unspawned, Uncreated, Blank, Fresh
<1>2. PatientObjects /\ RecordAgrees
  BY <1>1 DEF Init, PatientObjects, NamesAgree, OneActivePerName, ActiveIsManaged,
              StoppedHasNoPid, RecordAgrees, Uncreated, Blank
<1>3. QED  BY <1>2, InitInv DEF PatientInv

LEMMA PatientInvariant == PatientSpec => []PatientInv
<1>1. PatientInv /\ [PatientNext]_vars => PatientInv'
  <2> SUFFICES ASSUME PatientInv, [PatientNext]_vars PROVE PatientInv'
    OBVIOUS
  <2>1. [Next]_vars /\ Patient
    BY DEF PatientNext, Patient, Started, vars
  <2>2. QED  BY <2>1, StepPatient
<1>2. QED  BY <1>1, InitPatient, PTL DEF PatientSpec

LEMMA OneChildOfName ==
  ASSUME PatientInv, NEW p \in Pid, NEW q \in Pid,
         Unreaped(p), Unreaped(q), NameOf(p) = NameOf(q)
  PROVE  p = q
<1>1. /\ child[p].owner \in Inst /\ Active(child[p].owner)
      /\ child[q].owner \in Inst /\ Active(child[q].owner)
  BY DEF PatientInv, Inv, Objects, Linked, Active
<1>2. child[p].owner = child[q].owner
  BY <1>1 DEF NameOf, PatientInv, PatientObjects, OneActivePerName
<1>3. QED  BY <1>2 DEF PatientInv, Inv, Objects, OneChildPerInstance

LEMMA NoneEscapes == PatientInv => NothingEscapes
<1> SUFFICES ASSUME PatientInv PROVE NothingEscapes
  OBVIOUS
<1>1. ASSUME NEW p \in Pid, Unreaped(p), ~child[p].killed
      PROVE  processes[NameOf(p)] = child[p].owner
  <2>1. child[p].owner \in Inst /\ Active(child[p].owner)
    BY <1>1 DEF PatientInv, Inv, Objects, Linked, Active
  <2>2. ~instance[child[p].owner].intentionallyStopped
    BY <1>1 DEF PatientInv, Inv, Objects, StoppedIsSignalled
  <2>3. QED  BY <2>1, <2>2 DEF NameOf, PatientInv, PatientObjects, ActiveIsManaged
<1>2. ASSUME NEW i \in Inst, instance[i].restartTimer
      PROVE  processes[instance[i].name] = i
  BY <1>2 DEF Active, PatientInv, PatientObjects, ActiveIsManaged, Inv, Objects,
              StoppedHasNoTimer
<1>3. QED  BY <1>1, <1>2 DEF NothingEscapes

(* Every child not yet signalled, and every pending back-off, is reachable *)
(* by stop(): the Map leads from its name to its instance.                 *)
THEOREM NothingOutOfReach == PatientSpec => []NothingEscapes
BY PatientInvariant, NoneEscapes, PTL

(* processes.json names the status of whatever the Map holds: no save of a *)
(* replaced instance overwrites that of its successor.                     *)
THEOREM RecordIsCurrent == PatientSpec => []RecordAgrees
BY PatientInvariant, PTL DEF PatientInv

-----------------------------------------------------------------------------
(* The daemon *)

(* What is saved as running, managed, or being restored, is wanted.        *)
OnlyWanted == Restorable \subseteq wanted /\ Managed \subseteq wanted /\ restoreQueue \subseteq wanted

Orphans(n) == {p \in Pid : orphan[p] = n}
FewOrphans == \A n \in Name : Cardinality(Orphans(n)) <= crashes

(* A dead daemon has no memory, and a restoring one nothing of a name it   *)
(* has still to restore.                                                   *)
Forgotten(n) ==
  /\ processes[n] = NoInst /\ restarting[n] = 0
  /\ \A i \in Inst : instance[i].status # "none" => instance[i].name # n
RestoresAfresh == /\ daemon = "down" => \A n \in Name : Forgotten(n)
                  /\ \A n \in restoreQueue : Forgotten(n)

DaemonInv == PatientInv /\ DaemonTypeOK /\ OnlyWanted /\ FewOrphans /\ RestoresAfresh

(* Counting *)

LEMMA PidsFinite == \A A \in SUBSET Pid : IsFiniteSet(A) /\ Cardinality(A) \in Nat
<1>1. IsFiniteSet(Pid)
  BY BoundsAssumption, FS_Interval DEF Pid
<1>2. QED  BY <1>1, FS_Subset, FS_CardinalityType

(* A set that goes beyond A by one element at most.                        *)
LEMMA OneMore ==
  ASSUME NEW A \in SUBSET Pid, NEW B \in SUBSET Pid, \A p, q \in B \ A : p = q
  PROVE  Cardinality(B) <= Cardinality(A) + 1
<1>1. CASE B \subseteq A
  BY <1>1, PidsFinite, FS_Subset
<1>2. CASE \E p \in B : p \notin A
  <2>1. PICK p \in B : p \notin A
    BY <1>2
  <2>2. B \subseteq A \cup {p} /\ A \cup {p} \subseteq Pid
    BY <2>1
  <2>3. Cardinality(A \cup {p}) = Cardinality(A) + 1
    BY <2>1, PidsFinite, FS_AddElement
  <2>4. Cardinality(B) <= Cardinality(A \cup {p})
    BY <2>2, PidsFinite, FS_Subset
  <2>5. QED  BY <2>3, <2>4
<1>3. QED  BY <1>1, <1>2

-----------------------------------------------------------------------------
(* The memory is lost *)

LEMMA LossKeepsPatient ==
  ASSUME Writable, Inv, NEW told, MemoryLost(told),
         record' \in [Name -> ProcessStatus \cup {"absent"}]
  PROVE  /\ PatientInv'
         /\ \A n \in Name : Forgotten(n)'
         /\ Managed' = {} /\ \A p \in Pid : ~Unreaped(p)'
<1>1. /\ \A n \in Name : processes'[n] = NoInst /\ restarting'[n] = 0
      /\ \A i \in Inst : instance'[i] = Uncreated
      /\ \A p \in Pid : \/ child'[p] = Unspawned
                        \/ child'[p] = Fresh("reaped", NoInst, FALSE)
  BY DEF MemoryLost
<1>2. Fresh("reaped", NoInst, FALSE) \in ChildRecord
  BY DEF Fresh, ChildRecord
<1>3. TypeOK'
  BY <1>2, RecordTypes DEF MemoryLost, TypeOK
<1>4. /\ \A p \in Pid : ~Unreaped(p)' /\ ~child'[p].startup
      /\ \A i \in Inst : /\ instance'[i].status = "none" /\ instance'[i].restarts = 0
                         /\ instance'[i].pid = NoPid
                         /\ ~instance'[i].restartTimer /\ ~instance'[i].monitorTimer
                         /\ ~instance'[i].intentionallyStopped
  BY <1>1 DEF Unreaped, Unspawned, Fresh, Uncreated, Blank
<1>5. Objects'
  BY <1>1, <1>4 DEF Objects, Linked, OneChildPerInstance, PidIsChild, StoppedHasNoTimer,
                    StoppedIsSignalled
<1>6. \A i \in Inst : ~Active(i)'
  BY <1>4 DEF Active
<1>7. PatientObjects' /\ RecordAgrees'
  BY <1>1, <1>4, <1>6 DEF PatientObjects, NamesAgree, OneActivePerName, ActiveIsManaged,
                          StoppedHasNoPid, RecordAgrees
<1>8. \A n \in Name : Forgotten(n)'
  BY <1>1, <1>4 DEF Forgotten
<1>9. QED  BY <1>1, <1>3, <1>4, <1>5, <1>7, <1>8 DEF PatientInv, Inv, Managed

LEMMA LossKeepsTypes ==
  ASSUME PatientInv, DaemonTypeOK, NEW told, MemoryLost(told),
         record' \in [Name -> ProcessStatus \cup {"absent"}],
         crashes' \in 0..MaxCrashes, wanted' \subseteq Name
  PROVE  DaemonTypeOK' /\ RestoresAfresh'
<1>1. \A p \in Pid : child[p].st = "live" => instance[child[p].owner].name \in Name
  BY DEF PatientInv, Inv, Objects, Linked, Unreaped
<1>2. orphan' \in [Pid -> Name \cup {NoName}]
  BY <1>1 DEF MemoryLost, DaemonTypeOK
<1>3. daemon' = "down" /\ restoreQueue' = {} /\ restoreWait' = NoPid
  BY DEF MemoryLost
<1>4. QED
  BY <1>2, <1>3, LossKeepsPatient DEF PatientInv, DaemonTypeOK, RestoresAfresh

(* A name has at most one child to leave behind.                           *)
LEMMA CrashOrphans ==
  ASSUME PatientInv, FewOrphans, DaemonTypeOK, MemoryLost({}), crashes' = crashes + 1
  PROVE  FewOrphans'
<1> SUFFICES ASSUME NEW n \in Name PROVE Cardinality(Orphans(n)') <= crashes'
  BY DEF FewOrphans
<1>1. Orphans(n) \in SUBSET Pid /\ Orphans(n)' \in SUBSET Pid
  BY DEF Orphans
<1>2. \A p \in Orphans(n)' \ Orphans(n) : p \in Pid /\ Unreaped(p) /\ NameOf(p) = n
  BY DEF Orphans, MemoryLost, Unreaped, NameOf
<1>3. \A p, q \in Orphans(n)' \ Orphans(n) : p = q
  BY <1>2, OneChildOfName
<1>4. Cardinality(Orphans(n)') <= Cardinality(Orphans(n)) + 1
  BY <1>1, <1>3, OneMore
<1>5. Cardinality(Orphans(n)) \in Nat /\ Cardinality(Orphans(n)') \in Nat
  BY <1>1, PidsFinite
<1>6. Cardinality(Orphans(n)) <= crashes /\ crashes \in Nat
  BY DaemonAssumption DEF FewOrphans, DaemonTypeOK
<1>7. QED  BY <1>4, <1>5, <1>6

(* stopAll tells every child that is not yet signalled to end.             *)
LEMMA ShutdownOrphans ==
  ASSUME PatientInv, FewOrphans, DaemonTypeOK, crashes' = crashes,
         MemoryLost({instance[processes[n]].pid : n \in Managed})
  PROVE  FewOrphans'
<1>1. ASSUME NEW p \in Pid, child[p].st = "live", ~child[p].killed
      PROVE  p \in {instance[processes[n]].pid : n \in Managed}
  <2>1. Unreaped(p) /\ child[p].owner \in Inst /\ NameOf(p) \in Name
    BY <1>1 DEF Unreaped, NameOf, PatientInv, Inv, Objects, Linked
  <2>2. instance[child[p].owner].pid = p
    BY <1>1, <2>1 DEF PatientInv, Inv, Objects, StoppedIsSignalled, PidIsChild
  <2>3. processes[NameOf(p)] = child[p].owner
    BY <1>1, <2>1, NoneEscapes DEF NothingEscapes
  <2>4. NameOf(p) \in Managed
    BY <2>1, <2>3 DEF Managed, Inst, NoInst
  <2>5. QED  BY <2>2, <2>3, <2>4
<1>2. orphan' = orphan
  BY <1>1 DEF MemoryLost, DaemonTypeOK
<1>3. QED  BY <1>2 DEF FewOrphans, Orphans

-----------------------------------------------------------------------------
(* What a turn of the manager does to what the daemon remembers of a name  *)

StartsOnly(S) == \A n \in Name : Started(n) => n \in S

(* Nothing becomes managed, or restorable, without being started.          *)
NoneGained ==
  \A n \in Name : n \in Managed' \cup Restorable' => n \in Managed \cup Restorable \/ Started(n)

LEMMA StopTurn ==
  ASSUME Inv, NEW S \in SUBSET Managed, StopBody(S)
  PROVE  /\ Managed' = Managed \ S
         /\ StartsOnly({})
         /\ \A i \in Inst :
              /\ instance'[i].name = instance[i].name
              /\ instance'[i].status = "none" <=> instance[i].status = "none"
         /\ \A n \in Name : processes'[n] \in {processes[n], NoInst}
<1>1. \A n \in Name : processes'[n] = IF n \in S THEN NoInst ELSE processes[n]
  BY DEF StopBody
<1>2. \A i \in Inst : \/ instance'[i] = instance[i]
                      \/ /\ instance'[i] = StoppedInstance(instance[i])
                         /\ instance[i].status # "none"
  <2>1. \A n \in S : instance[processes[n]].status # "none"
    BY DEF Inv, Objects, Linked, Managed
  <2>2. QED  BY <2>1 DEF StopBody
<1>3. \A r \in InstanceRecord : /\ StoppedInstance(r).name = r.name
                                /\ StoppedInstance(r).status = "stopped"
  BY DEF StoppedInstance, InstanceRecord
<1>4. \A i \in Inst : /\ instance'[i].name = instance[i].name
                      /\ instance'[i].status = "none" <=> instance[i].status = "none"
  BY <1>2, <1>3 DEF Inv, TypeOK
<1>5. QED  BY <1>1, <1>4 DEF Managed, StartsOnly, Started

LEMMA StartTurn ==
  ASSUME Inv, NEW n \in Name, StartBody(n)
  PROVE  /\ Started(n) /\ processes'[n] \in Inst
         /\ \A m \in Name : m # n => /\ processes'[m] = processes[m]
                                     /\ record'[m] = record[m]
                                     /\ \A i \in Inst : /\ instance'[i].status # "none"
                                                        /\ instance'[i].name = m
                                                        => /\ instance[i].status # "none"
                                                           /\ instance[i].name = m
<1>1. PICK i \in Inst : /\ NextInst(i) /\ processes' = [processes EXCEPT ![n] = i]
                        /\ SpawnProcess(i, NewInstance(n))
  BY DEF StartBody
<1>2. Spawnable(i, NewInstance(n)) /\ NewInstance(n).name = n
  BY <1>1, RecordTypes DEF Spawnable, NextInst, NewInstance, Blank, Inv, Objects,
                           Linked, Unreaped
<1>3. /\ \A j \in Inst : j # i => instance'[j] = instance[j]
      /\ instance'[i].name = n
      /\ \/ \E st : record' = [record EXCEPT ![n] = st]
         \/ record' = record
  BY <1>1, <1>2, SpawnLeaves
<1>4. \A m \in Name : processes[m] # i
  BY <1>1 DEF NextInst, Inv, Objects, Linked, Inst, NoInst
<1>5. processes'[n] = i /\ i # NoInst
  BY <1>1 DEF Inv, TypeOK, Inst, NoInst
<1>6. \A m \in Name : m # n => processes'[m] = processes[m] /\ record'[m] = record[m]
  BY <1>1, <1>3 DEF Inv, TypeOK
<1>7. QED  BY <1>3, <1>4, <1>5, <1>6 DEF Started

LEMMA StartTurnGains ==
  ASSUME Inv, NEW n \in Name, StartBody(n)
  PROVE  StartsOnly({n}) /\ NoneGained
<1>1. StartsOnly({n})
  BY StartTurn DEF StartsOnly, Started
<1>2. NoneGained
  BY StartTurn DEF NoneGained, Managed, Restorable
<1>3. QED  BY <1>1, <1>2

LEMMA StopTurnGains ==
  ASSUME Inv, NEW n \in Name, StopBody({n} \cap Managed),
         NEW st, st \notin {"online", "starting"}, record' = [record EXCEPT ![n] = st]
  PROVE  /\ NoneGained /\ StartsOnly({})
         /\ n \notin Managed' \cup Restorable'
<1>1. Managed' = Managed \ {n} /\ StartsOnly({})
  BY StopTurn
<1>2. Restorable' \subseteq Restorable /\ n \notin Restorable'
  BY DEF Restorable, Inv, TypeOK
<1>3. QED  BY <1>1, <1>2 DEF NoneGained

LEMMA RestartTurnGains ==
  ASSUME Writable, Inv, NEW n \in Name, RestartBody(n)
  PROVE  /\ NoneGained /\ StartsOnly({n})
         /\ Started(n) \/ n \notin Managed' \cup Restorable'
<1>1. CASE n \in Managed /\ StopBody({n}) /\ Saved([record EXCEPT ![n] = "stopped"])
  <2>1. {n} \cap Managed = {n}
    BY <1>1
  <2>2. StopBody({n} \cap Managed)
    BY <1>1, <2>1
  <2>3. QED  BY <1>1, <2>2, StopTurnGains DEF StartsOnly, Saved
<1>2. CASE StartBody(n)
  BY <1>2, StartTurnGains, StartTurn
<1>3. QED  BY <1>1, <1>2 DEF RestartBody

(* The turns that are not requests: a timer, an exit, a sleeping restart().*)
ManagerTurn ==
  \/ \E p \in Pid : StartupWindow(p) \/ ChildDies(p) \/ ExitEvent(p)
  \/ \E i \in Inst : RestartTimer(i) \/ MonitorTick(i)
  \/ \E n \in Name : RestartResume(n)

LEMMA SaveGains ==
  ASSUME Inv, UNCHANGED processes, NEW n \in Managed, NEW st, record' = [record EXCEPT ![n] = st]
  PROVE  NoneGained
BY DEF NoneGained, Managed, Restorable, Inv, TypeOK

LEMMA TurnGains ==
  ASSUME PatientInv, ManagerTurn
  PROVE  NoneGained
<1>1. ASSUME UNCHANGED <<processes, record>> PROVE NoneGained
  BY <1>1 DEF NoneGained, Managed, Restorable
<1>2. ASSUME NEW p \in Pid, StartupWindow(p) \/ ChildDies(p) PROVE NoneGained
  BY <1>1, <1>2 DEF StartupWindow, ChildDies
<1>3. ASSUME NEW p \in Pid, ExitEvent(p) PROVE NoneGained
  <2> DEFINE n == instance[child[p].owner].name
  <2>1. /\ n \in Name
        /\ record' = [record EXCEPT ![n] = instance'[child[p].owner].status]
        /\ instance'[child[p].owner].status \in {"stopped", "errored", "crashed"}
        /\ UNCHANGED processes \/ processes' = [processes EXCEPT ![n] = NoInst]
    BY <1>3, ExitSaves DEF Saved, PatientInv
  <2> HIDE DEF n
  <2>2. QED  BY <2>1 DEF NoneGained, Managed, Restorable, PatientInv, Inv, TypeOK
<1>4. ASSUME NEW i \in Inst, RestartTimer(i) PROVE NoneGained
  <2>1. instance[i].name \in Managed
    <3>1. processes[instance[i].name] = i
      BY <1>4, TimerKeepsPatient
    <3>2. instance[i].name \in Name
      BY <1>4 DEF RestartTimer, PatientInv, Inv, Objects, Linked
    <3>3. QED  BY <3>1, <3>2 DEF Managed, Inst, NoInst
  <2>2. UNCHANGED processes
    BY <1>4 DEF RestartTimer
  <2>3. \E st : record' = [record EXCEPT ![instance[i].name] = st]
    BY ZenonT(60), <1>4, TimerSpawns DEF SpawnProcess, Saved, PatientInv
  <2>4. QED  BY <2>1, <2>2, <2>3, SaveGains DEF PatientInv
<1>5. ASSUME NEW i \in Inst, MonitorTick(i) PROVE NoneGained
  <2> DEFINE n == instance[i].name
  <2>1. n \in Name /\ n \in Managed
    BY <1>5, SampledIsManaged DEF MonitorTick, Managed, Inst, NoInst
  <2>2. CASE Saved([record EXCEPT ![n] = instance[i].status]) /\ UNCHANGED processes
    BY <2>1, <2>2, SaveGains DEF Saved, PatientInv
  <2>3. CASE RestartBody(n)
    BY <2>1, <2>3, RestartTurnGains DEF PatientInv
  <2>4. QED  BY <1>5, <2>2, <2>3 DEF MonitorTick
<1>6. ASSUME NEW n \in Name, RestartResume(n) PROVE NoneGained
  BY <1>1, <1>6, StartTurnGains DEF RestartResume, PatientInv
<1>7. QED  BY <1>2, <1>3, <1>4, <1>5, <1>6 DEF ManagerTurn

(* A turn of another name's objects leaves a forgotten name forgotten.     *)
NamesKept ==
  /\ \A i \in Inst : /\ instance'[i].name = instance[i].name
                     /\ instance'[i].status = "none" <=> instance[i].status = "none"
  /\ \A n \in Name : processes'[n] \in {processes[n], NoInst}

LEMMA KeptForgets ==
  ASSUME NamesKept, NEW n \in Name, Forgotten(n), restarting'[n] = 0
  PROVE  Forgotten(n)'
BY DEF NamesKept, Forgotten

LEMMA StartForgets ==
  ASSUME Inv, NEW m \in Name, StartBody(m), NEW n \in Name, m # n, Forgotten(n),
         restarting'[n] = 0
  PROVE  Forgotten(n)'
BY StartTurn DEF Forgotten

LEMMA RestartForgets ==
  ASSUME Inv, NEW m \in Name, RestartBody(m), NEW n \in Name, m # n, Forgotten(n)
  PROVE  Forgotten(n)'
<1>1. restarting'[n] = 0
  BY DEF RestartBody, Forgotten, Inv, TypeOK
<1>2. CASE StopBody({m}) /\ m \in Managed
  BY <1>1, <1>2, StopTurn, KeptForgets DEF NamesKept
<1>3. CASE StartBody(m)
  BY <1>1, <1>3, StartForgets
<1>4. QED  BY <1>2, <1>3 DEF RestartBody

LEMMA TurnForgets ==
  ASSUME PatientInv, ManagerTurn, NEW n \in Name, Forgotten(n)
  PROVE  Forgotten(n)'
<1>1. \A i \in Inst : instance[i].status # "none" => instance[i].name # n
  BY DEF Forgotten
<1>2. ASSUME NEW p \in Pid, StartupWindow(p) \/ ChildDies(p) PROVE Forgotten(n)'
  <2>1. NamesKept
    BY <1>2, WindowUntouched, DeathUntouched DEF Untouched, NamesKept, PatientInv
  <2>2. restarting' = restarting
    BY <1>2 DEF StartupWindow, ChildDies
  <2>3. QED  BY <2>1, <2>2, KeptForgets DEF Forgotten
<1>3. ASSUME NEW p \in Pid, ExitEvent(p) PROVE Forgotten(n)'
  <2>1. \A m \in Name : processes'[m] \in {processes[m], NoInst}
    BY <1>3, ExitSaves DEF PatientInv, Inv, TypeOK
  <2>2. NamesKept
    BY <1>3, <2>1, ExitKeepsInv DEF NamesKept, PatientInv
  <2>3. restarting' = restarting
    BY <1>3 DEF ExitEvent
  <2>4. QED  BY <2>2, <2>3, KeptForgets DEF Forgotten
<1>4. ASSUME NEW i \in Inst, RestartTimer(i) PROVE Forgotten(n)'
  <2>1. PICK r : /\ Spawnable(i, r) /\ SpawnProcess(i, r)
                 /\ instance[i].restartTimer /\ r.name = instance[i].name
    BY <1>4, TimerSpawns DEF PatientInv
  <2>2. instance[i].status # "none"
    BY <2>1 DEF PatientInv, Inv, Objects, Linked
  <2>3. UNCHANGED <<processes, restarting>>
    BY <1>4 DEF RestartTimer
  <2>4. /\ \A j \in Inst : j # i => instance'[j] = instance[j]
        /\ instance'[i].status # "none" /\ instance'[i].name = instance[i].name
    BY <2>1, SpawnLeaves DEF PatientInv
  <2>5. QED  BY <2>2, <2>3, <2>4, KeptForgets DEF NamesKept, Forgotten
<1>5. ASSUME NEW i \in Inst, MonitorTick(i) PROVE Forgotten(n)'
  <2>1. instance[i].name \in Name /\ instance[i].status # "none"
    BY <1>5 DEF MonitorTick, PatientInv, Inv, TypeOK, InstanceRecord, Objects, Linked
  <2>2. instance[i].name # n
    BY <1>1, <2>1
  <2>3. CASE UNCHANGED <<processes, instance, child, restarting>>
    BY <2>3 DEF Forgotten
  <2>4. CASE RestartBody(instance[i].name)
    BY <2>1, <2>2, <2>4, RestartForgets DEF PatientInv
  <2>5. QED  BY <1>5, <2>3, <2>4 DEF MonitorTick
<1>6. ASSUME NEW m \in Name, RestartResume(m) PROVE Forgotten(n)'
  <2>1. m # n
    BY <1>6 DEF RestartResume, Forgotten
  <2>2. restarting'[n] = 0
    BY <1>6, <2>1 DEF RestartResume, Forgotten, PatientInv, Inv, TypeOK
  <2>3. CASE StartBody(m)
    BY <2>1, <2>2, <2>3, StartForgets DEF PatientInv
  <2>4. CASE UNCHANGED <<processes, instance, child, record>>
    BY <2>2, <2>4 DEF Forgotten
  <2>5. QED  BY <1>6, <2>3, <2>4 DEF RestartResume
<1>7. QED  BY <1>2, <1>3, <1>4, <1>5, <1>6 DEF ManagerTurn

-----------------------------------------------------------------------------
(* The steps of the daemon *)

LEMMA CrashKeeps ==
  ASSUME DaemonInv, Crash \/ \E n \in Name : SpawnErrorCrash(n)
  PROVE  DaemonInv'
<1>1. MemoryLost({}) /\ crashes < MaxCrashes /\ crashes' = crashes + 1
  BY DEF Crash, SpawnErrorCrash
<1>2. PatientInv /\ DaemonTypeOK /\ OnlyWanted /\ FewOrphans
  BY DEF DaemonInv
<1>3. \/ UNCHANGED <<record, wanted>>
      \/ \E n \in Name : \E st \in {"starting", "online"} :
           /\ record' = [record EXCEPT ![n] = st]
           /\ wanted' = wanted \cup {n}
      \/ \E n \in Name : /\ record' = [record EXCEPT ![n] = "stopping"]
                        /\ wanted' = wanted \ {n}
  <2>1. CASE Crash
    BY <2>1, Zenon DEF Crash, Managed
  <2>2. CASE \E n \in Name : SpawnErrorCrash(n)
    BY <2>2, Zenon DEF SpawnErrorCrash
  <2>3. QED  BY <2>1, <2>2
<1>4. /\ record' \in [Name -> ProcessStatus \cup {"absent"}]
      /\ wanted' \subseteq Name
  BY <1>2, <1>3 DEF PatientInv, Inv, TypeOK, DaemonTypeOK, ProcessStatus
<1>5. crashes' \in 0..MaxCrashes
  BY <1>1, <1>2, DaemonAssumption DEF DaemonTypeOK
<1>6. PatientInv' /\ DaemonTypeOK' /\ RestoresAfresh' /\ Managed' = {}
  BY <1>1, <1>2, <1>4, <1>5, LossKeepsPatient, LossKeepsTypes DEF PatientInv
<1>7. Restorable' \subseteq wanted'
  BY <1>2, <1>3 DEF OnlyWanted, Restorable, PatientInv, Inv, TypeOK
<1>8. OnlyWanted'
  BY <1>1, <1>6, <1>7 DEF OnlyWanted, MemoryLost
<1>9. FewOrphans'
  BY <1>1, <1>2, CrashOrphans
<1>10. QED  BY <1>6, <1>8, <1>9 DEF DaemonInv

LEMMA ShutdownKeeps ==
  ASSUME DaemonInv, Shutdown
  PROVE  DaemonInv'
<1>1. PatientInv /\ DaemonTypeOK /\ OnlyWanted /\ FewOrphans
  BY DEF DaemonInv
<1>2. /\ MemoryLost({instance[processes[n]].pid : n \in Managed})
      /\ record' = [n \in Name |-> IF n \in Managed THEN "stopped" ELSE record[n]]
      /\ wanted' = wanted \ Managed /\ crashes' = crashes
  BY DEF Shutdown
<1>3. /\ record' \in [Name -> ProcessStatus \cup {"absent"}]
      /\ wanted' \subseteq Name /\ crashes' \in 0..MaxCrashes
  BY <1>1, <1>2 DEF PatientInv, Inv, TypeOK, DaemonTypeOK, ProcessStatus
<1>4. PatientInv' /\ DaemonTypeOK' /\ RestoresAfresh' /\ Managed' = {}
  BY <1>1, <1>2, <1>3, LossKeepsPatient, LossKeepsTypes DEF PatientInv
<1>5. Restorable' \subseteq wanted'
  BY <1>1, <1>2 DEF OnlyWanted, Restorable
<1>6. OnlyWanted'
  BY <1>2, <1>4, <1>5 DEF OnlyWanted, MemoryLost
<1>7. FewOrphans'
  BY <1>1, <1>2, ShutdownOrphans
<1>8. QED  BY <1>4, <1>6, <1>7 DEF DaemonInv

(* Steps of the daemon alone: the manager does not move.                   *)
LEMMA AloneKeeps ==
  ASSUME DaemonInv, UNCHANGED vars
  PROVE  /\ PatientInv'
         /\ \A n \in Name : Forgotten(n)' <=> Forgotten(n)
         /\ Managed' = Managed /\ Restorable' = Restorable
         /\ \A p \in Pid : Unreaped(p)' <=> Unreaped(p)
<1>1. Patient /\ [Next]_vars
  BY DEF Patient, Started, vars
<1>2. PatientInv'
  BY <1>1, StepPatient DEF DaemonInv
<1>3. QED  BY <1>2 DEF Forgotten, Managed, Restorable, Unreaped, vars

LEMMA DaemonStartKeeps ==
  ASSUME DaemonInv, DaemonStart
  PROVE  DaemonInv'
<1>1. /\ PatientInv' /\ \A n \in Name : Forgotten(n)' <=> Forgotten(n)
      /\ Managed' = Managed /\ Restorable' = Restorable
  BY AloneKeeps DEF DaemonStart
<1>2. DaemonTypeOK'
  BY DEF DaemonStart, DaemonInv, DaemonTypeOK, Restorable
<1>3. OnlyWanted'
  BY <1>1 DEF DaemonStart, DaemonInv, OnlyWanted
<1>4. FewOrphans'
  BY DEF DaemonStart, DaemonInv, FewOrphans, Orphans
<1>5. RestoresAfresh'
  BY <1>1 DEF DaemonStart, DaemonInv, RestoresAfresh, Restorable
<1>6. QED  BY <1>1, <1>2, <1>3, <1>4, <1>5 DEF DaemonInv

LEMMA RestoreDoneKeeps ==
  ASSUME DaemonInv, RestoreDone
  PROVE  DaemonInv'
<1>1. /\ PatientInv' /\ Managed' = Managed /\ Restorable' = Restorable
  BY AloneKeeps DEF RestoreDone
<1>2. DaemonTypeOK'
  BY DEF RestoreDone, DaemonInv, DaemonTypeOK
<1>3. OnlyWanted'
  BY <1>1 DEF RestoreDone, DaemonInv, OnlyWanted
<1>4. FewOrphans' /\ RestoresAfresh'
  BY DEF RestoreDone, DaemonInv, FewOrphans, Orphans, RestoresAfresh
<1>5. QED  BY <1>1, <1>2, <1>3, <1>4 DEF DaemonInv

LEMMA OrphanDiesKeeps ==
  ASSUME DaemonInv, NEW p \in Pid, OrphanDies(p)
  PROVE  DaemonInv'
<1>1. /\ PatientInv' /\ \A n \in Name : Forgotten(n)' <=> Forgotten(n)
      /\ Managed' = Managed /\ Restorable' = Restorable
      /\ \A q \in Pid : Unreaped(q)' <=> Unreaped(q)
  BY AloneKeeps DEF OrphanDies
<1>2. DaemonTypeOK'
  BY <1>1 DEF OrphanDies, DaemonInv, DaemonTypeOK
<1>3. OnlyWanted'
  BY <1>1 DEF OrphanDies, DaemonInv, OnlyWanted
<1>4. FewOrphans'
  <2> SUFFICES ASSUME NEW n \in Name PROVE Cardinality(Orphans(n)') <= crashes'
    BY DEF FewOrphans
  <2>1. Orphans(n)' \subseteq Orphans(n) /\ Orphans(n) \in SUBSET Pid
    BY DaemonAssumption DEF OrphanDies, Orphans, DaemonInv, DaemonTypeOK
  <2>2. Cardinality(Orphans(n)') <= Cardinality(Orphans(n))
    BY <2>1, PidsFinite, FS_Subset
  <2>3. /\ Cardinality(Orphans(n)') \in Nat /\ Cardinality(Orphans(n)) \in Nat
        /\ Cardinality(Orphans(n)) <= crashes
    BY <2>1, PidsFinite DEF DaemonInv, FewOrphans
  <2>4. crashes' = crashes /\ crashes \in Nat
    BY DaemonAssumption DEF OrphanDies, DaemonInv, DaemonTypeOK
  <2>5. QED  BY <2>2, <2>3, <2>4
<1>5. RestoresAfresh'
  BY <1>1 DEF OrphanDies, DaemonInv, RestoresAfresh, DaemonTypeOK
<1>6. QED  BY <1>1, <1>2, <1>3, <1>4, <1>5 DEF DaemonInv

(* Steps in which the manager moves and the daemon stays alive.            *)
LEMMA AliveKeeps ==
  ASSUME DaemonInv, Patient, [Next]_vars, daemon # "down", daemon' = daemon,
         restoreQueue' \subseteq restoreQueue, restoreWait' \in Pid \cup {NoPid},
         wanted' \subseteq Name, UNCHANGED <<orphan, crashes>>
  PROVE  PatientInv' /\ DaemonTypeOK' /\ FewOrphans'
<1>1. PatientInv'
  BY StepPatient DEF DaemonInv
<1>2. DaemonTypeOK'
  BY DEF DaemonInv, DaemonTypeOK
<1>3. FewOrphans'
  BY DEF DaemonInv, FewOrphans, Orphans
<1>4. QED  BY <1>1, <1>2, <1>3

LEMMA TurnKeeps ==
  ASSUME DaemonInv, Patient, Turn
  PROVE  DaemonInv'
<1>1. /\ ManagerTurn /\ daemon # "down"
      /\ wanted' = wanted \cup {n \in Name : Started(n)}
      /\ UNCHANGED <<daemon, restoreQueue, restoreWait, orphan, crashes>>
  BY DEF Turn, ManagerTurn
<1>2. [Next]_vars
  BY <1>1 DEF ManagerTurn, Next
<1>3. PatientInv' /\ DaemonTypeOK' /\ FewOrphans'
  <2>1. wanted' \subseteq Name /\ restoreWait \in Pid \cup {NoPid}
    BY <1>1 DEF DaemonInv, DaemonTypeOK
  <2>2. QED  BY <1>1, <1>2, <2>1, AliveKeeps
<1>4. OnlyWanted'
  <2>1. NoneGained
    BY <1>1, TurnGains DEF DaemonInv
  <2>2. Managed' \subseteq Name /\ Restorable' \subseteq Name
    BY DEF Managed, Restorable
  <2>3. QED  BY <1>1, <2>1, <2>2 DEF NoneGained, DaemonInv, OnlyWanted
<1>5. RestoresAfresh'
  <2>1. \A n \in Name : Forgotten(n) => Forgotten(n)'
    BY <1>1, TurnForgets DEF DaemonInv
  <2>2. restoreQueue \subseteq Name
    BY DEF DaemonInv, DaemonTypeOK
  <2>3. QED  BY <1>1, <2>1, <2>2 DEF DaemonInv, RestoresAfresh
<1>6. QED  BY <1>3, <1>4, <1>5 DEF DaemonInv

LEMMA RequestKeeps ==
  ASSUME DaemonInv, Patient, Request
  PROVE  DaemonInv'
<1>1. /\ daemon = "up" /\ UNCHANGED <<daemon, restoreQueue, restoreWait, orphan, crashes>>
      /\ restoreQueue = {}
  BY DEF Request, DaemonInv, DaemonTypeOK
<1>2. Inv /\ Writable
  BY DEF DaemonInv, PatientInv
<1>3. /\ [Next]_vars
      /\ \E n \in Name :
           /\ NoneGained /\ StartsOnly({n})
           /\ \/ wanted' = IF Started(n) THEN wanted \cup {n} ELSE wanted \ {n}
              \/ StartsOnly({}) /\ wanted' = wanted \ {n}
           /\ Started(n) \/ n \notin Managed' \cup Restorable'
  <2>1. CASE \E n \in Name : /\ Start(n) \/ Restart(n)
                             /\ wanted' = IF Started(n) THEN wanted \cup {n} ELSE wanted \ {n}
    <3>1. PICK n \in Name : /\ Start(n) \/ Restart(n)
                            /\ wanted' = IF Started(n) THEN wanted \cup {n} ELSE wanted \ {n}
      BY <2>1
    <3>2. [Next]_vars
      BY <3>1 DEF Next
    <3>3. CASE Start(n)
      BY <1>2, <3>1, <3>2, <3>3, StartTurn, StartTurnGains DEF Start
    <3>4. CASE Restart(n)
      BY <1>2, <3>1, <3>2, <3>4, RestartTurnGains DEF Restart
    <3>5. QED  BY <3>1, <3>3, <3>4
  <2>2. CASE \E n \in Name : (Stop(n) \/ Delete(n)) /\ wanted' = wanted \ {n}
    <3>1. PICK n \in Name : (Stop(n) \/ Delete(n)) /\ wanted' = wanted \ {n}
      BY <2>2
    <3>2. [Next]_vars
      BY <3>1 DEF Next
    <3>3. /\ StopBody({n} \cap Managed)
          /\ \E st \in {"stopped", "absent"} : record' = [record EXCEPT ![n] = st]
      <4>1. CASE Stop(n)
        <5>1. {n} \cap Managed = {n}
          BY <4>1 DEF Stop
        <5>2. QED  BY <1>2, <4>1, <5>1 DEF Stop, Saved
      <4>2. CASE Delete(n)
        BY <1>2, <4>2 DEF Delete, Saved
      <4>3. QED  BY <3>1, <4>1, <4>2
    <3>4. NoneGained /\ StartsOnly({}) /\ n \notin Managed' \cup Restorable'
      BY <1>2, <3>3, StopTurnGains
    <3>5. StartsOnly({n})
      BY <3>4 DEF StartsOnly
    <3>6. QED  BY <3>1, <3>2, <3>4, <3>5
  <2>3. QED  BY <2>1, <2>2 DEF Request
<1>4. PICK n \in Name :
           /\ NoneGained /\ StartsOnly({n})
           /\ \/ wanted' = IF Started(n) THEN wanted \cup {n} ELSE wanted \ {n}
              \/ StartsOnly({}) /\ wanted' = wanted \ {n}
           /\ Started(n) \/ n \notin Managed' \cup Restorable'
  BY <1>3
<1>5. PatientInv' /\ DaemonTypeOK' /\ FewOrphans'
  <2>1. wanted' \subseteq Name /\ restoreWait \in Pid \cup {NoPid}
    BY <1>4 DEF DaemonInv, DaemonTypeOK
  <2>2. QED  BY <1>1, <1>3, <2>1, AliveKeeps
<1>6. OnlyWanted'
  <2>1. Managed' \subseteq Name /\ Restorable' \subseteq Name
    BY DEF Managed, Restorable
  <2>2. QED  BY <1>1, <1>4, <2>1 DEF NoneGained, StartsOnly, DaemonInv, OnlyWanted
<1>7. RestoresAfresh'
  BY <1>1 DEF RestoresAfresh
<1>8. QED  BY <1>5, <1>6, <1>7 DEF DaemonInv

LEMMA RestoreNextKeeps ==
  ASSUME DaemonInv, Patient, NEW n \in Name, RestoreNext(n)
  PROVE  DaemonInv'
<1>1. /\ daemon = "restoring" /\ n \in restoreQueue
      /\ restoreQueue' = restoreQueue \ {n}
      /\ restoreWait' = instance'[processes'[n]].pid
      /\ StartBody(n) /\ UNCHANGED restarting
      /\ UNCHANGED <<daemon, orphan, crashes, wanted>>
  BY DEF RestoreNext, Start
<1>2. Inv /\ [Next]_vars /\ Inv'
  BY StepInv DEF DaemonInv, PatientInv, RestoreNext, Next
<1>3. restoreWait' \in Pid \cup {NoPid}
  <2>1. processes'[n] \in Inst
    BY <1>1, <1>2, StartTurn
  <2>2. QED  BY <1>1, <1>2, <2>1 DEF Inv, TypeOK, InstanceRecord
<1>4. PatientInv' /\ DaemonTypeOK' /\ FewOrphans'
  <2>1. wanted' \subseteq Name
    BY <1>1 DEF DaemonInv, DaemonTypeOK
  <2>2. QED  BY <1>1, <1>2, <1>3, <2>1, AliveKeeps
<1>5. OnlyWanted'
  <2>1. NoneGained /\ StartsOnly({n})
    BY <1>1, <1>2, StartTurnGains
  <2>2. Managed' \subseteq Name /\ Restorable' \subseteq Name
    BY DEF Managed, Restorable
  <2>3. QED  BY <1>1, <2>1, <2>2 DEF NoneGained, StartsOnly, DaemonInv, OnlyWanted
<1>6. RestoresAfresh'
  <2>1. \A m \in restoreQueue' : m \in Name /\ m # n /\ Forgotten(m)
    BY <1>1 DEF DaemonInv, RestoresAfresh, DaemonTypeOK
  <2>2. \A m \in restoreQueue' : Forgotten(m)'
    <3>1. \A m \in restoreQueue' : restarting'[m] = 0
      BY <1>1, <2>1 DEF Forgotten
    <3>2. QED  BY <1>1, <1>2, <2>1, <3>1, StartForgets
  <2>3. QED  BY <1>1, <2>2 DEF RestoresAfresh
<1>7. QED  BY <1>4, <1>5, <1>6 DEF DaemonInv

LEMMA InitDaemon == Writable /\ DaemonInit => DaemonInv
<1> SUFFICES ASSUME Writable, DaemonInit PROVE DaemonInv
  OBVIOUS
<1>1. PatientInv
  BY InitPatient DEF DaemonInit
<1>2. DaemonTypeOK
  BY DaemonAssumption DEF DaemonInit, Init, DaemonTypeOK, Managed, Unreaped, Unspawned, Fresh
<1>3. OnlyWanted
  BY DEF DaemonInit, Init, OnlyWanted, Restorable, Managed
<1>4. FewOrphans
  <2>1. \A n \in Name : Orphans(n) = {}
    BY DaemonAssumption DEF DaemonInit, Orphans
  <2>2. QED  BY <2>1, FS_EmptySet DEF FewOrphans, DaemonInit
<1>5. RestoresAfresh
  BY DEF DaemonInit, Init, RestoresAfresh, Forgotten, Uncreated, Blank
<1>6. QED  BY <1>1, <1>2, <1>3, <1>4, <1>5 DEF DaemonInv

LEMMA DaemonInvariant == PatientDaemonSpec => []DaemonInv
<1>1. DaemonInv /\ [PatientDaemonNext]_allVars => DaemonInv'
  <2> SUFFICES ASSUME DaemonInv, [PatientDaemonNext]_allVars PROVE DaemonInv'
    OBVIOUS
  <2>1. CASE UNCHANGED allVars
    <3>1. UNCHANGED vars /\ UNCHANGED daemonVars
      BY <2>1 DEF allVars
    <3>2. QED
      BY <3>1, AloneKeeps DEF daemonVars, DaemonInv, DaemonTypeOK, OnlyWanted, FewOrphans,
                              Orphans, RestoresAfresh
  <2>2. CASE PatientDaemonNext
    <3>1. Patient
      BY <2>2 DEF PatientDaemonNext, Patient
    <3>2. QED
      BY <2>2, <3>1, CrashKeeps, ShutdownKeeps, DaemonStartKeeps, RestoreDoneKeeps,
         RequestKeeps, TurnKeeps, RestoreNextKeeps, OrphanDiesKeeps
         DEF PatientDaemonNext, DaemonNext
  <2>3. QED  BY <2>1, <2>2
<1>2. QED  BY <1>1, InitDaemon, PTL DEF PatientDaemonSpec

(* Types; a dead daemon manages nothing; one that serves requests has no   *)
(* name left to restore.                                                   *)
THEOREM DaemonTypeCorrect == PatientDaemonSpec => []DaemonTypeOK
BY DaemonInvariant, PTL DEF DaemonInv

(* Wherever the last daemon died, the next one restores only names that    *)
(* were started and not stopped since.                                     *)
THEOREM NothingResurrected == PatientDaemonSpec => []NoResurrection
BY DaemonInvariant, PTL DEF DaemonInv, OnlyWanted, NoResurrection

LEMMA CopiesBounded == DaemonInv => OneCopyPerCrash
<1> SUFFICES ASSUME DaemonInv, NEW n \in Name PROVE Cardinality(Copies(n)) <= crashes + 1
  BY DEF OneCopyPerCrash
<1>1. Orphans(n) \in SUBSET Pid /\ Copies(n) \in SUBSET Pid
  BY DEF Orphans, Copies
<1>2. \A p, q \in Copies(n) \ Orphans(n) : p = q
  BY OneChildOfName DEF Orphans, Copies, DaemonInv
<1>3. Cardinality(Copies(n)) <= Cardinality(Orphans(n)) + 1
  BY <1>1, <1>2, OneMore
<1>4. /\ Cardinality(Orphans(n)) \in Nat /\ Cardinality(Copies(n)) \in Nat
      /\ Cardinality(Orphans(n)) <= crashes /\ crashes \in Nat
  BY <1>1, PidsFinite, DaemonAssumption DEF DaemonInv, FewOrphans, DaemonTypeOK
<1>5. QED  BY <1>3, <1>4

(* However often the daemon dies, in a restore or by a broken command too, *)
(* a name has at most one process not told to end for each of its deaths,  *)
(* and one more.                                                           *)
THEOREM CopiesPerCrash == PatientDaemonSpec => []OneCopyPerCrash
BY DaemonInvariant, CopiesBounded, PTL

(* A restore never meets a name that is running or not yet quiet: no start *)
(* of restoreProcesses fails because of the daemon's own turns, and what   *)
(* patience asks of it is what it does anyway.                             *)
RestoreUnhindered == \A n \in restoreQueue : ~Running(n) /\ Quiet(n)

LEMMA AfreshIsUnhindered == DaemonInv => RestoreUnhindered
<1> SUFFICES ASSUME DaemonInv, NEW n \in restoreQueue PROVE ~Running(n) /\ Quiet(n)
  BY DEF RestoreUnhindered
<1>1. Forgotten(n)
  BY DEF DaemonInv, RestoresAfresh
<1>2. ~Running(n)
  BY <1>1 DEF Forgotten, Running
<1>3. Quiet(n)
  BY <1>1 DEF Forgotten, Quiet, DaemonInv, PatientInv, Inv, Objects, Linked, Unreaped
<1>4. QED  BY <1>2, <1>3

THEOREM RestoreIsFree == PatientDaemonSpec => []RestoreUnhindered
BY DaemonInvariant, AfreshIsUnhindered, PTL

-----------------------------------------------------------------------------
(* How an instance leaves the Map                                          *)

(* Whoever holds a pid is online: start() refuses its name.                *)
PidIsOnline == \A i \in Inst : instance[i].pid # NoPid => instance[i].status = "online"

LEMMA SpawnOnline ==
  ASSUME Inv, PidIsOnline, NEW i \in Inst, NEW r, Spawnable(i, r), SpawnProcess(i, r)
  PROVE  PidIsOnline'
<1>1. \A j \in Inst : j # i => instance'[j] = instance[j]
  BY SpawnLeaves
<1>2. instance'[i].pid # NoPid => instance'[i].status = "online"
  <2>1. ASSUME NEW p \in Pid, instance' = [instance EXCEPT ![i] =
                 [r EXCEPT !.pid = p, !.status = "online", !.monitorTimer = TRUE]]
        PROVE  instance'[i].status = "online"
    BY <2>1 DEF Spawnable, Inv, TypeOK, InstanceRecord
  <2>2. ASSUME instance' = [instance EXCEPT ![i] = [r EXCEPT !.status = "errored"]]
        PROVE  instance'[i].pid = NoPid
    BY <2>2 DEF Spawnable, Inv, TypeOK, InstanceRecord
  <2>3. QED  BY <2>1, <2>2 DEF SpawnProcess
<1>3. QED  BY <1>1, <1>2 DEF PidIsOnline

LEMMA StartOnline ==
  ASSUME Inv, PidIsOnline, NEW n \in Name, StartBody(n)
  PROVE  PidIsOnline'
<1>1. PICK i \in Inst : NextInst(i) /\ SpawnProcess(i, NewInstance(n))
  BY DEF StartBody
<1>2. Spawnable(i, NewInstance(n))
  BY <1>1, RecordTypes DEF Spawnable, NextInst, NewInstance, Blank, Inv, Objects, Linked, Unreaped
<1>3. QED  BY <1>1, <1>2, SpawnOnline

LEMMA StopOnline ==
  ASSUME Inv, PidIsOnline, NEW S \in SUBSET Managed, StopBody(S)
  PROVE  /\ PidIsOnline'
         /\ \A n \in S : processes[n] \in Inst => instance'[processes[n]].intentionallyStopped
<1>1. \A r \in InstanceRecord : /\ StoppedInstance(r).pid = NoPid
                                /\ StoppedInstance(r).intentionallyStopped
  BY DEF StoppedInstance, InstanceRecord
<1>2. \A i \in Inst : instance'[i] = IF i \in {processes[n] : n \in S}
                                     THEN StoppedInstance(instance[i]) ELSE instance[i]
  BY DEF StopBody
<1>3. QED  BY <1>1, <1>2 DEF PidIsOnline, Inv, TypeOK

LEMMA StepOnline ==
  ASSUME Inv, PidIsOnline, [Next]_vars
  PROVE  PidIsOnline'
<1>1. ASSUME UNCHANGED instance PROVE PidIsOnline'
  BY <1>1 DEF PidIsOnline
<1>2. ASSUME NEW n \in Name, RestartBody(n) PROVE PidIsOnline'
  BY <1>2, StopOnline, StartOnline DEF RestartBody
<1>3. ASSUME NEW n \in Name, Start(n) \/ Stop(n) \/ Delete(n) PROVE PidIsOnline'
  BY <1>3, StopOnline, StartOnline DEF Start, Stop, Delete
<1>4. ASSUME NEW n \in Name, Restart(n) \/ RestartResume(n) PROVE PidIsOnline'
  BY <1>1, <1>2, <1>4, StartOnline DEF Restart, RestartResume
<1>5. CASE StopAll
  BY <1>5, StopOnline DEF StopAll
<1>6. ASSUME NEW p \in Pid, StartupWindow(p) \/ ChildDies(p) PROVE PidIsOnline'
  BY <1>6, WindowUntouched, DeathUntouched DEF Untouched, PidIsOnline
<1>7. ASSUME NEW p \in Pid, ExitEvent(p) PROVE PidIsOnline'
  BY <1>7, ExitKeepsInv DEF PidIsOnline
<1>8. ASSUME NEW i \in Inst, RestartTimer(i) PROVE PidIsOnline'
  BY <1>8, TimerSpawns, SpawnOnline
<1>9. ASSUME NEW i \in Inst, MonitorTick(i) PROVE PidIsOnline'
  <2>1. instance[i].name \in Name
    BY <1>9 DEF MonitorTick, Inv, TypeOK, InstanceRecord, Objects, Linked
  <2>2. QED  BY <1>1, <1>2, <1>9, <2>1 DEF MonitorTick
<1>10. CASE UNCHANGED vars
  BY <1>1, <1>10 DEF vars
<1>11. QED
  BY <1>3, <1>4, <1>5, <1>6, <1>7, <1>8, <1>9, <1>10 DEF Next

(* What is left to stop of an instance is a timer or the child it holds.   *)
LEMMA UnfinishedHolds ==
  Inv => \A i \in Inst : Unfinished(i) => /\ ~instance[i].intentionallyStopped
                                          /\ instance[i].restartTimer \/ instance[i].pid # NoPid
<1> SUFFICES ASSUME Inv, NEW i \in Inst, Unfinished(i)
             PROVE  /\ ~instance[i].intentionallyStopped
                    /\ instance[i].restartTimer \/ instance[i].pid # NoPid
  OBVIOUS
<1>1. CASE instance[i].restartTimer
  BY <1>1 DEF Inv, Objects, StoppedHasNoTimer
<1>2. ASSUME NEW p \in Children(i), ~child[p].killed
      PROVE  ~instance[i].intentionallyStopped /\ instance[i].pid # NoPid
  BY <1>2 DEF Children, Inv, Objects, StoppedIsSignalled, PidIsChild, Pid, NoPid
<1>3. QED  BY <1>1, <1>2 DEF Unfinished

LEMMA UnfinishedHoldsNext ==
  Inv' => (\A i \in Inst : Unfinished(i) => /\ ~instance[i].intentionallyStopped
                                            /\ instance[i].restartTimer \/ instance[i].pid # NoPid)'
BY UnfinishedHolds, PTL

(* One instance taken out of the Map with something left to stop.          *)
Escapes(i) == /\ instance[i].name \in Name /\ processes[instance[i].name] = i
              /\ processes'[instance[i].name] # i
              /\ Unfinished(i)'

LEMMA StopLeavesNone ==
  ASSUME Inv, Inv', PidIsOnline, NEW S \in SUBSET Managed, StopBody(S), NEW i \in Inst, Escapes(i)
  PROVE  FALSE
<1>1. instance[i].name \in S
  BY DEF StopBody, Escapes, Inv, TypeOK
<1>2. instance'[i].intentionallyStopped
  BY <1>1, StopOnline DEF Escapes
<1>3. QED  BY <1>2, UnfinishedHoldsNext DEF Escapes

LEMMA StartReplaces ==
  ASSUME Inv, Inv', PidIsOnline, NEW n \in Name, StartBody(n), NEW i \in Inst, Escapes(i)
  PROVE  ReplacedInBackOff(i)
<1>1. PICK j \in Inst : /\ NextInst(j) /\ processes' = [processes EXCEPT ![n] = j]
                        /\ SpawnProcess(j, NewInstance(n))
  BY DEF StartBody
<1>2. instance[i].name = n /\ processes[n] = i /\ processes'[n] = j
  BY <1>1 DEF Escapes, Inv, TypeOK
<1>3. instance'[i] = instance[i]
  <2>1. instance[i].status # "none" /\ i # j
    BY <1>1, <1>2 DEF NextInst, Inv, Objects, Linked, Inst, NoInst
  <2>2. Spawnable(j, NewInstance(n))
    BY <1>1, RecordTypes DEF Spawnable, NextInst, NewInstance, Blank, Inv, Objects, Linked,
                             Unreaped
  <2>3. QED  BY <1>1, <2>1, <2>2, SpawnLeaves
<1>4. instance[i].restartTimer \/ instance[i].pid # NoPid
  BY <1>3, UnfinishedHoldsNext DEF Escapes
<1>5. instance[i].pid = NoPid
  BY <1>2 DEF StartBody, Running, PidIsOnline, Inst, NoInst
<1>6. QED  BY <1>1, <1>2, <1>4, <1>5 DEF ReplacedInBackOff

LEMMA ExitDrops ==
  ASSUME Inv, Inv', NEW p \in Pid, ExitEvent(p), NEW i \in Inst, Escapes(i)
  PROVE  DroppedByLateExit(i)
<1>1. /\ child[p].owner \in Inst
      /\ processes' = [processes EXCEPT ![NameOf(p)] = NoInst]
      /\ ~instance'[child[p].owner].restartTimer
      /\ instance'[child[p].owner].pid = NoPid
  <2>1. ~UNCHANGED processes
    BY DEF Escapes
  <2>2. QED  BY <2>1, ExitSaves, ExitKeepsInv DEF NameOf
<1>2. NameOf(p) = instance[i].name /\ processes'[instance[i].name] = NoInst
  BY <1>1 DEF Escapes, Inv, TypeOK
<1>3. child[p].owner # i
  BY <1>1, UnfinishedHoldsNext DEF Escapes
<1>4. Unreaped(p) /\ ~Unreaped(p)'
  BY DEF ExitEvent, Unreaped, Inv, TypeOK, ChildRecord
<1>5. QED  BY <1>2, <1>3, <1>4 DEF DroppedByLateExit

LEMMA StepEscapes ==
  ASSUME Inv, Inv', PidIsOnline, [Next]_vars, NEW i \in Inst, Escapes(i)
  PROVE  ReplacedInBackOff(i) \/ DroppedByLateExit(i)
<1> DEFINE Known == ReplacedInBackOff(i) \/ DroppedByLateExit(i)
<1>1. ASSUME UNCHANGED processes PROVE Known
  BY <1>1 DEF Escapes
<1>2. ASSUME NEW n \in Name, RestartBody(n) PROVE Known
  BY <1>2, StopLeavesNone, StartReplaces DEF RestartBody
<1>3. ASSUME NEW n \in Name, Start(n) \/ Stop(n) \/ Delete(n) PROVE Known
  BY <1>3, StopLeavesNone, StartReplaces DEF Start, Stop, Delete
<1>4. ASSUME NEW n \in Name, Restart(n) \/ RestartResume(n) PROVE Known
  BY <1>1, <1>2, <1>4, StartReplaces DEF Restart, RestartResume
<1>5. CASE StopAll
  BY <1>5, StopLeavesNone DEF StopAll
<1>6. ASSUME NEW p \in Pid, StartupWindow(p) \/ ChildDies(p) PROVE Known
  BY <1>1, <1>6 DEF StartupWindow, ChildDies
<1>7. ASSUME NEW p \in Pid, ExitEvent(p) PROVE Known
  BY <1>7, ExitDrops
<1>8. ASSUME NEW j \in Inst, RestartTimer(j) PROVE Known
  BY <1>1, <1>8 DEF RestartTimer
<1>9. ASSUME NEW j \in Inst, MonitorTick(j) PROVE Known
  <2>1. instance[j].name \in Name
    BY <1>9 DEF MonitorTick, Inv, TypeOK, InstanceRecord, Objects, Linked
  <2>2. QED  BY <1>1, <1>2, <1>9, <2>1 DEF MonitorTick
<1>10. CASE UNCHANGED vars
  BY <1>1, <1>10 DEF vars
<1>11. QED
  BY <1>3, <1>4, <1>5, <1>6, <1>7, <1>8, <1>9, <1>10 DEF Next

(* Under any callers, and whether or not the record can be written: an     *)
(* instance with something left to stop goes out of the Map only when a    *)
(* start replaces it in its back-off, or when the late exit event of       *)
(* another instance of its name drops it.                                  *)
THEOREM TwoEscapes == Spec => OnlyTwoEscapes
<1>1. Init => PidIsOnline
  BY DEF Init, PidIsOnline, Uncreated, Blank
<1>2. Inv /\ PidIsOnline /\ [Next]_vars => PidIsOnline'
  BY StepOnline
<1>3. Inv /\ Inv' /\ PidIsOnline /\ [Next]_vars =>
        [\A i \in Inst :
           /\ instance[i].name \in Name /\ processes[instance[i].name] = i
           /\ processes'[instance[i].name] # i
           /\ Unfinished(i)'
           => ReplacedInBackOff(i) \/ DroppedByLateExit(i)]_vars
  BY StepEscapes DEF Escapes
<1>4. QED  BY <1>1, <1>2, <1>3, Invariant, PTL DEF Spec, OnlyTwoEscapes

-----------------------------------------------------------------------------
(* With patient callers each name is one service                           *)

(* A created instance keeps its name.                                      *)
NamesStay == \A i \in Inst : instance[i].status # "none" => instance'[i].name = instance[i].name

LEMMA StartNames ==
  ASSUME Inv, NEW n \in Name, StartBody(n)
  PROVE  NamesStay
<1>1. PICK i \in Inst : NextInst(i) /\ SpawnProcess(i, NewInstance(n))
  BY DEF StartBody
<1>2. instance[i].status = "none" /\ Spawnable(i, NewInstance(n))
  BY <1>1, RecordTypes DEF Spawnable, NextInst, NewInstance, Blank, Inv, Objects, Linked, Unreaped
<1>3. \A j \in Inst : j # i => instance'[j] = instance[j]
  BY <1>1, <1>2, SpawnLeaves
<1>4. QED  BY <1>2, <1>3 DEF NamesStay

LEMMA StepNames ==
  ASSUME Inv, [Next]_vars
  PROVE  NamesStay
<1>1. ASSUME UNCHANGED instance PROVE NamesStay
  BY <1>1 DEF NamesStay
<1>2. ASSUME NEW S \in SUBSET Managed, StopBody(S) PROVE NamesStay
  BY <1>2, StopTurn DEF NamesStay
<1>3. ASSUME NEW n \in Name, RestartBody(n) PROVE NamesStay
  BY <1>2, <1>3, StartNames DEF RestartBody
<1>4. ASSUME NEW n \in Name, Start(n) \/ Stop(n) \/ Delete(n) \/ StopAll PROVE NamesStay
  BY <1>2, <1>4, StartNames DEF Start, Stop, Delete, StopAll
<1>5. ASSUME NEW n \in Name, Restart(n) \/ RestartResume(n) PROVE NamesStay
  BY <1>1, <1>3, <1>5, StartNames DEF Restart, RestartResume
<1>6. ASSUME NEW p \in Pid, StartupWindow(p) \/ ChildDies(p) PROVE NamesStay
  BY <1>6, WindowUntouched, DeathUntouched DEF Untouched, NamesStay
<1>7. ASSUME NEW p \in Pid, ExitEvent(p) PROVE NamesStay
  BY <1>7, ExitKeepsInv DEF NamesStay
<1>8. ASSUME NEW i \in Inst, RestartTimer(i) PROVE NamesStay
  BY <1>8, TimerSpawns, SpawnLeaves DEF NamesStay
<1>9. ASSUME NEW i \in Inst, MonitorTick(i) PROVE NamesStay
  <2>1. instance[i].name \in Name
    BY <1>9 DEF MonitorTick, Inv, TypeOK, InstanceRecord, Objects, Linked
  <2>2. QED  BY <1>1, <1>3, <1>9, <2>1 DEF MonitorTick
<1>10. CASE UNCHANGED vars
  BY <1>1, <1>10 DEF vars
<1>11. CASE StopAll
  BY <1>2, <1>11 DEF StopAll
<1>12. QED
  BY <1>4, <1>5, <1>6, <1>7, <1>8, <1>9, <1>10, <1>11 DEF Next

(* What the mapping makes of a name: nothing, or its one active instance.  *)
ServiceFacts(n) ==
  /\ Serving(n) = {} =>
       ServicePhase(n) = "down" /\ ServiceRetries(n) = 0 /\ ProcessesOf(n) = {}
  /\ \A i \in Serving(n) :
       /\ Serving(n) = {i} /\ ServicePhase(n) = Phase(i)
       /\ ServiceRetries(n) = instance[i].restarts
       /\ ProcessesOf(n) = Children(i)

LEMMA ServiceIs == PatientInv => \A n \in Name : ServiceFacts(n)
<1> SUFFICES ASSUME PatientInv, NEW n \in Name PROVE ServiceFacts(n)
  OBVIOUS
<1>1. \A i \in Inst : Active(i) <=> instance[i].restartTimer \/ Children(i) # {}
  BY DEF Active, Children
<1>2. \A i, j \in Serving(n) : i = j
  BY <1>1 DEF Serving, PatientInv, PatientObjects, OneActivePerName
<1>3. \A p \in ProcessesOf(n) : child[p].owner \in Serving(n) /\ p \in Children(child[p].owner)
  BY DEF ProcessesOf, NameOf, Serving, Children, PatientInv, Inv, Objects, Linked
<1>4. ASSUME NEW i \in Serving(n)
      PROVE  /\ Serving(n) = {i} /\ ServicePhase(n) = Phase(i)
             /\ ServiceRetries(n) = instance[i].restarts
             /\ ProcessesOf(n) = Children(i)
  <2>1. Serving(n) = {i} /\ (CHOOSE j \in Serving(n) : TRUE) = i
    BY <1>2
  <2>2. ProcessesOf(n) = Children(i)
    BY <1>3, <2>1 DEF ProcessesOf, NameOf, Serving, Children
  <2>3. QED  BY <2>1, <2>2 DEF ServicePhase, ServiceRetries
<1>5. Serving(n) = {} => ServicePhase(n) = "down" /\ ServiceRetries(n) = 0 /\ ProcessesOf(n) = {}
  BY <1>3 DEF ServicePhase, ServiceRetries
<1>6. QED  BY <1>4, <1>5 DEF ServiceFacts

LEMMA ServiceIsNext == PatientInv' => (\A n \in Name : ServiceFacts(n))'
BY ServiceIs, PTL

(* Only a new instance begins to serve a name, and only a quiet one.       *)
LEMMA BeginsAfresh ==
  ASSUME PatientInv, PatientInv', [Next]_vars, Patient,
         NEW n \in Name, NEW j \in Serving(n)', j \notin Serving(n)
  PROVE  /\ Serving(n) = {}
         /\ \E p \in Pid : Children(j)' = {p}
         /\ ~instance'[j].intentionallyStopped
         /\ instance'[j].restarts = 0 /\ instance'[j].status # "none"
<1>1. /\ j \in Inst /\ instance'[j].name = n
      /\ instance'[j].restartTimer \/ Children(j)' # {}
  BY DEF Serving
<1>2. Behaves(j) /\ NamesStay
  BY <1>1, StepBehaves, StepNames DEF PatientInv
<1>3. instance[j].status = "none"
  <2>1. SUFFICES ASSUME instance[j].status # "none" PROVE FALSE
    OBVIOUS
  <2>2. ~instance[j].restartTimer /\ Children(j) = {}
    BY <1>1, <1>2, <2>1 DEF Serving, NamesStay
  <2>3. QED  BY <1>1, <1>2, <2>1, <2>2 DEF Behaves, Same, Stops, Spawns, Exits
<1>4. /\ ~instance[j].restartTimer /\ Children(j) = {} /\ instance[j].restarts = 0
      /\ \A m \in Name : processes[m] # j
  <2>1. ~instance[j].restartTimer /\ instance[j].restarts = 0
    BY <1>1, <1>3 DEF PatientInv, Inv, Objects, Linked
  <2>2. Children(j) = {}
    BY <1>1, <1>3 DEF PatientInv, Inv, Objects, Linked, Children
  <2>3. \A m \in Name : processes[m] # j
    BY <1>1, <1>3 DEF PatientInv, Inv, Objects, Linked, Inst, NoInst
  <2>4. QED  BY <2>1, <2>2, <2>3
<1>5. Spawns(j)
  BY <1>1, <1>2, <1>3, <1>4 DEF Behaves, Same, Stops, Exits
<1>6. processes'[n] = j
  <2>1. Active(j)'
    BY <1>1 DEF Active, Children
  <2>2. QED
    BY <1>1, <1>5, <2>1 DEF Spawns, PatientInv, PatientObjects, ActiveIsManaged
<1>7. Quiet(n)
  BY <1>1, <1>4, <1>6 DEF Patient, Started, Inst, NoInst
<1>8. Serving(n) = {}
  BY <1>7 DEF Quiet, Serving, Children, Unreaped
<1>9. QED  BY <1>1, <1>4, <1>5, <1>8 DEF Spawns

(* One instance that serves the name before and after the step.            *)
LEMMA GoesOnServing ==
  ASSUME PatientInv, PatientInv', [Next]_vars,
         NEW n \in Name, NEW i \in Serving(n), i \in Serving(n)'
  PROVE  Services!Move(n)
<1>1. /\ ServicePhase(n) = Phase(i) /\ ServicePhase(n)' = Phase(i)'
      /\ ServiceRetries(n) = instance[i].restarts /\ ServiceRetries(n)' = instance'[i].restarts
      /\ ProcessesOf(n) = Children(i) /\ ProcessesOf(n)' = Children(i)'
  BY ServiceIs, ServiceIsNext DEF ServiceFacts
<1>2. i \in Inst /\ Abstract!Move(i)
  BY StepBehaves, BehavesMoves DEF Serving, PatientInv
<1>3. Phase(i) \in {"up", "dying", "backoff"} /\ Phase(i)' \in {"up", "dying", "backoff"}
  <2>1. PhaseFacts(i) /\ PhaseFacts(i)'
    BY <1>2, PhaseIs, PhaseIsNext DEF PatientInv
  <2>2. /\ instance[i].status # "none"
        /\ instance[i].restartTimer \/ Children(i) # {}
    BY <1>2 DEF Serving, PatientInv, Inv, Objects, Linked, Children
  <2>3. /\ instance'[i].status # "none"
        /\ instance'[i].restartTimer \/ Children(i)' # {}
    BY <1>2 DEF Serving, PatientInv, Inv, Objects, Linked, Children
  <2>4. QED  BY <2>1, <2>2, <2>3 DEF PhaseFacts
<1>4. CASE Abstract!Launch(i)
  <2>1. Services!Relaunch(n)
    BY <1>1, <1>2, <1>3, <1>4 DEF Abstract!Launch, Abstract!Goes, Services!Relaunch,
                                  Services!Becomes
  <2>2. QED  BY <2>1 DEF Services!Move
<1>5. CASE Abstract!Stop(i)
  <2>1. Services!Stop(n)
    BY <1>1, <1>2, <1>5 DEF Abstract!Stop, Abstract!Goes, Services!Stop, Services!Becomes
  <2>2. QED  BY <2>1 DEF Services!Move
<1>6. CASE Abstract!Retry(i)
  <2>1. Services!BackOff(n)
    BY <1>1, <1>2, <1>6 DEF Abstract!Retry, Abstract!Goes, Services!BackOff, Services!Becomes
  <2>2. QED  BY <2>1 DEF Services!Move
<1>7. CASE Abstract!Rest(i)
  <2>1. Services!Rest(n)
    BY <1>1, <1>2, <1>7 DEF Abstract!Rest, Abstract!Goes, Services!Rest, Services!Becomes
  <2>2. QED  BY <2>1 DEF Services!Move
<1>8. CASE Abstract!Abandon(i) \/ Abstract!End(i)
  BY <1>2, <1>3, <1>8 DEF Abstract!Abandon, Abstract!End, Abstract!Goes
<1>9. QED  BY <1>2, <1>4, <1>5, <1>6, <1>7, <1>8 DEF Abstract!Move

LEMMA ServiceMoves ==
  ASSUME PatientInv, PatientInv', [Next]_vars, Patient, NEW n \in Name
  PROVE  Services!Move(n)
<1>1. ServiceFacts(n) /\ ServiceFacts(n)'
  BY ServiceIs, ServiceIsNext
<1>2. CASE Serving(n) = {} /\ Serving(n)' = {}
  <2>1. Services!Rest(n)
    BY <1>1, <1>2 DEF ServiceFacts, Services!Rest, Services!Becomes
  <2>2. QED  BY <2>1 DEF Services!Move
<1>3. CASE Serving(n) # {} /\ Serving(n)' = {}
  <2>1. PICK i \in Serving(n) : TRUE
    BY <1>3
  <2>2. ServicePhase(n) # "down"
    <3>1. PhaseFacts(i)
      BY PhaseIs DEF Serving, PatientInv
    <3>2. /\ instance[i].status # "none"
          /\ instance[i].restartTimer \/ Children(i) # {}
      BY DEF Serving, PatientInv, Inv, Objects, Linked, Children
    <3>3. QED  BY <1>1, <3>1, <3>2 DEF PhaseFacts, ServiceFacts
  <2>3. Services!End(n)
    BY <1>1, <1>3, <2>2 DEF ServiceFacts, Services!End, Services!Becomes
  <2>4. QED  BY <2>3 DEF Services!Move
<1>4. ASSUME NEW j \in Serving(n)', j \notin Serving(n) PROVE Services!Move(n)
  <2>1. /\ Serving(n) = {}
        /\ \E p \in Pid : Children(j)' = {p}
        /\ ~instance'[j].intentionallyStopped
        /\ instance'[j].restarts = 0 /\ instance'[j].status # "none"
    BY <1>4, BeginsAfresh
  <2>2. Phase(j)' = "up"
    <3>1. PhaseFacts(j)'
      BY PhaseIsNext DEF Serving, PatientInv
    <3>2. QED  BY <2>1, <3>1 DEF PhaseFacts
  <2>3. Services!Start(n)
    BY <1>1, <1>4, <2>1, <2>2 DEF ServiceFacts, Services!Start, Services!Becomes
  <2>4. QED  BY <2>3 DEF Services!Move
<1>5. QED
  BY <1>2, <1>3, <1>4, GoesOnServing

(* For callers who wait, the manager implements the abstract service: a    *)
(* name has one process after another, with at most MaxRestarts relaunches *)
(* between two starts, and after a stop only what the next start launches. *)
THEOREM EachNameIsServed == PatientSpec => ServesByName
<1>1. Init => Services!Init
  <2> SUFFICES ASSUME Init PROVE Services!Init
    OBVIOUS
  <2>1. \A n \in Name : Serving(n) = {} /\ ProcessesOf(n) = {}
    BY DEF Init, Serving, ProcessesOf, Children, Unreaped, Uncreated, Unspawned, Blank, Fresh
  <2>2. QED  BY <2>1 DEF Services!Init, ServicePhase, ServiceRetries
<1>2. PatientInv /\ PatientInv' /\ [PatientNext]_vars => [Services!Next]_(Services!vars)
  <2> SUFFICES ASSUME PatientInv, PatientInv', [PatientNext]_vars PROVE Services!Next
    OBVIOUS
  <2>1. [Next]_vars /\ Patient
    BY DEF PatientNext, Patient, Started, vars
  <2>2. QED  BY <2>1, ServiceMoves DEF Services!Next
<1>3. QED  BY <1>1, <1>2, PatientInvariant, PTL DEF PatientSpec, ServesByName, Services!Spec

=============================================================================
