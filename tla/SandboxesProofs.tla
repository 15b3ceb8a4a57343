--------------------------- MODULE SandboxesProofs ---------------------------
(***************************************************************************)
(* Theorems about Sandboxes, for any number of tasks, rows, VMs and        *)
(* processes.  The lease makes one task at a time the holder, only the     *)
(* holder changes which VM the row names, and where it stands says what    *)
(* has become of the VM named before.                                      *)
(***************************************************************************)
EXTENDS Sandboxes, FiniteSetTheorems, TLAPS

-----------------------------------------------------------------------------
(* Types *)

RowType ==
  row \in [id : Rows, status : {"starting", "running", "sleeping", "failed"},
           vm : 0 .. MaxVMs, snapshot : 0 .. MaxVMs, enrollment : 0 .. MaxProcs,
           session : 0 .. MaxProcs, live : BOOLEAN, heard : BOOLEAN, leased : BOOLEAN]
MadeType == made \in Rows
VMTypes == vm \in [VMs -> {"none", "up", "paused", "gone"}] /\ orphans \subseteq VMs
ProcTypes ==
  /\ proc \in [Procs -> [state : {"none", "token", "session", "open", "seen", "ended"},
                         vm : 0 .. MaxVMs, id : Rows]]
  /\ issued \in 0 .. MaxProcs
TaskType == task \in [Tasks -> [at : Places, id : Rows, vm : 0 .. MaxVMs]]
SettingTypes == provider \in Providers /\ wanted \in BOOLEAN

LEMMA TypesTogether ==
  TypeOK <=> SettingTypes /\ RowType /\ MadeType /\ VMTypes /\ ProcTypes /\ TaskType
  BY DEF TypeOK, SettingTypes, RowType, MadeType, VMTypes, ProcTypes, TaskType

LEMMA Zeros == 0 \in Rows /\ 0 \in 0 .. MaxVMs /\ 0 \in 0 .. MaxProcs
               /\ VMs \subseteq 0 .. MaxVMs /\ Procs \subseteq 0 .. MaxProcs
               /\ None \notin VMs /\ None = 0
  BY BoundsAssumption DEF Rows, VMs, Procs, None

LEMMA InitTypes == Init => TypeOK
<1> SUFFICES ASSUME Init PROVE TypeOK
  OBVIOUS
<1> USE Zeros DEF Init
<1>1. RowType
  BY DEF RowType, NoRow
<1>2. SettingTypes /\ MadeType /\ VMTypes
  BY DEF SettingTypes, MadeType, VMTypes
<1>3. ProcTypes
  BY DEF ProcTypes, NoProc
<1>4. TaskType
  BY DEF TaskType, Idle, Places
<1> QED
  BY <1>1, <1>2, <1>3, <1>4, TypesTogether

LEMMA RowTypeKept ==
  ASSUME TypeOK, [Next]_vars
  PROVE  RowType' /\ MadeType'
<1>0. RowType /\ MadeType /\ TaskType
  BY TypesTogether
<1> USE <1>0, Zeros DEF RowType, MadeType
<1>1. ASSUME NEW t \in Tasks, Step(t)
      PROVE  RowType' /\ MadeType'
  <2>1. CASE Find(t) \/ Look(t) \/ Resume(t) \/ KillFirst(t) \/ Finish(t) \/ Sleep(t) \/ Terminate(t)
    BY <2>1 DEF Find, Look, Resume, KillFirst, Finish, Sleep, Terminate, store
  <2>2. CASE Insert(t)
    <3>2. CASE Exists
      BY <2>2, <3>2 DEF Insert, store
    <3>3. CASE ~Exists
      <4>1. made < MaxRows /\ made' = made + 1
        BY <2>2, <3>3 DEF Insert
      <4>2. made' \in Rows
        BY <4>1, BoundsAssumption DEF Rows
      <4>3. row' = [NoRow EXCEPT !.id = made', !.leased = TRUE]
        BY <2>2, <3>3, <4>1 DEF Insert
      <4> QED
        BY <4>2, <4>3 DEF NoRow
    <3> QED
      BY <3>2, <3>3
  <2>3. CASE LeaseToWake(t) \/ LeaseToKeep(t)
    BY <2>3 DEF LeaseToWake, LeaseToKeep, Leases
  <2>4. CASE BringUp(t) \/ Rejoin(t) \/ Wait(t)
    <3>1. row' \in {row, Settled("running"), Settled("failed")} /\ made' = made
      BY <2>4 DEF BringUp, Rejoin, Wait, Succeeds, Fails, store
    <3> QED
      BY <3>1 DEF Settled, Released
  <2>5. CASE Spawn(t) \/ Launch(t)
    BY <2>5 DEF Spawn, Launch, Starts, Enrolled
  <2>6. CASE LaunchHalfway(t) \/ Refuse(t)
    BY <2>6 DEF LaunchHalfway, Refuse, Settled, Released
  <2>7. CASE Record(t)
    BY <2>7 DEF Record, TaskType
  <2>8. CASE Recheck(t) \/ Renew(t) \/ SleepFails(t) \/ TerminateFails(t)
    BY <2>8 DEF Recheck, Renew, SleepFails, TerminateFails, Releases, Released, Settled
  <2>9. CASE Slept(t)
    BY <2>9 DEF Slept, Asleep, Released
  <2>10. CASE Delete(t)
    BY <2>10 DEF Delete, NoRow
  <2> QED
    BY <1>1, <2>1, <2>2, <2>3, <2>4, <2>5, <2>6, <2>7, <2>8, <2>9, <2>10 DEF Step
<1>2. ASSUME NEW p \in Procs, Process(p)
      PROVE  RowType' /\ MadeType'
  BY <1>2 DEF Process, Enroll, Authenticate, Touch, Reject, Break, Heard, store
<1>3. CASE Lapse \/ GoesStale
  BY <1>3 DEF Lapse, GoesStale, Released
<1>4. CASE /\ ~ \E t \in Tasks : Step(t)
           /\ ~ \E p \in Procs : Process(p)
           /\ ~(Lapse \/ GoesStale)
  BY <1>4 DEF Next, vars, store, Wake, List, GiveUp, Crash, VMEnds, Unwant
<1> QED
  BY <1>1, <1>2, <1>3, <1>4

\* A launch under way has its VM.
RecordsVM == \A t \in Tasks : At(t, "record") => task[t].vm \in VMs /\ vm[task[t].vm] # "none"

LEMMA VMTypesKept ==
  ASSUME TypeOK, RecordsVM, [Next]_vars
  PROVE  VMTypes'
<1>0. VMTypes /\ TaskType
  BY TypesTogether
<1> USE <1>0 DEF VMTypes
<1>1. ASSUME NEW t \in Tasks, Step(t)
      PROVE  VMTypes'
  <2>1. CASE Resume(t) \/ Renew(t)
    BY <2>1 DEF Resume, Renew, Resumed, machines
  <2>2. CASE KillFirst(t) \/ Sleep(t) \/ Terminate(t)
    BY <2>2 DEF KillFirst, Sleep, Terminate, Kills, machines
  <2>3. CASE Launch(t) \/ LaunchHalfway(t)
    BY <2>3 DEF Launch, LaunchHalfway
  <2>4. CASE ~(\/ Resume(t) \/ Renew(t) \/ KillFirst(t) \/ Sleep(t) \/ Terminate(t)
               \/ Launch(t) \/ LaunchHalfway(t))
    BY <1>1, <2>4 DEF Step, Find, Insert, Look, LeaseToWake, BringUp, Rejoin, Spawn, Refuse,
      Record, Wait, Finish, LeaseToKeep, Recheck, SleepFails, Slept, TerminateFails, Delete,
      machines
  <2> QED
    BY <2>1, <2>2, <2>3, <2>4
<1>2. ASSUME NEW t \in Tasks, Crash(t)
      PROVE  VMTypes'
  <2>1. CASE At(t, "record")
    BY <1>2, <2>1 DEF Crash, RecordsVM
  <2> QED
    BY <1>2, <2>1 DEF Crash
<1>3. ASSUME NEW v \in VMs, VMEnds(v)
      PROVE  VMTypes'
  BY <1>3 DEF VMEnds, Kills
<1>4. CASE /\ ~ \E t \in Tasks : Step(t) \/ Crash(t)
           /\ ~ \E v \in VMs : VMEnds(v)
  BY <1>4 DEF Next, vars, machines, Wake, List, GiveUp, Process, Enroll, Authenticate, Touch,
              Reject, Break, Lapse, GoesStale, Unwant
<1> QED
  BY <1>1, <1>2, <1>3, <1>4



LEMMA ProcTypesKept ==
  ASSUME TypeOK, [Next]_vars
  PROVE  ProcTypes'
<1>0. ProcTypes /\ RowType
  BY TypesTogether
<1> USE <1>0, Zeros DEF ProcTypes, Ended, NoProc
<1>1. ASSUME NEW t \in Tasks, Step(t)
      PROVE  ProcTypes'
  <2>1. CASE Spawn(t)
    BY <2>1 DEF Spawn, Starts, NextProc, RowType
  <2>2. CASE Launch(t)
    BY <2>2 DEF Launch, Starts, NextProc, RowType
  <2>3. CASE KillFirst(t) \/ Sleep(t) \/ Terminate(t)
    BY <2>3 DEF KillFirst, Sleep, Terminate, Kills
  <2>4. CASE ~(Spawn(t) \/ Launch(t) \/ KillFirst(t) \/ Sleep(t) \/ Terminate(t))
    <3> UNCHANGED processes
      BY <1>1, <2>4 DEF Step, Find, Insert, Look, LeaseToWake, BringUp, Resume, Rejoin, LaunchHalfway,
        Refuse, Record, Wait, Finish, LeaseToKeep, Recheck, Renew, SleepFails, Slept,
        TerminateFails, Delete, processes
    <3> QED
      BY DEF processes
  <2> QED
    BY <2>1, <2>2, <2>3, <2>4
<1>2. ASSUME NEW p \in Procs, Process(p)
      PROVE  ProcTypes'
  BY <1>2 DEF Process, Enroll, Authenticate, Touch, Reject, Break, Becomes, Disconnects, Stops
<1>3. ASSUME NEW v \in VMs, VMEnds(v)
      PROVE  ProcTypes'
  BY <1>3 DEF VMEnds, Kills
<1>4. CASE /\ ~ \E t \in Tasks : Step(t)
           /\ ~ \E p \in Procs : Process(p)
           /\ ~ \E v \in VMs : VMEnds(v)
  <2> UNCHANGED processes
    BY <1>4 DEF Next, vars, processes, Wake, List, GiveUp, Crash, Lapse, GoesStale, Unwant
  <2> QED
    BY DEF processes
<1> QED
  BY <1>1, <1>2, <1>3, <1>4

LEMMA TaskTypeKept ==
  ASSUME TypeOK, [Next]_vars
  PROVE  TaskType'
<1>0. TaskType /\ RowType /\ MadeType
  BY TypesTogether
<1> USE <1>0, Zeros DEF TaskType, Places, Holding, Idle, Goes, Ends
<1>1. ASSUME NEW t \in Tasks, Step(t)
      PROVE  TaskType'
  <2>1. CASE Find(t)
    <3>1. row.id \in Rows
      BY DEF RowType
    <3>2. PICK at \in {"look", "insert"} : task' = [task EXCEPT ![t].at = at, ![t].id = row.id]
      BY <2>1 DEF Find
    <3>3. at \in Places
      OBVIOUS
    <3> HIDE DEF Places
    <3> QED
      BY <3>1, <3>2, <3>3
  <2>2. CASE Insert(t)
    <3>1. CASE Exists
      BY <2>2, <3>1 DEF Insert
    <3>2. CASE ~Exists
      <4>1. made' \in Rows
        BY RowTypeKept DEF MadeType
      <4>2. task' = [task EXCEPT ![t].at = "bring", ![t].id = made']
        BY <2>2, <3>2 DEF Insert
      <4> QED
        BY <4>1, <4>2
    <3> QED
      BY <3>1, <3>2
  <2>3. CASE Look(t) \/ LeaseToWake(t)
    BY <2>3 DEF Look, LeaseToWake, Leases, Operates
  <2>9. CASE LeaseToKeep(t)
    <3>1. \/ \E at \in {"recheck", "check", "drop"} : Goes(t, at)
          \/ Ends(t)
      BY <2>9 DEF LeaseToKeep, Leases
    <3> QED
      BY <3>1
  <2>4. CASE BringUp(t) \/ Rejoin(t) \/ Wait(t)
    BY <2>4 DEF BringUp, Rejoin, Wait, Succeeds, Fails, Operates
  <2>5. CASE Resume(t) \/ Spawn(t) \/ KillFirst(t)
    BY <2>5 DEF Resume, Spawn, KillFirst
  <2>6. CASE Launch(t) \/ LaunchHalfway(t) \/ Refuse(t) \/ Record(t) \/ Finish(t)
    BY <2>6 DEF Launch, LaunchHalfway, Refuse, Record, Finish
  <2>7. CASE Recheck(t) \/ Renew(t) \/ Sleep(t) \/ SleepFails(t) \/ Slept(t)
    BY <2>7 DEF Recheck, Renew, Releases, Sleep, SleepFails, Slept
  <2>8. CASE Terminate(t) \/ TerminateFails(t) \/ Delete(t)
    BY <2>8 DEF Terminate, TerminateFails, Delete
  <2> QED
    BY <1>1, <2>1, <2>2, <2>3, <2>4, <2>5, <2>6, <2>7, <2>8, <2>9 DEF Step
<1>2. ASSUME NEW t \in Tasks, Wake(t) \/ List(t) \/ GiveUp(t) \/ Crash(t)
      PROVE  TaskType'
  BY <1>2 DEF Wake, List, GiveUp, Crash, RowType
<1>3. CASE ~ \E t \in Tasks : Wake(t) \/ List(t) \/ Step(t) \/ GiveUp(t) \/ Crash(t)
  <2> UNCHANGED task
    BY <1>3 DEF Next, vars, Process, Enroll, Authenticate, Touch, Reject, Break, VMEnds, Lapse,
      GoesStale, Unwant
  <2> QED
    OBVIOUS
<1> QED
  BY <1>1, <1>2, <1>3

LEMMA SettingTypesKept ==
  ASSUME TypeOK, [Next]_vars
  PROVE  SettingTypes' /\ provider' = provider
<1> SettingTypes
  BY TypesTogether
<1>1. ASSUME NEW t \in Tasks, Step(t)
      PROVE  UNCHANGED <<provider, wanted>>
  BY <1>1 DEF Step, Find, Insert, Look, LeaseToWake, BringUp, Resume, Rejoin, Spawn, KillFirst,
    Launch, LaunchHalfway, Refuse, Record, Wait, Finish, LeaseToKeep, Recheck, Renew, Sleep,
    SleepFails, Slept, Terminate, TerminateFails, Delete
<1>2. CASE Unwant
  BY <1>2 DEF Unwant, SettingTypes
<1>3. CASE ~(Unwant \/ \E t \in Tasks : Step(t))
  BY <1>3 DEF Next, vars, Wake, List, GiveUp, Crash, Process, Enroll, Authenticate, Touch, Reject,
    Break, VMEnds, Lapse, GoesStale, SettingTypes
<1> QED
  BY <1>1, <1>2, <1>3 DEF SettingTypes

-----------------------------------------------------------------------------
(* The lease *)

\* A task that goes from place to place, into the holder's places only if it is the holder
LEMMA GoingKeeps ==
  ASSUME TypeOK, OneAtATime, NEW t \in Tasks, NEW at \in Places,
         task' = [task EXCEPT ![t].at = at], at \in Holding => Holds(t),
         row'.leased = row.leased, row'.id = row.id
  PROVE  OneAtATime'
<1> TaskType
  BY TypesTogether
<1> QED
  BY DEF TaskType, OneAtATime, Holds, Is, Exists

\* A task that ends: its lease is released, if it held one
LEMMA EndingKeeps ==
  ASSUME TypeOK, OneAtATime, NEW t \in Tasks, Ends(t),
         (row'.leased = row.leased /\ row'.id = row.id) \/ Holds(t)
  PROVE  OneAtATime'
<1> TaskType
  BY TypesTogether
<1>1. ~Holds(t)' /\ \A u \in Tasks \ {t} : Holds(u)' = Holds(u) /\ task'[u] = task[u]
  BY DEF Ends, TaskType, Holds, Holding, Idle
<1> QED
  BY <1>1 DEF OneAtATime, Is, Exists

\* A task that takes the lease, when it is free
LEMMA LeasingKeeps ==
  ASSUME TypeOK, OneAtATime, NEW t \in Tasks, NEW at \in Places, Leasable(t), Leases(t, at)
  PROVE  OneAtATime'
<1> TaskType /\ RowType
  BY TypesTogether
<1>1. \A u \in Tasks : ~Holds(u)
  BY DEF OneAtATime, Leasable
<1>2. row'.leased /\ row'.id = row.id /\ task'[t].id = task[t].id
  BY DEF Leases, Goes, RowType, TaskType
<1>3. \A u \in Tasks \ {t} : ~Holds(u)'
  BY <1>1 DEF Leases, Goes, TaskType, Holds
<1> QED
  BY <1>2, <1>3 DEF OneAtATime, Leasable, Is, Exists
LEMMA OneAtATimeKept ==
  ASSUME TypeOK, OneAtATime, [Next]_vars
  PROVE  OneAtATime'
<1>0. TaskType /\ RowType
  BY TypesTogether
<1> USE <1>0
<1>1. ASSUME NEW t \in Tasks, Step(t)
      PROVE  OneAtATime'
  <2>1. CASE Find(t)
    <3>1. ~Holds(t)' /\ \A u \in Tasks \ {t} : task'[u] = task[u]
      BY <2>1 DEF Find, TaskType, Holds, Holding
    <3>2. UNCHANGED row
      BY <2>1 DEF Find, store
    <3> QED
      BY <3>1, <3>2 DEF OneAtATime, Holds, Is, Exists
  <2>2. CASE Insert(t)
    <3>1. CASE Exists
      <4>1. task' = [task EXCEPT ![t].at = "find"] /\ UNCHANGED row
        BY <2>2, <3>1 DEF Insert, Goes, store
      <4> QED
        BY <4>1, GoingKeeps DEF Places, Holding
    <3>2. CASE ~Exists
      <4>1. \A u \in Tasks : ~Holds(u)
        BY <3>2 DEF OneAtATime, Is
      <4>2. row' = [NoRow EXCEPT !.id = made + 1, !.leased = TRUE]
            /\ task' = [task EXCEPT ![t].at = "bring", ![t].id = made + 1]
        BY <2>2, <3>2 DEF Insert
      <4>3. row'.leased /\ row'.id = made + 1 /\ task'[t].id = made + 1
        BY <4>2 DEF NoRow, TaskType
      <4>4. \A u \in Tasks \ {t} : ~Holds(u)'
        BY <4>1, <4>2 DEF Holds, TaskType
      <4>5. made + 1 # None
        BY TypesTogether, BoundsAssumption DEF MadeType, Rows, None
      <4> QED
        BY <4>3, <4>4, <4>5 DEF OneAtATime, Is, Exists
    <3> QED
      BY <3>1, <3>2
  <2>3. CASE Look(t)
    <3>1. UNCHANGED row
      BY <2>3 DEF Look, store
    <3>2. Ends(t) \/ \E at \in {"using", "lease"} : task' = [task EXCEPT ![t].at = at]
      BY <2>3 DEF Look, Operates, Goes
    <3> QED
      BY <3>1, <3>2, GoingKeeps, EndingKeeps DEF Places, Holding
  <2>4. CASE LeaseToWake(t)
    <3>1. CASE Leasable(t)
      BY <2>4, <3>1, LeasingKeeps DEF LeaseToWake, Places, Holding
    <3>2. CASE ~Leasable(t)
      BY <2>4, <3>2, GoingKeeps DEF LeaseToWake, Goes, Places, Holding
    <3> QED
      BY <3>1, <3>2
  <2>5. CASE LeaseToKeep(t)
    <3>1. CASE Leasable(t)
      BY <2>5, <3>1, LeasingKeeps DEF LeaseToKeep, Places, Holding
    <3>2. CASE ~Leasable(t)
      BY <2>5, <3>2, EndingKeeps DEF LeaseToKeep
    <3> QED
      BY <3>1, <3>2
  <2>6. CASE Finish(t)
    BY <2>6, EndingKeeps DEF Finish, store
  <2>7. ASSUME Holds(t), Ends(t)
        PROVE  OneAtATime'
    BY <2>7, EndingKeeps
  <2>8. ASSUME Holds(t), NEW at \in Holding \cup {"using"}, Goes(t, at), row'.leased = row.leased,
               row'.id = row.id
        PROVE  OneAtATime'
    BY <2>8, GoingKeeps DEF Goes, Places
  <2>9. ASSUME Holds(t), row' = Settled("running"), Operates(t)
        PROVE  OneAtATime'
    <3>1. CASE Ends(t)
      BY <2>7, <2>9, <3>1
    <3>2. CASE Goes(t, "using")
      <4>1. \A u \in Tasks : ~Holds(u)'
        BY <2>9, <3>2 DEF OneAtATime, Goes, Holds, Holding, TaskType
      <4> QED
        BY <4>1 DEF OneAtATime
    <3> QED
      BY <2>9, <3>1, <3>2 DEF Operates
  <2>10. CASE BringUp(t) \/ Rejoin(t) \/ Wait(t)
    <3>1. Holds(t)
      BY <2>10 DEF BringUp, Rejoin, Wait, At, Holds, Holding
    <3>2. \/ Succeeds(t) \/ Fails(t)
          \/ UNCHANGED row /\ \E at \in {"launch", "resume", "kill", "spawn"} : Goes(t, at)
      BY <2>10 DEF BringUp, Rejoin, Wait
    <3> QED
      BY <2>7, <2>8, <2>9, <3>1, <3>2 DEF Succeeds, Fails, Holding
  <2>11. CASE Resume(t) \/ KillFirst(t) \/ Sleep(t) \/ Terminate(t)
    <3>1. Holds(t) /\ UNCHANGED row
      BY <2>11 DEF Resume, KillFirst, Sleep, Terminate, At, Holds, Holding, store
    <3>2. \E at \in {"launch", "rejoin", "slept", "delete"} : Goes(t, at)
      BY <2>11 DEF Resume, KillFirst, Sleep, Terminate
    <3> QED
      BY <2>8, <3>1, <3>2 DEF Holding
  <2>12. CASE Spawn(t)
    <3>1. Holds(t) /\ row'.leased = row.leased /\ row'.id = row.id
      BY <2>12 DEF Spawn, Starts, Enrolled, At, Holds, Holding, RowType
    <3> QED
      BY <2>8, <2>12, <3>1 DEF Spawn, Holding
  <2>13. CASE Launch(t)
    <3>1. Holds(t) /\ row'.leased = row.leased /\ row'.id = row.id
      BY <2>13 DEF Launch, Starts, Enrolled, At, Holds, Holding, RowType
    <3>2. task' = [task EXCEPT ![t].at = "record", ![t].vm = NextVM]
      BY <2>13 DEF Launch
    <3>3. task'[t].id = task[t].id /\ \A u \in Tasks \ {t} : task'[u] = task[u]
      BY <3>2 DEF TaskType
    <3> QED
      BY <3>1, <3>3 DEF OneAtATime, Holds, Is, Exists
  <2>14. CASE Record(t)
    <3>1. Holds(t) /\ row'.leased = row.leased /\ row'.id = row.id
      BY <2>14 DEF Record, At, Holds, Holding, RowType
    <3>2. task' = [task EXCEPT ![t].at = "wait", ![t].vm = None]
      BY <2>14 DEF Record
    <3>3. task'[t].id = task[t].id /\ \A u \in Tasks \ {t} : task'[u] = task[u]
      BY <3>2 DEF TaskType
    <3> QED
      BY <3>1, <3>3 DEF OneAtATime, Holds, Is, Exists
  <2>15. CASE Recheck(t) \/ Renew(t)
    <3>1. Holds(t)
      BY <2>15 DEF Recheck, Renew, At, Holds, Holding
    <3>2. CASE Ends(t)
      BY <2>7, <3>1, <3>2
    <3>3. CASE ~Ends(t)
      <4>1. UNCHANGED row /\ \E at \in {"drop", "sleep"} : Goes(t, at)
        BY <2>15, <3>3 DEF Recheck, Renew, Releases
      <4> QED
        BY <2>8, <3>1, <4>1 DEF Holding
    <3> QED
      BY <3>2, <3>3
  <2>16. CASE \/ LaunchHalfway(t) \/ Refuse(t) \/ SleepFails(t) \/ Slept(t) \/ TerminateFails(t)
              \/ Delete(t)
    <3>1. Holds(t) /\ Ends(t)
      BY <2>16 DEF LaunchHalfway, Refuse, SleepFails, Slept, TerminateFails, Delete, At, Holds,
                   Holding
    <3> QED
      BY <2>7, <3>1
  <2> QED
    BY <1>1, <2>1, <2>2, <2>3, <2>4, <2>5, <2>6, <2>10, <2>11, <2>12, <2>13, <2>14, <2>15, <2>16
    DEF Step
<1>2. ASSUME NEW t \in Tasks, Wake(t) \/ GiveUp(t) \/ Crash(t)
      PROVE  OneAtATime'
  <2>1. UNCHANGED row /\ (Ends(t) \/ task' = [task EXCEPT ![t].at = "find"])
    BY <1>2 DEF Wake, GiveUp, Crash, Goes, store
  <2> QED
    BY <2>1, GoingKeeps, EndingKeeps DEF Places, Holding
<1>3. ASSUME NEW t \in Tasks, List(t)
      PROVE  OneAtATime'
  <2>1. UNCHANGED row /\ ~Holds(t)' /\ \A u \in Tasks \ {t} : task'[u] = task[u]
    BY <1>3 DEF List, TaskType, Holds, Holding, store
  <2> QED
    BY <2>1 DEF OneAtATime, Holds, Is, Exists
<1>4. ASSUME UNCHANGED task, row'.leased = row.leased, row'.id = row.id
      PROVE  OneAtATime'
  BY <1>4 DEF OneAtATime, Holds, Is, Exists
<1>5. ASSUME NEW p \in Procs, Process(p)
      PROVE  OneAtATime'
  <2>1. UNCHANGED task /\ row'.leased = row.leased /\ row'.id = row.id
    BY <1>5 DEF Process, Enroll, Authenticate, Touch, Reject, Break, Heard, RowType, store
  <2> QED
    BY <1>4, <2>1
<1>6. CASE Lapse
  BY <1>6 DEF Lapse, OneAtATime, Holds
<1>7. CASE GoesStale
  <2>1. UNCHANGED task /\ row'.leased = row.leased /\ row'.id = row.id
    BY <1>7 DEF GoesStale, RowType
  <2> QED
    BY <1>4, <2>1
<1>8. CASE UNCHANGED vars \/ Unwant \/ \E v \in VMs : VMEnds(v)
  BY <1>4, <1>8 DEF vars, Unwant, VMEnds, store
<1> QED
  BY <1>1, <1>2, <1>3, <1>5, <1>6, <1>7, <1>8 DEF Next

-----------------------------------------------------------------------------
(* The VM the row names *)

\* The row names a VM that was launched, or none; and none if it does not exist.
RowInv ==
  /\ row.vm # None => row.vm \in VMs /\ vm[row.vm] # "none"
  /\ row.id = None => row.vm = None

\* VMs are launched in the order of their numbers.
Launched == \E n \in 0 .. MaxVMs : \A v \in VMs : vm[v] # "none" <=> v <= n

\* Where the holder stands tells of the VM: there is one to work with, or it is gone.
GoneOrNone == row.vm = None \/ vm[row.vm] = "gone"
Placed(t) ==
  /\ task[t].at \in {"resume", "rejoin", "spawn", "kill", "slept"} => row.vm # None
  /\ task[t].at \in {"launch", "record", "delete"} => GoneOrNone
  /\ task[t].at = "slept" /\ provider = "modal" => GoneOrNone

PlaceInv == RowInv /\ Launched /\ RecordsVM /\ \A t \in Tasks : Placed(t)

LEMMA NextVMIsNew ==
  ASSUME TypeOK, Launched
  PROVE  /\ NextVM \in VMs => vm[NextVM] = "none"
         /\ \A v \in VMs : vm[v] # "none" <=> v < NextVM
<1>1. PICK n \in 0 .. MaxVMs : \A v \in VMs : vm[v] # "none" <=> v <= n
  BY DEF Launched
<1>2. {v \in VMs : vm[v] # "none"} = 1 .. n
  BY <1>1, BoundsAssumption DEF VMs
<1>3. Cardinality(1 .. n) = n
  BY FS_Interval, BoundsAssumption
<1>4. NextVM = n + 1
  BY <1>2, <1>3 DEF NextVM
<1> QED
  BY <1>1, <1>4, BoundsAssumption DEF VMs

\* A step that launches nothing and leaves the row's VM named as it is
LEMMA PlacesKept ==
  ASSUME TypeOK, OneAtATime, PlaceInv, provider' = provider,
         row'.vm = row.vm, row'.id = row.id,
         \A v \in VMs : vm'[v] = "none" <=> vm[v] = "none",
         \A v \in VMs : vm[v] = "gone" => vm'[v] = "gone",
         \A u \in Tasks : \/ task'[u] = task[u]
                          \/ Placed(u)' /\ task'[u].at # "record"
  PROVE  PlaceInv'
<1> USE DEF PlaceInv, GoneOrNone
<1>1. RowInv'
  BY DEF RowInv
<1>2. Launched'
  BY DEF Launched
<1>3. RecordsVM'
  BY DEF RecordsVM, At
<1>4. ASSUME NEW u \in Tasks
      PROVE  Placed(u)'
  <2>1. CASE task'[u] = task[u]
    BY <2>1 DEF Placed, RowInv
  <2> QED
    BY <2>1
<1> QED
  BY <1>1, <1>2, <1>3, <1>4

Elsewhere == Places \ {"resume", "rejoin", "spawn", "kill", "slept", "launch", "record", "delete"}

\* and in which a task goes where nothing is said of the VM
LEMMA PlacesKeptElsewhere ==
  ASSUME TypeOK, OneAtATime, PlaceInv, provider' = provider, UNCHANGED vm,
         row'.vm = row.vm, row'.id = row.id,
         \A u \in Tasks : task'[u] = task[u] \/ task'[u].at \in Elsewhere
  PROVE  PlaceInv'
<1>1. ASSUME NEW u \in Tasks, task'[u].at \in Elsewhere
      PROVE  Placed(u)' /\ task'[u].at # "record"
  BY <1>1 DEF Placed, Elsewhere
<1> QED
  BY <1>1, PlacesKept

\* A step of the holder: nobody else is where something is said of the VM
LEMMA HolderPlaces ==
  ASSUME TypeOK, OneAtATime, NEW t \in Tasks, Holds(t),
         \A u \in Tasks \ {t} : task'[u] = task[u],
         RowInv', Launched', Placed(t)',
         task'[t].at = "record" => task'[t].vm \in VMs /\ vm'[task'[t].vm] # "none"
  PROVE  PlaceInv'
<1>1. ASSUME NEW u \in Tasks \ {t}
      PROVE  task'[u].at \notin Holding
  BY DEF OneAtATime, Holds
<1>2. \A u \in Tasks \ {t} : Placed(u)' /\ task'[u].at # "record"
  BY <1>1 DEF Placed, Holding
<1> QED
  BY <1>2 DEF PlaceInv, RecordsVM, At

LEMMA PlaceKept ==
  ASSUME TypeOK, OneAtATime, PlaceInv, [Next]_vars
  PROVE  PlaceInv'
<1>0. TaskType /\ RowType /\ VMTypes /\ RowInv /\ Launched /\ provider' = provider
  BY TypesTogether, SettingTypesKept DEF PlaceInv
<1> USE <1>0
<1>1. ASSUME NEW t \in Tasks, Step(t)
      PROVE  PlaceInv'
  <2>1. CASE Find(t)
    <3>1. UNCHANGED <<row, vm>>
      BY <2>1 DEF Find, store, machines
    <3>2. task'[t].at \in {"look", "insert"} /\ \A u \in Tasks \ {t} : task'[u] = task[u]
      BY <2>1 DEF Find, TaskType
    <3> QED
      BY <3>1, <3>2, PlacesKeptElsewhere DEF Elsewhere, Places, Holding
  <2>2. ASSUME UNCHANGED vm, row'.vm = row.vm, row'.id = row.id,
               NEW at \in Elsewhere, Goes(t, at)
        PROVE  PlaceInv'
    BY <2>2, PlacesKeptElsewhere DEF Goes, TaskType
  <2>3. ASSUME UNCHANGED vm, row'.vm = row.vm, row'.id = row.id, Ends(t)
        PROVE  PlaceInv'
    <3>1. task'[t].at \in Elsewhere /\ \A u \in Tasks \ {t} : task'[u] = task[u]
      BY <2>3 DEF Ends, Idle, Elsewhere, Places, Holding, TaskType
    <3> QED
      BY <2>3, <3>1, PlacesKeptElsewhere
  <2>4. CASE Insert(t)
    <3>1. CASE Exists
      <4>1. UNCHANGED <<row, vm>> /\ Goes(t, "find")
        BY <2>4, <3>1 DEF Insert, store, machines
      <4> QED
        BY <2>2, <4>1 DEF Elsewhere, Places, Holding
    <3>2. CASE ~Exists
      <4>1. row' = [NoRow EXCEPT !.id = made + 1, !.leased = TRUE] /\ UNCHANGED vm
            /\ task' = [task EXCEPT ![t].at = "bring", ![t].id = made + 1]
        BY <2>4, <3>2 DEF Insert, machines
      <4>2. row'.vm = None /\ task'[t].at = "bring" /\ \A u \in Tasks \ {t} : task'[u] = task[u]
        BY <4>1 DEF NoRow, TaskType
      <4>3. row.vm = None
        BY <3>2 DEF Exists, RowInv
      <4> QED
        BY <4>1, <4>2, <4>3 DEF PlaceInv, RowInv, Launched, RecordsVM, At, Placed, GoneOrNone
    <3> QED
      BY <3>1, <3>2
  <2>5. CASE Look(t) \/ LeaseToWake(t) \/ LeaseToKeep(t) \/ Finish(t) \/ Recheck(t)
    <3>1. UNCHANGED vm /\ row'.vm = row.vm /\ row'.id = row.id
      BY <2>5 DEF Look, LeaseToWake, LeaseToKeep, Finish, Recheck, Leases, Releases, Released,
                  RowType, store, machines
    <3>2. \/ Ends(t)
          \/ \E at \in {"using", "lease", "bring", "find", "recheck", "check", "drop", "sleep"} :
               Goes(t, at)
      BY <2>5 DEF Look, LeaseToWake, LeaseToKeep, Finish, Recheck, Leases, Releases, Operates
    <3> QED
      BY <2>2, <2>3, <3>1, <3>2 DEF Elsewhere, Places, Holding
  <2>6. CASE BringUp(t) \/ Rejoin(t) \/ Wait(t)
    <3>1. UNCHANGED vm /\ row'.vm = row.vm /\ row'.id = row.id
      BY <2>6 DEF BringUp, Rejoin, Wait, Succeeds, Fails, Settled, Released, RowType, machines
    <3>2. \/ Ends(t) \/ Goes(t, "using")
          \/ Goes(t, "launch") /\ row.vm = None
          \/ row.vm # None /\ \E at \in {"resume", "kill", "spawn"} : Goes(t, at)
      BY <2>6 DEF BringUp, Rejoin, Wait, Succeeds, Fails, Operates, PlaceInv, Placed, At
    <3>3. CASE Ends(t)
      BY <2>3, <3>1, <3>3
    <3>4. CASE Goes(t, "using")
      BY <2>2, <3>1, <3>4 DEF Elsewhere, Places, Holding
    <3>5. CASE Goes(t, "launch") /\ row.vm = None
      <4>1. Placed(t)' /\ task'[t].at # "record" /\ \A u \in Tasks \ {t} : task'[u] = task[u]
        BY <3>1, <3>5 DEF Goes, TaskType, Placed, GoneOrNone
      <4> QED
        BY <3>1, <4>1, PlacesKept
    <3>6. CASE row.vm # None /\ \E at \in {"resume", "kill", "spawn"} : Goes(t, at)
      <4>1. Placed(t)' /\ task'[t].at # "record" /\ \A u \in Tasks \ {t} : task'[u] = task[u]
        BY <3>1, <3>6 DEF Goes, TaskType, Placed
      <4> QED
        BY <3>1, <4>1, PlacesKept
    <3> QED
      BY <3>2, <3>3, <3>4, <3>5, <3>6
  <2>7. CASE Resume(t)
    <3>1. row.vm \in VMs /\ vm[row.vm] # "none" /\ UNCHANGED row /\ vm' = Resumed
      BY <2>7 DEF Resume, PlaceInv, Placed, RowInv, At, store
    <3>2. /\ \A v \in VMs : vm'[v] = "none" <=> vm[v] = "none"
          /\ \A v \in VMs : vm[v] = "gone" => vm'[v] = "gone"
      BY <3>1 DEF Resumed, VMTypes
    <3>3. Goes(t, IF vm[row.vm] = "gone" THEN "launch" ELSE "rejoin")
      BY <2>7 DEF Resume
    <3>4. Placed(t)' /\ task'[t].at # "record" /\ \A u \in Tasks \ {t} : task'[u] = task[u]
      BY <3>1, <3>2, <3>3, Zeros DEF Goes, TaskType, Placed, GoneOrNone
    <3> QED
      BY <3>1, <3>2, <3>4, PlacesKept
  <2>8. CASE KillFirst(t) \/ (Sleep(t) /\ provider = "modal") \/ (Terminate(t) /\ row.vm # None)
    <3>1. row.vm \in VMs /\ vm[row.vm] # "none" /\ UNCHANGED row
      BY <2>8 DEF KillFirst, Sleep, Terminate, PlaceInv, Placed, RowInv, At, store
    <3>2. vm' = [vm EXCEPT ![row.vm] = "gone"]
      BY <2>8 DEF KillFirst, Sleep, Terminate, Kills
    <3>3. /\ \A v \in VMs : vm'[v] = "none" <=> vm[v] = "none"
          /\ \A v \in VMs : vm[v] = "gone" => vm'[v] = "gone"
          /\ vm'[row.vm] = "gone"
      BY <3>1, <3>2 DEF VMTypes
    <3>4. \E at \in {"launch", "slept", "delete"} : Goes(t, at)
      BY <2>8 DEF KillFirst, Sleep, Terminate
    <3>5. Placed(t)' /\ task'[t].at # "record" /\ \A u \in Tasks \ {t} : task'[u] = task[u]
      BY <3>1, <3>3, <3>4, Zeros DEF Goes, TaskType, Placed, GoneOrNone
    <3> QED
      BY <3>1, <3>3, <3>5, PlacesKept
  <2>9. CASE Sleep(t) /\ provider = "e2b"
    <3>1. row.vm \in VMs /\ vm[row.vm] # "none" /\ UNCHANGED row /\ Goes(t, "slept")
      BY <2>9 DEF Sleep, PlaceInv, RowInv, store
    <3>2. vm' = [vm EXCEPT ![row.vm] = IF @ = "up" THEN "paused" ELSE @]
      BY <2>9 DEF Sleep
    <3>3. /\ \A v \in VMs : vm'[v] = "none" <=> vm[v] = "none"
          /\ \A v \in VMs : vm[v] = "gone" => vm'[v] = "gone"
      BY <3>1, <3>2 DEF VMTypes
    <3>4. Placed(t)' /\ task'[t].at # "record" /\ \A u \in Tasks \ {t} : task'[u] = task[u]
      BY <2>9, <3>1, Zeros DEF Goes, TaskType, Placed
    <3> QED
      BY <3>1, <3>3, <3>4, PlacesKept
  <2>10. CASE Terminate(t) /\ row.vm = None
    <3>1. UNCHANGED <<row, vm>> /\ Goes(t, "delete")
      BY <2>10 DEF Terminate, store
    <3>2. Placed(t)' /\ task'[t].at # "record" /\ \A u \in Tasks \ {t} : task'[u] = task[u]
      BY <2>10, <3>1 DEF Goes, TaskType, Placed, GoneOrNone
    <3> QED
      BY <3>1, <3>2, PlacesKept
  <2>11. CASE Spawn(t)
    <3>1. UNCHANGED vm /\ row'.vm = row.vm /\ row'.id = row.id /\ Goes(t, "wait")
      BY <2>11 DEF Spawn, Starts, Enrolled, RowType, machines
    <3> QED
      BY <2>2, <3>1 DEF Elsewhere, Places, Holding
  <2>12. CASE Launch(t) \/ LaunchHalfway(t)
    <3>1. Holds(t) /\ row'.vm = row.vm /\ row'.id = row.id /\ GoneOrNone
      BY <2>12 DEF Launch, LaunchHalfway, Starts, Enrolled, Settled, Released, RowType, At, Holds,
                   Holding, PlaceInv, Placed
    <3>2. NextVM \in VMs /\ \E fate \in {"up", "gone"} : vm' = [vm EXCEPT ![NextVM] = fate]
      BY <2>12 DEF Launch, LaunchHalfway
    <3>3. vm[NextVM] = "none" /\ \A v \in VMs : vm[v] # "none" <=> v < NextVM
      BY <3>2, NextVMIsNew
    <3>4. /\ vm'[NextVM] # "none"
          /\ \A v \in VMs \ {NextVM} : vm'[v] = vm[v]
      BY <3>2 DEF VMTypes
    <3>5. Launched'
      <4>1. \A v \in VMs : vm'[v] # "none" <=> v <= NextVM
        BY <3>2, <3>3, <3>4, BoundsAssumption DEF VMs
      <4>2. NextVM \in 0 .. MaxVMs
        BY <3>2, Zeros
      <4> QED
        BY <4>1, <4>2 DEF Launched
    <3>6. RowInv'
      BY <3>1, <3>4 DEF RowInv
    <3>7. GoneOrNone'
      BY <3>1, <3>3, <3>4 DEF GoneOrNone, RowInv
    <3>8. /\ task'[t].at \in {"record", "idle"} /\ \A u \in Tasks \ {t} : task'[u] = task[u]
          /\ task'[t].at = "record" => task'[t].vm = NextVM
      BY <2>12 DEF Launch, LaunchHalfway, Ends, Idle, TaskType
    <3>9. Placed(t)'
      BY <3>7, <3>8 DEF Placed
    <3> QED
      BY <3>1, <3>2, <3>4, <3>5, <3>6, <3>8, <3>9, HolderPlaces
  <2>13. CASE Refuse(t) \/ SleepFails(t) \/ TerminateFails(t)
    <3>1. UNCHANGED vm /\ row'.vm = row.vm /\ row'.id = row.id /\ Ends(t)
      BY <2>13 DEF Refuse, SleepFails, TerminateFails, Settled, Released, RowType, machines
    <3> QED
      BY <2>3, <3>1
  <2>14. CASE Record(t)
    <3>1. Holds(t) /\ row'.vm = task[t].vm /\ row'.id = row.id /\ UNCHANGED vm
      BY <2>14 DEF Record, RowType, At, Holds, Holding, machines
    <3>2. task[t].vm \in VMs /\ vm[task[t].vm] # "none"
      BY <2>14 DEF Record, PlaceInv, RecordsVM
    <3>3. RowInv'
      BY <3>1, <3>2 DEF RowInv, OneAtATime, Is, Exists
    <3>4. task'[t].at = "wait" /\ \A u \in Tasks \ {t} : task'[u] = task[u]
      BY <2>14 DEF Record, TaskType
    <3>5. Launched' /\ Placed(t)'
      BY <3>1, <3>4 DEF Launched, Placed
    <3> QED
      BY <3>1, <3>3, <3>4, <3>5, HolderPlaces
  <2>15. CASE Renew(t)
    <3>1. row'.vm = row.vm /\ row'.id = row.id /\ (Ends(t) \/ Goes(t, "sleep"))
      BY <2>15 DEF Renew, Releases, Released, RowType
    <3>2. vm' = vm \/ (row.vm # None /\ vm' = Resumed)
      BY <2>15 DEF Renew, Ending
    <3>3. /\ \A v \in VMs : vm'[v] = "none" <=> vm[v] = "none"
          /\ \A v \in VMs : vm[v] = "gone" => vm'[v] = "gone"
      BY <3>2 DEF Resumed, VMTypes, RowInv
    <3>4. task'[t].at \in {"idle", "sleep"} /\ \A u \in Tasks \ {t} : task'[u] = task[u]
      BY <3>1 DEF Ends, Idle, Goes, TaskType
    <3>5. Placed(t)' /\ task'[t].at # "record"
      BY <3>4 DEF Placed
    <3> QED
      BY <3>1, <3>3, <3>4, <3>5, PlacesKept
  <2>16. CASE Slept(t) \/ Delete(t)
    <3>1. Holds(t) /\ UNCHANGED vm
      BY <2>16 DEF Slept, Delete, At, Holds, Holding, machines
    <3>2. row'.vm = None \/ (row'.vm = row.vm /\ row'.id = row.id)
      <4>1. CASE Slept(t)
        BY <4>1 DEF Slept, Asleep, Released, RowType
      <4>2. CASE Delete(t)
        BY <4>2 DEF Delete, NoRow
      <4> QED
        BY <2>16, <4>1, <4>2
    <3>3. RowInv' /\ Launched'
      BY <3>1, <3>2 DEF RowInv, Launched
    <3>4. task'[t].at = "idle" /\ \A u \in Tasks \ {t} : task'[u] = task[u]
      BY <2>16 DEF Slept, Delete, Ends, Idle, TaskType
    <3>5. Placed(t)'
      BY <3>4 DEF Placed
    <3> QED
      BY <3>1, <3>3, <3>4, <3>5, HolderPlaces
  <2>17. provider \in {"e2b", "modal"}
    BY TypesTogether DEF SettingTypes, Providers
  <2> QED
    BY <1>1, <2>1, <2>4, <2>5, <2>6, <2>7, <2>8, <2>9, <2>10, <2>11, <2>12, <2>13, <2>14, <2>15, <2>16,
       <2>17 DEF Step
<1>2. ASSUME NEW t \in Tasks, Wake(t) \/ List(t) \/ GiveUp(t) \/ Crash(t)
      PROVE  PlaceInv'
  <2>1. UNCHANGED <<row, vm>>
    BY <1>2 DEF Wake, List, GiveUp, Crash, store, machines
  <2>2. task'[t].at \in {"find", "listed", "idle"} /\ \A u \in Tasks \ {t} : task'[u] = task[u]
    BY <1>2 DEF Wake, List, GiveUp, Crash, Goes, Ends, Idle, TaskType
  <2> QED
    BY <2>1, <2>2, PlacesKeptElsewhere DEF Elsewhere, Places, Holding
<1>3. ASSUME NEW p \in Procs, Process(p)
      PROVE  PlaceInv'
  <2>1. UNCHANGED <<vm, task>> /\ row'.vm = row.vm /\ row'.id = row.id
    BY <1>3 DEF Process, Enroll, Authenticate, Touch, Reject, Break, Heard, RowType, store, machines
  <2> QED
    BY <2>1, PlacesKeptElsewhere
<1>4. ASSUME NEW v \in VMs, VMEnds(v)
      PROVE  PlaceInv'
  <2>1. UNCHANGED <<row, task>>
    BY <1>4 DEF VMEnds, store
  <2>2. vm[v] \in {"up", "paused"} /\ \E fate \in {"gone", "paused"} : vm' = [vm EXCEPT ![v] = fate]
    BY <1>4 DEF VMEnds, Kills
  <2>3. /\ \A w \in VMs : vm'[w] = "none" <=> vm[w] = "none"
        /\ \A w \in VMs : vm[w] = "gone" => vm'[w] = "gone"
    BY <2>2 DEF VMTypes
  <2> QED
    BY <2>1, <2>3, PlacesKept
<1>5. CASE Lapse \/ GoesStale \/ Unwant \/ UNCHANGED vars
  <2>1. UNCHANGED <<vm, task>> /\ row'.vm = row.vm /\ row'.id = row.id
    BY <1>5 DEF Lapse, GoesStale, Unwant, vars, Released, RowType, store, machines
  <2> QED
    BY <2>1, PlacesKeptElsewhere
<1> QED
  BY <1>1, <1>2, <1>3, <1>4, <1>5 DEF Next

-----------------------------------------------------------------------------
(* No VM is forgotten *)

\* A step in which VMs that come to live are known, and the VM the row named and those being
\* launched stay known
LEMMA NothingForgotten ==
  ASSUME TypeOK, NoVMForgotten, orphans \subseteq orphans',
         \A v \in VMs : Alive(v)' => Alive(v) \/ Known(v)',
         row'.vm = row.vm \/ GoneOrNone,
         \A u \in Tasks : At(u, "record") =>
           task'[u] = task[u] \/ task[u].vm \in orphans' \/ task[u].vm = row'.vm
  PROVE  NoVMForgotten'
<1> SUFFICES ASSUME NEW v \in VMs, Alive(v)', ~Known(v)'
             PROVE  FALSE
  BY DEF NoVMForgotten
<1>1. Alive(v) /\ Known(v)
  BY DEF NoVMForgotten
<1>2. v # row.vm
  BY <1>1, Zeros DEF GoneOrNone, Alive, Known
<1>3. v \notin orphans
  BY DEF Known
<1>4. PICK u \in Tasks : At(u, "record") /\ task[u].vm = v
  BY <1>1, <1>2, <1>3 DEF Known, Launching
<1> QED
  BY <1>4 DEF Known, Launching, At

\* and in which no VM comes to live and no launch goes on
LEMMA NothingLaunched ==
  ASSUME TypeOK, NoVMForgotten, NEW t \in Tasks, ~At(t, "record"), UNCHANGED orphans,
         \A v \in VMs : Alive(v)' => Alive(v),
         row'.vm = row.vm \/ GoneOrNone,
         \A u \in Tasks \ {t} : task'[u] = task[u]
  PROVE  NoVMForgotten'
  BY NothingForgotten

LEMMA NoVMForgottenKept ==
  ASSUME TypeOK, OneAtATime, PlaceInv, NoVMForgotten, [Next]_vars
  PROVE  NoVMForgotten'
<1>0. RowType /\ VMTypes /\ TaskType
  BY TypesTogether
<1> USE <1>0
<1>1. ASSUME NEW t \in Tasks, Step(t)
      PROVE  NoVMForgotten'
  <2> DEFINE Alone == \A u \in Tasks \ {t} : task'[u] = task[u]
  <2>1. CASE \/ Find(t) \/ Look(t) \/ LeaseToWake(t) \/ BringUp(t) \/ Rejoin(t) \/ Spawn(t)
             \/ Refuse(t) \/ Wait(t) \/ Finish(t) \/ LeaseToKeep(t) \/ Recheck(t)
             \/ SleepFails(t) \/ TerminateFails(t)
    <3>1. ~At(t, "record") /\ UNCHANGED machines
      BY <2>1 DEF Find, Look, LeaseToWake, BringUp, Rejoin, Spawn, Refuse, Wait, Finish,
                  LeaseToKeep, Recheck, SleepFails, TerminateFails, At
    <3>2. Alone
      <4>1. CASE Find(t) \/ Look(t) \/ LeaseToWake(t) \/ BringUp(t)
        BY <4>1 DEF Find, Look, LeaseToWake, Leases, BringUp, Succeeds, Operates, Goes, Ends, TaskType
      <4>2. CASE Rejoin(t) \/ Spawn(t) \/ Refuse(t) \/ Wait(t) \/ Finish(t)
        BY <4>2 DEF Rejoin, Spawn, Refuse, Wait, Finish, Succeeds, Fails, Operates, Goes, Ends,
                    TaskType
      <4>3. CASE LeaseToKeep(t) \/ Recheck(t) \/ SleepFails(t) \/ TerminateFails(t)
        BY <4>3 DEF LeaseToKeep, Leases, Recheck, Releases, SleepFails, TerminateFails, Goes, Ends,
                    TaskType
      <4> QED
        BY <2>1, <4>1, <4>2, <4>3
    <3>3. row'.vm = row.vm
      <4>1. CASE Find(t) \/ Look(t) \/ LeaseToWake(t) \/ BringUp(t) \/ Rejoin(t) \/ Finish(t)
        BY <4>1 DEF Find, Look, LeaseToWake, Leases, BringUp, Rejoin, Finish, Succeeds, Settled,
                    Released, RowType, store
      <4>2. CASE Spawn(t) \/ Refuse(t) \/ Wait(t) \/ LeaseToKeep(t)
        BY <4>2 DEF Spawn, Starts, Enrolled, Refuse, Wait, LeaseToKeep, Leases, Succeeds, Fails,
                    Settled, Released, RowType
      <4>3. CASE Recheck(t) \/ SleepFails(t) \/ TerminateFails(t)
        BY <4>3 DEF Recheck, SleepFails, TerminateFails, Releases, Settled, Released, RowType
      <4> QED
        BY <2>1, <4>1, <4>2, <4>3
    <3>4. \A v \in VMs : Alive(v)' => Alive(v)
      BY <3>1 DEF machines, Alive
    <3> QED
      BY <3>1, <3>2, <3>3, <3>4, NothingLaunched DEF machines
  <2>2. CASE Insert(t)
    <3>1. ~At(t, "record") /\ UNCHANGED machines
      BY <2>2 DEF Insert, At
    <3>2. Alone
      BY <2>2 DEF Insert, Goes, TaskType
    <3>3. row'.vm = row.vm \/ GoneOrNone
      BY <2>2 DEF Insert, store, PlaceInv, RowInv, GoneOrNone, Exists
    <3>4. \A v \in VMs : Alive(v)' => Alive(v)
      BY <3>1 DEF machines, Alive
    <3> QED
      BY <3>1, <3>2, <3>3, <3>4, NothingLaunched DEF machines
  <2>3. CASE Resume(t) \/ Renew(t) \/ KillFirst(t) \/ Sleep(t) \/ Terminate(t)
    <3>1. ~At(t, "record") /\ UNCHANGED orphans
      BY <2>3 DEF Resume, Renew, KillFirst, Sleep, Terminate, At, machines
    <3>2. Alone
      BY <2>3 DEF Resume, Renew, Releases, KillFirst, Sleep, Terminate, Goes, Ends, TaskType
    <3>3. row'.vm = row.vm
      BY <2>3 DEF Resume, Renew, Releases, Released, KillFirst, Sleep, Terminate, RowType, store
    <3>4. \A v \in VMs : Alive(v)' => Alive(v)
      <4>1. CASE vm' = Resumed \/ vm' = vm
        BY <4>1 DEF Resumed, VMTypes, Alive
      <4>2. CASE \E v \in 0 .. MaxVMs : Kills(v)
        BY <4>2 DEF Kills, VMTypes, Alive
      <4>3. CASE vm' = [vm EXCEPT ![row.vm] = IF @ = "up" THEN "paused" ELSE @]
        BY <4>3 DEF VMTypes, Alive
      <4>4. row.vm \in 0 .. MaxVMs
        BY DEF RowType
      <4> QED
        BY <2>3, <4>1, <4>2, <4>3, <4>4 DEF Resume, Renew, KillFirst, Sleep, Terminate
    <3> QED
      BY <3>1, <3>2, <3>3, <3>4, NothingLaunched
  <2>4. CASE Launch(t)
    <3>1. At(t, "launch") /\ NextVM \in VMs /\ UNCHANGED orphans
      BY <2>4 DEF Launch
    <3>2. vm' = [vm EXCEPT ![NextVM] = "up"] /\ row'.vm = row.vm
      BY <2>4 DEF Launch, Starts, Enrolled, RowType
    <3>3. task' = [task EXCEPT ![t].at = "record", ![t].vm = NextVM]
      BY <2>4 DEF Launch
    <3>4. /\ task'[t].at = "record" /\ task'[t].vm = NextVM
          /\ \A u \in Tasks \ {t} : task'[u] = task[u]
      BY <3>3 DEF TaskType
    <3>5. \A v \in VMs : task'[t].vm = v => Known(v)'
      BY <3>4 DEF Known, Launching, At
    <3>6. \A v \in VMs : task'[t].vm # v /\ Alive(v)' => Alive(v)
      BY <3>1, <3>2, <3>4 DEF VMTypes, Alive
    <3>7. \A v \in VMs : Alive(v)' => Alive(v) \/ Known(v)'
      BY <3>5, <3>6
    <3>8. \A u \in Tasks : At(u, "record") => task'[u] = task[u]
      BY <3>1, <3>4 DEF At
    <3> QED
      BY <3>1, <3>2, <3>7, <3>8, NothingForgotten
  <2>5. CASE LaunchHalfway(t)
    <3>1. PICK fate \in {"up", "gone"} :
            /\ vm' = [vm EXCEPT ![NextVM] = fate]
            /\ orphans' = IF fate = "up" THEN orphans \cup {NextVM} ELSE orphans
      BY <2>5 DEF LaunchHalfway
    <3>2. At(t, "launch") /\ \A u \in Tasks \ {t} : task'[u] = task[u]
      BY <2>5 DEF LaunchHalfway, Ends, TaskType
    <3>3. row'.vm = row.vm
      BY <2>5 DEF LaunchHalfway, Settled, Released, RowType
    <3>4. ASSUME NEW v \in VMs, Alive(v)'
          PROVE  Alive(v) \/ v \in orphans'
      BY <3>1, <3>4 DEF VMTypes, Alive
    <3>5. \A v \in VMs : Alive(v)' => Alive(v) \/ Known(v)'
      BY <3>4 DEF Known
    <3>6. \A u \in Tasks : At(u, "record") => task'[u] = task[u]
      BY <3>2 DEF At
    <3> QED
      BY <3>1, <3>3, <3>5, <3>6, NothingForgotten
  <2>6. CASE Record(t)
    <3>1. At(t, "record") /\ UNCHANGED <<vm, orphans>> /\ row'.vm = task[t].vm
      BY <2>6 DEF Record, machines, RowType
    <3>2. \A u \in Tasks \ {t} : task'[u] = task[u]
      BY <2>6 DEF Record, TaskType
    <3>3. GoneOrNone
      BY <3>1 DEF At, PlaceInv, Placed
    <3>4. \A v \in VMs : Alive(v)' => Alive(v)
      BY <3>1 DEF Alive
    <3> QED
      BY <3>1, <3>2, <3>3, <3>4, NothingForgotten
  <2>7. CASE Slept(t) \/ Delete(t)
    <3>1. ~At(t, "record") /\ UNCHANGED machines
      BY <2>7 DEF Slept, Delete, At
    <3>2. Alone
      BY <2>7 DEF Slept, Delete, Ends, TaskType
    <3>3. row'.vm = row.vm \/ GoneOrNone
      <4>1. CASE Slept(t) /\ provider = "e2b"
        BY <4>1 DEF Slept, Asleep, Released, RowType
      <4>2. CASE Slept(t) /\ provider = "modal"
        BY <4>2 DEF Slept, At, PlaceInv, Placed
      <4>3. CASE Delete(t)
        BY <4>3 DEF Delete, At, PlaceInv, Placed
      <4>4. provider \in {"e2b", "modal"}
        BY TypesTogether DEF SettingTypes, Providers
      <4> QED
        BY <2>7, <4>1, <4>2, <4>3, <4>4
    <3>4. \A v \in VMs : Alive(v)' => Alive(v)
      BY <3>1 DEF machines, Alive
    <3> QED
      BY <3>1, <3>2, <3>3, <3>4, NothingLaunched DEF machines
  <2> QED
    BY <1>1, <2>1, <2>2, <2>3, <2>4, <2>5, <2>6, <2>7 DEF Step
<1>2. ASSUME NEW t \in Tasks, Wake(t) \/ List(t) \/ GiveUp(t) \/ Crash(t)
      PROVE  NoVMForgotten'
  <2>1. /\ UNCHANGED <<row, vm>> /\ orphans \subseteq orphans'
        /\ At(t, "record") => task[t].vm \in orphans'
    BY <1>2 DEF Wake, List, GiveUp, Crash, At, store, machines
  <2>2. \A u \in Tasks \ {t} : task'[u] = task[u]
    BY <1>2 DEF Wake, List, GiveUp, Crash, Goes, Ends, TaskType
  <2>3. \A v \in VMs : Alive(v)' => Alive(v)
    BY <2>1 DEF Alive
  <2> QED
    BY <2>1, <2>2, <2>3, NothingForgotten
<1>3. ASSUME NEW v \in VMs, VMEnds(v)
      PROVE  NoVMForgotten'
  <2>1. UNCHANGED <<row, orphans, task>>
    BY <1>3 DEF VMEnds, store
  <2>2. vm[v] \in {"up", "paused"} /\ \E fate \in {"gone", "paused"} : vm' = [vm EXCEPT ![v] = fate]
    BY <1>3 DEF VMEnds, Kills
  <2>3. \A w \in VMs : Alive(w)' => Alive(w)
    BY <2>2 DEF VMTypes, Alive
  <2> QED
    BY <2>1, <2>3, NothingForgotten
<1>4. ASSUME UNCHANGED <<vm, orphans, task>>, row'.vm = row.vm
      PROVE  NoVMForgotten'
  BY <1>4 DEF NoVMForgotten, Alive, Known, Launching, At
<1>5. ASSUME NEW p \in Procs, Process(p)
      PROVE  NoVMForgotten'
  <2>1. UNCHANGED <<vm, orphans, task>> /\ row'.vm = row.vm
    BY <1>5 DEF Process, Enroll, Authenticate, Touch, Reject, Break, Heard, RowType, store, machines
  <2> QED
    BY <1>4, <2>1
<1>6. CASE Lapse \/ GoesStale \/ Unwant \/ UNCHANGED vars
  <2>1. UNCHANGED <<vm, orphans, task>> /\ row'.vm = row.vm
    BY <1>6 DEF Lapse, GoesStale, Unwant, vars, Released, RowType, store, machines
  <2> QED
    BY <1>4, <2>1
<1> QED
  BY <1>1, <1>2, <1>3, <1>5, <1>6 DEF Next

-----------------------------------------------------------------------------
(* A sleeping sandbox has what it wakes from *)

LEMMA CanWakeKept ==
  ASSUME TypeOK, PlaceInv, CanWake, [Next]_vars
  PROVE  CanWake'
<1>0. RowType
  BY TypesTogether
<1> USE <1>0
<1>1. ASSUME UNCHANGED provider,
             \/ row'.status # "sleeping"
             \/ row'.status = row.status /\ row'.vm = row.vm /\ row'.snapshot = row.snapshot
      PROVE  CanWake'
  BY <1>1 DEF CanWake
<1>2. UNCHANGED provider
  BY DEF Next, Step, Process, vars, Find, Insert, Look, LeaseToWake, BringUp, Resume, Rejoin, Spawn,
         KillFirst, Launch, LaunchHalfway, Refuse, Record, Wait, Finish, LeaseToKeep, Recheck,
         Renew, Sleep, SleepFails, Slept, Terminate, TerminateFails, Delete, Wake, List, GiveUp,
         Crash, Enroll, Authenticate, Touch, Reject, Break, VMEnds, Lapse, GoesStale, Unwant
<1>3. ASSUME NEW t \in Tasks, Step(t)
      PROVE  CanWake'
  <2> DEFINE Keeps == row'.status = row.status /\ row'.vm = row.vm /\ row'.snapshot = row.snapshot
  <2>1. CASE \/ Find(t) \/ Look(t) \/ LeaseToWake(t) \/ Resume(t) \/ KillFirst(t)
             \/ Finish(t) \/ LeaseToKeep(t) \/ Sleep(t) \/ Terminate(t)
    <3>1. Keeps
      BY <2>1 DEF Find, Look, LeaseToWake, Resume, KillFirst, Finish, LeaseToKeep, Leases, Sleep,
                  Terminate, RowType, store
    <3> QED
      BY <1>1, <1>2, <3>1
  <2>2. CASE Insert(t) \/ Record(t) \/ Delete(t)
    <3>1. Keeps \/ row'.status # "sleeping"
      <4>1. CASE Insert(t)
        BY <4>1 DEF Insert, NoRow, store
      <4>2. CASE Record(t)
        BY <4>2 DEF Record, RowType
      <4>3. CASE Delete(t)
        BY <4>3 DEF Delete, NoRow
      <4> QED
        BY <2>2, <4>1, <4>2, <4>3
    <3> QED
      BY <1>1, <1>2, <3>1
  <2>3. CASE Spawn(t) \/ Launch(t) \/ Renew(t) \/ Recheck(t) \/ TerminateFails(t)
    <3>1. Keeps
      BY <2>3 DEF Spawn, Launch, Starts, Enrolled, Renew, Recheck, TerminateFails, Releases, Released,
                  Settled, RowType
    <3> QED
      BY <1>1, <1>2, <3>1
  <2>4. CASE BringUp(t) \/ Rejoin(t) \/ Wait(t) \/ LaunchHalfway(t) \/ Refuse(t) \/ SleepFails(t)
    <3>1. Keeps \/ row'.status # "sleeping"
      BY <2>4 DEF BringUp, Rejoin, Wait, LaunchHalfway, Refuse, SleepFails, Succeeds, Fails,
                  Settled, Released, RowType
    <3> QED
      BY <1>1, <1>2, <3>1
  <2>5. CASE Slept(t)
    <3>1. row.vm # None
      BY <2>5 DEF Slept, At, PlaceInv, Placed
    <3>2. CASE provider = "e2b"
      BY <1>2, <2>5, <3>1, <3>2 DEF Slept, Asleep, Released, RowType, CanWake
    <3>3. CASE provider # "e2b"
      BY <1>2, <2>5, <3>1, <3>3 DEF Slept, Asleep, Released, RowType, CanWake
    <3> QED
      BY <3>2, <3>3
  <2> QED
    BY <1>3, <2>1, <2>2, <2>3, <2>4, <2>5 DEF Step
<1>4. ASSUME \/ \E t \in Tasks : Wake(t) \/ List(t) \/ GiveUp(t) \/ Crash(t)
             \/ \E p \in Procs : Process(p)
             \/ \E v \in VMs : VMEnds(v)
             \/ Lapse \/ GoesStale \/ Unwant \/ UNCHANGED vars
      PROVE  CanWake'
  <2>1. row'.status = row.status /\ row'.vm = row.vm /\ row'.snapshot = row.snapshot
    BY <1>4 DEF Wake, List, GiveUp, Crash, Process, Enroll, Authenticate, Touch, Reject, Break, Heard,
                VMEnds, Lapse, Released, GoesStale, Unwant, vars, store, RowType
  <2> QED
    BY <1>1, <1>2, <2>1
<1> QED
  BY <1>3, <1>4 DEF Next

-----------------------------------------------------------------------------
(* The inductive invariant *)

IInv == TypeOK /\ OneAtATime /\ PlaceInv /\ NoVMForgotten /\ CanWake

LEMMA InitIInv == Init => IInv
<1> SUFFICES ASSUME Init PROVE IInv
  OBVIOUS
<1> USE Zeros DEF Init
<1>1. TypeOK
  BY InitTypes
<1>2. OneAtATime
  BY DEF OneAtATime, Holds, Holding, Idle
<1>3. RowInv /\ RecordsVM
  BY DEF RowInv, RecordsVM, NoRow, At, Idle
<1>4. Launched
  BY BoundsAssumption DEF Launched, VMs
<1>5. \A t \in Tasks : Placed(t)
  BY DEF Placed, Idle
<1>6. NoVMForgotten /\ CanWake
  BY DEF NoVMForgotten, Alive, CanWake, NoRow
<1> QED
  BY <1>1, <1>2, <1>3, <1>4, <1>5, <1>6 DEF IInv, PlaceInv

LEMMA IInvKept == IInv /\ [Next]_vars => IInv'
<1> SUFFICES ASSUME IInv, [Next]_vars PROVE IInv'
  OBVIOUS
<1> USE DEF IInv
<1>1. RecordsVM
  BY DEF PlaceInv
<1>2. TypeOK'
  <2>1. RowType' /\ MadeType'
    BY RowTypeKept
  <2>2. VMTypes'
    BY <1>1, VMTypesKept
  <2>3. ProcTypes' /\ TaskType' /\ SettingTypes'
    BY ProcTypesKept, TaskTypeKept, SettingTypesKept
  <2> QED
    BY <2>1, <2>2, <2>3 DEF TypeOK, SettingTypes, RowType, MadeType, VMTypes, ProcTypes, TaskType
<1>3. OneAtATime' /\ PlaceInv'
  BY OneAtATimeKept, PlaceKept
<1>4. NoVMForgotten' /\ CanWake'
  BY NoVMForgottenKept, CanWakeKept
<1> QED
  BY <1>2, <1>3, <1>4

LEMMA Invariance == Spec => []IInv
  BY InitIInv, IInvKept, PTL DEF Spec

\* Every variable always holds a value of its kind.
THEOREM TypesAreCorrect == Spec => []TypeOK
<1>1. IInv => TypeOK
  BY DEF IInv
<1> QED
  BY <1>1, Invariance, PTL

\* However wakes, sweeps, renewals and terminations cross, and whichever of them are dropped,
\* one task at a time works on the sandbox, on the row it leased (sandbox_lease).
THEOREM LeaseIsExclusive == Spec => []OneAtATime
<1>1. IInv => OneAtATime
  BY DEF IInv
<1> QED
  BY <1>1, Invariance, PTL

\* A VM the provider runs is named by the row, unless its launch was dropped or failed halfway
\* (bring_up, sleep, terminate_leased).
THEOREM EveryVMIsNamed == Spec => []NoVMForgotten
<1>1. IInv => NoVMForgotten
  BY DEF IInv
<1> QED
  BY <1>1, Invariance, PTL

\* A sandbox recorded as asleep names the paused VM or the snapshot it wakes from
\* (sandbox_slept).
THEOREM SleepersCanWake == Spec => []CanWake
<1>1. IInv => CanWake
  BY DEF IInv
<1> QED
  BY <1>1, Invariance, PTL

-----------------------------------------------------------------------------
(* What a wake rests on *)

\* A step in which no stream of a VM that is not up has a turn, no task is dropped between a
\* VM's launch or removal and the statement that records it, and no VM that was resumed ends
\* before its sandbox is settled.
Undisturbed ==
  /\ \A p \in Procs : Touch(p) => Up(proc[p].vm)
  /\ \A t \in Tasks : Crash(t) => ~At(t, "record") /\ ~At(t, "delete")
  /\ \A v \in VMs : VMEnds(v) => row.status # "sleeping" \/ v # row.vm \/ ~Up(v)

\* No process, row or launch under way names an orphan, and what a process names was launched.
Strays ==
  /\ \A v \in orphans : vm[v] # "none"
  /\ row.vm \notin orphans
  /\ \A t \in Tasks : At(t, "record") => task[t].vm \notin orphans
  /\ \A p \in Procs : proc[p].vm = None \/ (proc[p].vm \notin orphans /\ vm[proc[p].vm] # "none")

\* What is put to sleep runs; a Modal sandbox that sleeps names no VM, and only of those is the
\* VM killed before a launch.
Drowsy ==
  /\ \A t \in Tasks : task[t].at \in {"sleep", "slept"} => row.status = "running"
  /\ \A t \in Tasks : At(t, "kill") => provider = "modal"
  /\ row.status = "sleeping" /\ provider = "modal" => row.vm = None

\* A sandbox that is heard of in its sleep has its VM up, until it gets another or is removed.
Unsettled == \E t \in Tasks : At(t, "record") \/ At(t, "delete")
HeardIsUp == row.status = "sleeping" /\ (row.live \/ row.heard) /\ ~Unsettled => Up(row.vm)

\* A step that launches nothing, records nothing and starts no process
LEMMA StraysKeptBy ==
  ASSUME TypeOK, Strays, UNCHANGED orphans, row'.vm \in {row.vm, None},
         \A v \in VMs : vm'[v] = "none" => vm[v] = "none",
         \A t \in Tasks : task'[t].at = "record" => task'[t] = task[t],
         \A p \in Procs : proc'[p].vm \in {proc[p].vm, None}
  PROVE  Strays'
<1> VMTypes /\ ProcTypes
  BY TypesTogether
<1>1. /\ \A v \in orphans' : vm'[v] # "none"
      /\ row'.vm \notin orphans'
  BY Zeros DEF Strays, VMTypes
<1>2. \A t \in Tasks : At(t, "record")' => task'[t].vm \notin orphans'
  BY DEF Strays, At
<1>3. ASSUME NEW p \in Procs, proc'[p].vm # None
      PROVE  proc'[p].vm \notin orphans' /\ vm'[proc'[p].vm] # "none"
  <2>1. proc'[p].vm = proc[p].vm /\ proc[p].vm \in 0 .. MaxVMs
    BY <1>3 DEF ProcTypes
  <2>2. proc[p].vm \in VMs
    BY <1>3, <2>1, BoundsAssumption DEF VMs, None
  <2> QED
    BY <1>3, <2>1, <2>2 DEF Strays
<1> QED
  BY <1>1, <1>2, <1>3 DEF Strays

\* What becomes of the VM a process names
LEMMA ProcessesKeep ==
  ASSUME TypeOK
  PROVE  /\ \A v \in 0 .. MaxVMs : Kills(v) =>
               /\ \A q \in Procs : proc'[q].vm \in {proc[q].vm, None}
               /\ \A w \in VMs : vm'[w] = IF w = v THEN "gone" ELSE vm[w]
         /\ \A p \in Procs : Process(p) =>
               /\ \A q \in Procs : proc'[q].vm \in {proc[q].vm, None}
               /\ UNCHANGED <<vm, orphans, task>>
               /\ row'.vm = row.vm /\ row'.status = row.status /\ row'.id = row.id
<1> ProcTypes /\ RowType /\ VMTypes
  BY TypesTogether
<1>1. ASSUME NEW v \in 0 .. MaxVMs, Kills(v)
      PROVE  /\ \A q \in Procs : proc'[q].vm \in {proc[q].vm, None}
             /\ \A w \in VMs : vm'[w] = IF w = v THEN "gone" ELSE vm[w]
  BY <1>1 DEF Kills, Ended, NoProc, VMTypes
<1>2. ASSUME NEW p \in Procs, Process(p)
      PROVE  /\ \A q \in Procs : proc'[q].vm \in {proc[q].vm, None}
             /\ UNCHANGED <<vm, orphans, task>>
             /\ row'.vm = row.vm /\ row'.status = row.status /\ row'.id = row.id
  <2>1. UNCHANGED <<vm, orphans, task>>
    BY <1>2 DEF Process, Enroll, Authenticate, Touch, Reject, Break, machines
  <2>2. row'.vm = row.vm /\ row'.status = row.status /\ row'.id = row.id
    BY <1>2 DEF Process, Enroll, Authenticate, Touch, Reject, Break, Heard, RowType, store
  <2>3. proc' = proc \/ Stops(p) \/ \E state \in {"open", "seen", "session"} : Becomes(p, state)
    BY <1>2 DEF Process, Enroll, Authenticate, Touch, Reject, Break, Disconnects
  <2>4. \A q \in Procs : proc'[q].vm \in {proc[q].vm, None}
    BY <2>3 DEF Stops, Becomes, Ended, NoProc, ProcTypes
  <2> QED
    BY <2>1, <2>2, <2>4
<1> QED
  BY <1>1, <1>2

\* A task moves alone, and goes in one way each to where something is recorded or put to sleep.
LEMMA StepMoves ==
  ASSUME TypeOK, NEW t \in Tasks, Step(t) \/ Wake(t) \/ List(t) \/ GiveUp(t) \/ Crash(t)
  PROVE  /\ \A u \in Tasks \ {t} : task'[u] = task[u]
         /\ task'[t].at = "record" => Launch(t)
         /\ task'[t].at = "delete" => Terminate(t)
         /\ task'[t].at = "sleep" => Recheck(t) \/ Renew(t)
         /\ task'[t].at = "slept" => Sleep(t)
<1> TaskType
  BY TypesTogether
<1> USE DEF Goes, Ends, Idle, TaskType
<1>1. CASE Find(t) \/ Insert(t) \/ Look(t) \/ LeaseToWake(t) \/ BringUp(t)
  BY <1>1 DEF Find, Insert, Look, LeaseToWake, Leases, BringUp, Succeeds, Operates
<1>2. CASE Resume(t) \/ Rejoin(t) \/ Spawn(t) \/ KillFirst(t) \/ LaunchHalfway(t) \/ Refuse(t)
  BY <1>2 DEF Resume, Rejoin, Spawn, KillFirst, LaunchHalfway, Refuse, Succeeds, Operates
<1>3. CASE Launch(t)
  BY <1>3 DEF Launch
<1>4. CASE Record(t) \/ Wait(t) \/ Finish(t) \/ LeaseToKeep(t)
  BY <1>4 DEF Record, Wait, Finish, LeaseToKeep, Leases, Succeeds, Fails, Operates
<1>5. CASE Recheck(t) \/ Renew(t) \/ Sleep(t) \/ SleepFails(t)
  BY <1>5 DEF Recheck, Renew, Releases, Sleep, SleepFails
<1>6. CASE Slept(t) \/ Terminate(t) \/ TerminateFails(t) \/ Delete(t)
  BY <1>6 DEF Slept, Terminate, TerminateFails, Delete
<1>7. CASE Wake(t) \/ List(t) \/ GiveUp(t) \/ Crash(t)
  BY <1>7 DEF Wake, List, GiveUp, Crash
<1> QED
  BY <1>1, <1>2, <1>3, <1>4, <1>5, <1>6, <1>7 DEF Step

LEMMA StraysKept ==
  ASSUME IInv, Strays, [Next]_vars, Undisturbed
  PROVE  Strays'
<1>0. TypeOK /\ RowType /\ VMTypes /\ ProcTypes /\ TaskType /\ PlaceInv
  BY TypesTogether DEF IInv
<1> USE <1>0
<1>1. ASSUME NEW t \in Tasks, Step(t)
      PROVE  Strays'
  <2> DEFINE Kept == /\ UNCHANGED orphans /\ row'.vm \in {row.vm, None}
                     /\ \A v \in VMs : vm'[v] = "none" => vm[v] = "none"
                     /\ \A p \in Procs : proc'[p].vm \in {proc[p].vm, None}
  <2>1. ASSUME Kept, ~Launch(t)
        PROVE  Strays'
    <3>1. \A u \in Tasks : task'[u].at = "record" => task'[u] = task[u]
      BY <1>1, <2>1, StepMoves
    <3> QED
      BY <2>1, <3>1, StraysKeptBy
  <2>2. CASE Find(t) \/ Insert(t) \/ Look(t) \/ LeaseToWake(t) \/ BringUp(t) \/ Rejoin(t)
    <3>1. UNCHANGED <<machines, processes>>
      BY <2>2 DEF Find, Insert, Look, LeaseToWake, BringUp, Rejoin
    <3>2. row'.vm \in {row.vm, None}
      BY <2>2 DEF Find, Insert, Look, LeaseToWake, BringUp, Rejoin, Leases, Succeeds, Settled,
                  Released, NoRow, RowType, store
    <3>3. ~Launch(t)
      BY <2>2 DEF Find, Insert, Look, LeaseToWake, BringUp, Rejoin, Launch, At
    <3> QED
      BY <2>1, <3>1, <3>2, <3>3 DEF machines, processes
  <2>3. CASE \/ Refuse(t) \/ Wait(t) \/ Finish(t) \/ LeaseToKeep(t) \/ Recheck(t)
             \/ SleepFails(t) \/ Slept(t) \/ TerminateFails(t) \/ Delete(t)
    <3>1. UNCHANGED <<machines, processes>>
      BY <2>3 DEF Refuse, Wait, Finish, LeaseToKeep, Recheck, SleepFails, Slept, TerminateFails, Delete
    <3>2. row'.vm \in {row.vm, None}
      <4>1. CASE Refuse(t) \/ Wait(t) \/ Finish(t) \/ LeaseToKeep(t) \/ Recheck(t)
        BY <4>1 DEF Refuse, Wait, Finish, LeaseToKeep, Recheck, Leases, Releases, Succeeds, Fails,
                    Settled, Released, RowType, store
      <4>2. CASE SleepFails(t) \/ TerminateFails(t)
        BY <4>2 DEF SleepFails, TerminateFails, Settled, Released, RowType
      <4>3. CASE Slept(t)
        BY <4>3 DEF Slept, Asleep, Released, RowType
      <4>4. CASE Delete(t)
        BY <4>4 DEF Delete, NoRow
      <4> QED
        BY <2>3, <4>1, <4>2, <4>3, <4>4
    <3>3. CASE Launch(t)
      <4>1. NextVM \in VMs /\ vm' = [vm EXCEPT ![NextVM] = "up"]
        BY <3>3 DEF Launch
      <4>2. vm[NextVM] = "none" /\ vm' = vm
        BY <3>1, <4>1, NextVMIsNew DEF machines, PlaceInv
      <4> QED
        BY <4>1, <4>2 DEF VMTypes
    <3> QED
      BY <2>1, <3>1, <3>2, <3>3 DEF machines, processes
  <2>4. CASE Resume(t) \/ Renew(t) \/ KillFirst(t) \/ Sleep(t) \/ Terminate(t)
    <3>1. UNCHANGED orphans /\ ~Launch(t)
      BY <2>4 DEF Resume, Renew, KillFirst, Sleep, Terminate, Launch, At, machines
    <3>2. row'.vm = row.vm
      BY <2>4 DEF Resume, Renew, Releases, Released, KillFirst, Sleep, Terminate, RowType, store
    <3>3. \/ vm' \in {vm, Resumed} /\ UNCHANGED proc
          \/ vm' = [vm EXCEPT ![row.vm] = IF @ = "up" THEN "paused" ELSE @] /\ UNCHANGED proc
          \/ Kills(row.vm)
      BY <2>4 DEF Resume, Renew, KillFirst, Sleep, Terminate, processes
    <3>4. CASE Kills(row.vm)
      <4>1. row.vm \in 0 .. MaxVMs
        BY DEF RowType
      <4> QED
        BY <2>1, <3>1, <3>2, <3>4, <4>1, ProcessesKeep
    <3>5. CASE ~Kills(row.vm)
      <4>1. \A v \in VMs : vm'[v] = "none" => vm[v] = "none"
        BY <3>3, <3>5 DEF Resumed, VMTypes
      <4> QED
        BY <2>1, <3>1, <3>2, <3>3, <3>5, <4>1
    <3> QED
      BY <3>4, <3>5
  <2>5. CASE Spawn(t)
    <3>1. /\ row.vm \in VMs /\ vm[row.vm] = "up" /\ UNCHANGED machines /\ row'.vm = row.vm
          /\ proc' = [proc EXCEPT ![NextProc] = [state |-> "token", vm |-> row.vm, id |-> row.id]]
      BY <2>5 DEF Spawn, Up, Starts, Enrolled, RowType
    <3>2. \A p \in Procs : proc'[p].vm \in {proc[p].vm, row.vm}
      BY <3>1 DEF ProcTypes
    <3>3. \A u \in Tasks : At(u, "record")' => task'[u] = task[u]
      BY <1>1, <2>5, StepMoves DEF At, Spawn, Goes, TaskType
    <3> QED
      BY <3>1, <3>2, <3>3 DEF Strays, At, machines
  <2>6. CASE Launch(t) \/ LaunchHalfway(t)
    <3>1. /\ NextVM \in VMs /\ vm[NextVM] = "none"
          /\ \E fate \in {"up", "gone"} : vm' = [vm EXCEPT ![NextVM] = fate]
      BY <2>6, NextVMIsNew DEF Launch, LaunchHalfway, PlaceInv
    <3>2. /\ \A v \in VMs \ {NextVM} : vm'[v] = vm[v]
          /\ vm'[NextVM] # "none" /\ NextVM \notin orphans /\ NextVM # None
      BY <3>1, Zeros DEF VMTypes, Strays
    <3>3. row'.vm = row.vm /\ (row.vm # None => vm[row.vm] # "none")
      BY <2>6 DEF Launch, LaunchHalfway, Starts, Enrolled, Settled, Released, RowType, PlaceInv, RowInv
    <3>4. \A p \in Procs : proc[p].vm = None \/ proc[p].vm \in VMs
      BY BoundsAssumption DEF ProcTypes, VMs, None
    <3>5. CASE Launch(t)
      <4>1. UNCHANGED orphans
        BY <3>5 DEF Launch
      <4>2. \A p \in Procs : proc'[p].vm \in {proc[p].vm, NextVM}
        BY <3>5 DEF Launch, Starts, ProcTypes
      <4>3. \A u \in Tasks : At(u, "record")' => task'[u] = task[u] \/ task'[u].vm = NextVM
        <5>1. task' = [task EXCEPT ![t].at = "record", ![t].vm = NextVM]
          BY <3>5 DEF Launch
        <5> QED
          BY <5>1 DEF TaskType
      <4>4. \A p \in Procs : \/ proc'[p].vm = None
                             \/ proc'[p].vm \notin orphans' /\ vm'[proc'[p].vm] # "none"
        BY <3>2, <3>4, <4>1, <4>2 DEF Strays
      <4>5. \A v \in orphans' : vm'[v] # "none"
        BY <3>2, <4>1 DEF Strays, VMTypes
      <4> QED
        BY <3>2, <3>3, <4>1, <4>3, <4>4, <4>5 DEF Strays, At
    <3>6. CASE LaunchHalfway(t)
      <4>1. orphans' \subseteq orphans \cup {NextVM} /\ UNCHANGED processes
        BY <3>6 DEF LaunchHalfway
      <4>2. \A u \in Tasks : At(u, "record")' => task'[u] = task[u]
        BY <1>1, <3>6, StepMoves DEF At, LaunchHalfway, Ends, Idle, TaskType
      <4>3. \A u \in Tasks : At(u, "record")' => task'[u].vm \notin orphans'
        BY <3>1, <4>1, <4>2 DEF Strays, PlaceInv, RecordsVM, At
      <4>4. \A p \in Procs : \/ proc'[p].vm = None
                             \/ proc'[p].vm \notin orphans' /\ vm'[proc'[p].vm] # "none"
        BY <3>1, <3>2, <3>4, <4>1 DEF Strays, processes
      <4>5. row'.vm \notin orphans'
        BY <3>1, <3>2, <3>3, <4>1 DEF Strays
      <4>6. \A v \in orphans' : vm'[v] # "none"
        BY <3>2, <4>1 DEF Strays, VMTypes
      <4> QED
        BY <4>3, <4>4, <4>5, <4>6 DEF Strays
    <3> QED
      BY <2>6, <3>5, <3>6
  <2>7. CASE Record(t)
    <3>1. /\ At(t, "record") /\ UNCHANGED <<machines, processes>> /\ row'.vm = task[t].vm
          /\ task' = [task EXCEPT ![t].at = "wait", ![t].vm = None]
      BY <2>7 DEF Record, RowType
    <3>2. \A u \in Tasks : At(u, "record")' => task'[u] = task[u]
      BY <3>1 DEF At, TaskType
    <3>3. row'.vm \notin orphans' /\ \A v \in orphans' : vm'[v] # "none"
      BY <3>1 DEF Strays, At, machines
    <3>4. ASSUME NEW u \in Tasks, At(u, "record")'
          PROVE  task'[u].vm \notin orphans'
      <4>1. task'[u] = task[u] /\ orphans' = orphans
        BY <3>1, <3>2, <3>4 DEF machines
      <4>2. At(u, "record")
        BY <3>4, <4>1 DEF At
      <4> QED
        BY <4>1, <4>2 DEF Strays
    <3> QED
      BY <3>1, <3>3, <3>4 DEF Strays, machines, processes
  <2> QED
    BY <1>1, <2>2, <2>3, <2>4, <2>5, <2>6, <2>7 DEF Step
<1>2. ASSUME NEW t \in Tasks, Wake(t) \/ List(t) \/ GiveUp(t) \/ Crash(t)
      PROVE  Strays'
  <2>1. UNCHANGED <<row, vm, proc>>
    BY <1>2 DEF Wake, List, GiveUp, Crash, store, machines, processes
  <2>2. UNCHANGED orphans
    BY <1>2 DEF Wake, List, GiveUp, Crash, Undisturbed, machines
  <2>3. \A u \in Tasks : task'[u].at = "record" => task'[u] = task[u]
    BY <1>2 DEF Wake, List, GiveUp, Crash, Goes, Ends, Idle, TaskType
  <2> QED
    BY <2>1, <2>2, <2>3, StraysKeptBy
<1>3. ASSUME NEW p \in Procs, Process(p)
      PROVE  Strays'
  BY <1>3, ProcessesKeep, StraysKeptBy
<1>4. ASSUME NEW v \in VMs, VMEnds(v)
      PROVE  Strays'
  <2>1. UNCHANGED <<row, orphans, task>>
    BY <1>4 DEF VMEnds, store
  <2>2. CASE Kills(v)
    BY <2>1, <2>2, ProcessesKeep, StraysKeptBy, Zeros
  <2>3. CASE vm' = [vm EXCEPT ![v] = "paused"] /\ UNCHANGED proc
    <3>1. \A w \in VMs : vm'[w] = "none" => vm[w] = "none"
      BY <2>3 DEF VMTypes
    <3> QED
      BY <2>1, <2>3, <3>1, StraysKeptBy
  <2> QED
    BY <1>4, <2>2, <2>3 DEF VMEnds
<1>5. CASE Lapse \/ GoesStale \/ Unwant \/ UNCHANGED vars
  <2>1. UNCHANGED <<vm, orphans, task, proc>> /\ row'.vm = row.vm
    BY <1>5 DEF Lapse, GoesStale, Unwant, vars, Released, RowType, store, machines, processes
  <2> QED
    BY <2>1, StraysKeptBy
<1> QED
  BY <1>1, <1>2, <1>3, <1>4, <1>5 DEF Next

\* What the steps of a task do to the row: its holder alone settles it, a sandbox is put to sleep
\* in one way, and no task makes it heard of.
LEMMA RowMoves ==
  ASSUME TypeOK, NEW t \in Tasks, Step(t)
  PROVE  /\ row'.status = row.status \/ Holds(t) \/ ~Exists
         /\ \/ row'.status # "sleeping"
            \/ row.status = "sleeping" /\ row'.vm = row.vm
            \/ Slept(t)
         /\ row'.live => row.live
         /\ row'.heard => row.heard
<1> RowType
  BY TypesTogether
<1> USE DEF RowType
<1>1. CASE \/ Find(t) \/ Look(t) \/ Resume(t) \/ KillFirst(t) \/ Finish(t) \/ Sleep(t)
           \/ Terminate(t)
  BY <1>1 DEF Find, Look, Resume, KillFirst, Finish, Sleep, Terminate, store
<1>2. CASE LeaseToWake(t) \/ LeaseToKeep(t)
  BY <1>2 DEF LeaseToWake, LeaseToKeep, Leases
<1>3. CASE Insert(t)
  BY <1>3 DEF Insert, NoRow, store
<1>4. CASE BringUp(t) \/ Rejoin(t) \/ Wait(t)
  BY <1>4 DEF BringUp, Rejoin, Wait, Succeeds, Fails, Settled, Released, At, Holds, Holding
<1>5. CASE Spawn(t) \/ Launch(t)
  BY <1>5 DEF Spawn, Launch, Starts, Enrolled
<1>6. CASE LaunchHalfway(t) \/ Refuse(t)
  BY <1>6 DEF LaunchHalfway, Refuse, Settled, Released, At, Holds, Holding
<1>7. CASE Record(t)
  BY <1>7 DEF Record, At, Holds, Holding
<1>8. CASE Recheck(t) \/ Renew(t)
  BY <1>8 DEF Recheck, Renew, Releases, Released
<1>9. CASE SleepFails(t) \/ TerminateFails(t)
  BY <1>9 DEF SleepFails, TerminateFails, Settled, Released, At, Holds, Holding
<1>10. CASE Slept(t)
  BY <1>10 DEF Slept, Asleep, Released, At, Holds, Holding
<1>11. CASE Delete(t)
  BY <1>11 DEF Delete, NoRow, At, Holds, Holding
<1> QED
  BY <1>1, <1>2, <1>3, <1>4, <1>5, <1>6, <1>7, <1>8, <1>9, <1>10, <1>11 DEF Step

LEMMA DrowsyKept ==
  ASSUME IInv, Drowsy, [Next]_vars
  PROVE  Drowsy'
<1>0. TypeOK /\ RowType /\ TaskType /\ OneAtATime /\ UNCHANGED provider
  BY TypesTogether, SettingTypesKept DEF IInv
<1> USE <1>0
<1>1. ASSUME NEW t \in Tasks, Step(t)
      PROVE  Drowsy'
  <2>1. ASSUME NEW u \in Tasks, task'[u].at \in {"sleep", "slept"}
        PROVE  row'.status = "running"
    <3>1. CASE u # t
      <4>1. Holds(u) /\ row.status = "running"
        BY <1>1, <2>1, <3>1, StepMoves DEF Drowsy, Holds, Holding
      <4>2. Exists /\ ~Holds(t)
        BY <3>1, <4>1 DEF OneAtATime, Is
      <4> QED
        BY <1>1, <4>1, <4>2, RowMoves
    <3>2. CASE u = t
      <4>1. Recheck(t) \/ Renew(t) \/ Sleep(t)
        BY <1>1, <2>1, <3>2, StepMoves
      <4>2. CASE Recheck(t)
        BY <2>1, <3>2, <4>2 DEF Recheck, Due, Goes, Releases, Ends, Idle, TaskType
      <4>3. CASE Renew(t)
        BY <2>1, <3>2, <4>3 DEF Renew, Ending, Goes, Releases, Ends, Idle, TaskType
      <4>4. CASE Sleep(t)
        BY <4>4 DEF Sleep, At, Drowsy, store
      <4> QED
        BY <4>1, <4>2, <4>3, <4>4
    <3> QED
      BY <3>1, <3>2
  <2>2. ASSUME NEW u \in Tasks, At(u, "kill")'
        PROVE  provider = "modal"
    <3>1. CASE task'[u] = task[u]
      BY <2>2, <3>1 DEF Drowsy, At
    <3>2. CASE task'[u] # task[u]
      <4>1. u = t
        BY <1>1, <3>2, StepMoves
      <4>2. BringUp(t) \/ ~BringUp(t)
        OBVIOUS
      <4>3. CASE BringUp(t)
        BY <2>2, <4>1, <4>3, TypesTogether DEF At, BringUp, Succeeds, Operates, Goes, Ends, Idle,
           TaskType, SettingTypes, Providers
      <4>4. CASE ~BringUp(t)
        <5> USE DEF At, Goes, Ends, Idle, TaskType
        <5>1. CASE Find(t) \/ Insert(t) \/ Look(t) \/ LeaseToWake(t) \/ Resume(t)
          BY <2>2, <4>1, <5>1 DEF Find, Insert, Look, LeaseToWake, Leases, Resume, Operates
        <5>2. CASE Rejoin(t) \/ Spawn(t) \/ KillFirst(t) \/ Launch(t) \/ LaunchHalfway(t)
          BY <2>2, <4>1, <5>2 DEF Rejoin, Spawn, KillFirst, Launch, LaunchHalfway, Succeeds, Operates
        <5>3. CASE Refuse(t) \/ Record(t) \/ Wait(t) \/ Finish(t) \/ LeaseToKeep(t)
          BY <2>2, <4>1, <5>3 DEF Refuse, Record, Wait, Finish, LeaseToKeep, Leases, Succeeds, Fails,
                                  Operates
        <5>4. CASE Recheck(t) \/ Renew(t) \/ Sleep(t) \/ SleepFails(t)
          BY <2>2, <4>1, <5>4 DEF Recheck, Renew, Releases, Sleep, SleepFails
        <5>5. CASE Slept(t) \/ Terminate(t) \/ TerminateFails(t) \/ Delete(t)
          BY <2>2, <4>1, <5>5 DEF Slept, Terminate, TerminateFails, Delete
        <5> QED
          BY <1>1, <4>4, <5>1, <5>2, <5>3, <5>4, <5>5 DEF Step
      <4> QED
        BY <4>2, <4>3, <4>4
    <3> QED
      BY <3>1, <3>2
  <2>3. row'.status = "sleeping" /\ provider = "modal" => row'.vm = None
    <3>1. CASE Slept(t)
      BY <3>1 DEF Slept, Asleep, Released, RowType
    <3>2. CASE ~Slept(t)
      BY <1>1, <3>2, RowMoves DEF Drowsy
    <3> QED
      BY <3>1, <3>2
  <2> QED
    BY <2>1, <2>2, <2>3 DEF Drowsy
<1>2. ASSUME row'.status = row.status, row'.vm = row.vm,
             \A u \in Tasks : task'[u] = task[u] \/ task'[u].at \notin {"sleep", "slept", "kill"}
      PROVE  Drowsy'
  BY <1>2 DEF Drowsy, At
<1>3. ASSUME NEW t \in Tasks, Wake(t) \/ List(t) \/ GiveUp(t) \/ Crash(t)
      PROVE  Drowsy'
  <2>1. \A u \in Tasks : task'[u] = task[u] \/ task'[u].at \notin {"sleep", "slept", "kill"}
    BY <1>3 DEF Wake, List, GiveUp, Crash, Goes, Ends, Idle, TaskType
  <2>2. UNCHANGED row
    BY <1>3 DEF Wake, List, GiveUp, Crash, store
  <2> QED
    BY <1>2, <2>1, <2>2
<1>4. ASSUME NEW p \in Procs, Process(p)
      PROVE  Drowsy'
  BY <1>2, <1>4, ProcessesKeep
<1>5. CASE Lapse \/ GoesStale \/ Unwant \/ UNCHANGED vars \/ \E v \in VMs : VMEnds(v)
  <2>1. UNCHANGED task /\ row'.vm = row.vm /\ row'.status = row.status
    BY <1>5 DEF Lapse, GoesStale, Unwant, VMEnds, vars, Released, RowType, store
  <2> QED
    BY <1>2, <2>1
<1> QED
  BY <1>1, <1>3, <1>4, <1>5 DEF Next

LEMMA HeardIsUpKept ==
  ASSUME IInv, Strays, Drowsy, HeardIsUp, [Next]_vars, Undisturbed
  PROVE  HeardIsUp'
<1>0. /\ TypeOK /\ RowType /\ VMTypes /\ ProcTypes /\ TaskType /\ OneAtATime /\ PlaceInv
      /\ NoVMForgotten /\ UNCHANGED provider
  BY TypesTogether, SettingTypesKept DEF IInv
<1> USE <1>0
<1>1. ASSUME NEW t \in Tasks, Step(t), row'.status = "sleeping", row'.live \/ row'.heard, ~Unsettled'
      PROVE  Up(row.vm)'
  <2>1. ~Slept(t)
    BY <1>1 DEF Slept, Asleep, Released, RowType
  <2>2. row.status = "sleeping" /\ row'.vm = row.vm /\ (row.live \/ row.heard)
    BY <1>1, <2>1, RowMoves
  <2>3. ~At(t, "record")
    <3>1. ASSUME At(t, "record")
          PROVE  Record(t)
      BY <1>1, <3>1 DEF Step, At, Find, Insert, Look, LeaseToWake, BringUp, Resume, Rejoin, Spawn,
        KillFirst, Launch, LaunchHalfway, Refuse, Wait, Finish, LeaseToKeep, Recheck, Renew, Sleep,
        SleepFails, Slept, Terminate, TerminateFails, Delete
    <3> QED
      BY <1>1, <3>1 DEF Record, RowType
  <2>4. ~At(t, "delete")
    <3>1. ASSUME At(t, "delete")
          PROVE  Delete(t)
      BY <1>1, <3>1 DEF Step, At, Find, Insert, Look, LeaseToWake, BringUp, Resume, Rejoin, Spawn,
        KillFirst, Launch, LaunchHalfway, Refuse, Record, Wait, Finish, LeaseToKeep, Recheck, Renew,
        Sleep, SleepFails, Slept, Terminate, TerminateFails
    <3> QED
      BY <1>1, <3>1 DEF Delete, NoRow
  <2>5. ~Unsettled
    BY <1>1, <2>3, <2>4, StepMoves DEF Unsettled, At
  <2>6. row.vm \in VMs /\ vm[row.vm] = "up"
    BY <2>2, <2>5 DEF HeardIsUp, Up
  <2>7. vm'[row.vm] = "up"
    <3>1. CASE Resume(t) \/ Renew(t)
      BY <2>6, <3>1 DEF Resume, Renew, Resumed, VMTypes
    <3>2. ~KillFirst(t)
      BY <2>2, <2>6, Zeros DEF KillFirst, Drowsy
    <3>3. ~Sleep(t)
      BY <2>2 DEF Sleep, At, Drowsy
    <3>4. ~Terminate(t)
      <4>1. Terminate(t) => At(t, "delete")'
        BY DEF Terminate, Goes, At, TaskType
      <4> QED
        BY <1>1, <4>1 DEF Unsettled
    <3>5. CASE Launch(t) \/ LaunchHalfway(t)
      <4>1. NextVM \in VMs /\ \E fate \in {"up", "gone"} : vm' = [vm EXCEPT ![NextVM] = fate]
        BY <3>5 DEF Launch, LaunchHalfway
      <4>2. NextVM # row.vm
        BY <2>6, <4>1, NextVMIsNew DEF PlaceInv
      <4> QED
        BY <2>6, <4>1, <4>2 DEF VMTypes
    <3>6. CASE ~(Resume(t) \/ Renew(t) \/ Launch(t) \/ LaunchHalfway(t))
      <4>1. UNCHANGED vm
        BY <1>1, <3>2, <3>3, <3>4, <3>6 DEF Step, Find, Insert, Look, LeaseToWake, BringUp, Rejoin,
          Spawn, Refuse, Record, Wait, Finish, LeaseToKeep, Recheck, SleepFails, Slept,
          TerminateFails, Delete, machines
      <4> QED
        BY <2>6, <4>1
    <3> QED
      BY <3>1, <3>5, <3>6
  <2> QED
    BY <2>2, <2>6, <2>7 DEF Up
<1>2. ASSUME NEW t \in Tasks, Wake(t) \/ List(t) \/ GiveUp(t) \/ Crash(t)
      PROVE  HeardIsUp'
  <2>1. UNCHANGED <<row, vm>>
    BY <1>2 DEF Wake, List, GiveUp, Crash, store, machines
  <2>2. ~At(t, "record") /\ ~At(t, "delete")
    BY <1>2 DEF Wake, List, GiveUp, Crash, Undisturbed, At
  <2>3. Unsettled => Unsettled'
    BY <1>2, <2>2, StepMoves DEF Unsettled, At
  <2> QED
    BY <2>1, <2>3 DEF HeardIsUp, Up
<1>3. ASSUME NEW p \in Procs, Process(p), row'.status = "sleeping", row'.live \/ row'.heard,
             ~Unsettled'
      PROVE  Up(row.vm)'
  <2>1. UNCHANGED <<vm, orphans, task>> /\ row'.vm = row.vm /\ row'.status = row.status
    BY <1>3, ProcessesKeep
  <2>2. ~Unsettled
    BY <1>3, <2>1 DEF Unsettled, At
  <2>3. CASE row.live \/ row.heard
    BY <1>3, <2>1, <2>2, <2>3 DEF HeardIsUp, Up
  <2>4. CASE ~(row.live \/ row.heard)
    <3>1. Touch(p) \/ Enroll(p)
      BY <1>3, <2>4 DEF Process, Authenticate, Reject, Break, store
    <3>2. Up(proc[p].vm)
      BY <3>1 DEF Enroll, Undisturbed
    <3>3. proc[p].vm \notin orphans
      BY <3>2, Zeros DEF Up, Strays
    <3>4. Known(proc[p].vm)
      BY <3>2 DEF NoVMForgotten, Alive, Up
    <3>5. proc[p].vm = row.vm
      BY <2>2, <3>3, <3>4 DEF Known, Launching, Unsettled
    <3> QED
      BY <2>1, <3>2, <3>5 DEF Up
  <2> QED
    BY <2>3, <2>4
<1>4. ASSUME NEW v \in VMs, VMEnds(v), row'.status = "sleeping", row'.live \/ row'.heard, ~Unsettled'
      PROVE  Up(row.vm)'
  <2>1. UNCHANGED <<row, task>>
    BY <1>4 DEF VMEnds, store
  <2>2. Up(row.vm)
    BY <1>4, <2>1 DEF HeardIsUp, Unsettled, At
  <2>3. v # row.vm
    BY <1>4, <2>1, <2>2 DEF Undisturbed
  <2>4. vm'[row.vm] = vm[row.vm]
    BY <1>4, <2>2, <2>3 DEF VMEnds, Kills, Up, VMTypes
  <2> QED
    BY <2>1, <2>2, <2>4 DEF Up
<1>5. CASE Lapse \/ GoesStale \/ Unwant \/ UNCHANGED vars
  <2>1. /\ UNCHANGED <<vm, task>> /\ row'.vm = row.vm /\ row'.status = row.status
        /\ (row'.live => row.live) /\ (row'.heard => row.heard)
    BY <1>5 DEF Lapse, GoesStale, Unwant, vars, Released, RowType, store, machines
  <2> QED
    BY <2>1 DEF HeardIsUp, Unsettled, At, Up
<1> QED
  BY <1>1, <1>2, <1>3, <1>4, <1>5 DEF Next, HeardIsUp

LEMMA WokenWhenHeard ==
  ASSUME IInv, Drowsy, HeardIsUp, [Next]_vars, row.status = "sleeping", row'.status = "running"
  PROVE  Up(row'.vm)
<1>0. TypeOK /\ RowType /\ OneAtATime
  BY TypesTogether DEF IInv
<1> USE <1>0
<1>1. PICK t \in Tasks : Step(t)
  <2>1. CASE \E p \in Procs : Process(p)
    BY <2>1, ProcessesKeep
  <2>2. CASE ~ \E p \in Procs : Process(p)
    BY <2>2 DEF Next, vars, Wake, List, GiveUp, Crash, VMEnds, Lapse, GoesStale, Unwant, Released,
                RowType, store
  <2> QED
    BY <2>1, <2>2
<1>2. BringUp(t) \/ Rejoin(t) \/ Wait(t)
  <2>1. CASE \/ Find(t) \/ Look(t) \/ Resume(t) \/ KillFirst(t) \/ Finish(t) \/ Sleep(t)
             \/ Terminate(t)
    BY <2>1 DEF Find, Look, Resume, KillFirst, Finish, Sleep, Terminate, store
  <2>2. CASE LeaseToWake(t) \/ LeaseToKeep(t) \/ Spawn(t) \/ Launch(t)
    BY <2>2 DEF LeaseToWake, LeaseToKeep, Leases, Spawn, Launch, Starts, Enrolled, RowType
  <2>3. ~Insert(t) /\ ~Delete(t)
    <3>1. Insert(t) => UNCHANGED row \/ row'.status = "starting"
      BY DEF Insert, NoRow, store
    <3>2. Delete(t) => row'.status = "starting"
      BY DEF Delete, NoRow
    <3> QED
      BY <3>1, <3>2
  <2>4. CASE LaunchHalfway(t) \/ Refuse(t) \/ TerminateFails(t)
    BY <2>4 DEF LaunchHalfway, Refuse, TerminateFails, Settled, Released, RowType
  <2>5. CASE Record(t) \/ Recheck(t) \/ Renew(t)
    BY <2>5 DEF Record, Recheck, Renew, Releases, Released, RowType
  <2>6. CASE SleepFails(t)
    BY <2>6 DEF SleepFails, At, Drowsy
  <2>7. CASE Slept(t)
    BY <2>7 DEF Slept, At, Drowsy
  <2> QED
    BY <1>1, <2>1, <2>2, <2>3, <2>4, <2>5, <2>6, <2>7 DEF Step
<1>3. (row.live \/ row.heard) /\ row'.vm = row.vm
  BY <1>2 DEF BringUp, Rejoin, Wait, Succeeds, Fails, Settled, Released, RowType
<1>4. Holds(t) /\ ~At(t, "record") /\ ~At(t, "delete")
  BY <1>2 DEF BringUp, Rejoin, Wait, At, Holds, Holding
<1>5. ~Unsettled
  BY <1>4 DEF Unsettled, OneAtATime, Holds, Holding, At
<1> QED
  BY <1>3, <1>5 DEF HeardIsUp

\* Only these let a sandbox be woken with its VM down: a turn of the Connect stream of a VM that
\* is not up, a task dropped between a launch or a removal and its record, and a resumed VM that
\* ends before its sandbox is settled.  Without them whatever is woken is up (bring_up).
THEOREM OnlyStragglersMislead == Spec /\ [][Undisturbed]_vars => WokenIsUp
<1> DEFINE WInv == IInv /\ Strays /\ Drowsy /\ HeardIsUp
<1>1. Init => WInv
  <2> SUFFICES ASSUME Init PROVE WInv
    OBVIOUS
  <2>1. IInv
    BY InitIInv
  <2>2. Strays /\ Drowsy /\ HeardIsUp
    BY DEF Init, Strays, Drowsy, HeardIsUp, NoRow, NoProc, Idle, At
  <2> QED
    BY <2>1, <2>2
<1>2. WInv /\ [Next]_vars /\ [Undisturbed]_vars => WInv'
  <2> SUFFICES ASSUME WInv, [Next]_vars, [Undisturbed]_vars PROVE WInv'
    OBVIOUS
  <2>1. IInv' /\ Drowsy'
    BY IInvKept, DrowsyKept
  <2>2. CASE Undisturbed
    BY <2>1, <2>2, StraysKept, HeardIsUpKept
  <2>3. CASE UNCHANGED vars
    <3>1. UNCHANGED <<provider, row, vm, orphans, proc, task>>
      BY <2>3 DEF vars, store, machines, processes
    <3>2. Strays' /\ HeardIsUp'
      BY <3>1 DEF Strays, HeardIsUp, Unsettled, Up, At
    <3> QED
      BY <2>1, <3>2
  <2> QED
    BY <2>2, <2>3
<1>3. WInv /\ [Next]_vars => [row.status = "sleeping" /\ row'.status = "running" => Up(row'.vm)]_vars
  BY WokenWhenHeard
<1> QED
  BY <1>1, <1>2, <1>3, PTL DEF Spec, WokenIsUp

=============================================================================
