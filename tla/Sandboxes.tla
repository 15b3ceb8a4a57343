----------------------------- MODULE Sandboxes -----------------------------
(***************************************************************************)
(* The sandbox of one key (blueprint, reuse mode, agent, thread, person):  *)
(* its row, the VMs launched for it at the provider, the `tilde sandbox    *)
(* connect` processes in them with their Connect streams, and the work of  *)
(* the gateway processes: wake, sweep, renew and terminate.  Each task is  *)
(* one such piece of work, in any gateway process; an action is one        *)
(* statement of the database or one request to the provider, which may     *)
(* refuse it.  A statement that changes nothing another step reads before  *)
(* the next one is joined to its neighbour.  The queue of operations is    *)
(* the one ToolCalls models: here an operation in flight is the task that  *)
(* waits for it.  last_used_at and expires_at are left to the clock: a     *)
(* sandbox may be old enough for the sweeper whenever nothing uses it, and *)
(* near its end whenever it runs.                                          *)
(***************************************************************************)
EXTENDS Naturals, FiniteSets

CONSTANTS
  Wakers,     \* tasks that wake the sandbox and use it
  Keepers,    \* tasks that sweep, renew and terminate
  MaxRows,    \* bound: how often the key gets a new row
  MaxVMs,     \* bound: how many VMs the provider launches
  MaxProcs    \* bound: how many enrollment tokens are issued

ASSUME BoundsAssumption == MaxRows \in Nat /\ MaxVMs \in Nat /\ MaxProcs \in Nat

VARIABLES
  provider,  \* the blueprint's connection: E2B pauses VMs, Modal snapshots them
  wanted,    \* the agent's setting and the blueprint still call for this key
  row,       \* the row of sandboxes
  made,      \* how many rows the key has had
  vm,        \* the VMs at the provider
  orphans,   \* VMs whose launch was dropped, or whose removal failed, unrecorded
  proc,      \* the processes, each with the token it was started with
  issued,    \* how many tokens were issued
  task       \* what each task is about to do

store == <<row, made>>
machines == <<vm, orphans>>
processes == <<proc, issued>>
vars == <<provider, wanted, store, machines, processes, task>>

-----------------------------------------------------------------------------
(* Values *)

Tasks == Wakers \cup Keepers
Providers == {"e2b", "modal"}
VMs == 1 .. MaxVMs
Procs == 1 .. MaxProcs
None == 0

\* live: connected_at is less than thirty seconds old; heard: it is later than the lease,
\* while there is one.
NoRow ==
  [id |-> None, status |-> "starting", vm |-> None, snapshot |-> None, enrollment |-> None,
   session |-> None, live |-> FALSE, heard |-> FALSE, leased |-> FALSE]

Idle == [at |-> "idle", id |-> None, vm |-> None]
NoProc == [state |-> "none", vm |-> None, id |-> None]

Exists == row.id # None
Is(t) == Exists /\ row.id = task[t].id

Up(v) == v \in VMs /\ vm[v] = "up"

\* A VM that ends takes its processes along; a stream is noticed to be broken later.
Ended == [NoProc EXCEPT !.state = "ended"]
Kills(v) ==
  /\ vm' = [vm EXCEPT ![v] = "gone"]
  /\ proc' = [p \in Procs |-> IF proc[p].vm = v /\ proc[p].state \in {"token", "session"}
                              THEN Ended ELSE proc[p]]

\* The VM a launch gets, the token an enrollment gets.
NextVM == Cardinality({v \in VMs : vm[v] # "none"}) + 1
NextProc == issued + 1

At(t, at) == task[t].at = at
Goes(t, at) == task' = [task EXCEPT ![t].at = at]
Ends(t) == task' = [task EXCEPT ![t] = Idle]

\* The steps taken with the lease in hand
Holding ==
  {"bring", "resume", "rejoin", "spawn", "kill", "launch", "record", "wait",
   "recheck", "check", "sleep", "slept", "drop", "delete"}
Holds(t) == task[t].at \in Holding

\* sandbox_calls has a row
Busy == \E t \in Tasks : At(t, "using") /\ Is(t)

-----------------------------------------------------------------------------
(* The lease *)

\* sandbox_lease
Leases(t, at) ==
  /\ row' = [row EXCEPT !.leased = TRUE, !.heard = FALSE]
  /\ Goes(t, at)

\* Mutant: a lease that is held is taken as well.
Exposed(t) == Is(t)

Leasable(t) == Is(t) /\ ~row.leased

\* sandbox_release
Released == [row EXCEPT !.leased = FALSE, !.heard = FALSE]

\* A lease nobody works under lapses.  It outlasts any work (LEASE_SECS).
Lapse ==
  /\ row.leased /\ ~ \E t \in Tasks : Holds(t)
  /\ row' = Released
  /\ UNCHANGED <<provider, wanted, made, machines, processes, task>>

Releases(t) == row' = Released /\ Ends(t)

\* sandbox_settle
Settled(status) ==
  [Released EXCEPT !.status = status]

-----------------------------------------------------------------------------
(* Waking *)

\* The invocation has its sandbox, and queues an operation for it or none (operate).
Operates(t) == Goes(t, "using") \/ Ends(t)

\* The end of start
Succeeds(t) == row' = Settled("running") /\ Operates(t)
Fails(t) == row' = Settled("failed") /\ Ends(t)

\* The answer, or the deadline
Finish(t) ==
  /\ At(t, "using")
  /\ Ends(t)
  /\ UNCHANGED <<provider, wanted, store, machines, processes>>

\* ensure, with the setting read.  A key that is no longer wanted (Unwant) stays so: a setting
\* that is set again is left out, and so is a wake of the old row in between.
Wake(t) ==
  /\ At(t, "idle") /\ t \in Wakers /\ wanted
  /\ Goes(t, "find")
  /\ UNCHANGED <<provider, wanted, store, machines, processes>>

\* sandbox_find
Find(t) ==
  /\ At(t, "find")
  /\ task' = [task EXCEPT ![t].at = IF Exists THEN "look" ELSE "insert", ![t].id = row.id]
  /\ UNCHANGED <<provider, wanted, store, machines, processes>>

\* sandbox_insert: the row is created leased, unless another task was faster.
Insert(t) ==
  /\ At(t, "insert")
  /\ IF Exists THEN Goes(t, "find") /\ UNCHANGED store
     ELSE /\ made < MaxRows
          /\ made' = made + 1
          /\ row' = [NoRow EXCEPT !.id = made + 1, !.leased = TRUE]
          /\ task' = [task EXCEPT ![t].at = "bring", ![t].id = made + 1]
  /\ UNCHANGED <<provider, wanted, machines, processes>>

\* sandbox_get in wake: ready, to be leased, or gone
Look(t) ==
  /\ At(t, "look")
  /\ \/ ~Is(t) /\ Ends(t)
     \/ Is(t) /\ row.status = "running" /\ row.live /\ ~row.leased /\ Operates(t)
     \/ Is(t) /\ ~(row.status = "running" /\ row.live /\ ~row.leased) /\ Goes(t, "lease")
  /\ UNCHANGED <<provider, wanted, store, machines, processes>>

\* The lease, or another turn in a second
LeaseToWake(t) ==
  /\ At(t, "lease")
  /\ IF Leasable(t) THEN Leases(t, "bring") ELSE Goes(t, "find") /\ UNCHANGED row
  /\ UNCHANGED <<provider, wanted, made, machines, processes>>

\* wake gives up a lease's length later.
GiveUp(t) ==
  /\ At(t, "lease") /\ ~Leasable(t)
  /\ Ends(t)
  /\ UNCHANGED <<provider, wanted, store, machines, processes>>

\* bring_up reads the row under the lease.
BringUp(t) ==
  /\ At(t, "bring")
  /\ \/ row.live /\ Succeeds(t)
     \/ ~row.live /\ row.vm = None /\ Goes(t, "launch") /\ UNCHANGED row
     \/ ~row.live /\ row.vm # None /\ UNCHANGED row
        /\ Goes(t, IF provider = "e2b" THEN "resume" ELSE "kill")
  /\ UNCHANGED <<provider, wanted, made, machines, processes>>

Resumed == [vm EXCEPT ![row.vm] = IF @ = "paused" THEN "up" ELSE @]

\* launch::resume and sandbox_renewed
Resume(t) ==
  /\ At(t, "resume")
  /\ vm' = Resumed
  /\ Goes(t, IF vm[row.vm] = "gone" THEN "launch" ELSE "rejoin")
  /\ UNCHANGED <<provider, wanted, store, orphans, processes>>

\* registered(RECONNECT_WAIT): the process connects again, or is not waited for longer.
Rejoin(t) ==
  /\ At(t, "rejoin")
  /\ IF row.heard THEN Succeeds(t) ELSE Goes(t, "spawn") /\ UNCHANGED row
  /\ UNCHANGED <<provider, wanted, made, machines, processes>>

\* A token no process was given is as good as none.
Enrolled(n) == [row EXCEPT !.enrollment = n]
Starts(n, v) ==
  /\ row' = Enrolled(n) /\ issued' = n
  /\ proc' = [proc EXCEPT ![n] = [state |-> "token", vm |-> v, id |-> row.id]]

\* enroll and launch::start: another process in the running VM
Spawn(t) ==
  /\ At(t, "spawn") /\ NextProc \in Procs
  /\ Up(row.vm)
  /\ Starts(NextProc, row.vm)
  /\ Goes(t, "wait")
  /\ UNCHANGED <<provider, wanted, made, machines>>

\* Mutant: the VM is left to end by itself.
LeaveFirst(t) ==
  /\ At(t, "kill")
  /\ Goes(t, "launch")
  /\ UNCHANGED <<provider, wanted, store, machines, processes>>

\* A Modal VM whose process is gone is terminated first.
KillFirst(t) ==
  /\ At(t, "kill")
  /\ Kills(row.vm)
  /\ Goes(t, "launch")
  /\ UNCHANGED <<provider, wanted, store, orphans, issued>>

\* enroll and launch::launch
Launch(t) ==
  /\ At(t, "launch") /\ NextProc \in Procs /\ NextVM \in VMs
  /\ vm' = [vm EXCEPT ![NextVM] = "up"]
  /\ Starts(NextProc, NextVM)
  /\ task' = [task EXCEPT ![t].at = "record", ![t].vm = NextVM]
  /\ UNCHANGED <<provider, wanted, made, orphans>>

\* An E2B VM whose process cannot be started is killed, and the outcome of that ignored; or
\* the answer that names a new VM is lost.
LaunchHalfway(t) ==
  /\ At(t, "launch") /\ provider = "e2b" /\ NextVM \in VMs
  /\ \E fate \in {"up", "gone"} :
       /\ vm' = [vm EXCEPT ![NextVM] = fate]
       /\ orphans' = IF fate = "up" THEN orphans \cup {NextVM} ELSE orphans
  /\ row' = [Settled("failed") EXCEPT !.enrollment = None]
  /\ Ends(t)
  /\ UNCHANGED <<provider, wanted, made, processes>>

\* The provider refuses, with a token issued already or not, or the connection has no
\* credentials.  A Modal launch that succeeds and whose answer is lost is left out.
Refuse(t) ==
  /\ task[t].at \in {"resume", "spawn", "kill", "launch"}
  /\ \/ row' = Settled("failed")
     \/ /\ task[t].at \in {"spawn", "launch"}
        /\ row' = [Settled("failed") EXCEPT !.enrollment = None]
  /\ Ends(t)
  /\ UNCHANGED <<provider, wanted, made, machines, processes>>

\* sandbox_launched
Record(t) ==
  /\ At(t, "record")
  /\ row' = [row EXCEPT !.vm = task[t].vm, !.status = "starting"]
  /\ task' = [task EXCEPT ![t].at = "wait", ![t].vm = None]
  /\ UNCHANGED <<provider, wanted, made, machines, processes>>

\* wait_registered
Wait(t) ==
  /\ At(t, "wait")
  /\ IF row.heard THEN Succeeds(t) ELSE Fails(t)
  /\ UNCHANGED <<provider, wanted, made, machines, processes>>

-----------------------------------------------------------------------------
(* Sweeping, renewing and terminating *)

\* sweep_due.  One the settings still call for is terminated when it is old, or put to sleep.
Due ==
  {a \in {"terminate", "sleep", "nothing"} :
     /\ a = "sleep" => wanted /\ row.status = "running" /\ ~Busy
     /\ a = "nothing" => wanted}

\* renew_due
Ending == row.status = "running" /\ row.vm # None

\* A sweeper lists the row, or an operator names it.
List(t) ==
  /\ At(t, "idle") /\ t \in Keepers /\ Exists
  /\ task' = [task EXCEPT ![t].at = "listed", ![t].id = row.id]
  /\ UNCHANGED <<provider, wanted, store, machines, processes>>

\* sweep, renew and terminate: the row is left alone unless its lease is free.
LeaseToKeep(t) ==
  /\ At(t, "listed")
  /\ IF Leasable(t) THEN \E at \in {"recheck", "check", "drop"} : Leases(t, at)
     ELSE Ends(t) /\ UNCHANGED row
  /\ UNCHANGED <<provider, wanted, made, machines, processes>>

\* A call may have used it since the list was read.
Recheck(t) ==
  /\ At(t, "recheck")
  /\ \/ "terminate" \in Due /\ Goes(t, "drop") /\ UNCHANGED row
     \/ "sleep" \in Due /\ Goes(t, "sleep") /\ UNCHANGED row
     \/ "nothing" \in Due /\ Releases(t)
  /\ UNCHANGED <<provider, wanted, made, machines, processes>>

\* renew, unless it is renewed already, or busy and not at its last: a Modal VM is put to
\* sleep, an E2B VM's lifetime extended if the provider does not refuse.
Renew(t) ==
  /\ At(t, "check")
  /\ \/ Releases(t) /\ UNCHANGED vm
     \/ Ending /\ provider = "modal" /\ Goes(t, "sleep") /\ UNCHANGED <<row, vm>>
     \/ Ending /\ provider = "e2b" /\ vm' = Resumed /\ Releases(t)
  /\ UNCHANGED <<provider, wanted, made, orphans, processes>>

\* launch::sleep: a pause, which an E2B VM that is gone does not refuse; or a snapshot and
\* the VM terminated.
Sleep(t) ==
  /\ At(t, "sleep") /\ row.vm # None
  /\ \/ provider = "e2b" /\ UNCHANGED proc
        /\ vm' = [vm EXCEPT ![row.vm] = IF @ = "up" THEN "paused" ELSE @]
     \/ provider = "modal" /\ Up(row.vm) /\ Kills(row.vm)
  /\ Goes(t, "slept")
  /\ UNCHANGED <<provider, wanted, store, orphans, issued>>

\* Without a VM, or refused, the sandbox is left running.
SleepFails(t) ==
  /\ At(t, "sleep")
  /\ row' = Settled("running")
  /\ Ends(t)
  /\ UNCHANGED <<provider, wanted, made, machines, processes>>

\* Mutant: no provider keeps the VM.
AsleepWithoutVM ==
  [Released EXCEPT !.status = "sleeping", !.live = FALSE, !.vm = None, !.session = None,
                   !.snapshot = IF provider = "modal" THEN row.vm ELSE @]

\* sandbox_slept
Asleep ==
  LET slept == [Released EXCEPT !.status = "sleeping", !.live = FALSE]
  IN IF provider = "e2b" THEN slept
     ELSE [slept EXCEPT !.vm = None, !.snapshot = row.vm, !.session = None]

Slept(t) ==
  /\ At(t, "slept")
  /\ row' = Asleep
  /\ Ends(t)
  /\ UNCHANGED <<provider, wanted, made, machines, processes>>

\* terminate_leased: the VM first
Terminate(t) ==
  /\ At(t, "drop")
  /\ IF row.vm = None THEN UNCHANGED <<vm, proc>> ELSE Kills(row.vm)
  /\ Goes(t, "delete")
  /\ UNCHANGED <<provider, wanted, store, orphans, issued>>

\* A VM that cannot be terminated keeps its row.
TerminateFails(t) ==
  /\ At(t, "drop") /\ row.vm # None
  /\ row' = Settled(row.status)
  /\ Ends(t)
  /\ UNCHANGED <<provider, wanted, made, machines, processes>>

\* sandbox_delete
Delete(t) ==
  /\ At(t, "delete")
  /\ row' = NoRow
  /\ Ends(t)
  /\ UNCHANGED <<provider, wanted, made, machines, processes>>

\* The request is canceled, or the gateway process ends: the task is dropped where it is, and
\* a lease it holds stays.
Crash(t) ==
  /\ task[t].at \notin {"idle", "using"}
  /\ Ends(t)
  /\ orphans' = IF At(t, "record") THEN orphans \cup {task[t].vm} ELSE orphans
  /\ UNCHANGED <<provider, wanted, store, vm, processes>>

-----------------------------------------------------------------------------
(* The processes, the VMs and time *)

Becomes(p, state) == proc' = [proc EXCEPT ![p].state = state]
Stops(p) == proc' = [proc EXCEPT ![p] = Ended]
Disconnects(p) == IF vm[proc[p].vm] = "gone" THEN Stops(p) ELSE Becomes(p, "session")
Heard == [row EXCEPT !.live = TRUE, !.heard = row.leased]

\* sandbox_enroll: once, for a session.  The answer with the session may be lost.
Enroll(p) ==
  /\ proc[p].state = "token" /\ Up(proc[p].vm) /\ row.enrollment = p
  /\ row' = [Heard EXCEPT !.enrollment = None, !.session = p]
  /\ Becomes(p, "open") \/ UNCHANGED proc
  /\ UNCHANGED <<provider, wanted, made, machines, issued, task>>

\* sandbox_authenticate in connect, and in each turn of a stream, which goes on at the
\* gateway though its process be frozen
Authenticate(p) ==
  /\ \/ proc[p].state = "session" /\ Up(proc[p].vm)
     \/ proc[p].state = "open"
  /\ row.session = p
  /\ Becomes(p, "seen")
  /\ UNCHANGED <<provider, wanted, store, machines, issued, task>>

\* sandbox_connected
Touch(p) ==
  /\ proc[p].state = "seen"
  /\ row' = IF row.id = proc[p].id THEN Heard ELSE row
  /\ Becomes(p, "open")
  /\ UNCHANGED <<provider, wanted, made, machines, issued, task>>

\* A process that is not accepted ends; a stream that is not is broken off.
Reject(p) ==
  /\ \/ /\ Up(proc[p].vm)
        /\ \/ proc[p].state = "token" /\ row.enrollment # p
           \/ proc[p].state = "session" /\ row.session # p
        /\ Stops(p)
     \/ proc[p].state = "open" /\ row.session # p /\ Disconnects(p)
  /\ UNCHANGED <<provider, wanted, store, machines, issued, task>>

\* A stream breaks, or the process ends.
Break(p) ==
  /\ \/ proc[p].state \in {"open", "seen"} /\ Disconnects(p)
     \/ proc[p].state \in {"token", "session", "open", "seen"} /\ Up(proc[p].vm) /\ Stops(p)
  /\ UNCHANGED <<provider, wanted, store, machines, issued, task>>

\* A VM is lost, or its lifetime ends; E2B pauses it instead.
VMEnds(v) ==
  /\ \/ vm[v] \in {"up", "paused"} /\ Kills(v)
     \/ /\ provider = "e2b" /\ v = row.vm /\ vm[v] = "up"
        /\ vm' = [vm EXCEPT ![v] = "paused"] /\ UNCHANGED proc
  /\ UNCHANGED <<provider, wanted, store, orphans, issued, task>>

\* Half a minute without a turn of the stream
GoesStale ==
  /\ row.live /\ row' = [row EXCEPT !.live = FALSE]
  /\ UNCHANGED <<provider, wanted, made, machines, processes, task>>

\* The agent's setting is removed, or the blueprint's reuse or connection changed.
Unwant ==
  /\ wanted /\ wanted' = FALSE
  /\ UNCHANGED <<provider, store, machines, processes, task>>

-----------------------------------------------------------------------------
(* The specification *)

Init ==
  /\ provider \in Providers /\ wanted = TRUE
  /\ row = NoRow /\ made = 0
  /\ vm = [v \in VMs |-> "none"] /\ orphans = {}
  /\ proc = [p \in Procs |-> NoProc] /\ issued = 0
  /\ task = [t \in Tasks |-> Idle]

\* The steps a task goes on with
Step(t) ==
  \/ Find(t) \/ Insert(t) \/ Look(t) \/ LeaseToWake(t) \/ BringUp(t) \/ Resume(t) \/ Rejoin(t)
  \/ Spawn(t) \/ KillFirst(t) \/ Launch(t) \/ LaunchHalfway(t) \/ Refuse(t) \/ Record(t)
  \/ Wait(t) \/ Finish(t)
  \/ LeaseToKeep(t) \/ Recheck(t) \/ Renew(t) \/ Sleep(t) \/ SleepFails(t)
  \/ Slept(t) \/ Terminate(t) \/ TerminateFails(t) \/ Delete(t)

Process(p) == Enroll(p) \/ Authenticate(p) \/ Touch(p) \/ Reject(p) \/ Break(p)

Next ==
  \/ \E t \in Tasks : Wake(t) \/ List(t) \/ Step(t) \/ GiveUp(t) \/ Crash(t)
  \/ \E p \in Procs : Process(p)
  \/ \E v \in VMs : VMEnds(v)
  \/ Lapse \/ GoesStale \/ Unwant

Spec == Init /\ [][Next]_vars

-----------------------------------------------------------------------------
(* Properties *)

Rows == 0 .. MaxRows
Places == {"idle", "find", "insert", "look", "lease", "using", "listed"} \cup Holding

\* Every variable holds a value of its kind.
TypeOK ==
  /\ provider \in Providers /\ wanted \in BOOLEAN
  /\ row \in [id : Rows, status : {"starting", "running", "sleeping", "failed"},
              vm : 0 .. MaxVMs, snapshot : 0 .. MaxVMs, enrollment : 0 .. MaxProcs,
              session : 0 .. MaxProcs, live : BOOLEAN, heard : BOOLEAN, leased : BOOLEAN]
  /\ made \in Rows
  /\ vm \in [VMs -> {"none", "up", "paused", "gone"}] /\ orphans \subseteq VMs
  /\ proc \in [Procs -> [state : {"none", "token", "session", "open", "seen", "ended"},
                         vm : 0 .. MaxVMs, id : Rows]]
  /\ issued \in 0 .. MaxProcs
  /\ task \in [Tasks -> [at : Places, id : Rows, vm : 0 .. MaxVMs]]

\* Work on a sandbox is done by one task at a time, on the row it leased.
OneAtATime ==
  \A t \in Tasks : Holds(t) =>
    /\ row.leased /\ Is(t)
    /\ \A u \in Tasks : Holds(u) => u = t

Alive(v) == v \in VMs /\ vm[v] \in {"up", "paused"}
Launching(v) == \E t \in Tasks : At(t, "record") /\ task[t].vm = v
Known(v) == v = row.vm \/ Launching(v) \/ v \in orphans

\* No VM lives on without a row that names it, but one whose launch was dropped or failed
\* halfway.
NoVMForgotten == \A v \in VMs : Alive(v) => Known(v)

\* A sleeping sandbox has what it wakes from.
CanWake ==
  row.status = "sleeping" => IF provider = "e2b" THEN row.vm # None ELSE row.snapshot # None

\* A sandbox is woken from its sleep only with its VM up.
WokenIsUp ==
  [][row.status = "sleeping" /\ row'.status = "running" => Up(row'.vm)]_vars

=============================================================================
