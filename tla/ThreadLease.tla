---------------------------- MODULE ThreadLease ----------------------------
(***************************************************************************)
(* The lease of one conversation of a sidecar agent: one row of            *)
(* thread_leases, the run state PostgreSQL records for the conversation,   *)
(* and the replicas that cache it, execute its invocations and publish     *)
(* what they did (deployment/mod.rs, hydrate.rs, project.rs, recovery.rs   *)
(* and rpc.rs on the gateway; runtime.rs and runtime/ in the replica).     *)
(* A gateway action is one committed transaction, a replica action is what *)
(* it does under the conversation's lock.  Publish and Hydrate are calls   *)
(* whose request and answer are in flight between such steps; the frames   *)
(* of the Watch stream are applied when they arrive.  Conversations,       *)
(* deployments, directives and agents' processes other than the one        *)
(* modelled are left out, and so are the runs' own ids: the record's       *)
(* conversation has a run that is active, or it has none.                  *)
(***************************************************************************)
EXTENDS Naturals, Sequences, SequencesExt

CONSTANTS
  Replicas,        \* the sidecar incarnations of the agent
  Nobody,          \* no replica: the row does not exist
  Upsets,          \* what may go wrong or be decided from outside
  Exposed,         \* bound: the replicas it may happen to
  Modes,           \* agents.failure_mode may be any of these, at any time
  MaxVersion,      \* bound: the clock, which advances by two with every lease given out
  MaxInvocations,  \* bound: invocations begun by the replicas
  MaxOutbox        \* bound: frames in an outbox when another turn or eviction starts

ASSUME NobodyAssumption == Nobody \notin Replicas
ASSUME ExposedAssumption == Exposed \subseteq Replicas
ASSUME UpsetsAssumption == Upsets \subseteq {"evict", "drain", "crash", "partition", "stall"}
ASSUME ModesAssumption == Modes \subseteq {"reassign", "stop"}
ASSUME BoundsAssumption ==
  MaxVersion \in Nat /\ MaxInvocations \in Nat /\ MaxOutbox \in Nat

Invocations == 1 .. MaxInvocations
Versions == 0 .. MaxVersion + 1
Holders == Replicas \cup {Nobody}

VARIABLES
  holder,     \* thread_leases.instance_id, Nobody if there is no row
  version,    \* thread_leases.updated_at: the reading of clock when it was written
  clock,      \* the database's clock when the lease was last given to a replica
  runActive,  \* chat_runs.status is active or suspending
  live,       \* the recorded invocations that are pending or running
  scan,       \* what the recovery worker has read of a dead holder's lease
  connected,  \* agent_instances.connection_id is not NULL
  ready,      \* agent_instances.ready and last_seen_at is recent
  process,    \* "up", "draining", "flushing" or "down"
  cut,        \* the replicas the network separates from the gateway
  healthy,    \* gateway_healthy: an acknowledgement arrived in the last ten seconds
  thread,     \* the cached conversation and its lease
  work,       \* the conversation's live invocation in the replica
  orphans,    \* invocations executing on a conversation the cache has replaced
  began,      \* the number of invocations begun
  outbox,     \* frames to publish
  call,       \* the Publish call in flight
  load,       \* the Hydrate call in flight
  watch,      \* the frames of the Watch stream in flight, one at most
  news        \* the lease has changed since the stream last read it

record == <<runActive, live>>
lease == <<holder, version, clock>>
instances == <<connected, ready>>
stream == <<watch, news>>
replica == <<process, cut, healthy>>
local == <<thread, work, orphans, began>>
vars == <<record, lease, scan, instances, stream, replica, local, outbox, call, load>>

-----------------------------------------------------------------------------
(* Values *)

NotCached == [cached |-> FALSE, holds |-> FALSE, version |-> 0]
NoWork == [phase |-> "none", inv |-> 0]
NoCall == [stage |-> "idle", frames |-> <<>>, lost |-> <<>>, rejected |-> FALSE]
NoLoad == [stage |-> "idle", version |-> 0, interrupted |-> FALSE]
NoScan == [holder |-> Nobody, idle |-> FALSE]

Frame(kind, i) == [kind |-> kind, inv |-> i, seen |-> FALSE]
Release == Frame("release", 0)

\* lease_frame
LeaseFrame(h, v) == [holder |-> h, version |-> v]

\* a reading of the clock after the last lease was given out and before the next
Now == clock + 1
\* and the reading when the next one is
Later == clock + 2

Upset(what, r) == what \in Upsets /\ r \in Exposed
Runs(r) == process[r] = "up"
Reaches(r) == Runs(r) /\ r \notin cut
Owns(r) == thread[r].cached /\ thread[r].holds /\ r \in healthy

-----------------------------------------------------------------------------
(* The lease row *)

\* Mutant: a lease is taken whoever holds it.
LiveUnchecked(h) == FALSE

\* instance_live
Live(h) == h \in ready

\* Mutant: lease_move keeps updated_at.
GiveSameVersion(r, time) ==
  /\ time <= MaxVersion /\ clock' = IF time > clock THEN time ELSE clock
  /\ holder' = r /\ version' = IF holder = Nobody THEN time ELSE version
  /\ news' = [s \in Replicas |-> news[s] \/ s \in connected]

\* lease_insert and lease_move: the row is r's as of a time; the streams are notified
Give(r, time) ==
  /\ time <= MaxVersion /\ clock' = IF time > clock THEN time ELSE clock
  /\ holder' = r /\ version' = time
  /\ news' = [s \in Replicas |-> news[s] \/ s \in connected]

\* take_over: the dead holder's invocations fail; its run waits for the next holder
\* or fails under the stop policy, and the lease is moved, or dropped if nobody is next
TakeOver(next, stop) ==
  /\ live' = {}
  /\ runActive' = (runActive /\ ~stop)
  /\ IF next = Nobody
     THEN holder' = Nobody /\ UNCHANGED <<version, clock, news>>
     ELSE Give(next, Later)

-----------------------------------------------------------------------------
(* Publish *)

\* What a batch has done before its first frame: asked is what it remembers of the lease.
Unprojected ==
  [row |-> holder, asked |-> Nobody, active |-> runActive, live |-> live, receipts |-> {},
   refused |-> FALSE, rejected |-> FALSE]

\* release_in and project_event: frame k of a batch from r.  The lease is asked for once;
\* project_batch forgets it at a release, the retry of a poisoned batch (isolated) does
\* not.  An event is refused without the lease, and ignored if its receipt exists.  A
\* second live invocation meets the unique index.
Apply(r, isolated, done, f, k) ==
  LET holds == IF done.asked # Nobody THEN done.asked = r ELSE done.row = r
      accepted == [done EXCEPT !.asked = IF isolated THEN r ELSE Nobody]
      recorded == [accepted EXCEPT !.active = (f.kind = "begin"), !.receipts = @ \cup {k}]
  IN CASE f.kind = "release" -> [done EXCEPT !.row = IF @ = r THEN Nobody ELSE @]
       [] f.kind # "release" /\ ~holds -> [done EXCEPT !.refused = TRUE]
       [] f.kind # "release" /\ holds /\ f.seen -> accepted
       [] f.kind = "end" /\ holds /\ ~f.seen -> [recorded EXCEPT !.live = @ \ {f.inv}]
       [] f.kind = "begin" /\ holds /\ ~f.seen ->
            IF done.live \subseteq {f.inv} THEN [recorded EXCEPT !.live = {f.inv}]
            ELSE [accepted EXCEPT !.active = TRUE, !.rejected = TRUE]

\* project_batch: the frames in their order
Project(r, frames, isolated) ==
  LET after[k \in 0 .. Len(frames)] ==
        IF k = 0 THEN Unprojected ELSE Apply(r, isolated, after[k - 1], frames[k], k)
  IN after[Len(frames)]

\* publish: a batch with a rejected frame is rolled back and projected in isolation
Projection(r, frames) ==
  LET batch == Project(r, frames, FALSE)
  IN IF batch.rejected THEN Project(r, frames, TRUE) ELSE batch

\* release_in deletes the row of its own instance only
ReleasesLease(r, frames) == holder = r /\ \E k \in DOMAIN frames : frames[k].kind = "release"

\* The effect of a batch on the record and on the lease
Projects(r, frames) ==
  /\ runActive' = Projection(r, frames).active
  /\ live' = Projection(r, frames).live
  /\ holder' = IF ReleasesLease(r, frames) THEN Nobody ELSE holder

\* Mutant: an event without the lease is refused without saying who holds it.
RefusesSilently(r, done) == <<>>

\* The answer's lost leases: who holds the lease if an event was refused.  Without
\* a row the gateway answers with its own clock.
Lost(r, done) ==
  IF ~done.refused THEN <<>>
  ELSE IF holder \in {r, Nobody} THEN <<LeaseFrame(Nobody, Now)>>
  ELSE <<LeaseFrame(holder, version)>>

\* The shipper takes everything queued.
Ship(r) ==
  /\ Reaches(r) /\ call[r].stage = "idle" /\ outbox[r] # <<>>
  /\ call' = [call EXCEPT ![r] = [NoCall EXCEPT !.stage = "sent", !.frames = outbox[r]]]
  /\ outbox' = [outbox EXCEPT ![r] = <<>>]
  /\ UNCHANGED <<record, lease, scan, instances, stream, replica, local, load>>

\* A takeover between the look at the holder (lease_holder, which takes no lock) and the
\* writes is not modelled: a channel's conversations are locked against it, others are not.
Publish(r) ==
  /\ call[r].stage = "sent"
  /\ LET frames == call[r].frames
         done == Projection(r, frames)
     IN /\ Projects(r, frames)
        /\ call' = [call EXCEPT ![r] =
             [stage |-> "handled", lost |-> Lost(r, done), rejected |-> done.rejected,
              frames |-> [k \in DOMAIN frames |->
                            [frames[k] EXCEPT !.seen = @ \/ k \in done.receipts]]]]
  /\ UNCHANGED <<version, clock, scan, instances, stream, replica, local, outbox, load>>

\* The call fails, before or after the gateway handled it: the frames are queued again.
PublishFails(r) ==
  /\ Runs(r) /\ r \in cut
  /\ call[r].stage # "idle"
  /\ outbox' = [outbox EXCEPT ![r] = call[r].frames \o @]
  /\ call' = [call EXCEPT ![r] = NoCall]
  /\ UNCHANGED <<record, lease, scan, instances, stream, replica, local, load>>

-----------------------------------------------------------------------------
(* Leases and work in the replica *)

\* Mutant: frames are applied in the order they arrive.
ApplyAny(r, frame) ==
  IF ~thread[r].cached THEN thread[r]
  ELSE [thread[r] EXCEPT !.holds = (frame.holder = r), !.version = frame.version]

\* apply_lease: older frames are ignored
ApplyLease(r, frame) ==
  IF ~thread[r].cached \/ frame.version < thread[r].version THEN thread[r]
  ELSE [thread[r] EXCEPT !.holds = (frame.holder = r), !.version = frame.version]

\* end_local_work, when apply_lease takes the lease away
WorkUnder(r, frame) ==
  IF ApplyLease(r, frame).holds THEN work[r] ELSE NoWork

\* apply_publish: lost leases, then a rejected event drops the conversation unless
\* an invocation is live
Answered(r) ==
  /\ Reaches(r) /\ call[r].stage = "handled"
  /\ LET lost == call[r].lost
         kept == IF lost = <<>> THEN thread[r] ELSE ApplyLease(r, lost[1])
         busy == IF lost = <<>> THEN work[r] ELSE WorkUnder(r, lost[1])
     IN /\ work' = [work EXCEPT ![r] = busy]
        /\ thread' = [thread EXCEPT ![r] =
             IF call[r].rejected /\ busy = NoWork THEN NotCached ELSE kept]
  /\ healthy' = healthy \cup {r}
  /\ call' = [call EXCEPT ![r] = NoCall]
  /\ UNCHANGED <<record, lease, scan, instances, stream, process, cut, orphans, began,
                 outbox, load>>

\* begin_invocation
Begin(r) ==
  /\ began < MaxInvocations /\ began' = began + 1
  /\ work' = [work EXCEPT ![r] = [phase |-> "queued", inv |-> began + 1]]
  /\ outbox' = [outbox EXCEPT ![r] = Append(@, Frame("begin", began + 1))]

\* start_run and route_message_in on a conversation held here
StartRun(r) ==
  /\ Runs(r) /\ Owns(r) /\ work[r] = NoWork /\ Len(outbox[r]) < MaxOutbox
  /\ Begin(r)
  /\ UNCHANGED <<record, lease, scan, instances, stream, replica, thread, orphans, call,
                 load>>

\* execute_command and the claim of execute_invocation; a command met while the
\* replica may not execute is skipped and not queued again
ExecuteCommand(r) ==
  /\ Runs(r) /\ work[r].phase = "queued"
  /\ work' = [work EXCEPT ![r].phase = IF Owns(r) THEN "running" ELSE "skipped"]
  /\ UNCHANGED <<record, lease, scan, instances, stream, replica, thread, orphans, began,
                 outbox, call, load>>

\* The host reports the end, or the invocation is canceled.  Without the lease
\* finish_invocation changes nothing but the replica's own state.
EndInvocation(r) ==
  /\ Runs(r) /\ work[r].phase # "none"
  /\ work[r].phase # "running" => Owns(r)
  /\ work' = [work EXCEPT ![r] = NoWork]
  /\ outbox' = [outbox EXCEPT ![r] = IF Owns(r) THEN Append(@, Frame("end", work[r].inv)) ELSE @]
  /\ UNCHANGED <<record, lease, scan, instances, stream, replica, thread, orphans, began,
                 call, load>>

\* The five-second tick of execute_invocation finds the replica fenced, and
\* finish_invocation ends the invocation without an event.
FencedTick(r) ==
  /\ Runs(r) /\ work[r].phase = "running" /\ ~Owns(r)
  /\ work' = [work EXCEPT ![r] = NoWork]
  /\ UNCHANGED <<record, lease, scan, instances, stream, replica, thread, orphans, began,
                 outbox, call, load>>

\* An execution on a replaced conversation still sees the lease it began with: it
\* ends when its host does, or at a tick of a fenced replica.
OrphanEnds(r, i) ==
  /\ Runs(r) /\ i \in orphans[r]
  /\ orphans' = [orphans EXCEPT ![r] = @ \ {i}]
  /\ outbox' = [outbox EXCEPT ![r] = IF r \in healthy THEN Append(@, Frame("end", i)) ELSE @]
  /\ UNCHANGED <<record, lease, scan, instances, stream, replica, thread, work, began, call,
                 load>>

\* a Release is queued behind the events
Released(r) == IF thread[r].holds THEN Append(outbox[r], Release) ELSE outbox[r]

\* evict_idle and evict_over_budget.  Bound: one release in the outbox.
Evict(r) ==
  /\ Upset("evict", r) /\ Release \notin ToSet(outbox[r])
  /\ Runs(r) /\ thread[r].cached /\ work[r] = NoWork
  /\ thread' = [thread EXCEPT ![r] = NotCached]
  /\ outbox' = [outbox EXCEPT ![r] = Released(r)]
  /\ UNCHANGED <<record, lease, scan, instances, stream, replica, work, orphans, began, call,
                 load>>

-----------------------------------------------------------------------------
(* Hydrate *)

\* A Hydrate call.  With "stall" its transaction may be held up before it gets the
\* conversation's lock, and the time it started matters.
Asked(r) == load' = [load EXCEPT ![r] =
  [NoLoad EXCEPT !.stage = "asked", !.version = IF "stall" \in Upsets THEN Now ELSE 0]]

\* load and adopt: a conversation that is not held here is asked for, by a request
\* or because a lease frame handed it over.  One call at a time.
AskToLoad(r) ==
  /\ Reaches(r) /\ load[r].stage = "idle" /\ ~(thread[r].cached /\ thread[r].holds)
  /\ Asked(r)
  /\ UNCHANGED <<record, lease, scan, instances, stream, replica, local, outbox, call>>

Granted(r, v) == load' = [load EXCEPT ![r] = [NoLoad EXCEPT !.stage = "leased", !.version = v]]

\* lease_in: a live holder keeps its lease and the call is refused
LeaseRefused(r) ==
  /\ load[r].stage = "asked"
  /\ holder \notin {r, Nobody} /\ Live(holder)
  /\ load' = [load EXCEPT ![r] = NoLoad]
  /\ UNCHANGED <<record, lease, scan, instances, stream, replica, local, outbox, call>>

LeaseConfirmed(r) ==
  /\ load[r].stage = "asked" /\ holder = r
  /\ Granted(r, version)
  /\ UNCHANGED <<record, lease, scan, instances, stream, replica, local, outbox, call>>

\* lease_insert writes the time its transaction started, which may be before the last
\* lease was given out
LeaseInserted(r) ==
  /\ load[r].stage = "asked" /\ holder = Nobody
  /\ \E time \in {Later} \cup ({load[r].version} \cap 1 .. clock) : Give(r, time)
  /\ Granted(r, version')
  /\ UNCHANGED <<record, scan, instances, watch, replica, local, outbox, call>>

LeaseTaken(r) ==
  /\ load[r].stage = "asked"
  /\ holder \notin {r, Nobody} /\ ~Live(holder)
  /\ \E mode \in Modes : TakeOver(r, mode = "stop")
  /\ Granted(r, version')
  /\ UNCHANGED <<scan, instances, watch, replica, local, outbox, call>>

\* hydrate reads the runs after the lease is committed.
ReadRecord(r) ==
  /\ load[r].stage = "leased"
  /\ load' = [load EXCEPT ![r] = [stage |-> "read", version |-> @.version,
                                 interrupted |-> runActive /\ live = {}]]
  /\ UNCHANGED <<record, lease, scan, instances, stream, replica, local, outbox, call>>

\* Mutant: only a run the replica was executing itself is interrupted.
InterruptedHere(r) == load[r].interrupted /\ work[r] # NoWork

\* recover_runs: an active run whose invocation is over
Interrupted(r) == load[r].interrupted

\* load puts what it was answered into the cache, in place of what is there now, and
\* recover_runs starts an interrupted run again unless the replica is fenced.
Loaded(r) ==
  /\ Reaches(r) /\ load[r].stage = "read"
  /\ thread' = [thread EXCEPT ![r] =
       [cached |-> TRUE, holds |-> TRUE, version |-> load[r].version]]
  /\ load' = [load EXCEPT ![r] = NoLoad]
  /\ orphans' = [orphans EXCEPT ![r] =
       IF work[r].phase = "running" THEN @ \cup {work[r].inv} ELSE @]
  /\ IF Interrupted(r) /\ r \in healthy
     THEN Begin(r)
     ELSE work' = [work EXCEPT ![r] = NoWork] /\ UNCHANGED <<began, outbox>>
  /\ UNCHANGED <<record, lease, scan, instances, stream, replica, call>>

LoadFails(r) ==
  /\ Runs(r) /\ r \in cut
  /\ load[r].stage # "idle"
  /\ load' = [load EXCEPT ![r] = NoLoad]
  /\ UNCHANGED <<record, lease, scan, instances, stream, replica, local, outbox, call>>

-----------------------------------------------------------------------------
(* Watch *)

\* leases_since: the row as it is now; a deleted row is never streamed.  A row that is
\* streamed again because another one changed tells the replica nothing more.
StreamLease(r) ==
  /\ news[r] /\ watch[r] = <<>> /\ holder # Nobody
  /\ watch' = [watch EXCEPT ![r] = <<LeaseFrame(holder, version)>>]
  /\ news' = [news EXCEPT ![r] = FALSE]
  /\ UNCHANGED <<record, lease, scan, instances, replica, local, outbox, call, load>>

\* apply_lease; a lease for a conversation that is not cached loads it
DeliverLease(r) ==
  /\ Reaches(r) /\ watch[r] # <<>>
  /\ watch' = [watch EXCEPT ![r] = <<>>]
  /\ thread' = [thread EXCEPT ![r] = ApplyLease(r, watch[r][1])]
  /\ work' = [work EXCEPT ![r] = WorkUnder(r, watch[r][1])]
  /\ IF ~thread[r].cached /\ watch[r][1].holder = r /\ load[r].stage = "idle"
     THEN Asked(r) ELSE UNCHANGED load
  /\ UNCHANGED <<record, lease, scan, instances, news, replica, orphans, began, outbox, call>>

\* The stream of a replica that is cut off or down breaks: watch_close
Disconnect(r) ==
  /\ r \in connected /\ (r \in cut \/ ~Runs(r))
  /\ connected' = connected \ {r} /\ ready' = ready \ {r}
  /\ watch' = [watch EXCEPT ![r] = <<>>] /\ news' = [news EXCEPT ![r] = FALSE]
  /\ UNCHANGED <<record, lease, scan, replica, local, outbox, call, load>>

\* register and watch_open: not ready until the next heartbeat.  The snapshot and
\* the look-back of leases_since bring the lease, except a change of another's that
\* is older than the look-back: the replica was cut off for longer than that.
Reconnect(r) ==
  /\ Reaches(r) /\ r \notin connected
  /\ connected' = connected \cup {r} /\ ready' = ready \ {r}
  /\ news' \in {[news EXCEPT ![r] = known] :
       known \in IF r \in healthy \/ work[r] # NoWork \/ holder = r THEN {TRUE} ELSE BOOLEAN}
  /\ UNCHANGED <<record, lease, scan, watch, replica, local, outbox, call, load>>

-----------------------------------------------------------------------------
(* Liveness and recovery *)

\* Mutant: heartbeat does not look at connection_id.
BeatsUnconnected(r) == ready \cup {r}

\* heartbeat: the row of a replica without a stream is left as it is
Beats(r) == IF r \in connected THEN ready \cup {r} ELSE ready

\* heartbeat_worker: acknowledged even if no stream is open
Heartbeat(r) ==
  /\ Reaches(r) /\ ~(r \in healthy /\ r \in ready)
  /\ healthy' = healthy \cup {r}
  /\ ready' = Beats(r)
  /\ UNCHANGED <<record, lease, scan, connected, stream, process, cut, local, outbox, call,
                 load>>

\* Ten seconds without an acknowledgement
Fence(r) ==
  /\ Runs(r) /\ r \in cut
  /\ healthy' = healthy \ {r}
  /\ UNCHANGED <<record, lease, scan, instances, stream, process, cut, local, outbox, call,
                 load>>

\* Fifteen seconds without a heartbeat: a replica that is cut off is fenced by then, and
\* its work may go on until the next tick (SelfFence).
DeclareDead(r) ==
  /\ r \in ready
  /\ \/ process[r] = "down"
     \/ r \in cut /\ r \notin healthy
  /\ ready' = ready \ {r}
  /\ UNCHANGED <<record, lease, scan, connected, stream, replica, local, outbox, call, load>>

\* dead_leases
Scan ==
  /\ scan = NoScan /\ holder # Nobody /\ ~Live(holder)
  /\ scan' = [holder |-> holder, idle |-> live = {}]
  /\ UNCHANGED <<record, lease, instances, stream, replica, local, outbox, call, load>>

\* Mutant: a dead holder's lease is left alone if nothing was running.
RecoversBusy(next, stop) == ~scan.idle /\ TakeOver(next, stop)

\* What recover does with the lease it has locked, if the holder is still dead: it
\* goes by what was running when the leases were read
Recovers(next, stop) ==
  IF scan.idle
  THEN holder' = Nobody /\ UNCHANGED <<record, version, clock, news>>
  ELSE TakeOver(next, stop)

\* recover, with a live replacement or under the stop policy.  A ready replica stands for one
\* whose agent's process is ready too (live_node).
Recover ==
  /\ scan # NoScan /\ scan.holder = holder /\ ~Live(holder)
  /\ \E mode \in Modes, next \in Holders :
       /\ next = Nobody <=> scan.idle \/ mode = "stop"
       /\ next = Nobody \/ next \in ready
       /\ Recovers(next, mode = "stop")
  /\ scan' = NoScan
  /\ UNCHANGED <<instances, watch, replica, local, outbox, call, load>>

\* The holder changed or is alive, or there is no replacement yet: nothing to do
RecoverSkips ==
  /\ scan # NoScan
  /\ \/ scan.holder # holder
     \/ Live(holder)
     \/ ~scan.idle /\ ready = {} /\ "reassign" \in Modes
  /\ scan' = NoScan
  /\ UNCHANGED <<record, lease, instances, stream, replica, local, outbox, call, load>>

-----------------------------------------------------------------------------
(* Replicas stop, the network parts *)

\* A replica that is gone has lost its memory.
Gone(r) ==
  /\ process' = [process EXCEPT ![r] = "down"]
  /\ thread' = [thread EXCEPT ![r] = NotCached] /\ work' = [work EXCEPT ![r] = NoWork]
  /\ orphans' = [orphans EXCEPT ![r] = {}] /\ outbox' = [outbox EXCEPT ![r] = <<>>]
  /\ load' = [load EXCEPT ![r] = NoLoad]
  /\ healthy' = healthy \ {r} /\ UNCHANGED <<cut, began>>

\* A Publish in flight may still reach the gateway.
Crash(r) ==
  /\ Upset("crash", r) /\ Runs(r)
  /\ Gone(r)
  /\ call' \in {call, [call EXCEPT ![r] = NoCall]}
  /\ UNCHANGED <<record, lease, scan, instances, stream>>

\* drain: live work ends in the replica alone, an idle conversation is released.
\* A draining replica is taken to accept no new work.
Drain(r) ==
  /\ Upset("drain", r) /\ Runs(r)
  /\ process' = [process EXCEPT ![r] = "draining"]
  /\ work' = [work EXCEPT ![r] = NoWork]
  /\ thread' = [thread EXCEPT ![r].holds = @ /\ work[r] # NoWork]
  /\ outbox' = [outbox EXCEPT ![r] = IF work[r] = NoWork THEN Released(r) ELSE @]
  /\ UNCHANGED <<record, lease, scan, instances, stream, cut, healthy, orphans, began, call,
                 load>>

\* publish handles the final not-ready heartbeat before the events of its batch.
DrainBeat(r) ==
  /\ process[r] = "draining"
  /\ process' = [process EXCEPT ![r] = "flushing"]
  /\ ready' = ready \ {r}
  /\ UNCHANGED <<record, lease, scan, connected, stream, cut, healthy, local, outbox, call,
                 load>>

DrainFlush(r) ==
  /\ process[r] = "flushing"
  /\ Projects(r, outbox[r])
  /\ Gone(r)
  /\ UNCHANGED <<version, clock, scan, instances, stream, call>>

\* The flush does not get through in five seconds.
DrainFails(r) ==
  /\ process[r] \in {"draining", "flushing"} /\ r \in cut
  /\ Gone(r)
  /\ UNCHANGED <<record, lease, scan, instances, stream, call>>

\* Bound: one replica at a time.
Cut(r) ==
  /\ Upset("partition", r)
  /\ cut = {} /\ cut' = {r}
  /\ UNCHANGED <<record, lease, scan, instances, stream, process, healthy, local, outbox, call,
                 load>>

Heal(r) ==
  /\ r \in cut /\ cut' = cut \ {r}
  /\ UNCHANGED <<record, lease, scan, instances, stream, process, healthy, local, outbox, call,
                 load>>

-----------------------------------------------------------------------------
Init ==
  /\ holder = Nobody /\ version = 0 /\ clock = 0
  /\ runActive = FALSE /\ live = {} /\ scan = NoScan
  /\ connected = Replicas /\ ready = Replicas
  /\ process = [r \in Replicas |-> "up"] /\ cut = {} /\ healthy = Replicas
  /\ thread = [r \in Replicas |-> NotCached] /\ work = [r \in Replicas |-> NoWork]
  /\ orphans = [r \in Replicas |-> {}] /\ began = 0
  /\ outbox = [r \in Replicas |-> <<>>] /\ call = [r \in Replicas |-> NoCall]
  /\ load = [r \in Replicas |-> NoLoad]
  /\ watch = [r \in Replicas |-> <<>>] /\ news = [r \in Replicas |-> FALSE]

Lease(r) == LeaseRefused(r) \/ LeaseConfirmed(r) \/ LeaseInserted(r) \/ LeaseTaken(r)

Gateway == Scan \/ Recover \/ RecoverSkips \/ \E r \in Replicas :
  \/ Publish(r) \/ ReadRecord(r) \/ StreamLease(r) \/ DeclareDead(r) \/ Disconnect(r)
  \/ Lease(r)

Replica(r) ==
  \/ StartRun(r) \/ ExecuteCommand(r) \/ EndInvocation(r) \/ FencedTick(r)
  \/ \E i \in Invocations : OrphanEnds(r, i)
  \/ Ship(r) \/ Answered(r) \/ PublishFails(r)
  \/ AskToLoad(r) \/ Loaded(r) \/ LoadFails(r)
  \/ DeliverLease(r) \/ Reconnect(r) \/ Heartbeat(r) \/ Fence(r)
  \/ Evict(r) \/ Drain(r) \/ DrainBeat(r) \/ DrainFlush(r) \/ DrainFails(r) \/ Crash(r)

Network == \E r \in Replicas : Cut(r) \/ Heal(r)

Next == Gateway \/ Network \/ \E r \in Replicas : Replica(r)

Spec == Init /\ [][Next]_vars

\* The gateway answers, streams and recovers; a replica that runs ships, applies what
\* arrives, executes its commands and beats; what is down is found dead.  No host
\* need ever end, no request come, no network heal.
Fairness ==
  /\ WF_vars(Scan \/ Recover \/ RecoverSkips)
  /\ \A r \in Replicas :
       /\ WF_vars(Ship(r) \/ Publish(r) \/ Answered(r) \/ PublishFails(r))
       /\ WF_vars(Lease(r) \/ ReadRecord(r) \/ Loaded(r) \/ LoadFails(r))
       /\ WF_vars(StreamLease(r) \/ DeliverLease(r))
       /\ WF_vars(Heartbeat(r) \/ DeclareDead(r))
       /\ WF_vars(Disconnect(r) \/ Reconnect(r))
       /\ WF_vars(ExecuteCommand(r) \/ FencedTick(r))
       /\ WF_vars(DrainBeat(r) \/ DrainFlush(r) \/ DrainFails(r))

FairSpec == Spec /\ Fairness

-----------------------------------------------------------------------------
(* Properties *)

Frames == [kind : {"begin", "end", "release"}, inv : 0 .. MaxInvocations, seen : BOOLEAN]
LeaseFrames == [holder : Holders, version : Versions]
AtMostOne(S) == {<<>>} \cup {<<x>> : x \in S}

\* Every variable holds a value of its type.
TypeOK ==
  /\ holder \in Holders /\ version \in Versions /\ clock \in Versions
  /\ runActive \in BOOLEAN /\ live \subseteq Invocations
  /\ scan \in [holder : Holders, idle : BOOLEAN]
  /\ ready \subseteq connected /\ connected \subseteq Replicas
  /\ process \in [Replicas -> {"up", "draining", "flushing", "down"}]
  /\ cut \subseteq Replicas /\ healthy \subseteq Replicas
  /\ thread \in [Replicas -> [cached : BOOLEAN, holds : BOOLEAN, version : Versions]]
  /\ work \in [Replicas -> [phase : {"none", "queued", "skipped", "running"},
                             inv : 0 .. MaxInvocations]]
  /\ orphans \in [Replicas -> SUBSET Invocations] /\ began \in 0 .. MaxInvocations
  /\ \A r \in Replicas : outbox[r] \in Seq(Frames) /\ call[r].frames \in Seq(Frames)
  /\ \A r \in Replicas :
       /\ call[r].stage \in {"idle", "sent", "handled"}
       /\ call[r].lost \in AtMostOne(LeaseFrames) /\ call[r].rejected \in BOOLEAN
  /\ load \in [Replicas -> [stage : {"idle", "asked", "leased", "read"},
                             version : Versions, interrupted : BOOLEAN]]
  /\ watch \in [Replicas -> AtMostOne(LeaseFrames)] /\ news \in [Replicas -> BOOLEAN]

Executing(r) == work[r].phase = "running"

\* A replica that believes it holds the lease at the version of the row is the row's
\* holder, whatever frame, answer or refusal told it and in whichever order they came.
VersionsAgree == \A r \in Replicas :
  thread[r].cached /\ thread[r].holds /\ holder # Nobody /\ thread[r].version = version
  => holder = r

\* As long as no live replica gives its lease up, only the holder executes: crashes,
\* drains and takeovers never let two replicas run the conversation.
OnlyHolderExecutes == \A r \in Replicas : Executing(r) => holder = r

\* What a replica has begun and not ended: the invocation of its conversation, and those
\* that go on executing on a conversation its cache has replaced.
Doing(r) == (IF work[r] = NoWork THEN {} ELSE {work[r].inv}) \cup orphans[r]

Exclusive == INSTANCE ExclusiveExecution WITH
  holding <- {r \in Replicas : Runs(r) /\ thread[r].holds},
  doing <- [r \in Replicas |-> Doing(r)], begun <- 1 .. began,
  stopped <- {r \in Replicas : ~Runs(r)}

\* The lease keeps its promise while replicas only crash and drain: it is never taken from a
\* replica that runs, no late frame or answer makes that replica take it for lost, and only
\* its holder begins an invocation, after the one before has ended.
KeepsExclusion == Exclusive!Spec

\* A replica does not go on executing without the lease.
StrayWorkEnds ==
  (\E r \in Replicas : Executing(r) /\ holder # r)
    ~> \A r \in Replicas : Executing(r) => holder = r

\* A replica that is gone does not keep the lease while another, with its agent's process, is
\* ready to have it.
DeadHolderIsReplaced ==
  holder # Nobody /\ process[holder] = "down"
    ~> \/ holder = Nobody \/ process[holder] # "down"
       \/ \A r \in Replicas : process[r] # "up"

\* A run that a takeover interrupted is restarted by the replica it went to, as long as
\* that replica stays.
InterruptedRestarts ==
  holder # Nobody /\ process[holder] = "up" /\ runActive /\ live = {}
    ~> \/ holder = Nobody \/ process[holder] # "up"
       \/ ~runActive \/ live # {} \/ began = MaxInvocations

\* Execution exclusivity is one lease per conversation.
OneExecutor == \A r, s \in Replicas : Executing(r) /\ Executing(s) => r = s

\* Run state of a replica that no longer holds the lease is answered with the current
\* lease, and the replica ends its work: so it must not take the answer for an old one.
RefusalIsHeeded == \A r \in Replicas :
  Executing(r) /\ holder \notin {r, Nobody} => thread[r].version <= version

\* Recovery treats a draining replica as gone and restarts or fails its work: what is
\* recorded as running keeps a lease until then.
LeasedIfLive == live # {} => holder # Nobody

\* What the record shows running on a live holder is running there, or is settled.
RecordedIsExecuted == \A r \in Replicas, i \in Invocations :
  i \in live /\ holder = r /\ work[r].inv # i
    ~> i \notin live \/ holder # r \/ work[r].inv = i \/ cut # {}
=============================================================================
