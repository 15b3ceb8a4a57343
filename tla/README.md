# A TLA+ model of Tilde's core

Tilde is an agent registry and gateway. Users, applications and channels talk to
agents in conversations; the gateway keeps the conversations in PostgreSQL, decides
when an agent runs, and either wakes an agent process itself (gateway and lambda
deployments) or leaves that to sidecar replicas beside the agents. This directory
models the part of it where mistakes are hardest to see: who may run an agent in a
conversation, what becomes of the work when it is interrupted, and the effects an agent has
outside: its tool calls, its routines' firings and its sandboxes. The history of a conversation,
written behind all of that, is modelled too.

Paths below are relative to `src/crates/tilde/src` unless they start with `src/`.

## Inventory

| Part | State it keeps | Operations | Hard behaviour |
|---|---|---|---|
| Chat runs, invocations, inputs (`chat/runtime.rs`, `chat/controls.rs`, `chat/agent_lifecycle.rs`, `chat/providers/tilde/sessions.rs`, `chat/access/mod.rs`) | rows of `chat_runs`, `chat_invocations`, `chat_inputs`, `chat_message_dispatch` | start, resume, route, steer, queue, cancel, suspend, reorder; claim, wake, finish, renew, expire; pause, delete; change access | many writers of one conversation; late reports; lost gateways and hosts; inputs handed from one invocation to the next; access lost between posting and dispatch |
| Thread leases, gateway side (`deployment/mod.rs`, `project.rs`, `recovery.rs`, `hydrate.rs`, `rpc.rs`) | `thread_leases`, `agent_instances`, receipts, directives | Watch, Hydrate, Publish, Heartbeat, recover | partitions, reconnects, batches resent, takeovers |
| Sidecar replica (`deployment/runtime.rs`, `deployment/runtime/*`, `sidecar.rs`) | cached threads with the lease each believes in, an outbox, queued commands | load, start, execute, finish, evict, drain, apply a lease frame | a replica acts on a belief about a lease that the gateway may have moved |
| Run protocol (`deployment/run.rs`, `local_run.rs`, `wake.rs`) | connected hosts, waiters | Connect, wake, Report | a wake picked up by a host that dies; a replaced connection |
| Routing, relays (`deployment/routing.rs`, `relay.rs`, `public.rs`, `provider_events.rs`) | pins, directives | choose a deployment, forward, relay | forwarded calls answered after a failover |
| Routines (`routines/mod.rs`) | `routines`, `routine_runs` | create, edit, delete, tick, signal, fire | replicas whose clocks differ; a crash between rescheduling, claiming, starting and recording |
| Sandboxes (`sandboxes/mod.rs`, `launch.rs`, `rpc.rs`) | `sandboxes` rows with a lease; the VMs; the connect processes | wake, launch, resume, renew, sleep, terminate, connect | a task that dies at any statement; a provider that refuses; a stream that outlives its VM |
| Tool hosts and calls (`tools/hosts.rs`, `chat/tools.rs`, `chat/tools/audit.rs`, `tools/builtin.rs`) | `chat_tool_calls`, `tool_host_calls`, `tool_hosts`, Watch streams | invoke, enqueue, take, abandon, finish, deliver, watch, claim, respond, rotate, sweep | a late answer; an id invoked twice; a stream that breaks with a call on it |
| Conversation audit (`chat/audit.rs`, `chat/audit/queue.rs`) | `chat_activity`, `chat_threads.activity_sequence`; in each gateway a bounded queue and a worker | append, enqueue, flush, the worker's turns | events queued before they are committed; several gateways that write one history; numbers that never arrive |
| Inference budgets, usage audit (`inference/*`) | buffers of records | record, settle | a budget seen late; a full buffer |
| Telemetry, notifications, warm caches | buffers, wake-ups | forward, notify | none the core depends on: every worker also polls |
| IAM, connections, memory, skills, prompts, wikis, identities, signals | rows | CRUD, tokens, provider calls | a capability used after its invocation ended |

How they interact: chat ingress and tools call the chat runtime (a message is routed, an
input queued); the chat runtime asks routing for a deployment and wakes a host through
the run protocol; the host reports back, and its tools, sandboxes and inference calls
carry the invocation's capability. With a sidecar deployment the replica runs the same
turn from its cache, under a lease of the gateway, and publishes what it did; the
gateway projects that into the same tables. Routines and tool results enter as inputs.

What makes each correct: **chat runtime** - one live invocation per conversation; every
event dispatched once and in order; a run that is active is executed; what ended stays
ended; a paused agent runs nothing; a running invocation ends. **Leases and replicas** -
one replica executes a conversation; only the holder's run state reaches the record; a
dead holder's work is restarted; the fence comes before the takeover. **Tool calls** - a
call is started once, has one answer, and what the agent is told is what is recorded.
**Sandboxes** - one task at a time works on a sandbox, no VM is left behind, what sleeps can
be woken. **Routines** - a firing happens at most once, and a due one does happen. **History** -
it has what happened and nothing else, grows at its end only, so that a reader's cursor misses
nothing, and misses only what was lost.

`PROJECT.json` lists every component with its status, and under `hazards` every place
of this code that is hard to test, at its line.

## Modules

| Module | What it is |
|---|---|
| `Conversation` | the abstract specification of a conversation with an agent |
| `ChatRuns` | the chat runtime of one conversation: state, one action per transaction, properties; implements `Conversation` |
| `MCChatRuns` | constants for TLC |
| `ChatRunsProofs` | theorems of `ChatRuns`, the refinement among them |
| `ExclusiveExecution` | the abstract specification of execution under a lease |
| `ThreadLease` | the lease of one conversation of a sidecar agent: the gateway's row and record, the replicas, the calls between them; implements `ExclusiveExecution` |
| `ThreadLeaseTypes` | its type invariant, proved |
| `ThreadLeaseProofs` | theorems about versions, refusals and exclusive execution, and the refinement |
| `SelfFence` | the clocks behind that lease: heartbeats, acknowledgements, fence, tick, window |
| `SelfFenceProofs` | theorems of `SelfFence` |
| `CallPromise` | the abstract specification of an effect recorded under a key |
| `ToolCalls` | tool calls answered by a connected host; implements `CallPromise` |
| `ToolCallsProofs` | theorems of `ToolCalls`, the refinement among them |
| `Routines` | one routine and its firings; implements `CallPromise` |
| `MCRoutines` | its schedules for TLC |
| `RoutinesProofs` | theorems of `Routines`, the refinement among them |
| `Sandboxes` | one sandbox: its row, VMs, processes and the tasks that work on it |
| `SandboxesProofs` | theorems of `Sandboxes` |
| `ActivityHistory` | the abstract specification of a conversation's history |
| `AuditQueue` | the history of one conversation: transactions, the gateways' queues and workers; implements `ActivityHistory` |
| `AuditQueueProofs` | theorems of `AuditQueue`, the refinement among them |

### ChatRuns

One conversation is one (thread, agent) pair: the unique index
`chat_one_active_invocation` and all the code's queries are per pair. The tables are
functions from row numbers to columns (`runStatus`, `objective`, `invStatus`, `invRun`,
`origin`, `owner`, `accepted`, `position`) and sets for NULL/NOT NULL and Boolean columns
(`pinned`, `started`, `leased`). A row's number is the order of its creation. Texts are
abstracted to the set of events they were built from: `objective[r]` is the set of the
start requests, messages and inputs whose text is in the run's objective, which is what
"dispatched" means. Besides the tables there are the processes: `setup` and `polling` are
the gateway's tasks (before the wake is acknowledged, and waiting for the end), `hosts`
the agent processes that hold the capability of an invocation, `reads` the requests to
resume a run that have read and not yet written, `routed` the messages already routed.

Every action is a committed transaction, and a transaction is one action, since each
takes the thread's row lock first (`thread_lock`, or the agent's row for pause). What the
code calls inside a transaction is in the action: `End` is an invocation's end with the
run's status and `requeue_inputs`; `Finish` is `finish` with the dispatch that a
suspending run withholds; `Schedule` is the concurrency policy, which an action may be
given any of (the agent's policy can be changed at any time). `ResumeRun` reads outside
its transaction (`chat/runtime.rs:140`), so it is `ReadRun` and then `ResumeRun` or
`ResumeRefused`. The gateway may lose a task at any point (`TaskLost`), a wake may fail
although the host received it (`TaskFails`), a host may report late and twice (`Report`),
set its run's status with a capability of an ended invocation (`SetRunStatus`) or vanish
(`HostGone`). Thirty seconds without a renewal are `LeaseLapses`.

Access. A thread may be bound to a channel (`Bound`), whose senders are admitted or not:
everybody in public mode, the identities allowed in private mode, nobody when it is disabled or
its connection not ready (`Admissions`). `admitted` is who is admitted now, and `ChangeAccess`
changes it at any time (`set_mode`, `set_allowed`, a connection lost or ready again). The code
looks at it in four places, and so does the model: a message is routed only if its sender is
admitted (`RouteMessage`, `message_allowed`); `requeue_inputs` takes only what `Eligible` leaves
of the `Waiting` inputs (`inputs_pending.sql`), while `input_move` moves all of them, so that a
barred input may end up in front of the one that is taken, or, when nothing is eligible, on an
invocation that is over; an invocation is claimed, and a run resumed, only if who the run is for
is admitted (`RunAllowed`, `run_allowed`). `source` is who a run is for: the management API
(`Native`), a sender, or the channel but no sender (`Nobody`). `Barred` are the senders with
no access now. `stop_invalid`, which `set_mode` and `set_allowed` call after their commit, cancels
invocations one at a time: each is a `CancelInvocation`, which may also fail or come late.
Each message stands for its own sender, so a steer's source is that of the run it waited
for (`SourceOf`). Assumed: the sender is an identity of the thread's own connection, so that
`chat_identity_allowed` and `chat_channel_message_allowed` agree on it; a thread is bound to its
channel before its first run (a native run whose thread is bound later is `Native` here only
where nothing of the channel enters).

Bounds: `MaxRuns`, `MaxInvocations` and `MaxReads` bound rows and requests in flight.
`Access` bounds who may be admitted, at different times. A step that would need one more row is disabled, so `ResumeRun` leaves room for the runs
still to be created, and `MCChatRuns` assumes that there are as many runs as events.

### Conversation

What users and hosts rely on, without rows, statuses, leases or tasks: a run is begun with what is
posted just then or waits, in place of the one that is executed or of none; each event is posted
once and given to one run (`Begin`, `Join`); a run may only stop while nothing waits, unless it
was suspended (`Stop`), and what was held then comes back with `Resume`, or when a user moves it
to the front of everything (a `Begin` with the whole queue); a run that is over is not executed
again; nothing is begun or resumed for a deleted agent. Senders lose access and regain it
(`Admit`): what is `barred` is not posted and not given to a run, and it alone may be left behind by a
run that stops without having been suspended. `Resume` brings back *some* of what is
held, not all of it: that is what the code does (`ChatRunsStaleResume.cfg`). `ChatRuns` implements it
with the run of the live invocation as `executed`, the inputs not accepted as `waiting` and `held`
(on a live invocation, or on one that ended), the objectives as `given`, and `Barred`. That the oldest input goes first
is `OldestFirst`, not part of it.

### ThreadLease

The conversations of a sidecar agent run in replicas, under a lease. `ThreadLease` is one
conversation: its row of `thread_leases` (`holder`, `version` = `updated_at`), the run
state PostgreSQL records for it (`runActive`, `live`), the instances (`connected`,
`ready`), and in each replica the cached conversation with the lease it believes in
(`thread`), its live invocation (`work`), executions of a conversation the cache has
replaced since (`orphans`), the `outbox`, and the calls and frames in flight: `call`
(Publish), `load` (Hydrate), `watch` (the stream). `healthy` is the fence
(`gateway_healthy`).

A gateway action is one transaction: `Publish` projects a whole batch (`Project` folds `Apply`
over its frames, with the lease remembered between them, receipts and the index of live
invocations; the frame-by-frame retry of a poisoned batch is one action too, although each of
its frames commits on its own; a takeover between the look at the holder and the write is not modelled: for a channel's conversations `lock_thread_route` keeps it out, for others `lease_holder.sql` takes no lock), the `Lease` actions are the outcomes of
`lease_in`, `Recover` is one pass of `recover` over the row that `Scan` read before (what
was active is read then, and the holder checked again under the lock; the replacement must have a
ready agent process too, `live_node.sql`, which a replica in `ready` is taken to have). Hydrate is three
steps, since the lease commits (`Lease`) before the record is read (`ReadRecord`) and both
before the answer arrives (`Loaded`), where it replaces whatever is cached. A replica's
action is what it does under the conversation's lock. `ApplyLease` is `apply_lease` for
frames, snapshots and refusals alike. A drained replica's last heartbeat is handled before
the events of its batch (`DrainBeat`, `DrainFlush`).

What is abstracted: one conversation and agent; a run has no identity, only whether the
record has an active one; a begin is one frame (run.created, invocation.pending), an end
another (invocation.ended, run.updated), and `invocation.running` is left out because the
record treats pending and running alike; queued inputs, steering, suspension, directives
and pins are left out; a requester that asks for the conversation is `AskToLoad` at any
time. The database's clock advances by two with every lease given out, so that a time
between two leases exists (`Now`: what the gateway answers without a row). A lease's
version is the time it is written, except that `lease_insert` writes the start of its
transaction: with the upset "stall" that transaction may have waited for the
conversation's lock. Two leases in one millisecond, which the wire could not tell apart,
are not modelled. A row streamed again unchanged is not, either.

Bounds, named in the module: `MaxVersion` (two leases given out for 4), `MaxInvocations`,
`MaxOutbox` (a turn starts, or an eviction's second Release is queued, only behind that many
frames), `Exposed` (the replicas the upsets happen to), and one replica cut off at a time.
Timing assumption: a replica that is cut off is taken for dead by missed heartbeats only
after it was fenced (`DeclareDead`); what it executes may go on until its next tick. That is
what `SelfFence` proves of the clocks (`NeverOwnsBeside`, `OverlapIsBounded`), and it is only
about missed heartbeats: `Disconnect` makes an instance not ready at once.

### ExclusiveExecution

What the lease promises while replicas stop, drain and are replaced: a lease somebody has is
given to another only when that replica has stopped; who takes itself for the holder is;
only the holder begins an invocation, one that never began before, when it has nothing
unfinished; and a replica forgets the lease only when it does nothing. `ThreadLease` implements
it with the replicas' beliefs (`thread[r].holds`) as `holding` and with what a replica executes,
or goes on executing behind its cache, as `doing`.

### SelfFence

The replica beats every `Every` seconds, ships events whenever it has some, and stores when
an answer to either last arrived (`acked`, `gateway_ok`); it owns its leases while that is
less than `Fence` ago (`Healthy`), and what it executes looks at that every `Look` seconds.
The gateway stores when it handled a heartbeat (`seen`; events alone do not count) and gives
the lease away when that is more than `Window` ago. A message takes `Delay` at most or is
lost. Time is an integer; `Tick` does not pass a moment at which a message or a timer is due.
Assumed: both clocks run at the same speed (a wall clock that is set, and a process that is
stopped and goes on, are outside), an answer is back before the next heartbeat, and
`Every + 2 * Delay + Fence <= Window` (`FenceAssumption`: with 3, 10 and 15 seconds a
message may take one second, with what its receiver does to handle it). The network is cut
once and for good, because the claims are about the first takeover.

The comment of `SELF_FENCE_MS` (`deployment/runtime.rs:34-36`) says of a partitioned holder
that it never runs beside its replacement. Of what the holder *owns* that is so
(`NeverOwnsBeside`). Of what it *executes* it is not: the tick may come `Look` after the fence,
and the answer to events handled just before the cut moves the fence but not the window.
`OverlapIsBounded` is what holds instead: less than `Every + 2 * Delay + Fence + Look - Window`
seconds, five with the code's durations.

### CallPromise

What `chat/tools/audit.rs` promises of a call id and `routines/mod.rs` of a fire key, as an
abstract machine: claim, execute once and never unclaimed, close once, and as completed only
what ran. An effect may still come after its record was closed as failed or aborted: nothing
recalls a call from a host. Records of the keys in `Removable` may be removed with what they belong
to, whatever they said; a key whose record was removed is never claimed again, and its effect, if it
was claimed, may still come, once. Of tool calls nothing is removable.

### ToolCalls

A request is a task (`task`), and a repeated request another task with the same call id.
`record` is the call's row of `chat_tool_calls`, `row` its row of `tool_host_calls` (created by
`Enqueue`, taken with its answer by `Take`, deleted by `Abandon` at the deadline or by the
sweep `ExpireRow`), `stream` the Watch streams between gateway and host, `inbox`, `working` and
`ran` the host. A stream's turn is what the code does in statements of their own: the token is
checked (`Check`), the pending calls are claimed and marked (`Claim`), and each is sent
(`Send`), so a token may be rotated, or the stream break, between any two. `Execution`'s drop
is `Drop` followed by `ReportAbort`; a crash loses even that. `detached` calls run in the
background, and their outcome is delivered after it was recorded (`Deliver`). The host may
start, answer, repeat or change its answers, be restarted, or do nothing.
Left out: Lambda hosts and tools the gateway runs itself, credentials (resolving them may
fail in `Prepare`), streamed input, several hosts. A record an hour old and a queue row an
hour old have nobody working on them (`Interrupted`, `ExpireRow`). A database error while the task waits
(`tools/hosts.rs:632-645`), which fails the call and leaves its queue row to the sweep, is left out too.

### Routines

One routine, the replicas that tick and the deliveries that signal it. Due times are compared
with the database's clock, next times are computed with a process's own (`Clocks`, `Skew`
apart). A tick claims the due routine and stores its next time in one statement (`Tick`), then
fires: `Claim` inserts the row of `routine_runs` under the fire key (the due time, or the
event's id), `StartRun` starts the agent's run, `Finish` records the outcome. Each is a
statement, and the process may crash between any two; `lost` has the keys that were due and
never claimed. An edit is validated (`Validate`, which computes the next time) before it is
stored (`Store`), so ticks may come in between. `Records` reads `claimed`, `started`,
`failed` as the promise's running, completed, failed. `Delete` takes the routine's rows of
`routine_runs` along (`ON DELETE CASCADE`): a key that had one reads as removed, and a firing that
was claimed before goes on to start its run and finds no row to record it in.
Left out: the delivery's matching and the prompt's text; the calendar of a cron expression
is a set of times.

### Sandboxes

The sandbox of one key: its `row`, the VMs the provider has (`vm`), the `tilde sandbox connect`
processes in them with the token each was started with (`proc`), and the tasks: wakes,
sweeps, renewals and terminations, of any gateway process, each a program counter with what it
has read (`task`). An action is one statement or one request to the provider, which may refuse
or do half of it (`LaunchHalfway`, `SleepFails`, `TerminateFails`). Both providers are modelled:
E2B pauses a VM and resumes it, Modal snapshots and terminates it and launches from the
snapshot. A task may be dropped anywhere (`Crash`), which leaves its lease until it lapses.
`orphans` are the VMs the code knowingly loses: the launch's answer never recorded, or a kill
after a failed launch that was refused. An E2B launch whose answer is lost is `LaunchHalfway` too. Left
out: a Modal launch whose answer is lost, whose VM would be one more orphan with a process; and a
setting or blueprint that is restored, or changes its connection, while wakes still find the old
row: `Unwant` is for good, and a wake starts only before it.
Assumed: a task outlives its lease only by being dropped (`Lapse`): `LEASE_SECS` covers what a
task does, the wait for a registration included; nothing in the code enforces it after the
lease is taken. The operations queued for a sandbox are calls in `ToolCalls`' manner; here one
in flight is a task at "using".

### ActivityHistory

What readers of the activity history and callers of `flush` are promised, of numbers alone: the
history is appended to above all that is in it; whatever it leaves out below an event it has,
and whatever it does not show of what an answered flush was called for, comes after an event
that may be lost, or is one. Which may be lost is known when an event happens: in `AuditQueue`,
those dropped from a full queue and those of a gateway that crashes or is held up (`Gone`).

### AuditQueue

A transaction numbers its events under the row lock of the conversation (`writer`, `sequence`;
`recorded` is the number as committed, so a rollback gives numbers again) and queues each in
its gateway's memory before it commits (`Event`, `Enqueue`). `channel` is what was sent to a
gateway's worker, `pending` what the worker keeps; together they are limited (`Capacity`
stands for the memory budget and the channel's length), and an event that does not fit is
dropped. A worker's turn is one action for each statement: it receives everything (`Receive`), asks
which transactions have committed (`Check`; those rolled back are forgotten), takes the
conversation's advisory lock (`Lock`, `LockBusy`), runs `audit_flush` (`Insert`: what is
above the watermark without a gap, or over one if the first such event has waited), and
commits (`Record`); then what was written, and what came too late, leaves the queue, and a
flush is answered if nothing found committed is left (`TurnEnds`). A statement may fail, also
after its effect (`CheckFails`, `RecordFails`: the batch is committed and the worker does not
know), and a gateway may crash with its queue (`Crash`; a pool that is closed ends the worker
in the same way).

`waited` has the events queued for longer than `GAP_WAIT`, a second. It is the module's only use
of time: a worker turns every 25 milliseconds, so when an event has waited for a second, what was
committed before it in gateways that are not held up has been written (`Wait`, `Due`).
`Exposed` are the gateways that may crash or be held up for longer. With `SlowCommits` an event
may also have waited because its own transaction was open for that long.
Left out: other conversations (the worker writes each under a lock and a transaction of its
own), the limits of 256 events and 64 conversations a turn, the five seconds after which a
caller of `flush` gives up, a conversation deleted meanwhile, and transactions so old that
PostgreSQL no longer knows how they ended.

## Runs

| Run | Checks | Instance | Result |
|---|---|---|---|
| `queue` | `RevokedAgentRunsNothing`, `OldestFirst`, `NothingDropped`, `HeldOnlyBySuspension`, `KeepsConversation` | a start, a channel sender's message and a steer, all policies, the channel public or lost at any time, 2 invocations | holds, 0.7 M states |
| `resume` | `OneActiveInvocation`, `ActiveRunIsExecuted`, `DispatchedOnce`, `EndedStaysEnded` | a start and a steer, all policies, no channel, 3 invocations, one resume in flight | holds, 1 M states |
| `live` | `RunningEnds`, `QueuedIsServed` | messages of two senders, one of whom loses and regains access, 2 invocations, deployments come and go | holds under `FairSpec`, 90 k states |
| `takeover` | `OnlyHolderExecutes`, `KeepsExclusion`, `DeadHolderIsReplaced`, `InterruptedRestarts` | two replicas, one crashes or drains | holds under `FairSpec`, 65 k states |
| `partition` | `TypeOK`, `VersionsAgree` | two replicas, one is cut off and healed, or drains | holds, 1 M states |
| `evict` | `StrayWorkEnds` | two replicas, one evicts | holds under `FairSpec`, 145 k states |
| `fence` | `ReachableIsAlive`, `NeverOwnsBeside`, `OverlapIsBounded` | the code's durations, messages of up to a second, 24 s | holds, 0.6 M states |
| `calls` | `TypeOK`, `CompletedIsAnswered`, `ToldIsRecorded`, `KeepsPromise`, `RecordsClose`, `QueueDrains` | one call id requested twice, two streams, a rotation, a restart | holds under `FairSpec`, 0.5 M states |
| `routines` | `StartedOnce`, `NextOnlyForCron`, `KeepsPromise`, `DueFires` | two replicas that tick, one of them also for deliveries, two edits, times 1 and 2, clocks one apart | holds under `FairSpec`, 0.4 M states |
| `sandboxes` | `OneAtATime`, `NoVMForgotten`, `CanWake` | two tasks that sweep, renew and terminate, one of which also wakes; one row, two VMs, two processes, either provider | holds, 2 M states |
| `audit` | `OnlyWhatHappened`, `FlushDrains`, `MissingAfterGone`, `GrowsAtItsEnd`, `KeepsHistory`, `EventsSettle` | two gateways, one may crash or be held up, the other calls flush; two transactions, two numbers, two upsets | holds under `FairSpec`, 54 k states |
| `woken` | `WokenIsUp` | as `sandboxes`, both tasks wake | violated, see below |

`TypeOK` of `ChatRuns`, `Routines`, `SelfFence` and `Sandboxes` has no run: it is proved for every instance
(see Proofs). `ChatRunsContract.cfg` checks `HeldOnlyBySuspension` and `KeepsConversation` on the
instance of `resume`, where what is held comes back (the step `Resume` of `Conversation`), and `SandboxesWakes.cfg` the
properties of `sandboxes` for two tasks that wake, one of which also keeps, in 5 M states; both hold.
Nine more configurations hold counterexamples that are not run regularly; each has
TLC find the named property violated:

| Configuration | Property | Instance |
|---|---|---|
| `ChatRunsStaleResume.cfg` | `ResumeCarriesInput` | as `resume`, 4 invocations |
| `ChatRunsNeverStarted.cfg` | `LatestIsNewest` | one run, three invocations |
| `ChatRunsUnpinned.cfg` | `PendingStarts` | two inputs, 2 invocations, deployments come and go |
| `ChatRunsNative.cfg` | `ProviderRunsCarrySender` | as `queue`, everybody keeps access |
| `ThreadLeaseStream.cfg` | `OneExecutor` | as `partition`, no drain |
| `ThreadLeaseFenced.cfg` | `RecordedIsExecuted` | one lease, partitions |
| `ThreadLeaseStall.cfg` | `RefusalIsHeeded` | one replica evicts, Hydrate may be held up |
| `ThreadLeaseDrained.cfg` | `LeasedIfLive` | one replica drains |
| `AuditQueueSkips.cfg` | `MissingAfterGone` | two gateways, three transactions, `SlowCommits`, no upset |

Why the bounds are enough: order, batching and the barred need two inputs that wait and one that is
taken (`queue`: the message's sender loses access while the message waits in front of the steer,
behind the start's run, which the first invocation executes and the second replaces); a
stale report, task or capability needs one invocation after it, and one more to be ended wrongly
(`resume` has three); what is served after access is lost needs a sender who keeps it (`live`); a
stale read needs one resume in flight, and two invocations between its read and its
write (`ChatRunsStaleResume.cfg`). A third invocation in `queue`, in which an input passed over is
taken after all when its sender regains access, takes too long to be run; the theorems are for
every bound.

The lease's hazards are between a holder and one claimant, so two replicas meet them
all: one to be upset, one to take over. Two leases are given out in the runs (a first and
its successor; the same replica may be both), and two invocations begin where one is
interrupted and another restarts it. `partition` needs one only, since it relates leases.

The other modules' hazards need two of a kind, too: a call id requested twice and claimed by
two streams, of which one has the old token; two replicas that tick and an edit between them,
one of which may bring a time back; two tasks at one sandbox (two that keep and one that wakes in `sandboxes`, two that wake in
`SandboxesWakes.cfg`), and a VM and a process after
the first. Calls do not touch each other, so one is enough (`Calls` is a set in the proofs),
and so are one routine and one key of sandboxes. In `fence`, 24 seconds hold a heartbeat, a cut,
the window, and the tick after it.

The history's hazards need two gateways that write, a number given again or one that never
turns up, and an event behind it: two transactions and two numbers. A queue of two overflows only when a rolled-back
event is still in it. The safety
properties were also checked once with three transactions, numbers and places, which takes
too long to be run regularly; the theorems of `AuditQueueProofs` are for every bound.

Deadlock is not checked: a conversation whose events are used up, or whose agent is
deleted, may stop, and so may one whose bounds are used up or whose replicas are gone.

Fairness (`FairSpec`): the worker polls, so a pending invocation it can claim is claimed
and its task gets past the start (`Claim`, `Task` in `setup`); executions do not last
for ever (`HostGone`: the host's stream ends or times out); time passes (`LeaseLapses`)
and the sweep runs every few seconds (`Expire`). No user, application or host owes
anything, and a task that waits for the end of its invocation may wait for ever: the
sweep must do without it.

Fairness of `ThreadLease`: the gateway answers the calls it has received, streams lease
changes and runs recovery every five seconds (a tick is enough, notifications make it
faster); a replica that runs ships its outbox, applies what arrives, executes queued
commands, ticks and sends heartbeats; a dead one is found dead after fifteen seconds. Each
is weak, and each pairs the steps of one loop (`Ship`, `Publish`, `Answered`,
`PublishFails`). No request need come, no host finish, no network heal.

Fairness of `ToolCalls`: the task of a request goes on (its wait ends at the deadline at the
latest) unless it is dropped or its process dies, and the sweeps run. The host owes nothing:
it need not answer, start or connect. `Routines`: every replica ticks, and a firing goes on
unless its process dies; the clock need not advance. `SelfFence` and `Sandboxes` are checked for safety only: what
a provider refuses may be refused for ever. `AuditQueue`: a transaction ends, a worker goes on with its turns,
a second passes for what stays queued, and a worker that tries the advisory lock again and
again finds it free at some time (strong fairness of `Lock`: the others hold it for a few
milliseconds of every turn). Failures and crashes are bounded; callers owe nothing.

### What the violations show

* `ChatRunsStaleResume.cfg`: the documentation says that ResumeRun "starts a new invocation and
  carries unconsumed input forward" (`src/CONTEXT.md:1003`). `resume_run` reads the latest
  invocation before its transaction. If another resume, its execution, an input and a
  suspension come in between, the input stays on the invocation nobody read.
* `ChatRunsNeverStarted.cfg`: what `resume_run` reads as the latest invocation is the first by
  `started_at DESC NULLS FIRST` (`run_get.sql`). An invocation that a late `SetRunStatus` and a
  cancel ended before it started has no `started_at` and stays first for ever, so every later
  resume reads it in place of the newest one, and leaves behind what waits there: the same
  documented promise, broken without any two requests racing.
* `ChatRunsUnpinned.cfg`: `start_run` and `route_pending` refuse to create an invocation no deployment
  can execute; `requeue_inputs` and `resume_run` create it with a NULL deployment, which
  no query ever claims, also when a deployment is registered again.
* `ChatRunsNative.cfg`: "Native/management-initiated runs have no provider sender. ... must not revoke
  their existing runtime grant. Provider-triggered runs always carry a sender."
  (`src/migrations/20260910090000_channel_access.sql:55-56`). An input steered into a native run of a thread
  that is bound to a channel, and dispatched to a run of its own when that one is
  interrupted, gives a run that is on behalf of the channel and of no sender:
  `inputs_pending.sql` takes the sender from the native run and `channel_origin` from the thread.
  In private mode nobody may claim it, whatever grants there are.
* `ThreadLeaseStream.cfg`: the documentation promises that "a partitioned holder never runs beside its
  replacement" (`src/CONTEXT.md:1672`), from a fence of ten seconds inside a window of
  fifteen. Closing the Watch stream makes an instance not ready at once
  (`watch_close.sql`), and not ready is dead: the window is then zero.
* `ThreadLeaseFenced.cfg`: a fenced replica ends its invocation locally because "the new holder's state
  is canonical" (`deployment/runtime/execution.rs:1029`). After a short outage there is no new holder:
  the record shows the invocation, and its run, live with nobody to settle them.
* `ThreadLeaseDrained.cfg`: the last heartbeat of a draining replica wakes recovery before the flush of
  the same batch is recorded. Recovery read the lease as idle and deletes it; the begin
  recorded meanwhile stays live, and no replica that takes the conversation later fails
  or restarts it. Where recovery reads in time there is a second way to the same state: drain
  publishes the outbox itself, with the Release at its end, while a Publish of the shipper with
  the invocation's end is in flight; handled after the Release, that end is refused. Draining is only
  the gentlest way there: an eviction, a crash or a partition lets recovery read too early as well.
* `woken`: a sandbox counts as connected for thirty seconds after a turn of its Connect
  stream, and `bring_up` returns at once for one that is. The gateway's side of the stream
  outlives the VM by a turn: when that turn comes after `sandbox_slept` has cleared the column,
  the next wake finds the sandbox live, settles it as running, and its VM is paused. The same ends
  come of a task dropped between a launch or a removal and its record, and of a VM that ends
  between its resume and the statement that settles it; TLC finds a wake without a VM under each
  of the three alone, and `OnlyStragglersMislead` proves that there is no fourth.
* `ThreadLeaseStall.cfg`: `lease_insert` stamps the row with the start of its transaction, which may have
  waited for a lock. The answer that a replica lost the lease then carries an older
  version than the lease it believes in, and `apply_lease` ignores it.
* `AuditQueueSkips.cfg`: "A short grace waits for earlier batches from other instances"
  (`audit_flush.sql:4`). Whether gaps may be skipped is taken from the first event of a batch
  (`FIRST_VALUE(i.skip_gap)`) and counted from when it was queued, which is before its
  transaction committed. If that transaction was open for a second, the batch may skip every
  gap behind it at once: an event that another, healthy gateway committed a moment ago is then
  below the watermark and discarded, although there was no crash and no overflow.

## Proofs

`ChatRunsProofs` proves for every set of requests, messages and inputs, every policy set
and every bound (no symmetry, no finite instance):

* `TypeInvariant`: `Spec => []TypeOK`. The only facts about the constants are
  `EventsAssumption` (inputs are finitely many, so places in a queue are numbers; the kinds
  of events are disjoint), `DeployablesAssumption`, and `AccessAssumption` (senders are messages, and who is
  admitted is who a policy can admit).
* `OneActive`, `ActiveRunsAreExecuted`, `RevokedAgents`, all from `SafeInvariant`: none of
  the three is inductive alone. A new run may only be created while nothing is live; an
  active run without a live invocation would let a resume add a second run's invocation
  later; a resume itself looks for no live invocation, and `OneActive` rests there on the unique index
  (the guard `Idle` of `ResumeRun`); a deleted agent stays idle because every action that creates needs an available
  agent or a live invocation. `Safe` is their conjunction, and `OnlyPending` (what an end
  dispatches is pending) carries a pause.
* `EventsAreDispatchedOnce` from `DispatchedInvariant`: an input in the queue, a message not
  routed and an input nobody has sent are in no objective, so whatever takes them up next
  adds them for the first time.
* `EndedIsFinal`: the action property `EndedStaysEnded`, from `TypeOK` and one lemma for each
  part of a transaction that writes a status.
* `NothingIsDropped`, `OldestGoesFirst`, `NothingLeftBehind`: the action properties
  `NothingDropped`, `OldestFirst` and `HeldOnlyBySuspension`, from the invariants above and
  `RowsInvariant` (a run not created has no objective; an invocation that exists has a run that
  exists; an input waits on one that exists). All three are parts of one fact about a step,
  `Serves`. Only the end of an invocation dispatches from the queue: `SelectedFirst` says that what
  is left comes after what is taken, or is barred, and `EndServes` that the renumbering keeps this. What
  `HeldOnlyBySuspension` leaves open is of barred senders because something that is eligible is always
  taken (`SelectedSome`).
* `StartedInOrder`: invocations start in the order they are created, whoever ended the one
  before (`LineageInvariant`: what is live is newer than all that has started). The order by
  `started_at` in which the code looks for the latest invocation rests on it.
* `TimelyResumesCarryInput`: `ResumeCarriesInput`, if what each resume read is still the newest
  invocation of its run when it writes (`ResumesReadNewest`). The invariant is that an input not
  dispatched waits on what is live or on the newest invocation of its run (`HeldOnNewest`), for which
  the lemmas `ClientMoves`, `ServerMoves` and `ResumeMoves` tell of every step which inputs change
  owner. So the two counterexamples above (a read that is overtaken, and one that finds an
  invocation that never started) are the only ways to leave an input behind.

* `ConversationIsKept`: `KeepsConversation`, the refinement of `Conversation`, for every policy, and
  every change of access. It takes all the invariants above and one more (`Founded`: a run
  that exists has been given something, and only what was sent is accepted); together they are
  `Sound`. `BeginFulfills` and `EndFulfills` do it for the two transactions that dispatch, the second
  for any end of the live invocation or of none, with its own queue, a new input, or everything;
  that something is always taken from a queue that is not empty (`SelectedSome`) is the
  well-foundedness of the places' order. Every other action is one of the abstract machine
  (`ResumeFulfills`, `SuspendFulfills`, `TellFulfills`, `RemoveFulfills`, `DeleteFulfills`) or is not seen
  by it (`SameFulfills`).

The lemmas follow the model's layers: `Create`, `End`, `Finish`, `Schedule`, then the
actions grouped by actor (`Client`, `Gateway`, `Host`, `Registry`).

`ThreadLeaseProofs` proves, for every set of replicas and every bound:

* `VersionsAlwaysAgree`: `VersionsAgree`, if no Hydrate transaction is held up (`Prompt`),
  through every crash, drain, eviction and partition. The property is about cached leases
  only; the invariant `VersionInv` says of everything that may become one (frames of the
  stream, answers of Hydrate, lost leases of Publish) that what it claims is not newer than
  the row, and right if it is as new (`Claim`). `RowMoved` shows that a step leaves the row,
  deletes it, or gives it a version newer than any before; `ClaimsSurvive` that claims outlive each; then
  one lemma for each place a claim is kept.
* `ExecutionIsExclusive`: `OnlyHolderExecutes`, if the upsets are crashes and drains (`Calm`).
  The invariant adds to `VersionInv` that a replica that runs is taken for alive (`UpInv`, so
  nobody takes its lease), that it has released nothing (`QueueInv`: no Release in its
  outbox or call), that only what runs executes (`WorkInv`), that a refusal names somebody
  else (`LostInv`), and that whoever holds, is granted or is about to be told the lease is
  the row's holder (`HeldInv`). `UpInv` or `QueueInv` fails as soon as a live replica may be
  cut off or evict, and the `evict` run and the counterexamples above show what follows.
  `ExecutorIsAlone` is its corollary: no two replicas execute.
* `RefusalsAreHeeded`: `RefusalIsHeeded`, under every upset but a Hydrate transaction that is held
  up (`Prompt`). It needs `VersionInv` and that what executes has a lease in its cache
  (`UnderLease`). The stalled transaction of `ThreadLeaseStall.cfg` is therefore the only cause of
  that violation: no eviction, crash or partition has the same effect.
* `LeaseKeepsItsPromise`: `KeepsExclusion`, the refinement of `ExclusiveExecution`, if the upsets are
  crashes and drains. Exclusive execution is not enough for it: a replica that runs must
  not lose a lease it has, nor be told so. The invariant adds `CurrentInv`: a running replica's
  cached version is the row's, answers that would take the lease away are older than the lease,
  and nothing is cached without it. `StepKeepsExclusion` then maps each action to one of the
  abstract machine or to a stutter. That the holder's events are never refused, so that no
  Publish takes its lease (`HolderIsHeard`), is a fact about the recursive projection of a batch,
  by the same argument as its type.

`ThreadLeaseTypes` proves `TypesAreCorrect`, `Spec => []TypeOK`, under every upset. Two facts carry
it. What a batch leaves behind has its type whatever frames it holds: the projection is a
recursive function over the batch, and the lemma about it (`ProjectInto`: what every frame
preserves, the batch preserves) takes the least frame after which it
would not hold, so that no induction over an operator is needed. And the clock stays within
`MaxVersion`, because a lease is only given out while there is room for its version.

`SelfFenceProofs` proves, for all durations that fit the window (`DurationsAssumption`,
`FenceAssumption`) and any horizon, `ReachableIsNotReplaced`, `OwnersAreNotReplaced` and
`OverlapAlwaysBounded`. The inductive invariant dates what the messages in flight can still
say: while the network carries, the last heartbeat handled is at most a period and a way old
(`BeatIsTimely`, `SeenIsRecent`), so nothing is answered later than that (`AnswersAreTimely`); a
takeover is later than the window (`ReplacedIsLate`), and an execution has been looked at
within the tick (`LooksInTime`).

`ToolCallsProofs`, for any number of calls, requests, streams, rotations and restarts:
`AnswerIsFirst`, `ToldWhatIsRecorded`, and `PromiseKept`, the refinement of `CallPromise`. The
invariant says of each call where it is: with one task at most between claim and end
(`ClaimInv`), in the queue or handed on (`QueueInv`), in one stream's frames or the inbox or
started, and never in two of these (`OnceInv`), and the accepted answer is the one in the row,
with the task and in the record (`AnswerInv`, `ToldInv`).

`RoutinesProofs`, for any schedules, replicas, deliveries, edits and skew: `StartedAtMostOnce`,
`NextIsForCron`, and `PromiseKept`, across edits and deletions. The claim of a key has one firer (`ClaimInv`), and what was
started for the key follows from where that firer stands (`StartInv`).

`SandboxesProofs`, for any number of tasks, rows, VMs and processes: `LeaseIsExclusive`,
`EveryVMIsNamed`, `SleepersCanWake`. The lease makes one task the holder; where the holder
stands tells whether the VM the row named is there, gone or about to be replaced (`Placed`),
which is why a launch over an old VM forgets nothing; and VMs are numbered as they are
launched (`Launched`), so a new one is nobody's.

`OnlyStragglersMislead` proves `WokenIsUp`, which `woken` refutes, of every behaviour whose steps are
`Undisturbed`: no turn of the stream of a VM that is not up, no task dropped between a launch
or removal and its record, no resumed VM ending before it is settled. Each condition is needed. Three
more invariants carry it: no process, row or launch names an orphan (`Strays`); what is put to
sleep runs (`Drowsy`); and a row heard of has its VM up, except while a launch that has not
connected replaces it (`HeardIsUp`).

`AuditQueueProofs`, for any number of gateways, transactions, numbers, places and failures:
`TypesAreCorrect`, `HistoryHappened`, `HistoryGrowsAtItsEnd`, `FlushIsABarrier`, and, if no
transaction is open for longer than `GAP_WAIT` (`~SlowCommits`; the counterexample above shows
that this is needed), `NothingMissing` and `HistoryIsKept`, the refinement of `ActivityHistory`: a
commit makes events happen, a flush asks, and every other step writes, answers, forgets or
stutters. It joins what the others say apart, with `OwedHappened` (a flush is called for
events that happened there): what it was called for has left the queue, is missing
from the history only after something gone, and so is in the history or unpromised. None is inductive alone. Their invariant says
how numbers, queues and workers hang together: the events not rolled back have the numbers up to
`sequence`, each once, and those up to `recorded` are the committed ones (`Numbering`); what is
queued either is such an event or was rolled back (`QueuesHoldEvents`); a worker at its write is
the one with the lock, and what it has inserted and not yet committed is above the history
(`Writing`), whatever the other gateways and a late event do; a flush still owed something is
still ahead of the worker (`FlushingAt`); and what is neither in the history nor in a queue is
lost, or behind something that is (`Lossless`). The watermark is a maximum over a set that the
provers know nothing about; `LeastNatural`, the induction over numbers, is stated once and used
where the history's last number is needed.

Assumptions used: `EventsAssumption`, `DeployablesAssumption`, `AccessAssumption`, `NobodyAssumption`, `BoundsAssumption`,
`TimesAssumption`, `KeysAssumption`, `LimitsAssumption`, the two of `SelfFence`, and `Prompt`,
`Calm`, `~SlowCommits` and `Undisturbed` above.

Only model-checked: the liveness properties, because fairness is beyond the prover. Every
invariant, action property and refinement of the runs is also proved, under the assumptions above.

## Plan

1. `ReplicaThread`: a replica's queued inputs, steering, commands and epochs, and the outbox
   with its limits across a change of lease; with it the hazards of skipped commands,
   unshipped begins and dropped events.
2. `RunProtocol`: connected hosts, wakes, waiters and reports, composed with `ChatRuns`' `Task`.
3. `ToolCalls` composed with `ChatRuns`' `QueueInput` (a background outcome becomes an input) and
   with `Sandboxes` (an operation queued for a sandbox that is put to sleep under it).

## Not modelled

Text, formatting, provider protocols, HTTP and SQL below the level of a transaction (row
locks, serialization failures), how a grant or a verification decides who is admitted, encryption,
generated contracts, SDKs, the web UI and vendored code. Participants, goals, tasks and
messages are rows behind single-statement handlers. A step of the gateway is a committed
transaction; a crash inside one rolls it back and is a stuttering step.
