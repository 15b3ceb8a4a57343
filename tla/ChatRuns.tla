------------------------------ MODULE ChatRuns ------------------------------
(***************************************************************************)
(* The gateway's runs, invocations and queued inputs of one conversation:  *)
(* one (thread, agent) pair, the unit of the unique index                  *)
(* chat_one_active_invocation.  Every action is one committed transaction  *)
(* of chat/runtime.rs, chat/controls.rs, chat/agent_lifecycle.rs or        *)
(* chat/providers/tilde/sessions.rs (they all hold the thread's row lock), *)
(* one step of a gateway task or of an agent host, or time passing.  A     *)
(* refused request rolls back, so it is a stuttering step and not an       *)
(* action.  ResumeRun reads before its transaction and is two actions.     *)
(***************************************************************************)
EXTENDS Naturals, FiniteSets

CONSTANTS
  Requests,        \* idempotency keys of StartRun
  Messages,        \* messages posted to the conversation for the agent
  Steers,          \* input ids of SteerInvocation and of queue_input
  Senders,         \* the messages sent by identities of a channel; each stands for its sender
  Access,          \* the sets of senders that may be admitted, at different times
  Policies,        \* concurrency policies the agent may be given, at any time
  Deployables,     \* whether a deployment can be chosen varies over this set
  MaxRuns,         \* bound: rows of chat_runs
  MaxInvocations,  \* bound: rows of chat_invocations
  MaxReads         \* bound: different reads of the ResumeRun requests in flight

ASSUME PoliciesAssumption ==
  Policies \subseteq {"queue", "queue_and_batch", "interrupt"}
ASSUME DeployablesAssumption == Deployables \subseteq BOOLEAN
ASSUME BoundsAssumption ==
  MaxRuns \in Nat /\ MaxInvocations \in Nat /\ MaxReads \in Nat
ASSUME EventsAssumption ==
  /\ Requests \cap Messages = {} /\ Requests \cap Steers = {}
  /\ Messages \cap Steers = {} /\ IsFiniteSet(Messages \cup Steers)

\* Rows are numbered in the order of their creation, None is SQL's NULL.
Runs == 1 .. MaxRuns
Invocations == 1 .. MaxInvocations
None == 0

Inputs == Messages \cup Steers          \* what chat_inputs can hold
Events == Requests \cup Inputs          \* what an objective is made of

\* What a run is on behalf of: the management API, a sender of the channel, or the channel
\* but none of its senders (channel_origin with a source_identity_id that is NULL)
Native == "native"
Nobody == "nobody"
Sources == Senders \cup {Nobody, Native}

\* The thread is bound to a channel.
Bound == Senders # {}

\* Whom a policy can admit: nobody while the connection is not ready, everybody in public
\* mode, the identities allowed in private mode.  A thread of no channel admits everybody.
Everybody == Senders \cup {Nobody}
Admissions == IF Bound THEN SUBSET Senders \cup {Everybody} ELSE {Everybody}

ASSUME AccessAssumption == Senders \subseteq Messages /\ Access \subseteq Admissions

RunStatuses ==
  {"none", "active", "suspending", "waiting", "completed", "failed", "canceled"}
InvocationStatuses ==
  {"none", "pending", "running", "stopped", "failed", "canceled"}

VARIABLES
  agent,        \* agents: "available", "paused" or "deleted"
  deployable,   \* pin_deployment finds a deployment for the conversation
  admitted,     \* the senders the access policy of the agent's channel admits now
  runStatus,    \* chat_runs.status
  objective,    \* the events whose text chat_runs.objective holds
  source,       \* chat_runs.(channel_origin, source_identity_id)
  invStatus,    \* chat_invocations.status
  invRun,       \* chat_invocations.run_id
  pinned,       \* the invocations whose deployment_id is not NULL
  started,      \* the invocations whose started_at is not NULL
  leased,       \* the running invocations whose lease_expires_at is ahead
  polling,      \* the running invocations whose gateway task waits for their end
  routed,       \* chat_message_dispatch: the messages routed to the agent
  origin,       \* chat_inputs.origin_invocation_id, None while there is no row
  owner,        \* chat_inputs.invocation_id
  accepted,     \* chat_inputs.accepted
  position,     \* chat_inputs.(queue_order, sequence)
  reads,        \* what ResumeRun requests in flight have read: a run, its latest invocation
  setup,        \* gateway tasks between the claim and the wake's acknowledgement
  hosts         \* the invocations an agent process holds the capability of

registry == <<agent, deployable, admitted>>
rows == <<runStatus, objective, source, invStatus, invRun, pinned>>
held == <<leased, polling>>
queue == <<origin, owner, accepted, position>>
processes == <<setup, hosts>>
vars == <<registry, rows, started, held, routed, queue, reads, processes>>

-----------------------------------------------------------------------------
(* Queries *)

\* Mutant: only deletion revokes an agent.
AvailableWhilePaused == agent # "deleted"

Available == agent = "available"
Live == {i \in Invocations : invStatus[i] \in {"pending", "running"}}
\* Mutant: an invocation that has not started does not count.
IdleUntilRunning == \A i \in Live : invStatus[i] = "pending"

Idle == Live = {}
Open == {"active", "waiting", "suspending"}

NewRun(r) == runStatus[r] = "none" /\ \A s \in Runs : s < r => runStatus[s] # "none"
NewInvocation(i) ==
  invStatus[i] = "none" /\ \A j \in Invocations : j < i => invStatus[j] # "none"

\* Mutant: the accepted column is forgotten.
WaitingOrAccepted(i) == {x \in Inputs : owner[x] = i}

\* The inputs an invocation still has to see, all of which input_move moves
Waiting(i) == {x \in Inputs : owner[x] = i /\ ~accepted[x]}

\* source_identity_id, and who chat_identity_allowed does not allow
SenderOf(m) == IF m \in Senders THEN m ELSE Nobody
Barred == Senders \ admitted

\* chat_channel_run_allowed
RunAllowed(r) == source[r] \in admitted \cup {Native}
Queue == {x \in Inputs : origin[x] # None /\ ~accepted[x]}

\* the place an inserted row takes, behind every other
Back == Cardinality({x \in Inputs : origin[x] # None}) + 1

\* run_get: ORDER BY started_at DESC NULLS FIRST.  Only one invocation is live
\* at a time, so started invocations are numbered in the order they started.
Latest(r) ==
  LET of == {i \in Invocations : invRun[i] = r}
  IN IF of \subseteq started THEN {i \in of : \A j \in of : j <= i} ELSE of \ started

\* Mutants: any status is overwritten; a suspending run keeps its status.
SetAnyStatus(r, status) == [runStatus EXCEPT ![r] = status]
SetStatusUnlessSuspending(r, status) ==
  [runStatus EXCEPT ![r] = IF @ \in {"active", "waiting"} THEN status ELSE @]

\* run_status: a run that is completed, failed or canceled keeps its status
SetStatus(r, status) ==
  [runStatus EXCEPT ![r] = IF @ \in Open THEN status ELSE @]

-----------------------------------------------------------------------------
(* Parts of transactions *)

\* Mutant: the objective is the text of one event of a batch.
CreateForOne(statuses, invocations, i, events, from) ==
  \E r \in Runs, event \in events :
    /\ NewRun(r) /\ NewInvocation(i)
    /\ runStatus' = [statuses EXCEPT ![r] = "active"]
    /\ objective' = [objective EXCEPT ![r] = {event}]
    /\ source' = [source EXCEPT ![r] = from]
    /\ invStatus' = [invocations EXCEPT ![i] = "pending"]
    /\ invRun' = [invRun EXCEPT ![i] = r]
    /\ pinned' = IF deployable THEN pinned \cup {i} ELSE pinned

\* run_create, run_source and invocation_create: a run for `events` on behalf of
\* `from` and its first invocation i, over the statuses already written
Create(statuses, invocations, i, events, from) ==
  \E r \in Runs :
    /\ NewRun(r) /\ NewInvocation(i)
    /\ runStatus' = [statuses EXCEPT ![r] = "active"]
    /\ objective' = [objective EXCEPT ![r] = events]
    /\ source' = [source EXCEPT ![r] = from]
    /\ invStatus' = [invocations EXCEPT ![i] = "pending"]
    /\ invRun' = [invRun EXCEPT ![i] = r]
    /\ pinned' = IF deployable THEN pinned \cup {i} ELSE pinned

\* Mutant: the newest input is taken first.
SelectedNewest(waiting, places, policy) ==
  IF policy = "queue"
  THEN {x \in waiting : \A y \in waiting : places[x] >= places[y]}
  ELSE waiting

\* requeue_inputs takes the first input under "queue" and all of them otherwise
Selected(waiting, places, policy) ==
  IF policy = "queue"
  THEN {x \in waiting : \A y \in waiting : places[x] <= places[y]}
  ELSE waiting

\* A run started for a message is on behalf of its sender, one started for a steer
\* on behalf of the sender for whom the run r is that the steer was waiting for.
SourceOf(x, r) ==
  IF Bound THEN SenderOf(IF x \in Messages THEN x ELSE source[r]) ELSE Native

\* Mutants: the inputs of a sender who lost access are dispatched, or hold up the others.
EligibleAlways(waiting) == waiting
EligibleTogether(waiting) == IF waiting \cap Barred = {} THEN waiting ELSE {}

\* inputs_pending: the waiting inputs that may be dispatched
Eligible(waiting) == waiting \ Barred

\* End invocation i with `status` and its run with `to`.  The inputs `waiting`
\* on it are dispatched or not (requeue_inputs): if one of them may be, all move to
\* a new invocation, whose run takes the selected ones on behalf of the last of
\* these; otherwise they stay on i.  What is over keeps its status.
End(i, status, to, dispatch, waiting, places, policy) ==
  LET live == i \in Live
      closed == IF live THEN SetStatus(invRun[i], to) ELSE runStatus
      ended == IF live THEN [invStatus EXCEPT ![i] = status] ELSE invStatus
      chosen == Selected(Eligible(waiting), places, policy)
      move(n) == owner' = [x \in Inputs |-> IF x \in waiting THEN n ELSE owner[x]]
  IN /\ leased' = leased \ {i} /\ polling' = polling \ {i}
     /\ position' = places
     /\ IF dispatch /\ chosen # {}
        THEN \E n \in Invocations, last \in chosen :
               /\ \A x \in chosen : places[x] <= places[last]
               /\ Create(closed, ended, n, chosen, SourceOf(last, invRun[i]))
               /\ move(n)
               /\ accepted' = [x \in Inputs |-> accepted[x] \/ x \in chosen]
        ELSE /\ runStatus' = closed
             /\ invStatus' = ended
             /\ move(i)
             /\ UNCHANGED <<objective, source, invRun, pinned, accepted>>

\* finish: a stopped invocation leaves its run waiting, and the inputs of a
\* suspending run wait for ResumeRun
Finish(i, status) ==
  \E policy \in Policies :
    /\ i \in Live
    /\ End(i, status,
           CASE status = "stopped" -> "waiting"
             [] status = "canceled" -> "canceled"
             [] OTHER -> "failed",
           runStatus[invRun[i]] # "suspending", Waiting(i), position, policy)
    /\ UNCHANGED <<registry, started, routed, origin, reads>>

\* input_create on the live invocation i, and nothing else
Enqueue(i, x) ==
  /\ origin' = [origin EXCEPT ![x] = i]
  /\ owner' = [owner EXCEPT ![x] = i]
  /\ position' = [position EXCEPT ![x] = Back]

\* What a new input of a live invocation does under the agent's policy
Schedule(i, x, policy) ==
  \/ /\ policy = "interrupt"
     /\ origin' = [origin EXCEPT ![x] = i]
     /\ End(i, "canceled", "canceled", TRUE, Waiting(i) \cup {x},
            [position EXCEPT ![x] = Back], policy)
  \/ /\ policy = "queue_and_batch" /\ invStatus[i] = "pending"
     /\ Enqueue(i, x)
     /\ accepted' = [accepted EXCEPT ![x] = TRUE]
     /\ objective' = [objective EXCEPT ![invRun[i]] = @ \cup {x}]
     /\ UNCHANGED <<runStatus, source, invStatus, invRun, pinned, held>>
  \/ /\ policy # "interrupt" /\ (policy = "queue" \/ invStatus[i] = "running")
     /\ Enqueue(i, x)
     /\ UNCHANGED <<rows, held, accepted>>

-----------------------------------------------------------------------------
(* Requests of users, applications and tools *)

StartRun(q) ==
  /\ Available /\ deployable /\ Idle
  /\ \A r \in Runs : q \notin objective[r]     \* ON CONFLICT: the same key replays
  /\ \E i \in Invocations : Create(runStatus, invStatus, i, {q}, Native)
  /\ UNCHANGED <<registry, started, held, routed, queue, reads, processes>>

\* resume_run reads the run and its latest invocation on a connection of its own
ReadRun(r) ==
  /\ Cardinality(reads) < MaxReads
  /\ \E i \in Latest(r) : reads' = reads \cup {[run |-> r, invocation |-> i]}
  /\ UNCHANGED <<registry, rows, started, held, routed, queue, processes>>

\* ... and moves the inputs of the invocation it has read.  A second live
\* invocation is refused by the unique index.  Another request may have read the
\* same.
ResumeRun(read) ==
  /\ Available /\ Idle
  /\ runStatus[read.run] \in {"waiting", "failed"} /\ RunAllowed(read.run)
  /\ Cardinality({i \in Invocations : invStatus[i] = "none"})
       > Cardinality({r \in Runs : runStatus[r] = "none"})  \* bound: room for new runs
  /\ \E n \in Invocations :
       /\ NewInvocation(n)
       /\ runStatus' = [runStatus EXCEPT ![read.run] = "active"]
       /\ invStatus' = [invStatus EXCEPT ![n] = "pending"]
       /\ invRun' = [invRun EXCEPT ![n] = read.run]
       /\ pinned' = IF deployable THEN pinned \cup {n} ELSE pinned
       /\ owner' = [x \in Inputs |-> IF x \in Waiting(read.invocation) THEN n ELSE owner[x]]
  /\ reads' \in {reads, reads \ {read}}
  /\ UNCHANGED <<registry, objective, source, started, held, routed, origin, accepted,
                 position, processes>>

ResumeRefused(read) ==
  /\ \/ ~Available \/ ~Idle
     \/ runStatus[read.run] \notin {"waiting", "failed"} \/ ~RunAllowed(read.run)
  /\ reads' = reads \ {read}
  /\ UNCHANGED <<registry, rows, started, held, routed, queue, processes>>

\* route_pending: a message joins the live invocation or starts a run
RouteMessage(m, policy) ==
  /\ SenderOf(m) \in admitted
  /\ Available /\ deployable
  /\ m \notin routed
  /\ routed' = routed \cup {m}
  /\ \/ /\ Idle
        /\ \E i \in Invocations : Create(runStatus, invStatus, i, {m}, SourceOf(m, None))
        /\ UNCHANGED <<held, queue>>
     \/ \E i \in Live : Schedule(i, m, policy)
  /\ UNCHANGED <<registry, started, reads, processes>>

\* steer_invocation; an input the invocation has had is acknowledged again
SteerInvocation(i, x, policy) ==
  /\ Available
  /\ i \in Live
  /\ origin[x] = None
  /\ Schedule(i, x, policy)
  /\ UNCHANGED <<registry, started, routed, reads, processes>>

\* queue_input: no policy is applied, and the agent may be paused
QueueInput(i, x) ==
  /\ i \in Live
  /\ origin[x] = None
  /\ Enqueue(i, x)
  /\ UNCHANGED <<registry, rows, started, held, routed, accepted, reads, processes>>

CancelInvocation(i) == Finish(i, "canceled") /\ UNCHANGED processes

SuspendInvocation(i) ==
  /\ invStatus[i] = "running"
  /\ runStatus[invRun[i]] \in {"active", "suspending"}
  /\ runStatus' = [runStatus EXCEPT ![invRun[i]] = "suspending"]
  /\ UNCHANGED <<registry, objective, source, invStatus, invRun, pinned, started, held,
                 routed, queue, reads, processes>>

\* change_queue, Remove
RemoveQueued(x) ==
  /\ x \in Queue
  /\ accepted' = [accepted EXCEPT ![x] = TRUE]
  /\ UNCHANGED <<registry, rows, started, held, routed, origin, owner, position, reads,
                 processes>>

\* order_input numbers the whole queue again with x in front of `rest`
Renumber(x, rest) ==
  LET others == Queue \ {x}
      ahead(y) == Cardinality({z \in others : position[z] < position[y]})
  IN [y \in Inputs |->
        CASE y = x -> Cardinality(others \ rest)
          [] y \in others -> ahead(y) + (IF y \in rest THEN 1 ELSE 0)
          [] OTHER -> position[y]]

\* change_queue, Before: x goes before another queued input or to the end
MoveQueued(x) ==
  /\ x \in Queue
  /\ \/ position' = Renumber(x, {})
     \/ \E y \in Queue \ {x} :
          position' = Renumber(x, {z \in Queue \ {x} : position[z] >= position[y]})
  /\ UNCHANGED <<registry, rows, started, held, routed, origin, owner, accepted, reads,
                 processes>>

\* change_queue, Steer: x first, ahead of every queued input of the conversation,
\* in place of the live invocation if there is one
SteerQueued(x, policy) ==
  /\ Available
  /\ x \in Queue
  /\ \E i \in (IF Idle THEN {owner[x]} ELSE Live) :
       End(i, "canceled", "canceled", TRUE, Queue, Renumber(x, Queue \ {x}), policy)
  /\ UNCHANGED <<registry, started, routed, origin, reads, processes>>

-----------------------------------------------------------------------------
(* The gateway's tasks *)

\* invocation_claim
Claim(i) ==
  /\ Available
  /\ invStatus[i] = "pending" /\ i \in pinned /\ RunAllowed(invRun[i])
  /\ invStatus' = [invStatus EXCEPT ![i] = "running"]
  /\ started' = started \cup {i}
  /\ leased' = leased \cup {i}
  /\ setup' = setup \cup {i}
  /\ UNCHANGED <<registry, runStatus, objective, source, invRun, pinned, polling, routed,
                 queue, reads, hosts>>

\* The wake reaches a host, which acknowledges it.  The invocation may have been
\* canceled since its status was read.
Wake(i) ==
  /\ i \in setup
  /\ setup' = setup \ {i}
  /\ polling' = IF i \in Live THEN polling \cup {i} ELSE polling
  /\ hosts' = hosts \cup {i}
  /\ UNCHANGED <<registry, rows, started, leased, routed, queue, reads>>

\* The task of an invocation that is over, before it wakes a host: its own
\* finish changes nothing
TaskReturns(i) ==
  /\ i \in setup \ Live
  /\ setup' = setup \ {i}
  /\ UNCHANGED <<registry, rows, started, held, routed, queue, reads, hosts>>

\* A step of the task fails: the sandbox, the wake (which a host may have picked
\* up all the same), a query
TaskFails(i) ==
  /\ i \in setup \cup polling
  /\ Finish(i, "failed")
  /\ setup' = setup \ {i}
  /\ hosts' \in {hosts, hosts \cup {i}}

\* The gateway stops or dies with its task: abort_all
TaskLost(i) ==
  /\ i \in setup \cup polling
  /\ setup' = setup \ {i} /\ polling' = polling \ {i}
  /\ UNCHANGED <<registry, rows, started, leased, routed, queue, reads, hosts>>

\* Mutant: the worker renews every running invocation, executed or not.
RenewEvery(i) ==
  /\ invStatus[i] = "running"
  /\ leased' = leased \cup {i}
  /\ UNCHANGED <<registry, rows, started, polling, routed, queue, reads, processes>>

\* The wait for a sandbox, the host's reports and its command stream renew the lease
RenewLease(i) ==
  /\ i \in setup \cup hosts
  /\ invStatus[i] = "running"
  /\ leased' = leased \cup {i}
  /\ UNCHANGED <<registry, rows, started, polling, routed, queue, reads, processes>>

\* Thirty seconds pass without a renewal
LeaseLapses(i) ==
  /\ i \in leased
  /\ leased' = leased \ {i}
  /\ UNCHANGED <<registry, rows, started, polling, routed, queue, reads, processes>>

\* Mutant: the sweep joins only active runs.
ExpireActive(i) ==
  /\ invStatus[i] = "running" /\ i \notin leased
  /\ runStatus[invRun[i]] = "active"
  /\ \E policy \in Policies :
       End(i, "failed", "failed", TRUE, Waiting(i), position, policy)
  /\ UNCHANGED <<registry, started, routed, origin, reads, processes>>

\* expire_invocations
Expire(i) ==
  /\ invStatus[i] = "running" /\ i \notin leased
  /\ \E policy \in Policies :
       End(i, "failed", "failed", TRUE, Waiting(i), position, policy)
  /\ UNCHANGED <<registry, started, routed, origin, reads, processes>>

-----------------------------------------------------------------------------
(* The agent's host *)

\* Report.Stopped; the host may repeat it, and may be late
Report(i, status) ==
  /\ i \in hosts
  /\ Finish(i, status)
  /\ UNCHANGED processes

\* SetRunStatus with the invocation's capability, whose signature alone is checked
SetRunStatus(i, status) ==
  /\ i \in hosts
  /\ runStatus' = SetStatus(invRun[i], status)
  /\ UNCHANGED <<registry, objective, source, invStatus, invRun, pinned, started, held,
                 routed, queue, reads, processes>>

\* The host's execution returns or its process dies
HostGone(i) ==
  /\ i \in hosts
  /\ hosts' = hosts \ {i}
  /\ UNCHANGED <<registry, rows, started, held, routed, queue, reads, setup>>

-----------------------------------------------------------------------------
(* The registry *)

\* pause: running work ends, its run waits and its inputs are dispatched again;
\* pending work stays
PauseAgent ==
  /\ Available
  /\ agent' = "paused"
  /\ \/ \E i \in Live, policy \in Policies :
          /\ invStatus[i] = "running"
          /\ End(i, "canceled", "waiting", TRUE, Waiting(i), position, policy)
     \/ /\ \A i \in Live : invStatus[i] = "pending"
        /\ UNCHANGED <<rows, held, owner, accepted, position>>
  /\ UNCHANGED <<deployable, admitted, started, routed, origin, reads, processes>>

ResumeAgent ==
  /\ agent = "paused"
  /\ agent' = "available"
  /\ UNCHANGED <<deployable, admitted, rows, started, held, routed, queue, reads, processes>>

\* delete: only a paused agent; the inputs are not dispatched
DeleteAgent ==
  /\ agent = "paused"
  /\ agent' = "deleted"
  /\ invStatus' = [i \in Invocations |-> IF i \in Live THEN "canceled" ELSE invStatus[i]]
  /\ runStatus' = [r \in Runs |->
       IF \E i \in Live : invRun[i] = r THEN SetStatus(r, "canceled")[r] ELSE runStatus[r]]
  /\ leased' = leased \ Live /\ polling' = polling \ Live
  /\ UNCHANGED <<deployable, admitted, objective, source, invRun, pinned, started, routed,
                 queue, reads, processes>>

\* The pinned deployment is retired and no other can be chosen, or one can again
ChangeDeployments ==
  /\ deployable' \in Deployables
  /\ UNCHANGED <<agent, admitted, rows, started, held, routed, queue, reads, processes>>

\* set_mode, set_allowed, or the connection is lost or ready again.  Only an
\* invocation the new policy refuses is canceled with it (stop_invalid); that is a
\* CancelInvocation of its own transaction.
ChangeAccess ==
  /\ admitted' \in Access
  /\ UNCHANGED <<agent, deployable, rows, started, held, routed, queue, reads, processes>>

-----------------------------------------------------------------------------
Init ==
  /\ agent = "available" /\ deployable = TRUE /\ admitted \in Access
  /\ runStatus = [r \in Runs |-> "none"] /\ objective = [r \in Runs |-> {}]
  /\ source = [r \in Runs |-> Native]
  /\ invStatus = [i \in Invocations |-> "none"] /\ invRun = [i \in Invocations |-> None]
  /\ pinned = {} /\ started = {} /\ leased = {} /\ polling = {} /\ routed = {}
  /\ origin = [x \in Inputs |-> None] /\ owner = [x \in Inputs |-> None]
  /\ accepted = [x \in Inputs |-> FALSE] /\ position = [x \in Inputs |-> 0]
  /\ reads = {} /\ setup = {} /\ hosts = {}

Client ==
  \/ \E q \in Requests : StartRun(q)
  \/ \E r \in Runs : ReadRun(r)
  \/ \E read \in reads : ResumeRun(read) \/ ResumeRefused(read)
  \/ \E m \in Messages, policy \in Policies : RouteMessage(m, policy)
  \/ \E i \in Invocations, x \in Steers :
       QueueInput(i, x) \/ \E policy \in Policies : SteerInvocation(i, x, policy)
  \/ \E i \in Invocations : CancelInvocation(i) \/ SuspendInvocation(i)
  \/ \E x \in Inputs :
       \/ RemoveQueued(x) \/ MoveQueued(x)
       \/ \E policy \in Policies : SteerQueued(x, policy)

Task(i) == Wake(i) \/ TaskReturns(i) \/ TaskFails(i) \/ TaskLost(i)

Gateway == \E i \in Invocations :
  Claim(i) \/ Task(i) \/ RenewLease(i) \/ LeaseLapses(i) \/ Expire(i)

Host == \E i \in Invocations :
  \/ HostGone(i)
  \/ \E status \in {"stopped", "failed"} : Report(i, status)
  \/ \E status \in {"waiting", "completed", "failed", "canceled"} : SetRunStatus(i, status)

Registry ==
  PauseAgent \/ ResumeAgent \/ DeleteAgent \/ ChangeDeployments \/ ChangeAccess

Next == Client \/ Gateway \/ Host \/ Registry

Spec == Init /\ [][Next]_vars

\* The worker claims what it can claim and a task gets past the start of its
\* invocation (a task that waits for the end need never move again); no execution
\* lasts for ever; an unrenewed lease lapses and the worker's sweep finds it.
Fairness == \A i \in Invocations :
  /\ WF_vars(Claim(i)) /\ WF_vars(i \in setup /\ Task(i)) /\ WF_vars(HostGone(i))
  /\ WF_vars(LeaseLapses(i)) /\ WF_vars(Expire(i))

FairSpec == Spec /\ Fairness

-----------------------------------------------------------------------------
(* Properties *)

\* Every column holds a value of its type.
TypeOK ==
  /\ agent \in {"available", "paused", "deleted"}
  /\ deployable \in BOOLEAN /\ admitted \in Admissions
  /\ runStatus \in [Runs -> RunStatuses]
  /\ objective \in [Runs -> SUBSET Events]
  /\ source \in [Runs -> Sources]
  /\ invStatus \in [Invocations -> InvocationStatuses]
  /\ invRun \in [Invocations -> Runs \cup {None}]
  /\ pinned \subseteq Invocations /\ started \subseteq Invocations
  /\ leased \subseteq Invocations /\ polling \subseteq Invocations
  /\ routed \subseteq Messages
  /\ origin \in [Inputs -> Invocations \cup {None}]
  /\ owner \in [Inputs -> Invocations \cup {None}]
  /\ accepted \in [Inputs -> BOOLEAN]
  /\ position \in [Inputs -> Nat]
  /\ reads \subseteq [run : Runs, invocation : Invocations]
  /\ setup \subseteq Invocations /\ hosts \subseteq Invocations

\* At most one invocation of the conversation is pending or running.  A requeue, a route or
\* a start finds out before it inserts one, whatever ended, expired, was paused or was
\* resumed before it; a resume has the unique index refuse it.
OneActiveInvocation == \A i, j \in Live : i = j

\* The text of an event reaches one objective at most: a start request, a routed
\* message and an input are dispatched once, over retries, interrupts, expiry,
\* pauses and resumes, and a dispatched input no longer waits for a dispatch.
DispatchedOnce ==
  /\ \A r, s \in Runs : r # s => objective[r] \cap objective[s] = {}
  /\ \A r \in Runs, x \in Inputs :
       x \in objective[r] /\ origin[x] # None => accepted[x]

\* While an agent is paused none of its invocations is running; after it is
\* deleted none is pending either, even if a late report or a queue change
\* dispatches inputs.
RevokedAgentRunsNothing ==
  /\ agent = "paused" => \A i \in Live : invStatus[i] = "pending"
  /\ agent = "deleted" => Idle

\* A run is active or suspending only while an invocation of it is live: whatever
\* ends an invocation also settles its run.
ActiveRunIsExecuted == \A r \in Runs :
  runStatus[r] \in {"active", "suspending"} => \E i \in Live : invRun[i] = r

\* An input leaves the queue into the objective of the run that takes it, or
\* because the user removed it: no retry, requeue or move consumes one silently.
NothingDropped == [][\A x \in Inputs :
  origin'[x] # None /\ accepted'[x] # accepted[x] =>
    RemoveQueued(x) \/ \E r \in Runs : x \in objective'[r] \ objective[r]]_vars

\* An invocation ends with inputs still waiting on it only if its run was being
\* suspended (they wait for ResumeRun), its agent is deleted, or every one of them is of a
\* sender who lost access, and only these are ever handed to an invocation that is over.
HeldOnlyBySuspension == [][\A x \in Inputs :
  origin'[x] # None /\ ~accepted'[x] =>
    \/ owner'[x] \in Live'
    \/ owner'[x] = owner[x] /\ owner[x] \notin Live
    \/ owner'[x] = owner[x] /\ runStatus[invRun[owner[x]]] = "suspending"
    \/ owner'[x] = owner[x] /\ agent' = "deleted"
    \/ \A y \in Inputs : owner'[y] = owner'[x] /\ ~accepted'[y] => y \in Barred]_vars

\* Ended invocations and completed or canceled runs are final, whoever reports,
\* expires, cancels, pauses or resumes late.
EndedStaysEnded == [][
  /\ \A i \in Invocations :
       invStatus[i] \notin {"none", "pending", "running"} => invStatus'[i] = invStatus[i]
  /\ \A r \in Runs :
       runStatus[r] \in {"completed", "canceled"} => runStatus'[r] = runStatus[r]]_vars

\* A new run dispatches inputs from the front of the queue it takes over: what it leaves
\* waiting for later comes after everything it takes, or is of a sender who lost access.  It
\* takes nothing of these.
OldestFirst == [][\A r \in Runs, x, y \in Inputs :
  /\ runStatus[r] = "none" /\ x \in objective'[r] /\ origin'[x] # None
  /\ owner'[y] = owner'[x] /\ ~accepted'[y]
  => x \notin Barred /\ (y \in Barred \/ position'[x] < position'[y])]_vars

\* An execution that lost its task or its host does not hold the conversation: a
\* running invocation ends.
RunningEnds == \A i \in Invocations :
  invStatus[i] = "running" ~> invStatus[i] # "running"

\* A queued input of a live invocation is dispatched or removed, unless the agent
\* is paused or deleted, its invocation was suspended, the live invocation has no
\* deployment, or access was lost: by the input's sender or by who the live run is for.
QueuedIsServed == \A x \in Inputs :
  x \in Queue ~>
    \/ x \notin Queue \/ ~Available \/ owner[x] \notin Live \/ ~(Live \subseteq pinned)
    \/ x \in Barred \/ \E i \in Live : ~RunAllowed(invRun[i])

\* ResumeRun starts a new invocation and carries unconsumed input forward: while
\* the run is active, none of its inputs waits on an invocation that has ended.
ResumeCarriesInput == \A x \in Queue :
  runStatus[invRun[owner[x]]] = "active" => owner[x] \in Live

Newest(r) ==
  {i \in Invocations : invRun[i] = r /\ \A j \in Invocations : invRun[j] = r => j <= i}

\* What ResumeRun reads is the run's newest invocation: no older one, ended before
\* it ever started, sorts in front of it.
LatestIsNewest == \A r \in Runs : Latest(r) \subseteq Newest(r)

\* No resume comes so late, or reads so wrongly, that what it moves are the inputs
\* of another invocation than the run's newest.
ResumesReadNewest == [][
  (\E read \in reads : ResumeRun(read)) =>
    \E read \in reads : ResumeRun(read) /\ read.invocation \in Newest(read.run)]_vars

\* A pending invocation starts, unless the agent is paused or deleted, no deployment
\* can be chosen for it or access was lost.
PendingStarts == \A i \in Invocations :
  invStatus[i] = "pending" ~>
    \/ invStatus[i] # "pending" \/ ~Available \/ ~deployable \/ ~RunAllowed(invRun[i])

\* A run that is on behalf of the channel has a sender, whose access decides whether it may
\* go on (the migration's comment on chat_channel_run_allowed); here of a thread to which
\* only senders of the channel post.
ProviderRunsCarrySender == \A r \in Runs : source[r] # Nobody

\* The conversation as its users see it: the run that is executed, the inputs behind it and
\* those withheld until a run is resumed, all that was ever posted, and what is over.
Executed == {invRun[i] : i \in Live}
Behind == {x \in Queue : owner[x] \in Live}
Withheld == {x \in Queue : owner[x] \notin Live}
Seen ==
  {e \in Events : \E r \in Runs : e \in objective[r]} \cup {x \in Inputs : origin[x] # None}
Suspending == {r \in Executed : runStatus[r] = "suspending"}
Over == {r \in Runs : runStatus[r] \in {"completed", "canceled"}}

Contract == INSTANCE Conversation WITH
  given <- objective, executed <- Executed, waiting <- Behind, held <- Withheld, seen <- Seen,
  suspending <- Suspending, over <- Over, barred <- Barred, deleted <- agent = "deleted"

\* Whatever is started, routed, steered, queued, moved, resumed, paused, expired or reported
\* late, the conversation keeps its promises: each event is given to one run, once, and what
\* waits behind a run that ends is taken over, withheld by a suspension, or removed.  Only of
\* a sender who has no access is anything left behind, and nothing of theirs is taken.
KeepsConversation == Contract!Spec
=============================================================================
