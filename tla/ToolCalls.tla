----------------------------- MODULE ToolCalls -----------------------------
(***************************************************************************)
(* Tool calls of an agent that a connected tool host answers: the durable  *)
(* record of each call (chat/tools.rs, chat/tools/audit.rs), the transient *)
(* queue tool_host_calls that takes it to the process holding the host's   *)
(* Watch stream and the answer back (tools/hosts.rs), and the host.  Each  *)
(* task is one InvokeTool request, or the background work it left behind;  *)
(* a request that is repeated is another task with the same call id.  An   *)
(* action is one statement or transaction of the database, one frame of a  *)
(* stream, or one step of the host.  Notifications only make a waiter or a *)
(* stream look again sooner, which it does on a tick anyway, so it may     *)
(* look at any time here.  There is one host and one invocation; Lambda    *)
(* hosts, the verification of credentials and streamed input are left out. *)
(***************************************************************************)
EXTENDS Naturals, FiniteSets

CONSTANTS
  Calls,         \* the call ids the agent uses
  Attempts,      \* the requests made with one call id
  Streams,       \* Watch streams the host opens, one after another or at once
  MaxRotations,  \* bound: how often the host's token is rotated
  MaxRestarts    \* bound: how often the host's process is restarted

ASSUME BoundsAssumption == MaxRotations \in Nat /\ MaxRestarts \in Nat

VARIABLES
  record,     \* chat_tool_calls.status, "none" without a row
  detached,   \* chat_tool_calls.detached: the tool works in the background
  over,       \* the agent's invocation has ended, or its lease has expired
  task,       \* what the processes that serve InvokeTool do for each request
  row,        \* tool_host_calls.status, "none" without a row
  exists,     \* the tool_hosts row exists
  token,      \* tool_hosts.token_hash, by how often it was rotated
  fresh,      \* tool_hosts.connected_at is less than thirty seconds old
  stream,     \* the Watch streams
  uses,       \* the token the host's process was started with
  restarts,   \* how often that process was restarted
  inbox,      \* the calls that have arrived at it
  working,    \* the calls it has started, and may answer
  ran,        \* how often each call was started
  accepted    \* the outcomes of each call that Respond has accepted

audit == <<record, detached>>
queue == <<row, accepted>>
registry == <<exists, token, fresh>>
host == <<uses, restarts, inbox, working, ran>>
vars == <<audit, over, task, queue, registry, stream, host>>

-----------------------------------------------------------------------------
(* Values *)

Outcomes == {"completed", "failed"}
Tasks == Calls \X Attempts
Call(t) == t[1]

NewTask == [phase |-> "new", outcome |-> "none", told |-> "none"]
NoStream == [phase |-> "closed", token |-> 0, frames |-> {}]

Moves(t, phase) == task' = [task EXCEPT ![t].phase = phase]
Gets(t, outcome) == task' = [task EXCEPT ![t].phase = "result", ![t].outcome = outcome]
Ends(t, told) == task' = [task EXCEPT ![t].phase = "done", ![t].told = told]

\* The processes still work on a call.
Underway(c) == \E t \in Tasks : Call(t) = c /\ task[t].phase \notin {"new", "done"}

-----------------------------------------------------------------------------
(* The record and the request *)

\* invoke and Execution::begin: the call id must be new, or the request is refused.
Invoke(t) ==
  /\ task[t].phase = "new"
  /\ IF record[Call(t)] = "none"
     THEN /\ record' = [record EXCEPT ![Call(t)] = "running"] /\ Moves(t, "begun")
          /\ detached' \in {detached, detached \cup {Call(t)}}
     ELSE Ends(t, "refused") /\ UNCHANGED audit
  /\ UNCHANGED <<over, queue, registry, stream, host>>

\* call: the host must be available; credentials may not resolve.
Prepare(t) ==
  /\ task[t].phase = "begun"
  /\ \/ exists /\ fresh /\ Moves(t, "live")
     \/ Gets(t, "failed")
  /\ UNCHANGED <<audit, over, queue, registry, stream, host>>

\* enqueue: without the host, or if the id is taken, the insert fails.
Enqueue(t) ==
  /\ task[t].phase = "live"
  /\ IF exists /\ row[Call(t)] = "none"
     THEN row' = [row EXCEPT ![Call(t)] = "pending"] /\ Moves(t, "waiting")
     ELSE Gets(t, "failed") /\ UNCHANGED row
  /\ UNCHANGED <<audit, over, accepted, registry, stream, host>>

\* host_call_take deletes the row it reads
Take(t) ==
  /\ task[t].phase = "waiting" /\ row[Call(t)] \in Outcomes
  /\ row' = [row EXCEPT ![Call(t)] = "none"]
  /\ Gets(t, row[Call(t)])
  /\ UNCHANGED <<audit, over, accepted, registry, stream, host>>

\* The deadline: the row goes whatever has become of it.  (A database error while the task
\* waits, which fails the call and leaves the row to the sweep, is left out.)
Abandon(t) ==
  /\ task[t].phase = "waiting"
  /\ row' = [row EXCEPT ![Call(t)] = "none"]
  /\ Gets(t, "failed")
  /\ UNCHANGED <<audit, over, accepted, registry, stream, host>>

\* Mutant: the agent is told its result though the record says otherwise.
TellsUnrecorded(t) == task[t].outcome

\* Mutant: a request that cannot record its outcome answers with the recorded one.
TellsRecord(t) == IF record[Call(t)] = "running" THEN task[t].outcome ELSE record[Call(t)]

\* execute: the result is returned only once it is recorded
Tells(t) == IF record[Call(t)] = "running" THEN task[t].outcome ELSE "refused"

\* Execution::finish.  A running record takes the outcome.  The outcome of background
\* work has still to be delivered.
Finish(t) ==
  /\ task[t].phase = "result"
  /\ IF record[Call(t)] = "running"
     THEN record' = [record EXCEPT ![Call(t)] = task[t].outcome]
     ELSE UNCHANGED record
  /\ IF Call(t) \in detached /\ record[Call(t)] = "running"
     THEN Moves(t, "recorded")
     ELSE Ends(t, Tells(t))
  /\ UNCHANGED <<detached, over, queue, registry, stream, host>>

\* deliver_detached_result, which may find the thread in conflict three times
Deliver(t) ==
  /\ task[t].phase = "recorded"
  /\ Ends(t, task[t].outcome) \/ Ends(t, "none")
  /\ UNCHANGED <<audit, over, queue, registry, stream, host>>

\* The agent hangs up or sends more than it may, or its token has expired: the armed
\* Execution is dropped.  Background work no longer hangs on the request.
Drop(t) ==
  /\ \/ task[t].phase = "begun"
     \/ task[t].phase \in {"live", "waiting", "result"} /\ Call(t) \notin detached
  /\ Moves(t, "aborting")
  /\ UNCHANGED <<audit, over, queue, registry, stream, host>>

\* Drop for Execution
ReportAbort(t) ==
  /\ task[t].phase = "aborting"
  /\ IF record[Call(t)] = "running"
     THEN record' = [record EXCEPT ![Call(t)] = "aborted"]
     ELSE UNCHANGED record
  /\ Ends(t, "none")
  /\ UNCHANGED <<detached, over, queue, registry, stream, host>>

\* The process that serves the request is gone.
Crash(t) ==
  /\ task[t].phase \notin {"new", "done"}
  /\ Ends(t, "none")
  /\ UNCHANGED <<audit, over, queue, registry, stream, host>>

-----------------------------------------------------------------------------
(* What ends by itself *)

InvocationEnds ==
  /\ ~over /\ over' = TRUE
  /\ UNCHANGED <<audit, task, queue, registry, stream, host>>

\* Mutant: background work is never found interrupted.
InterruptedInFront(c) == record[c] = "running" /\ over /\ c \notin detached

\* tool_interrupted; background work has an hour, in which it ends.
Interrupted(c) == record[c] = "running" /\ over /\ (c \in detached => ~Underway(c))

\* expire_tool_calls
ExpireRecord(c) ==
  /\ Interrupted(c)
  /\ record' = [record EXCEPT ![c] = "aborted"]
  /\ UNCHANGED <<detached, over, task, queue, registry, stream, host>>

\* Mutant: only calls that no stream has claimed expire.
OldUnclaimed(c) == row[c] = "pending"

\* host_calls_expire removes rows whatever their status
Old(c) == row[c] # "none"

\* A row an hour old has no waiter any more.
ExpireRow(c) ==
  /\ Old(c)
  /\ \A t \in Tasks : Call(t) = c => task[t].phase # "waiting"
  /\ row' = [row EXCEPT ![c] = "none"]
  /\ UNCHANGED <<audit, over, task, accepted, registry, stream, host>>

-----------------------------------------------------------------------------
(* The registration of the host *)

Rotate ==
  /\ exists /\ token < MaxRotations /\ token' = token + 1
  /\ UNCHANGED <<audit, over, task, queue, exists, fresh, stream, host>>

\* delete, with the calls queued for the host
Delete ==
  /\ exists /\ exists' = FALSE
  /\ row' = [c \in Calls |-> "none"]
  /\ UNCHANGED <<audit, over, task, accepted, token, fresh, stream, host>>

\* Thirty seconds without a turn of a stream.
GoesStale ==
  /\ fresh /\ fresh' = FALSE
  /\ \A s \in Streams : stream[s].phase \in {"closed", "sending"}
  /\ UNCHANGED <<audit, over, task, queue, exists, token, stream, host>>

-----------------------------------------------------------------------------
(* Watch *)

Authentic(t) == exists /\ t = token

\* watch, as far as the frame that says the host is registered
Watch(s) ==
  /\ stream[s].phase = "closed" /\ Authentic(uses)
  /\ stream' = [stream EXCEPT ![s] = [NoStream EXCEPT !.phase = "turn", !.token = uses]]
  /\ fresh' = TRUE
  /\ UNCHANGED <<audit, over, task, queue, exists, token, host>>

\* host_authenticate at each turn: a rotated token or a deleted host ends the stream.
Check(s) ==
  /\ stream[s].phase = "turn"
  /\ stream' = [stream EXCEPT ![s] =
       IF Authentic(stream[s].token) THEN [@ EXCEPT !.phase = "checked"] ELSE NoStream]
  /\ UNCHANGED <<audit, over, task, queue, registry, host>>

\* Mutant: the calls are read and marked by two statements, or by none.
ClaimUnmarked == row

\* host_call_claim marks the calls it returns
Claimed == [c \in Calls |-> IF row[c] = "pending" THEN "delivered" ELSE row[c]]

Claim(s) ==
  /\ stream[s].phase = "checked"
  /\ fresh' = TRUE
  /\ row' = Claimed
  /\ stream' = [stream EXCEPT ![s].phase = "sending",
                              ![s].frames = {c \in Calls : row[c] = "pending"}]
  /\ UNCHANGED <<audit, over, task, accepted, exists, token, host>>

Send(s, c) ==
  /\ stream[s].phase = "sending" /\ c \in stream[s].frames
  /\ stream' = [stream EXCEPT ![s].frames = @ \ {c}]
  /\ inbox' = inbox \cup {c}
  /\ UNCHANGED <<audit, over, task, queue, registry, uses, restarts, working, ran>>

\* All sent: the stream waits for its next turn.
Sent(s) ==
  /\ stream[s].phase = "sending" /\ stream[s].frames = {}
  /\ stream' = [stream EXCEPT ![s].phase = "turn"]
  /\ UNCHANGED <<audit, over, task, queue, registry, host>>

\* The connection or the process that serves it is lost, with the frames not sent.
Break(s) ==
  /\ stream[s].phase # "closed"
  /\ stream' = [stream EXCEPT ![s] = NoStream]
  /\ UNCHANGED <<audit, over, task, queue, registry, host>>

-----------------------------------------------------------------------------
(* The host *)

Start(c) ==
  /\ c \in inbox /\ inbox' = inbox \ {c}
  /\ working' = working \cup {c} /\ ran' = [ran EXCEPT ![c] = @ + 1]
  /\ UNCHANGED <<audit, over, task, queue, registry, stream, uses, restarts>>

\* Mutant: any answer to a call that is in the queue counts.
AnswersAgain(c) == row[c] # "none"

\* host_call_finish: only a delivered call is answered, and only once
Answerable(c) == row[c] = "delivered"

\* Respond: the host may repeat an answer, or change it.
Respond(c, outcome) ==
  /\ c \in working /\ Authentic(uses) /\ Answerable(c)
  /\ row' = [row EXCEPT ![c] = outcome]
  /\ accepted' = [accepted EXCEPT ![c] = @ \cup {outcome}]
  /\ UNCHANGED <<audit, over, task, registry, stream, host>>

\* The host's process is restarted, with the token of the day.
Restart ==
  /\ restarts < MaxRestarts /\ restarts' = restarts + 1
  /\ uses' = token /\ inbox' = {} /\ working' = {}
  /\ stream' = [s \in Streams |-> NoStream]
  /\ UNCHANGED <<audit, over, task, queue, registry, ran>>

-----------------------------------------------------------------------------
Init ==
  /\ record = [c \in Calls |-> "none"] /\ detached = {} /\ over = FALSE
  /\ task = [t \in Tasks |-> NewTask]
  /\ row = [c \in Calls |-> "none"] /\ accepted = [c \in Calls |-> {}]
  /\ exists = TRUE /\ token = 0 /\ fresh = FALSE
  /\ stream = [s \in Streams |-> NoStream]
  /\ uses = 0 /\ restarts = 0 /\ inbox = {} /\ working = {}
  /\ ran = [c \in Calls |-> 0]

Request(t) ==
  \/ Invoke(t) \/ Prepare(t) \/ Enqueue(t) \/ Take(t) \/ Abandon(t) \/ Finish(t)
  \/ Deliver(t) \/ Drop(t) \/ ReportAbort(t) \/ Crash(t)

Gateway == InvocationEnds \/ \E c \in Calls : ExpireRecord(c) \/ ExpireRow(c)

Registration == Rotate \/ Delete \/ GoesStale

Serve(s) ==
  Check(s) \/ Claim(s) \/ Sent(s) \/ \E c \in Calls : Send(s, c)

Host == Restart \/ \E c \in Calls :
  Start(c) \/ \E outcome \in Outcomes : Respond(c, outcome)

Next ==
  \/ Gateway \/ Registration \/ Host
  \/ \E t \in Tasks : Request(t)
  \/ \E s \in Streams : Watch(s) \/ Serve(s) \/ Break(s)

Spec == Init /\ [][Next]_vars

\* The task of a request goes on, which ends its wait at the latest at the deadline;
\* the worker expires what is left.
\* The host need not answer, start or even connect.
Fairness ==
  /\ \A t \in Tasks : WF_vars(Prepare(t) \/ Enqueue(t) \/ Take(t) \/ Abandon(t)
                                 \/ Finish(t) \/ ReportAbort(t))
  /\ \A c \in Calls : WF_vars(ExpireRecord(c)) /\ WF_vars(ExpireRow(c))

FairSpec == Spec /\ Fairness

-----------------------------------------------------------------------------
(* Properties *)

Statuses == {"none", "running", "completed", "failed", "aborted"}

TaskStates ==
  [phase : {"new", "begun", "live", "waiting", "result", "recorded", "aborting", "done"},
   outcome : Outcomes \cup {"none"},
   told : Outcomes \cup {"none", "refused"}]

StreamStates ==
  [phase : {"closed", "turn", "checked", "sending"},
   token : 0 .. MaxRotations, frames : SUBSET Calls]

AuditTypes == record \in [Calls -> Statuses] /\ detached \subseteq Calls /\ over \in BOOLEAN
TaskTypes == task \in [Tasks -> TaskStates]
QueueTypes ==
  /\ row \in [Calls -> {"none", "pending", "delivered"} \cup Outcomes]
  /\ accepted \in [Calls -> SUBSET Outcomes]
RegistryTypes == exists \in BOOLEAN /\ fresh \in BOOLEAN /\ token \in 0 .. MaxRotations
StreamTypes == stream \in [Streams -> StreamStates]
HostTypes ==
  /\ uses \in 0 .. MaxRotations /\ restarts \in 0 .. MaxRestarts
  /\ inbox \subseteq Calls /\ working \subseteq Calls /\ ran \in [Calls -> Nat]

\* Every variable holds a value of its type.
TypeOK ==
  AuditTypes /\ TaskTypes /\ QueueTypes /\ RegistryTypes /\ StreamTypes /\ HostTypes

\* Whatever is retried, dropped, restarted or delivered on two streams, the host starts
\* a call once, and the record closes once and shows a success only of what has run.
Promise == INSTANCE CallPromise WITH Removable <- {}

KeepsPromise == Promise!Spec

\* A call has one answer, the first the host gave, and the record shows a success only
\* if that answer was one.
CompletedIsAnswered == \A c \in Calls :
  /\ Cardinality(accepted[c]) <= 1
  /\ record[c] = "completed" => accepted[c] = {"completed"}

\* The agent is never told an outcome that the record does not show, then or later.
ToldIsRecorded == \A t \in Tasks :
  task[t].told \in Outcomes => record[Call(t)] = task[t].told

\* A call whose invocation is over does not stay open, whichever process died with it.
RecordsClose == \A c \in Calls :
  record[c] = "running" /\ over ~> record[c] # "running"

\* The queue is transient: no row outlives its waiter for good.
QueueDrains == \A c \in Calls : row[c] # "none" ~> row[c] = "none"
=============================================================================
