------------------------------ MODULE AuditQueue ------------------------------
(***************************************************************************)
(* The activity history of one conversation (chat/audit.rs, audit/queue.rs, *)
(* audit_flush.sql).  A transaction numbers its events under the row lock  *)
(* of the conversation and queues them in its gateway's memory before it   *)
(* commits.  Each gateway's worker asks which transactions have committed  *)
(* and appends their events to chat_activity, in the order of their        *)
(* numbers and across gateways; a number that does not turn up is skipped  *)
(* after a wait.  A step of the worker is one statement.                   *)
(***************************************************************************)
EXTENDS Naturals, Sequences, FiniteSets

CONSTANTS
  Gateways,         \* the processes, each with a queue and a worker
  Exposed,          \* those of them that may crash or be held up for longer than GAP_WAIT
  Callers,          \* those of them where flush is called
  SlowCommits,      \* a transaction may be open for longer than GAP_WAIT
  MaxTransactions,  \* bound
  MaxSequence,      \* bound: the last number given to an event
  Capacity,         \* how many events a queue holds
  MaxUpsets,        \* bound: crashes, statements that fail, locks found taken
  Nobody            \* no gateway

ASSUME LimitsAssumption ==
  /\ Exposed \subseteq Gateways /\ Callers \subseteq Gateways /\ SlowCommits \in BOOLEAN
  /\ Nobody \notin Gateways
  /\ MaxTransactions \in Nat /\ MaxSequence \in Nat /\ Capacity \in Nat /\ MaxUpsets \in Nat

Transactions == 1 .. MaxTransactions
NoTransaction == 0
FlushCommand == [tx |-> NoTransaction, sequence |-> 0, at |-> Nobody]

VARIABLES
  status,    \* pg_xact_status of each transaction, "none" before it begins
  writer,    \* the transaction that has the conversation's row locked, and its gateway
  sequence,  \* chat_threads.activity_sequence, as that transaction sees it
  recorded,  \* chat_threads.activity_sequence, as committed
  channel,   \* the commands sent to each worker
  pending,   \* the events each worker has received and keeps
  barrier,   \* a flush has been received and not answered
  stage,     \* where each worker is in its loop
  ready,     \* the pending events whose transactions it found committed
  batch,     \* what its statement has inserted, not committed yet, and handled
  lock,      \* who has the advisory lock of the conversation
  history,   \* chat_activity
  waited,    \* events queued for longer than GAP_WAIT
  flush,     \* the call of flush in each gateway
  owed,      \* what was queued and committed when it was called
  appended,  \* the events of all transactions that were not rolled back
  lost,      \* those that did not fit or were in a gateway that crashed
  upsets     \* how many of these there were

writing == <<status, writer, sequence, recorded, appended>>
worker == <<pending, barrier, stage, ready, batch>>
caller == <<flush, owed>>
vars == <<writing, channel, worker, lock, history, waited, caller, lost, upsets>>

-----------------------------------------------------------------------------
(* Transactions *)

NoWriter == [tx |-> NoTransaction, at |-> Nobody]
EmptyBatch == [written |-> {}, handled |-> {}]

Upset == upsets < MaxUpsets /\ upsets' = upsets + 1
Committed(e) == status[e.tx] = "committed"
Sent(g) == {channel[g][k] : k \in DOMAIN channel[g]} \ {FlushCommand}
Queued(g) == Sent(g) \cup pending[g]

\* How long an event has been queued is forgotten with it
Forgets == waited' = {e \in waited : e \in Queued(e.at)'}

\* enqueue: the event is dropped if the queue is full
Enqueue(g, e) ==
  /\ appended' = appended \cup {e}
  /\ IF Cardinality(Queued(g)) < Capacity
     THEN channel' = [channel EXCEPT ![g] = Append(@, e)] /\ UNCHANGED lost
     ELSE lost' = lost \cup {e} /\ UNCHANGED channel

\* append (or lock, prepare and enqueue): the first one of a transaction takes the row
Event(g) ==
  /\ sequence < MaxSequence
  /\ \E t \in Transactions :
       /\ \/ writer = NoWriter /\ status[t] = "none" /\ \A u \in 1 .. t - 1 : status[u] # "none"
          \/ writer = [tx |-> t, at |-> g]
       /\ writer' = [tx |-> t, at |-> g]
       /\ status' = [status EXCEPT ![t] = "in progress"]
       /\ sequence' = sequence + 1
       /\ Enqueue(g, [tx |-> t, sequence |-> sequence + 1, at |-> g])
  /\ UNCHANGED <<recorded, worker, lock, history, waited, caller, upsets>>

Commit ==
  /\ writer # NoWriter
  /\ status' = [status EXCEPT ![writer.tx] = "committed"]
  /\ writer' = NoWriter /\ recorded' = sequence
  /\ UNCHANGED <<sequence, appended, channel, worker, lock, history, waited, caller, lost, upsets>>

\* The numbers are given again
RollsBack ==
  /\ status' = [status EXCEPT ![writer.tx] = "aborted"]
  /\ writer' = NoWriter /\ sequence' = recorded
  /\ appended' = {e \in appended : e.tx # writer.tx}

Rollback ==
  /\ writer # NoWriter
  /\ RollsBack
  /\ UNCHANGED <<recorded, channel, worker, lock, history, waited, caller, lost, upsets>>

-----------------------------------------------------------------------------
(* The worker *)

\* Mutant: a flush is answered after every write.
AnswersAlways(g, left) == TRUE

\* A flush is answered when nothing that was found committed is left
Answers(g, left) == left = {}

\* The end of a turn of the loop: left is what stays of the events found committed
TurnEnds(g, left) ==
  LET answered == barrier[g] /\ Answers(g, left)
  IN /\ stage' = [stage EXCEPT ![g] = "idle"]
     /\ ready' = [ready EXCEPT ![g] = {}]
     /\ batch' = [batch EXCEPT ![g] = EmptyBatch]
     /\ barrier' = [barrier EXCEPT ![g] = @ /\ ~answered]
     /\ flush' = [flush EXCEPT ![g] = IF answered /\ @ = "asked" THEN "done" ELSE @]

\* Everything sent is received; a tick or a command starts the turn
Receive(g) ==
  /\ stage[g] = "idle" /\ Queued(g) # {}
  /\ stage' = [stage EXCEPT ![g] = "received"]
  /\ pending' = [pending EXCEPT ![g] = Queued(g)]
  /\ barrier' = [barrier EXCEPT ![g] = @ \/ \E k \in DOMAIN channel[g] : channel[g][k] = FlushCommand]
  /\ channel' = [channel EXCEPT ![g] = <<>>]
  /\ UNCHANGED <<writing, ready, batch, lock, history, waited, caller, lost, upsets>>

\* A flush with nothing queued
ReceiveFlush(g) ==
  /\ stage[g] = "idle" /\ Queued(g) = {} /\ (channel[g] # <<>> \/ barrier[g])
  /\ channel' = [channel EXCEPT ![g] = <<>>]
  /\ barrier' = [barrier EXCEPT ![g] = FALSE]
  /\ flush' = [flush EXCEPT ![g] = IF @ = "asked" THEN "done" ELSE @]
  /\ UNCHANGED <<writing, pending, stage, ready, batch, lock, history, waited, owed, lost, upsets>>

\* Mutant: a transaction that has not ended yet counts as committed.
FoundNotAborted(g) == {e \in pending[g] : status[e.tx] # "aborted"}

\* audit_transactions
Found(g) == {e \in pending[g] : Committed(e)}

Check(g) ==
  /\ stage[g] = "received"
  /\ pending' = [pending EXCEPT ![g] = {e \in @ : status[e.tx] \in {"committed", "in progress"}}]
  /\ IF Found(g) # {}
     THEN /\ stage' = [stage EXCEPT ![g] = "checked"]
          /\ ready' = [ready EXCEPT ![g] = Found(g)]
          /\ UNCHANGED <<batch, barrier, flush>>
     ELSE TurnEnds(g, {})
  /\ UNCHANGED <<writing, channel, lock, history, owed, lost, upsets>>
  /\ Forgets

CheckFails(g) ==
  /\ stage[g] = "received" /\ Upset
  /\ stage' = [stage EXCEPT ![g] = "idle"]
  /\ UNCHANGED <<writing, channel, pending, barrier, ready, batch, lock, history, waited, caller,
                 lost>>

\* Mutant: the lock is not looked at.
Unlocked == TRUE

\* pg_try_advisory_xact_lock: it is free again when the transaction ends
Free == lock = Nobody

Lock(g) ==
  /\ stage[g] = "checked" /\ Free
  /\ stage' = [stage EXCEPT ![g] = "locked"]
  /\ lock' = g
  /\ UNCHANGED <<writing, channel, pending, barrier, ready, batch, history, waited, caller, lost,
                 upsets>>

LockBusy(g) ==
  /\ stage[g] = "checked" /\ ~Free /\ Upset
  /\ TurnEnds(g, ready[g])
  /\ UNCHANGED <<writing, channel, pending, lock, history, waited, owed, lost>>

\* The last number of the history
Watermark ==
  IF history = {} THEN 0
  ELSE CHOOSE n \in {e.sequence : e \in history} : \A e \in history : e.sequence <= n

\* Mutant: a gap is skipped without waiting.
SkipsAtOnce(above) == TRUE

\* allow_gap: the first event above the watermark has waited
SkipsGap(above) ==
  \E f \in above \cap waited : \A e \in above : f.sequence <= e.sequence

\* No number is missing between the watermark and e
Follows(e, above) ==
  \A n \in Watermark + 1 .. e.sequence : \E d \in above : d.sequence = n

\* Mutant: only what is written is taken off the queue.
OnlyWritten(found, written) == written

\* What comes too late is taken off the queue as well
Handled(found, written) == written \cup {e \in found : e.sequence <= Watermark}

\* audit_flush
Insert(g) ==
  /\ stage[g] = "locked"
  /\ LET above == {e \in ready[g] : e.sequence > Watermark}
         written == {e \in above : Follows(e, above) \/ SkipsGap(above)}
     IN batch' = [batch EXCEPT ![g] = [written |-> written, handled |-> Handled(ready[g], written)]]
  /\ stage' = [stage EXCEPT ![g] = "inserted"]
  /\ UNCHANGED <<writing, channel, pending, barrier, ready, lock, history, waited, caller, lost,
                 upsets>>

\* An event is recognised by its number
Record(g) ==
  /\ stage[g] = "inserted"
  /\ history' = history \cup batch[g].written
  /\ lock' = Nobody
  /\ LET handled == {e.sequence : e \in batch[g].handled}
     IN /\ pending' = [pending EXCEPT ![g] = {e \in @ : e.sequence \notin handled}]
        /\ TurnEnds(g, {e \in ready[g] : e.sequence \notin handled})
  /\ UNCHANGED <<writing, channel, owed, lost, upsets>>
  /\ Forgets

\* The batch is rolled back, or only the answer to its commit is lost
RecordFails(g) ==
  /\ stage[g] \in {"locked", "inserted"} /\ Upset
  /\ history' \in {history, history \cup batch[g].written}
  /\ lock' = Nobody
  /\ TurnEnds(g, ready[g])
  /\ UNCHANGED <<writing, channel, pending, waited, owed, lost>>

-----------------------------------------------------------------------------
(* Time, callers and crashes *)

\* A worker that is not held up has written by now what it can write: the event and all
\* before it are there, and with such workers
Due(e) ==
  \A n \in Watermark + 1 .. e.sequence :
    \E g \in Gateways \ Exposed : \E d \in Queued(g) : d.sequence = n /\ Committed(d)

\* GAP_WAIT has passed since the event was queued: what was committed before that is not
\* due any more
Wait(g) ==
  /\ \E e \in Queued(g) \ waited :
       /\ SlowCommits \/ Committed(e)
       /\ \A h \in Gateways : \A d \in Queued(h) : d.sequence <= e.sequence => ~Due(d)
       /\ waited' = waited \cup {e}
  /\ UNCHANGED <<writing, channel, worker, lock, history, caller, lost, upsets>>

\* flush, in a process that has queued something
Flush(g) ==
  /\ g \in Callers /\ flush[g] = "none"
  /\ flush' = [flush EXCEPT ![g] = "asked"]
  /\ owed' = [owed EXCEPT ![g] = {e \in Queued(g) : Committed(e)}]
  /\ channel' = [channel EXCEPT ![g] = Append(@, FlushCommand)]
  /\ UNCHANGED <<writing, worker, lock, history, waited, lost, upsets>>

\* The process restarts with an empty queue; PostgreSQL rolls its transactions back, or
\* had the batch's commit already
Crash(g) ==
  /\ g \in Exposed /\ Upset
  /\ lost' = lost \cup Queued(g)
  /\ channel' = [channel EXCEPT ![g] = <<>>]
  /\ pending' = [pending EXCEPT ![g] = {}]
  /\ barrier' = [barrier EXCEPT ![g] = FALSE]
  /\ stage' = [stage EXCEPT ![g] = "idle"]
  /\ ready' = [ready EXCEPT ![g] = {}]
  /\ batch' = [batch EXCEPT ![g] = EmptyBatch]
  /\ lock' = IF lock = g THEN Nobody ELSE lock
  /\ history' \in {history, history \cup batch[g].written}
  /\ flush' = [flush EXCEPT ![g] = "none"]
  /\ owed' = [owed EXCEPT ![g] = {}]
  /\ IF writer.at = g
     THEN RollsBack
     ELSE UNCHANGED <<status, writer, sequence, appended>>
  /\ Forgets
  /\ UNCHANGED recorded

-----------------------------------------------------------------------------
Init ==
  /\ status = [t \in Transactions |-> "none"]
  /\ writer = NoWriter /\ sequence = 0 /\ recorded = 0
  /\ channel = [g \in Gateways |-> <<>>]
  /\ pending = [g \in Gateways |-> {}]
  /\ barrier = [g \in Gateways |-> FALSE]
  /\ stage = [g \in Gateways |-> "idle"]
  /\ ready = [g \in Gateways |-> {}]
  /\ batch = [g \in Gateways |-> EmptyBatch]
  /\ lock = Nobody /\ history = {} /\ waited = {}
  /\ flush = [g \in Gateways |-> "none"]
  /\ owed = [g \in Gateways |-> {}]
  /\ appended = {} /\ lost = {} /\ upsets = 0

Turn(g) ==
  \/ Receive(g) \/ ReceiveFlush(g) \/ Check(g) \/ CheckFails(g)
  \/ Lock(g) \/ LockBusy(g) \/ Insert(g) \/ Record(g) \/ RecordFails(g)

Next ==
  \/ Commit \/ Rollback
  \/ \E g \in Gateways :
       Event(g) \/ Turn(g) \/ Wait(g) \/ Flush(g) \/ Crash(g)

Spec == Init /\ [][Next]_vars

\* A transaction ends, a worker goes on and finds the lock free at times, and time passes
Fairness ==
  /\ WF_vars(Commit \/ Rollback)
  /\ \A g \in Gateways : WF_vars(Turn(g)) /\ SF_vars(Lock(g)) /\ WF_vars(Wait(g))

FairSpec == Spec /\ Fairness

-----------------------------------------------------------------------------
(* Properties *)

Numbers == 1 .. MaxSequence
Events == [tx : Transactions, sequence : Numbers, at : Gateways]

\* Every variable holds a value of its type.
TypeOK ==
  /\ status \in [Transactions -> {"none", "in progress", "committed", "aborted"}]
  /\ writer \in [tx : Transactions \cup {NoTransaction}, at : Gateways \cup {Nobody}]
  /\ sequence \in 0 .. MaxSequence /\ recorded \in 0 .. MaxSequence
  /\ channel \in [Gateways -> Seq(Events \cup {FlushCommand})]
  /\ pending \in [Gateways -> SUBSET Events] /\ ready \in [Gateways -> SUBSET Events]
  /\ barrier \in [Gateways -> BOOLEAN]
  /\ stage \in [Gateways -> {"idle", "received", "checked", "locked", "inserted"}]
  /\ batch \in [Gateways -> [written : SUBSET Events, handled : SUBSET Events]]
  /\ lock = Nobody \/ (lock \in Gateways /\ stage[lock] \in {"locked", "inserted"})
  /\ history \subseteq Events /\ waited \subseteq Events
  /\ flush \in [Gateways -> {"none", "asked", "done"}]
  /\ owed \in [Gateways -> SUBSET Events]
  /\ appended \subseteq Events /\ lost \subseteq Events /\ upsets \in Nat

\* An event enters the history above all that are in it, also when several gateways write and
\* when an event comes late: a reader who asks for what is after its cursor misses nothing.
GrowsAtItsEnd == [][\A e \in history' \ history, d \in history : d.sequence < e.sequence]_vars

\* A number given twice, because the first transaction was rolled back, is in the history
\* once, with the event that happened.
OnlyWhatHappened ==
  /\ \A e \in history : Committed(e)
  /\ \A e, d \in history : e.sequence = d.sequence => e = d

\* When flush returns, what was queued and committed when it was called is not in the queue
\* any more.
FlushDrains == \A g \in Gateways : flush[g] = "done" => owed[g] \cap Queued(g) = {}

\* An event that is gone although it happened: dropped, in a gateway that crashed, or with one
\* that was held up
Gone == {e \in appended : Committed(e) /\ (e \in lost \/ e.at \in Exposed)}

\* What happened is in the history or in a queue, except from the first event on that is gone.
MissingAfterGone ==
  \A e \in appended : Committed(e) =>
    \/ e \in history \/ e \in Queued(e.at)
    \/ \E d \in Gone : d.sequence <= e.sequence

\* What readers and callers of flush are promised.  An event of a gateway that crashes or is held
\* up may be lost from the start, another one if its queue is full.
Promise == INSTANCE ActivityHistory WITH
  Callers <- Gateways,
  Last <- MaxSequence,
  happened <- recorded,
  unsafe <- {e.sequence : e \in Gone},
  history <- {e.sequence : e \in history},
  call <- flush,
  owed <- [g \in Gateways |-> {e.sequence : e \in owed[g]}]

\* Whatever is delayed, rolled back, skipped and retried, the queue implements ActivityHistory:
\* the history grows at its end, and each gap in it, and each event an answered flush does not
\* show, is explained by one that is gone (audit_flush.sql, flush).
KeepsHistory == Promise!Spec

\* An event of a transaction that committed does not stay in a queue, whatever was lost
\* before it.
EventsSettle ==
  \A n \in Numbers :
    LET stays == \E g \in Gateways : \E e \in Queued(g) : e.sequence = n /\ Committed(e)
    IN stays ~> ~stays
=============================================================================
