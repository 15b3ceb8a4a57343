--------------------------- MODULE AuditQueueProofs ---------------------------
(***************************************************************************)
(* What AuditQueue keeps for any number of gateways, transactions, events, *)
(* crashes and failures: its types, the order of the history, that it      *)
(* holds only what happened, what an answered flush promises and, where no *)
(* transaction is open for longer than GAP_WAIT, that nothing is missing   *)
(* from it before the first event that is gone.                            *)
(***************************************************************************)
EXTENDS AuditQueue, WellFoundedInduction, TLAPS

-----------------------------------------------------------------------------
(* Types *)

Stages == {"idle", "received", "checked", "locked", "inserted"}
Batches == [written : SUBSET Events, handled : SUBSET Events]

RowTypes ==
  /\ status \in [Transactions -> {"none", "in progress", "committed", "aborted"}]
  /\ writer \in [tx : Transactions \cup {NoTransaction}, at : Gateways \cup {Nobody}]
  /\ sequence \in 0 .. MaxSequence /\ recorded \in 0 .. MaxSequence
  /\ appended \subseteq Events

QueueTypes ==
  /\ channel \in [Gateways -> Seq(Events \cup {FlushCommand})]
  /\ pending \in [Gateways -> SUBSET Events]
  /\ waited \subseteq Events /\ lost \subseteq Events

WorkerTypes ==
  /\ ready \in [Gateways -> SUBSET Events]
  /\ barrier \in [Gateways -> BOOLEAN]
  /\ stage \in [Gateways -> Stages]
  /\ batch \in [Gateways -> Batches]
  /\ history \subseteq Events

LockTypes == lock = Nobody \/ (lock \in Gateways /\ stage[lock] \in {"locked", "inserted"})

CallTypes ==
  /\ flush \in [Gateways -> {"none", "asked", "done"}]
  /\ owed \in [Gateways -> SUBSET Events]
  /\ upsets \in Nat

LEMMA TypesTogether ==
  TypeOK <=> RowTypes /\ QueueTypes /\ WorkerTypes /\ LockTypes /\ CallTypes
BY DEF TypeOK, RowTypes, QueueTypes, WorkerTypes, LockTypes, CallTypes, Stages, Batches

LEMMA QueuedTyped ==
  ASSUME QueueTypes, NEW g \in Gateways
  PROVE  Sent(g) \subseteq Events /\ Queued(g) \subseteq Events
BY DEF QueueTypes, Sent, Queued

\* The end of a turn leaves types alone.
LEMMA TurnEndsTyped ==
  ASSUME WorkerTypes, CallTypes, NEW g \in Gateways, NEW left, TurnEnds(g, left)
  PROVE  /\ ready' \in [Gateways -> SUBSET Events]
         /\ barrier' \in [Gateways -> BOOLEAN]
         /\ stage' = [stage EXCEPT ![g] = "idle"] /\ stage' \in [Gateways -> Stages]
         /\ batch' \in [Gateways -> Batches]
         /\ flush' \in [Gateways -> {"none", "asked", "done"}]
<1>1. EmptyBatch \in Batches
  BY DEF EmptyBatch, Batches
<1>2. ready' \in [Gateways -> SUBSET Events] /\ batch' \in [Gateways -> Batches]
  BY <1>1 DEF WorkerTypes, TurnEnds
<1>3. stage' = [stage EXCEPT ![g] = "idle"] /\ stage' \in [Gateways -> Stages]
  BY DEF WorkerTypes, TurnEnds, Stages
<1> DEFINE answered == barrier[g] /\ Answers(g, left)
<1>4. barrier' = [barrier EXCEPT ![g] = @ /\ ~answered]
      /\ flush' = [flush EXCEPT ![g] = IF answered /\ @ = "asked" THEN "done" ELSE @]
  BY DEF TurnEnds
<1>5. barrier' \in [Gateways -> BOOLEAN]
  BY <1>4 DEF WorkerTypes
<1>6. flush' \in [Gateways -> {"none", "asked", "done"}]
  BY <1>4 DEF CallTypes
<1> QED
  BY <1>2, <1>3, <1>5, <1>6

\* A gateway that leaves a stage in which it does not have the lock.
LEMMA LockKept ==
  ASSUME WorkerTypes, LockTypes, NEW g \in Gateways, NEW s \in Stages,
         stage[g] \notin {"locked", "inserted"},
         stage' = [stage EXCEPT ![g] = s], lock' = lock
  PROVE  LockTypes'
BY DEF WorkerTypes, LockTypes

LEMMA RollsBackTyped ==
  ASSUME RowTypes, RollsBack, UNCHANGED recorded, writer # NoWriter
  PROVE  RowTypes'
<1>1. NoWriter \in [tx : Transactions \cup {NoTransaction}, at : Gateways \cup {Nobody}]
  BY DEF NoWriter
<1> QED
  BY <1>1 DEF RowTypes, RollsBack

LEMMA InitTypes == Init => TypeOK
<1> SUFFICES ASSUME Init PROVE TypeOK
  OBVIOUS
<1>1. RowTypes
  BY LimitsAssumption DEF Init, RowTypes, NoWriter
<1>2. QueueTypes
  BY DEF Init, QueueTypes
<1>3. WorkerTypes
  BY DEF Init, WorkerTypes, EmptyBatch, Stages, Batches
<1>4. LockTypes /\ CallTypes
  BY DEF Init, LockTypes, CallTypes
<1> QED
  BY <1>1, <1>2, <1>3, <1>4, TypesTogether

LEMMA TypesKept == TypeOK /\ [Next]_vars => TypeOK'
<1> SUFFICES ASSUME TypeOK, [Next]_vars
             PROVE  RowTypes' /\ QueueTypes' /\ WorkerTypes' /\ LockTypes' /\ CallTypes'
  BY TypesTogether, PTL
<1> USE DEF writing, worker, caller
<1>t. RowTypes /\ QueueTypes /\ WorkerTypes /\ LockTypes /\ CallTypes
  BY TypesTogether
<1>1. CASE UNCHANGED vars
  BY <1>t, <1>1 DEF vars, RowTypes, QueueTypes, WorkerTypes, LockTypes, CallTypes
<1>2. CASE Commit
  <2>1. NoWriter \in [tx : Transactions \cup {NoTransaction}, at : Gateways \cup {Nobody}]
    BY DEF NoWriter
  <2>2. RowTypes'
    BY <1>t, <1>2, <2>1 DEF Commit, RowTypes
  <2> QED
    BY <1>t, <1>2, <2>2 DEF Commit, QueueTypes, WorkerTypes, LockTypes, CallTypes
<1>3. CASE Rollback
  <2>1. RowTypes'
    BY <1>t, <1>3, RollsBackTyped DEF Rollback
  <2> QED
    BY <1>t, <1>3, <2>1 DEF Rollback, QueueTypes, WorkerTypes, LockTypes, CallTypes
<1>4. ASSUME NEW g \in Gateways, Event(g)
      PROVE  RowTypes' /\ QueueTypes' /\ WorkerTypes' /\ LockTypes' /\ CallTypes'
  <2>1. PICK t \in Transactions :
          /\ writer' = [tx |-> t, at |-> g]
          /\ status' = [status EXCEPT ![t] = "in progress"]
          /\ sequence' = sequence + 1
          /\ Enqueue(g, [tx |-> t, sequence |-> sequence + 1, at |-> g])
    BY <1>4 DEF Event
  <2> DEFINE e == [tx |-> t, sequence |-> sequence + 1, at |-> g]
  <2>s. sequence + 1 \in 1 .. MaxSequence /\ sequence + 1 \in 0 .. MaxSequence
    <3>1. sequence \in 0 .. MaxSequence /\ MaxSequence \in Nat
      BY <1>t, LimitsAssumption DEF RowTypes
    <3>2. sequence < MaxSequence
      BY <1>4 DEF Event
    <3> QED
      BY <3>1, <3>2
  <2>2. e \in Events
    BY <2>s DEF Events, Numbers
  <2> HIDE DEF e
  <2>3. /\ appended' = appended \cup {e}
        /\ \/ channel' = [channel EXCEPT ![g] = Append(@, e)] /\ UNCHANGED lost
           \/ lost' = lost \cup {e} /\ UNCHANGED channel
    BY <2>1 DEF Enqueue, e
  <2>4. writer' \in [tx : Transactions \cup {NoTransaction}, at : Gateways \cup {Nobody}]
    BY <2>1
  <2>5. RowTypes'
    BY <1>t, <1>4, <2>1, <2>s, <2>2, <2>3, <2>4 DEF RowTypes, Event
  <2>6. channel' \in [Gateways -> Seq(Events \cup {FlushCommand})] /\ lost' \subseteq Events
    <3>1. Append(channel[g], e) \in Seq(Events \cup {FlushCommand})
      BY <1>t, <2>2 DEF QueueTypes
    <3>2. CASE channel' = [channel EXCEPT ![g] = Append(@, e)] /\ UNCHANGED lost
      BY <1>t, <3>1, <3>2 DEF QueueTypes
    <3>3. CASE lost' = lost \cup {e} /\ UNCHANGED channel
      BY <1>t, <2>2, <3>3 DEF QueueTypes
    <3> QED
      BY <2>3, <3>2, <3>3
  <2> QED
    BY <1>t, <1>4, <2>5, <2>6 DEF Event, QueueTypes, WorkerTypes, LockTypes, CallTypes
<1>5. ASSUME NEW g \in Gateways, Receive(g)
      PROVE  RowTypes' /\ QueueTypes' /\ WorkerTypes' /\ LockTypes' /\ CallTypes'
  <2>1. QueueTypes'
    BY <1>t, <1>5, QueuedTyped DEF Receive, QueueTypes
  <2>2. barrier' \in [Gateways -> BOOLEAN]
    BY <1>t, <1>5 DEF Receive, WorkerTypes
  <2>3. WorkerTypes'
    BY <1>t, <1>5, <2>2 DEF Receive, WorkerTypes, Stages
  <2>4. LockTypes'
    BY <1>t, <1>5, LockKept DEF Receive, Stages
  <2> QED
    BY <1>t, <1>5, <2>1, <2>3, <2>4 DEF Receive, RowTypes, CallTypes
<1>6. ASSUME NEW g \in Gateways, ReceiveFlush(g)
      PROVE  RowTypes' /\ QueueTypes' /\ WorkerTypes' /\ LockTypes' /\ CallTypes'
  <2>1. barrier' \in [Gateways -> BOOLEAN] /\ flush' \in [Gateways -> {"none", "asked", "done"}]
    BY <1>t, <1>6 DEF ReceiveFlush, WorkerTypes, CallTypes
  <2>2. channel' \in [Gateways -> Seq(Events \cup {FlushCommand})]
    BY <1>t, <1>6 DEF ReceiveFlush, QueueTypes
  <2>3. QueueTypes' /\ RowTypes'
    BY <1>t, <1>6, <2>2 DEF ReceiveFlush, QueueTypes, RowTypes
  <2> QED
    BY <1>t, <1>6, <2>1, <2>3 DEF ReceiveFlush, WorkerTypes, LockTypes, CallTypes
<1>7. ASSUME NEW g \in Gateways, Check(g)
      PROVE  RowTypes' /\ QueueTypes' /\ WorkerTypes' /\ LockTypes' /\ CallTypes'
  <2>1. RowTypes' /\ QueueTypes'
    BY <1>t, <1>7 DEF Check, Forgets, RowTypes, QueueTypes
  <2>2. CASE Found(g) # {}
    <3>1. Found(g) \subseteq Events
      BY <1>t DEF Found, QueueTypes
    <3>2. WorkerTypes'
      BY <1>t, <1>7, <2>2, <3>1 DEF Check, WorkerTypes, Stages
    <3>3. LockTypes'
      BY <1>t, <1>7, <2>2, LockKept DEF Check, Stages
    <3> QED
      BY <1>t, <1>7, <2>1, <2>2, <3>2, <3>3 DEF Check, CallTypes
  <2>3. CASE Found(g) = {}
    <3>1. TurnEnds(g, {})
      BY <1>7, <2>3 DEF Check
    <3>2. WorkerTypes' /\ flush' \in [Gateways -> {"none", "asked", "done"}]
          /\ stage' = [stage EXCEPT ![g] = "idle"]
      BY <1>t, <1>7, <3>1, TurnEndsTyped DEF Check, WorkerTypes
    <3>3. LockTypes'
      BY <1>t, <1>7, <3>2, LockKept DEF Check, Stages
    <3> QED
      BY <1>t, <1>7, <2>1, <3>2, <3>3 DEF Check, CallTypes
  <2> QED
    BY <2>2, <2>3
<1>8. ASSUME NEW g \in Gateways, CheckFails(g)
      PROVE  RowTypes' /\ QueueTypes' /\ WorkerTypes' /\ LockTypes' /\ CallTypes'
  <2>1. WorkerTypes'
    BY <1>t, <1>8 DEF CheckFails, WorkerTypes, Stages
  <2>2. LockTypes'
    BY <1>t, <1>8, LockKept DEF CheckFails, Stages
  <2>3. CallTypes'
    BY <1>t, <1>8 DEF CheckFails, Upset, CallTypes
  <2> QED
    BY <1>t, <1>8, <2>1, <2>2, <2>3 DEF CheckFails, RowTypes, QueueTypes
<1>9. ASSUME NEW g \in Gateways, Lock(g)
      PROVE  RowTypes' /\ QueueTypes' /\ WorkerTypes' /\ LockTypes' /\ CallTypes'
  <2>1. WorkerTypes' /\ LockTypes'
    BY <1>t, <1>9 DEF Lock, WorkerTypes, LockTypes, Stages
  <2> QED
    BY <1>t, <1>9, <2>1 DEF Lock, RowTypes, QueueTypes, CallTypes
<1>10. ASSUME NEW g \in Gateways, LockBusy(g)
       PROVE  RowTypes' /\ QueueTypes' /\ WorkerTypes' /\ LockTypes' /\ CallTypes'
  <2>1. TurnEnds(g, ready[g])
    BY <1>10 DEF LockBusy
  <2>2. WorkerTypes' /\ flush' \in [Gateways -> {"none", "asked", "done"}]
        /\ stage' = [stage EXCEPT ![g] = "idle"]
    BY <1>t, <1>10, <2>1, TurnEndsTyped DEF LockBusy, WorkerTypes
  <2>3. LockTypes'
    BY <1>t, <1>10, <2>2, LockKept DEF LockBusy, Stages
  <2>4. upsets' \in Nat
    BY <1>t, <1>10 DEF LockBusy, Upset, CallTypes
  <2> QED
    BY <1>t, <1>10, <2>2, <2>3, <2>4 DEF LockBusy, RowTypes, QueueTypes, CallTypes
<1>11. ASSUME NEW g \in Gateways, Insert(g)
       PROVE  RowTypes' /\ QueueTypes' /\ WorkerTypes' /\ LockTypes' /\ CallTypes'
  <2> DEFINE above == {e \in ready[g] : e.sequence > Watermark}
             written == {e \in above : Follows(e, above) \/ SkipsGap(above)}
  <2>1. written \subseteq Events /\ Handled(ready[g], written) \subseteq Events
    BY <1>t DEF WorkerTypes, Handled
  <2>2. batch' = [batch EXCEPT ![g] = [written |-> written, handled |-> Handled(ready[g], written)]]
    BY <1>11 DEF Insert
  <2> HIDE DEF written
  <2>3. batch' \in [Gateways -> Batches]
    BY <1>t, <2>1, <2>2 DEF WorkerTypes, Batches
  <2>4. WorkerTypes' /\ LockTypes'
    BY <1>t, <1>11, <2>3 DEF Insert, WorkerTypes, LockTypes, Stages
  <2> QED
    BY <1>t, <1>11, <2>4 DEF Insert, RowTypes, QueueTypes, CallTypes
<1>12. ASSUME NEW g \in Gateways, Record(g) \/ RecordFails(g)
       PROVE  RowTypes' /\ QueueTypes' /\ WorkerTypes' /\ LockTypes' /\ CallTypes'
  <2>1. PICK left : TurnEnds(g, left)
    BY <1>12 DEF Record, RecordFails
  <2>2. history' \subseteq Events
    BY <1>t, <1>12 DEF Record, RecordFails, WorkerTypes, Batches
  <2>3. WorkerTypes' /\ flush' \in [Gateways -> {"none", "asked", "done"}]
    BY <1>t, <2>1, <2>2, TurnEndsTyped DEF WorkerTypes
  <2>4. LockTypes'
    BY <1>12 DEF Record, RecordFails, LockTypes
  <2>5. QueueTypes'
    <3>1. pending' \in [Gateways -> SUBSET Events]
      BY <1>t, <1>12 DEF Record, RecordFails, QueueTypes
    <3> QED
      BY <1>t, <1>12, <3>1 DEF Record, RecordFails, Forgets, QueueTypes
  <2>6. upsets' \in Nat
    BY <1>t, <1>12 DEF Record, RecordFails, Upset, CallTypes
  <2> QED
    BY <1>t, <1>12, <2>3, <2>4, <2>5, <2>6 DEF Record, RecordFails, RowTypes, CallTypes
<1>13. ASSUME NEW g \in Gateways, Wait(g) \/ Flush(g)
       PROVE  RowTypes' /\ QueueTypes' /\ WorkerTypes' /\ LockTypes' /\ CallTypes'
  <2>1. CASE Wait(g)
    <3>1. waited' \subseteq Events
      BY <1>t, <2>1, QueuedTyped DEF Wait, QueueTypes
    <3> QED
      BY <1>t, <2>1, <3>1 DEF Wait, RowTypes, QueueTypes, WorkerTypes, LockTypes, CallTypes
  <2>2. CASE Flush(g)
    <3>1. {e \in Queued(g) : Committed(e)} \subseteq Events
      BY <1>t, QueuedTyped
    <3>2. CallTypes'
      BY <1>t, <2>2, <3>1 DEF Flush, CallTypes
    <3>3. QueueTypes'
      BY <1>t, <2>2 DEF Flush, QueueTypes
    <3> QED
      BY <1>t, <2>2, <3>2, <3>3 DEF Flush, RowTypes, WorkerTypes, LockTypes
  <2> QED
    BY <1>13, <2>1, <2>2
<1>14. ASSUME NEW g \in Gateways, Crash(g)
       PROVE  RowTypes' /\ QueueTypes' /\ WorkerTypes' /\ LockTypes' /\ CallTypes'
  <2>1. RowTypes'
    <3>1. CASE writer.at = g
      <4>1. RollsBack /\ UNCHANGED recorded /\ writer # NoWriter
        BY <1>14, <3>1, LimitsAssumption DEF Crash, NoWriter
      <4> QED
        BY <1>t, <4>1, RollsBackTyped
    <3>2. CASE writer.at # g
      BY <1>t, <1>14, <3>2 DEF Crash, RowTypes
    <3> QED
      BY <3>1, <3>2
  <2>2. QueueTypes'
    <3>1. channel' \in [Gateways -> Seq(Events \cup {FlushCommand})]
      BY <1>t, <1>14 DEF Crash, QueueTypes
    <3>2. pending' \in [Gateways -> SUBSET Events] /\ lost' \subseteq Events
      BY <1>t, <1>14, QueuedTyped DEF Crash, QueueTypes
    <3> QED
      BY <1>t, <1>14, <3>1, <3>2 DEF Crash, Forgets, QueueTypes
  <2>3. WorkerTypes'
    <3>1. EmptyBatch \in Batches
      BY DEF EmptyBatch, Batches
    <3>2. history' \subseteq Events
      BY <1>t, <1>14 DEF Crash, WorkerTypes, Batches
    <3> QED
      BY <1>t, <1>14, <3>1, <3>2 DEF Crash, WorkerTypes, Stages
  <2>4. LockTypes'
    BY <1>t, <1>14 DEF Crash, LockTypes, WorkerTypes
  <2>5. CallTypes'
    BY <1>t, <1>14 DEF Crash, Upset, CallTypes
  <2> QED
    BY <2>1, <2>2, <2>3, <2>4, <2>5
<1> QED
  BY <1>1, <1>2, <1>3, <1>4, <1>5, <1>6, <1>7, <1>8, <1>9, <1>10, <1>11, <1>12, <1>13, <1>14
  DEF Next, Turn

-----------------------------------------------------------------------------
(* What a step does to the row and to the queues *)

\* The row is changed by an event, by the end of its transaction or by nothing.
LEMMA RowSteps ==
  ASSUME TypeOK, [Next]_vars
  PROVE  \/ UNCHANGED writing
         \/ Commit
         \/ \E g \in Gateways : Event(g)
         \/ RollsBack /\ UNCHANGED recorded /\ writer # NoWriter
<1> USE DEF writing, worker, caller
<1>1. CASE UNCHANGED vars
  BY <1>1 DEF vars
<1>2. CASE Commit \/ Rollback
  BY <1>2 DEF Rollback
<1>3. ASSUME NEW g \in Gateways, Turn(g)
      PROVE  UNCHANGED writing
  BY <1>3
  DEF Turn, Receive, ReceiveFlush, Check, CheckFails, Lock, LockBusy, Insert, Record, RecordFails
<1>4. ASSUME NEW g \in Gateways, Event(g) \/ Wait(g) \/ Flush(g)
      PROVE  UNCHANGED writing \/ Event(g)
  BY <1>4 DEF Wait, Flush
<1>5. ASSUME NEW g \in Gateways, Crash(g)
      PROVE  UNCHANGED writing \/ (RollsBack /\ UNCHANGED recorded /\ writer # NoWriter)
  BY <1>5, LimitsAssumption DEF Crash, NoWriter
<1> QED
  BY <1>1, <1>2, <1>3, <1>4, <1>5 DEF Next

\* The numbers: unique, without a gap, and given in the order of commits.
Numbering ==
  /\ recorded <= sequence
  /\ writer = NoWriter => sequence = recorded
  /\ writer # NoWriter => writer.tx \in Transactions /\ status[writer.tx] = "in progress"
  /\ \A t \in Transactions : status[t] = "in progress" => writer.tx = t
  /\ \A e \in appended :
       /\ e.sequence <= sequence
       /\ status[e.tx] \in {"in progress", "committed"}
       /\ Committed(e) <=> e.sequence <= recorded
  /\ \A e, d \in appended : e.sequence = d.sequence => e = d
  /\ \A n \in 1 .. sequence : \E e \in appended : e.sequence = n

LEMMA EventsTyped ==
  ASSUME NEW e \in Events
  PROVE  /\ e.tx \in Transactions /\ e.sequence \in Nat /\ e.sequence \in Numbers
         /\ e.at \in Gateways /\ e # FlushCommand /\ e.tx # NoTransaction
BY LimitsAssumption DEF Events, Numbers, FlushCommand, NoTransaction, Transactions

LEMMA RowTyped ==
  ASSUME TypeOK
  PROVE  /\ sequence \in Nat /\ recorded \in Nat /\ appended \subseteq Events
         /\ \A e \in appended : e.sequence \in Nat /\ e.tx \in Transactions
<1>1. sequence \in 0 .. MaxSequence /\ recorded \in 0 .. MaxSequence /\ MaxSequence \in Nat
  BY LimitsAssumption DEF TypeOK
<1>2. sequence \in Nat /\ recorded \in Nat
  BY <1>1
<1>3. appended \subseteq Events
  BY DEF TypeOK
<1> QED
  BY <1>2, <1>3, EventsTyped

LEMMA InitNumbering == Init => Numbering
BY DEF Init, Numbering, NoWriter, NoTransaction

\* What an event's step does to the row.
LEMMA EventEffect ==
  ASSUME TypeOK, NEW g \in Gateways, Event(g)
  PROVE  \E t \in Transactions, e \in Events :
           /\ e.tx = t /\ e.sequence = sequence + 1 /\ e.at = g
           /\ \/ writer = NoWriter /\ status[t] = "none"
              \/ writer # NoWriter /\ writer.tx = t
           /\ writer' # NoWriter /\ writer'.tx = t
           /\ status' = [status EXCEPT ![t] = "in progress"]
           /\ sequence' = sequence + 1 /\ recorded' = recorded
           /\ appended' = appended \cup {e}
           /\ \/ channel' = [channel EXCEPT ![g] = Append(@, e)] /\ UNCHANGED lost
              \/ lost' = lost \cup {e} /\ UNCHANGED channel
<1>1. PICK t \in Transactions :
        /\ \/ writer = NoWriter /\ status[t] = "none"
           \/ writer = [tx |-> t, at |-> g]
        /\ writer' = [tx |-> t, at |-> g]
        /\ status' = [status EXCEPT ![t] = "in progress"]
        /\ sequence' = sequence + 1
        /\ Enqueue(g, [tx |-> t, sequence |-> sequence + 1, at |-> g])
  BY DEF Event
<1> DEFINE e == [tx |-> t, sequence |-> sequence + 1, at |-> g]
<1>2. sequence + 1 \in 1 .. MaxSequence
  <2>1. sequence \in 0 .. MaxSequence /\ MaxSequence \in Nat
    BY LimitsAssumption DEF TypeOK
  <2>2. sequence < MaxSequence
    BY DEF Event
  <2> QED
    BY <2>1, <2>2
<1>3. e \in Events
  BY <1>2 DEF Events, Numbers
<1>4. /\ appended' = appended \cup {e}
      /\ \/ channel' = [channel EXCEPT ![g] = Append(@, e)] /\ UNCHANGED lost
         \/ lost' = lost \cup {e} /\ UNCHANGED channel
  BY <1>1 DEF Enqueue
<1>5. recorded' = recorded
  BY DEF Event
<1>6. e.tx = t /\ e.sequence = sequence + 1 /\ e.at = g
  OBVIOUS
<1>7. NoWriter.tx = NoTransaction /\ t # NoTransaction
  BY DEF NoWriter, NoTransaction, Transactions
<1>8. [tx |-> t, at |-> g].tx = t
  OBVIOUS
<1>9. \/ writer = NoWriter /\ status[t] = "none"
      \/ writer # NoWriter /\ writer.tx = t
  BY <1>1, <1>7, <1>8
<1>10. writer' # NoWriter /\ writer'.tx = t
  BY <1>1, <1>7, <1>8
<1> HIDE DEF e
<1> QED
  BY <1>1, <1>3, <1>4, <1>5, <1>6, <1>9, <1>10

LEMMA NumberingKept == TypeOK /\ Numbering /\ [Next]_vars => Numbering'
<1> SUFFICES ASSUME TypeOK, Numbering, [Next]_vars PROVE Numbering'
  OBVIOUS
<1>t. status \in [Transactions -> {"none", "in progress", "committed", "aborted"}]
  BY DEF TypeOK
<1>n. NoTransaction \notin Transactions /\ NoWriter.tx = NoTransaction
  BY DEF NoTransaction, Transactions, NoWriter
<1>1. CASE UNCHANGED writing
  BY <1>1 DEF writing, Numbering, Committed
<1>2. CASE Commit
  <2>1. /\ writer.tx \in Transactions /\ writer' = NoWriter
        /\ status' = [status EXCEPT ![writer.tx] = "committed"]
        /\ recorded' = sequence /\ sequence' = sequence /\ appended' = appended
    BY <1>2 DEF Commit, Numbering
  <2>2. \A t \in Transactions : status'[t] # "in progress"
    BY <1>t, <2>1 DEF Numbering
  <2>3. \A e \in appended : status'[e.tx] = "committed"
    BY <1>t, <2>1, RowTyped DEF Numbering
  <2>4. recorded' <= sequence'
    BY <2>1, RowTyped
  <2> QED
    BY <2>1, <2>2, <2>3, <2>4 DEF Numbering, Committed
<1>3. CASE \E g \in Gateways : Event(g)
  <2>1. PICK g \in Gateways : Event(g)
    BY <1>3
  <2>2. PICK t \in Transactions, e \in Events :
          /\ e.tx = t /\ e.sequence = sequence + 1 /\ e.at = g
          /\ \/ writer = NoWriter /\ status[t] = "none"
             \/ writer # NoWriter /\ writer.tx = t
          /\ writer' # NoWriter /\ writer'.tx = t
          /\ status' = [status EXCEPT ![t] = "in progress"]
          /\ sequence' = sequence + 1 /\ recorded' = recorded
          /\ appended' = appended \cup {e}
    BY <2>1, EventEffect
  <2>3. \A u \in Transactions : status[u] = "in progress" => u = t
    BY <1>n, <2>2 DEF Numbering
  <2>4. status[t] # "committed"
    BY <1>n, <2>2 DEF Numbering
  <2>5. writer'.tx = t /\ writer' # NoWriter
    BY <2>2
  <2>a. e.sequence = sequence + 1 /\ sequence' = sequence + 1 /\ recorded' = recorded
        /\ recorded <= sequence /\ sequence \in Nat /\ recorded \in Nat
    BY <2>2, RowTyped DEF Numbering
  <2>6. status'[t] = "in progress" /\ \A u \in Transactions : u # t => status'[u] = status[u]
    BY <1>t, <2>2
  <2>7. \A d \in appended : Committed(d)' <=> Committed(d)
    BY <2>4, <2>6, RowTyped DEF Committed
  <2>8. \A d \in appended : status'[d.tx] \in {"in progress", "committed"}
    BY <2>6, RowTyped DEF Numbering
  <2>9. \A d \in appended' :
          /\ d.sequence <= sequence'
          /\ status'[d.tx] \in {"in progress", "committed"}
          /\ Committed(d)' <=> d.sequence <= recorded'
    <3>1. ASSUME NEW d \in appended
          PROVE  d.sequence <= sequence' /\ (Committed(d)' <=> d.sequence <= recorded')
      <4>1. d.sequence <= sequence /\ (Committed(d) <=> d.sequence <= recorded)
        BY DEF Numbering
      <4>2. d.sequence <= sequence + 1
        BY <4>1, RowTyped
      <4> QED
        BY <4>1, <4>2, <2>2, <2>7
    <3>2. e.sequence <= sequence' /\ ~(e.sequence <= recorded')
      BY <2>a
    <3>3. status'[e.tx] = "in progress" /\ ~Committed(e)'
      BY <2>2, <2>6 DEF Committed
    <3> QED
      BY <2>2, <2>8, <3>1, <3>2, <3>3
  <2>10. \A d \in appended : d.sequence # e.sequence
    <3> SUFFICES ASSUME NEW d \in appended PROVE d.sequence # e.sequence
      OBVIOUS
    <3>1. d.sequence <= sequence /\ d.sequence \in Nat
      BY RowTyped DEF Numbering
    <3> QED
      BY <2>a, <3>1
  <2>11. \A c, d \in appended' : c.sequence = d.sequence => c = d
    BY <2>2, <2>10 DEF Numbering
  <2>12. \A n \in 1 .. sequence' : \E d \in appended' : d.sequence = n
    <3> SUFFICES ASSUME NEW n \in 1 .. sequence' PROVE \E d \in appended' : d.sequence = n
      OBVIOUS
    <3>1. n \in 1 .. sequence \/ n = sequence + 1
      BY <2>a
    <3> QED
      BY <2>2, <3>1 DEF Numbering
  <2>13. recorded' <= sequence'
    BY <2>a
  <2>14. \A u \in Transactions : status'[u] = "in progress" => writer'.tx = u
    BY <2>3, <2>5, <2>6
  <2>15. writer' # NoWriter => writer'.tx \in Transactions /\ status'[writer'.tx] = "in progress"
    BY <2>5, <2>6
  <2> QED
    BY <2>5, <2>9, <2>11, <2>12, <2>13, <2>14, <2>15 DEF Numbering
<1>4. CASE RollsBack /\ UNCHANGED recorded /\ writer # NoWriter
  <2>1. /\ writer.tx \in Transactions /\ writer' = NoWriter
        /\ status' = [status EXCEPT ![writer.tx] = "aborted"]
        /\ recorded' = recorded /\ sequence' = recorded
        /\ appended' = {e \in appended : e.tx # writer.tx}
    BY <1>4 DEF RollsBack, Numbering
  <2>2. \A t \in Transactions : status'[t] # "in progress"
    BY <1>t, <2>1 DEF Numbering
  <2>3. \A e \in appended' : status'[e.tx] = status[e.tx] /\ status[e.tx] = "committed"
    BY <1>t, <2>1, RowTyped DEF Numbering
  <2>4. \A e \in appended' : e.sequence <= sequence'
    BY <2>1, <2>3 DEF Numbering, Committed
  <2>5. \A n \in 1 .. sequence' : \E e \in appended' : e.sequence = n
    <3> SUFFICES ASSUME NEW n \in 1 .. recorded PROVE \E e \in appended' : e.sequence = n
      BY <2>1
    <3>1. n \in 1 .. sequence /\ n <= recorded
      <4>1. recorded <= sequence /\ sequence \in Nat /\ recorded \in Nat
        BY RowTyped DEF Numbering
      <4> QED
        BY <4>1
    <3>2. PICK e \in appended : e.sequence = n
      BY <3>1 DEF Numbering
    <3>3. status[e.tx] = "committed"
      BY <3>1, <3>2 DEF Numbering, Committed
    <3>4. e.tx # writer.tx
      BY <1>4, <3>3 DEF Numbering
    <3> QED
      BY <2>1, <3>2, <3>4
  <2>6. recorded' <= sequence'
    BY <2>1, RowTyped
  <2>7. \A e \in appended' : Committed(e)' /\ e.sequence <= recorded'
    BY <2>1, <2>3, <2>4 DEF Committed
  <2>8. \A e, d \in appended' : e.sequence = d.sequence => e = d
    BY <2>1 DEF Numbering
  <2>9. \A e \in appended' : status'[e.tx] \in {"in progress", "committed"}
    BY <2>3
  <2> QED
    BY <2>1, <2>2, <2>4, <2>5, <2>6, <2>7, <2>8, <2>9 DEF Numbering
<1> QED
  BY <1>1, <1>2, <1>3, <1>4, RowSteps

-----------------------------------------------------------------------------
(* The queues *)

LEMMA SentKept ==
  ASSUME UNCHANGED channel, NEW g \in Gateways
  PROVE  Sent(g)' = Sent(g)
BY DEF Sent

LEMMA SentEmptied ==
  ASSUME TypeOK, NEW g \in Gateways, channel' = [channel EXCEPT ![g] = <<>>], NEW h \in Gateways
  PROVE  Sent(h)' = IF h = g THEN {} ELSE Sent(h)
<1>1. channel \in [Gateways -> Seq(Events \cup {FlushCommand})]
  BY DEF TypeOK
<1>2. CASE h = g
  <2>1. channel'[h] = <<>> /\ DOMAIN channel'[h] = {}
    BY <1>1, <1>2
  <2> QED
    BY <1>2, <2>1 DEF Sent
<1>3. CASE h # g
  <2>1. channel'[h] = channel[h]
    BY <1>1, <1>3
  <2> QED
    BY <1>3, <2>1 DEF Sent
<1> QED
  BY <1>2, <1>3

LEMMA SentAppended ==
  ASSUME TypeOK, NEW g \in Gateways, NEW c \in Events \cup {FlushCommand},
         channel' = [channel EXCEPT ![g] = Append(@, c)], NEW h \in Gateways
  PROVE  Sent(h)' = IF h = g THEN Sent(h) \cup ({c} \ {FlushCommand}) ELSE Sent(h)
<1>1. channel \in [Gateways -> Seq(Events \cup {FlushCommand})]
  BY DEF TypeOK
<1>2. CASE h = g
  <2> DEFINE s == channel[h]
  <2>1. channel'[h] = Append(s, c) /\ s \in Seq(Events \cup {FlushCommand})
    BY <1>1, <1>2
  <2> HIDE DEF s
  <2>2. DOMAIN Append(s, c) = 1 .. Len(s) + 1 /\ DOMAIN s = 1 .. Len(s) /\ Len(s) \in Nat
    BY <2>1
  <2>3. Append(s, c)[Len(s) + 1] = c /\ \A k \in 1 .. Len(s) : Append(s, c)[k] = s[k]
    BY <2>1
  <2>4. {Append(s, c)[k] : k \in 1 .. Len(s) + 1} = {s[k] : k \in 1 .. Len(s)} \cup {c}
    <3>1. 1 .. Len(s) + 1 = (1 .. Len(s)) \cup {Len(s) + 1}
      BY <2>2
    <3> QED
      BY <2>3, <3>1
  <2>5. {channel'[h][k] : k \in DOMAIN channel'[h]} = {channel[h][k] : k \in DOMAIN channel[h]} \cup {c}
    BY <2>1, <2>2, <2>4 DEF s
  <2> QED
    BY <1>2, <2>5 DEF Sent
<1>3. CASE h # g
  <2>1. channel'[h] = channel[h]
    BY <1>1, <1>3
  <2> QED
    BY <1>3, <2>1 DEF Sent
<1> QED
  BY <1>2, <1>3

\* An event a step brings: of the transaction that writes, in the gateway that wrote it.
Arrives(h, e) == e \in appended' /\ e.at = h /\ status'[e.tx] = "in progress"

\* What e leaves its queue for: it was lost, its transaction did not commit, or a batch that
\* has its number was recorded.
Leaves(h, e) ==
  \/ e \in lost'
  \/ status[e.tx] \notin {"committed", "in progress"} /\ UNCHANGED writing
  \/ Record(h) /\ \E x \in batch[h].handled : x.sequence = e.sequence

QueueStep(h) ==
  /\ \A e \in Sent(h)' : e \in Sent(h) \/ Arrives(h, e)
  /\ \A e \in Queued(h)' : e \in Queued(h) \/ Arrives(h, e)
  /\ \A e \in Queued(h) : e \in Queued(h)' \/ Leaves(h, e)

LEMMA QueuesKept ==
  ASSUME UNCHANGED <<channel, pending>>, NEW h \in Gateways
  PROVE  QueueStep(h)
BY SentKept DEF QueueStep, Queued

\* Pending events are taken away, nothing is sent.
LEMMA PendingStep ==
  ASSUME TypeOK, NEW g \in Gateways, UNCHANGED channel, NEW P,
         pending' = [pending EXCEPT ![g] = P], P \subseteq pending[g],
         \A e \in pending[g] : e \in P \/ Leaves(g, e),
         NEW h \in Gateways
  PROVE  QueueStep(h)
<1>1. Sent(h)' = Sent(h)
  BY SentKept
<1>2. pending'[h] = IF h = g THEN P ELSE pending[h]
  BY DEF TypeOK
<1> QED
  BY <1>1, <1>2 DEF QueueStep, Queued

LEMMA QueueSteps ==
  ASSUME TypeOK, [Next]_vars, NEW h \in Gateways
  PROVE  QueueStep(h)
<1> USE DEF writing, worker, caller
<1>t. channel \in [Gateways -> Seq(Events \cup {FlushCommand})]
      /\ pending \in [Gateways -> SUBSET Events]
  BY DEF TypeOK
<1>1. CASE UNCHANGED vars \/ Commit \/ Rollback
  BY <1>1, QueuesKept DEF vars, Commit, Rollback
<1>2. ASSUME NEW g \in Gateways,
             CheckFails(g) \/ Lock(g) \/ LockBusy(g) \/ Insert(g) \/ RecordFails(g) \/ Wait(g)
      PROVE  QueueStep(h)
  BY <1>2, QueuesKept DEF CheckFails, Lock, LockBusy, Insert, RecordFails, Wait
<1>3. ASSUME NEW g \in Gateways, Event(g)
      PROVE  QueueStep(h)
  <2>1. PICK t \in Transactions, e \in Events :
          /\ e.tx = t /\ e.sequence = sequence + 1 /\ e.at = g
          /\ \/ writer = NoWriter /\ status[t] = "none"
             \/ writer # NoWriter /\ writer.tx = t
          /\ writer' # NoWriter /\ writer'.tx = t
          /\ status' = [status EXCEPT ![t] = "in progress"]
          /\ sequence' = sequence + 1 /\ recorded' = recorded
          /\ appended' = appended \cup {e}
          /\ \/ channel' = [channel EXCEPT ![g] = Append(@, e)] /\ UNCHANGED lost
             \/ lost' = lost \cup {e} /\ UNCHANGED channel
    BY <1>3, EventEffect, Zenon
  <2>2. UNCHANGED pending
    BY <1>3 DEF Event
  <2>3. CASE UNCHANGED channel
    BY <2>2, <2>3, QueuesKept
  <2>4. CASE channel' = [channel EXCEPT ![g] = Append(@, e)]
    <3>1. Sent(h)' = IF h = g THEN Sent(h) \cup ({e} \ {FlushCommand}) ELSE Sent(h)
      BY <2>4, SentAppended
    <3>2. Arrives(g, e)
      BY <2>1 DEF TypeOK, Arrives
    <3> QED
      BY <2>2, <3>1, <3>2 DEF QueueStep, Queued
  <2> QED
    BY <2>1, <2>3, <2>4
<1>4. ASSUME NEW g \in Gateways, Receive(g)
      PROVE  QueueStep(h)
  <2>1. Sent(h)' = IF h = g THEN {} ELSE Sent(h)
    BY <1>4, SentEmptied DEF Receive
  <2>2. pending'[h] = IF h = g THEN Queued(g) ELSE pending[h]
    BY <1>t, <1>4 DEF Receive
  <2> QED
    BY <2>1, <2>2 DEF QueueStep, Queued
<1>5. ASSUME NEW g \in Gateways, ReceiveFlush(g)
      PROVE  QueueStep(h)
  <2>1. Sent(h)' = IF h = g THEN {} ELSE Sent(h)
    BY <1>5, SentEmptied DEF ReceiveFlush
  <2>2. pending' = pending /\ Queued(g) = {}
    BY <1>5 DEF ReceiveFlush
  <2> QED
    BY <2>1, <2>2 DEF QueueStep, Queued
<1>6. ASSUME NEW g \in Gateways, Check(g)
      PROVE  QueueStep(h)
  <2> DEFINE P == {e \in pending[g] : status[e.tx] \in {"committed", "in progress"}}
  <2>1. pending' = [pending EXCEPT ![g] = P] /\ UNCHANGED channel /\ UNCHANGED writing
    BY <1>6 DEF Check
  <2>2. P \subseteq pending[g] /\ \A e \in pending[g] : e \in P \/ Leaves(g, e)
    BY <2>1 DEF Leaves
  <2> HIDE DEF P
  <2> QED
    BY <2>1, <2>2, PendingStep
<1>7. ASSUME NEW g \in Gateways, Record(g)
      PROVE  QueueStep(h)
  <2> DEFINE P == {e \in pending[g] : e.sequence \notin {x.sequence : x \in batch[g].handled}}
  <2>1. pending' = [pending EXCEPT ![g] = P] /\ UNCHANGED channel
    BY <1>7 DEF Record
  <2>2. P \subseteq pending[g] /\ \A e \in pending[g] : e \in P \/ Leaves(g, e)
    BY <1>7 DEF Leaves
  <2> HIDE DEF P
  <2> QED
    BY <2>1, <2>2, PendingStep
<1>8. ASSUME NEW g \in Gateways, Flush(g)
      PROVE  QueueStep(h)
  <2>1. Sent(h)' = IF h = g THEN Sent(h) \cup ({FlushCommand} \ {FlushCommand}) ELSE Sent(h)
    BY <1>8, SentAppended DEF Flush
  <2>2. pending' = pending
    BY <1>8 DEF Flush
  <2> QED
    BY <2>1, <2>2 DEF QueueStep, Queued
<1>9. ASSUME NEW g \in Gateways, Crash(g)
      PROVE  QueueStep(h)
  <2>1. Sent(h)' = IF h = g THEN {} ELSE Sent(h)
    BY <1>9, SentEmptied DEF Crash
  <2>2. pending'[h] = IF h = g THEN {} ELSE pending[h]
    BY <1>t, <1>9 DEF Crash
  <2>3. lost' = lost \cup Queued(g)
    BY <1>9 DEF Crash
  <2> QED
    BY <2>1, <2>2, <2>3 DEF QueueStep, Queued, Leaves
<1> QED
  BY <1>1, <1>2, <1>3, <1>4, <1>5, <1>6, <1>7, <1>8, <1>9 DEF Next, Turn

\* An event in a queue was numbered, in that gateway; it counts unless it was rolled back.
QueuesHoldEvents ==
  \A g \in Gateways : \A e \in Queued(g) :
    /\ e.at = g /\ status[e.tx] # "none"
    /\ status[e.tx] # "aborted" => e \in appended

\* A status never becomes "none"; a transaction that is not aborted keeps its events.
LEMMA StatusStep ==
  ASSUME TypeOK, Numbering, [Next]_vars
  PROVE  /\ \A e \in Events : status[e.tx] # "none" => status'[e.tx] # "none"
         /\ \A e \in Events : Committed(e) => Committed(e)'
         /\ \A e \in appended : status'[e.tx] # "aborted" => e \in appended'
         /\ \A e \in Events : status[e.tx] = "aborted" => status'[e.tx] = "aborted"
         /\ \A e \in appended : Committed(e)' => Committed(e) \/ Commit
<1>t. status \in [Transactions -> {"none", "in progress", "committed", "aborted"}]
  BY DEF TypeOK
<1>e. \A e \in Events : e.tx \in Transactions
  BY EventsTyped
<1>a. appended \subseteq Events
  BY RowTyped
<1>1. CASE UNCHANGED writing
  BY <1>1 DEF writing, Committed
<1>2. CASE Commit
  <2>1. /\ writer.tx \in Transactions /\ status[writer.tx] = "in progress"
        /\ status' = [status EXCEPT ![writer.tx] = "committed"] /\ appended' = appended
    BY <1>2 DEF Commit, Numbering, writing
  <2> QED
    BY <1>2, <1>t, <1>e, <1>a, <2>1 DEF Committed
<1>3. CASE \E g \in Gateways : Event(g)
  <2>1. PICK t \in Transactions, e \in Events :
          /\ \/ writer = NoWriter /\ status[t] = "none"
             \/ writer # NoWriter /\ writer.tx = t
          /\ status' = [status EXCEPT ![t] = "in progress"]
          /\ appended' = appended \cup {e}
    BY <1>3, EventEffect
  <2>2. status[t] \in {"none", "in progress"}
    BY <2>1 DEF Numbering
  <2> QED
    BY <1>t, <1>e, <1>a, <2>1, <2>2 DEF Committed
<1>4. CASE RollsBack /\ UNCHANGED recorded /\ writer # NoWriter
  <2>1. /\ writer.tx \in Transactions /\ status[writer.tx] = "in progress"
        /\ status' = [status EXCEPT ![writer.tx] = "aborted"]
        /\ appended' = {e \in appended : e.tx # writer.tx}
    BY <1>4 DEF RollsBack, Numbering
  <2> QED
    BY <1>t, <1>e, <1>a, <2>1 DEF Committed
<1> QED
  BY <1>1, <1>2, <1>3, <1>4, RowSteps

LEMMA InitQueues == Init => QueuesHoldEvents
<1> SUFFICES ASSUME Init, NEW g \in Gateways PROVE Queued(g) = {}
  BY DEF QueuesHoldEvents
<1>1. channel[g] = <<>> /\ pending[g] = {}
  BY DEF Init
<1>2. DOMAIN channel[g] = {}
  BY <1>1
<1> QED
  BY <1>1, <1>2 DEF Queued, Sent

LEMMA QueuesHoldEventsKept ==
  TypeOK /\ Numbering /\ QueuesHoldEvents /\ [Next]_vars => QueuesHoldEvents'
<1> SUFFICES ASSUME TypeOK, Numbering, QueuesHoldEvents, [Next]_vars,
                    NEW g \in Gateways, NEW e \in Queued(g)'
             PROVE  /\ e.at = g /\ status'[e.tx] # "none"
                    /\ status'[e.tx] # "aborted" => e \in appended'
  BY DEF QueuesHoldEvents
<1>1. e \in Queued(g) \/ Arrives(g, e)
  BY QueueSteps DEF QueueStep
<1>2. CASE e \in Queued(g)
  <2>1. e \in Events
    BY <1>2, QueuedTyped, TypesTogether
  <2>2. e.at = g /\ status[e.tx] # "none" /\ (status[e.tx] # "aborted" => e \in appended)
    BY <1>2 DEF QueuesHoldEvents
  <2> QED
    BY <2>1, <2>2, StatusStep
<1>3. CASE Arrives(g, e)
  BY <1>3 DEF Arrives
<1> QED
  BY <1>1, <1>2, <1>3

-----------------------------------------------------------------------------
(* The history *)

\* Induction by the least counterexample.
LEMMA LeastNatural ==
  ASSUME NEW S \in SUBSET Nat, S # {}
  PROVE  \E s \in S : \A u \in S : s <= u
<1> DEFINE Less == {p \in Nat \X Nat : p[1] < p[2]}
<1>1. IsWellFoundedOn(Less, Nat)
  BY NatLessThanWellFounded DEF OpToRel
<1> HIDE DEF Less
<1>2. \E s \in S : \A u \in S : ~(<<u, s>> \in Less)
  BY <1>1, WFMin
<1>3. \E s \in S : \A u \in S : ~(u < s)
  BY <1>2 DEF Less
<1> QED
  BY <1>3

LEMMA WatermarkIsLast ==
  ASSUME history \subseteq Events
  PROVE  /\ Watermark \in Nat
         /\ \A h \in history : h.sequence <= Watermark
         /\ Watermark = 0 \/ \E h \in history : h.sequence = Watermark
<1>1. CASE history = {}
  BY <1>1 DEF Watermark
<1>2. CASE history # {}
  <2> DEFINE S == {e.sequence : e \in history}
             U == {n \in Nat : \A s \in S : s <= n}
  <2>1. S \subseteq Nat /\ S # {}
    BY <1>2, EventsTyped
  <2>2. \A s \in S : s <= MaxSequence
    <3>1. \A s \in S : s \in Numbers
      BY EventsTyped
    <3> QED
      BY <3>1, LimitsAssumption DEF Numbers
  <2>3. U # {}
    BY <2>2, LimitsAssumption
  <2> HIDE DEF S
  <2>4. PICK u \in U : \A v \in U : u <= v
    BY <2>3, LeastNatural
  <2>5. u \in S
    <3> SUFFICES ASSUME u \notin S PROVE FALSE
      OBVIOUS
    <3>1. PICK s \in S : s \in Nat
      BY <2>1
    <3>2. \A v \in S : v \in Nat /\ v <= u /\ v # u
      BY <2>1
    <3>3. u - 1 \in Nat /\ \A v \in S : v <= u - 1
      BY <3>1, <3>2
    <3> QED
      BY <2>4, <3>3
  <2>6. \E n \in S : \A e \in history : e.sequence <= n
    BY <2>5 DEF S
  <2>7. Watermark = CHOOSE n \in S : \A e \in history : e.sequence <= n
    BY <1>2 DEF Watermark, S
  <2>8. Watermark \in S /\ \A e \in history : e.sequence <= Watermark
    BY <2>6, <2>7
  <2> QED
    BY <2>1, <2>8 DEF S
<1> QED
  BY <1>1, <1>2

\* At each gateway: only what was committed is to be written, by one gateway at a time and
\* above the history; what is handled is written or comes too late.
WritingAt(g) ==
  /\ \A e \in ready[g] : e \in appended /\ Committed(e)
  /\ stage[g] \in {"locked", "inserted"} => lock = g
  /\ stage[g] # "inserted" => batch[g] = EmptyBatch
  /\ batch[g].written \subseteq ready[g]
  /\ \A w \in batch[g].written, h \in history : h.sequence < w.sequence
  /\ \A x \in batch[g].handled :
       \/ x \in batch[g].written
       \/ x \in ready[g] /\ \E h \in history : x.sequence <= h.sequence

Writing ==
  /\ \A e \in history : e \in appended /\ Committed(e)
  /\ \A g \in Gateways : WritingAt(g)

LEMMA CommittedStays ==
  ASSUME TypeOK, Numbering, [Next]_vars, NEW e \in appended, Committed(e)
  PROVE  e \in appended' /\ Committed(e)'
<1>1. e \in Events
  BY RowTyped
<1>2. Committed(e)'
  BY <1>1, StatusStep
<1> QED
  BY <1>2, StatusStep DEF Committed

\* A gateway whose turn it is not.
LEMMA OtherKept ==
  ASSUME TypeOK, Numbering, Writing, [Next]_vars, NEW g \in Gateways, NEW h \in Gateways,
         h # g, stage'[h] = stage[h], ready'[h] = ready[h], batch'[h] = batch[h],
         history' = history \/ (history' = history \cup batch[g].written),
         lock' = lock \/ lock = g \/ lock = Nobody
  PROVE  WritingAt(h)'
<1>w. WritingAt(g) /\ WritingAt(h)
  BY DEF Writing
<1>n. Nobody \notin Gateways
  BY LimitsAssumption
<1>1. \A e \in ready'[h] : e \in appended' /\ Committed(e)'
  BY <1>w, CommittedStays DEF WritingAt
<1>2. stage'[h] \in {"locked", "inserted"} => lock' = h
  BY <1>w, <1>n DEF WritingAt
<1>3. stage[h] = "inserted" => batch[g].written = {}
  BY <1>w DEF WritingAt, EmptyBatch
<1>4. stage[h] # "inserted" => batch[h].written = {}
  BY <1>w DEF WritingAt, EmptyBatch
<1>5. \A w \in batch'[h].written, d \in history' : d.sequence < w.sequence
  BY <1>w, <1>3, <1>4 DEF WritingAt
<1>6. \A x \in batch'[h].handled :
        \/ x \in batch'[h].written
        \/ x \in ready'[h] /\ \E d \in history' : x.sequence <= d.sequence
  BY <1>w DEF WritingAt
<1> QED
  BY <1>w, <1>1, <1>2, <1>5, <1>6 DEF WritingAt

\* A turn that is over.
LEMMA TurnOver ==
  ASSUME NEW g \in Gateways,
         ready'[g] = {}, batch'[g] = EmptyBatch, stage'[g] = "idle"
  PROVE  WritingAt(g)'
BY DEF WritingAt, EmptyBatch

\* A step that leaves what is written alone.
LEMMA RowOnly ==
  ASSUME TypeOK, Numbering, Writing, [Next]_vars, UNCHANGED <<stage, ready, batch, lock, history>>
  PROVE  Writing'
<1>1. \A e \in history' : e \in appended' /\ Committed(e)'
  BY CommittedStays DEF Writing
<1>2. ASSUME NEW g \in Gateways PROVE WritingAt(g)'
  <2>1. WritingAt(g)
    BY DEF Writing
  <2>2. \A e \in ready'[g] : e \in appended' /\ Committed(e)'
    BY <2>1, CommittedStays DEF WritingAt
  <2> QED
    BY <2>1, <2>2 DEF WritingAt
<1> QED
  BY <1>1, <1>2 DEF Writing

\* A worker that goes on, with nothing written.
LEMMA WorkerMoves ==
  ASSUME TypeOK, Numbering, Writing, [Next]_vars, NEW g \in Gateways, NEW s,
         stage' = [stage EXCEPT ![g] = s], s \notin {"locked", "inserted"},
         stage[g] # "inserted", UNCHANGED <<batch, lock, history>>,
         NEW R, ready' = [ready EXCEPT ![g] = R], \A e \in R : e \in appended /\ Committed(e)
  PROVE  Writing'
<1>t. stage \in [Gateways -> Stages] /\ ready \in [Gateways -> SUBSET Events]
  BY TypesTogether DEF WorkerTypes
<1>1. \A e \in history' : e \in appended' /\ Committed(e)'
  BY CommittedStays DEF Writing
<1>2. ASSUME NEW h \in Gateways, h # g PROVE WritingAt(h)'
  BY <1>t, <1>2, OtherKept
<1>3. WritingAt(g)'
  <2>1. stage'[g] = s /\ ready'[g] = R /\ batch'[g] = EmptyBatch
    BY <1>t DEF Writing, WritingAt
  <2>2. \A e \in ready'[g] : e \in appended' /\ Committed(e)'
    BY <2>1, CommittedStays
  <2> QED
    BY <2>1, <2>2 DEF WritingAt, EmptyBatch
<1> QED
  BY <1>1, <1>2, <1>3 DEF Writing

\* A turn that ends, with what its batch may have written.
LEMMA TurnEndsWriting ==
  ASSUME TypeOK, Numbering, Writing, [Next]_vars, NEW g \in Gateways,
         ready' = [ready EXCEPT ![g] = {}], batch' = [batch EXCEPT ![g] = EmptyBatch],
         stage' = [stage EXCEPT ![g] = "idle"],
         history' = history \/ (history' = history \cup batch[g].written),
         lock' = lock \/ lock = g
  PROVE  Writing'
<1>t. /\ stage \in [Gateways -> Stages] /\ ready \in [Gateways -> SUBSET Events]
      /\ batch \in [Gateways -> Batches]
  BY TypesTogether DEF WorkerTypes
<1>1. \A e \in history' : e \in appended' /\ Committed(e)'
  <2>1. \A e \in batch[g].written : e \in appended /\ Committed(e)
    BY DEF Writing, WritingAt
  <2>2. \A e \in history' : e \in appended /\ Committed(e)
    BY <2>1 DEF Writing
  <2> QED
    BY <2>2, CommittedStays
<1>2. ASSUME NEW h \in Gateways, h # g PROVE WritingAt(h)'
  BY <1>t, <1>2, OtherKept
<1>3. ready'[g] = {} /\ batch'[g] = EmptyBatch /\ stage'[g] = "idle"
  BY <1>t
<1>4. WritingAt(g)'
  BY <1>3, TurnOver
<1> QED
  BY <1>1, <1>2, <1>4 DEF Writing

LEMMA InitWriting == Init => Writing
<1> SUFFICES ASSUME Init PROVE Writing
  OBVIOUS
<1>1. history = {}
  BY DEF Init
<1>2. ASSUME NEW g \in Gateways
      PROVE  ready[g] = {} /\ batch[g] = EmptyBatch /\ stage[g] = "idle"
  BY DEF Init
<1>3. EmptyBatch.written = {} /\ EmptyBatch.handled = {}
  BY DEF EmptyBatch
<1>4. ASSUME NEW g \in Gateways PROVE WritingAt(g)
  BY <1>2, <1>3 DEF WritingAt
<1> QED
  BY <1>1, <1>4 DEF Writing

LEMMA WritingKept ==
  TypeOK /\ Numbering /\ QueuesHoldEvents /\ Writing /\ [Next]_vars => Writing'
<1> SUFFICES ASSUME TypeOK, Numbering, QueuesHoldEvents, Writing, [Next]_vars PROVE Writing'
  OBVIOUS
<1> USE DEF writing, worker, caller
<1>t. /\ stage \in [Gateways -> Stages] /\ ready \in [Gateways -> SUBSET Events]
      /\ batch \in [Gateways -> Batches] /\ pending \in [Gateways -> SUBSET Events]
  BY TypesTogether DEF WorkerTypes, QueueTypes
<1>1. CASE UNCHANGED vars \/ Commit \/ Rollback
  BY <1>1, RowOnly DEF vars, Commit, Rollback
<1>2. ASSUME NEW g \in Gateways, Event(g) \/ ReceiveFlush(g) \/ Wait(g) \/ Flush(g)
      PROVE  Writing'
  BY <1>2, RowOnly DEF Event, ReceiveFlush, Wait, Flush
<1>3. ASSUME NEW g \in Gateways, Receive(g) \/ CheckFails(g)
      PROVE  Writing'
  <2>1. PICK s \in {"idle", "received"} : stage' = [stage EXCEPT ![g] = s]
    BY <1>3 DEF Receive, CheckFails
  <2>2. UNCHANGED <<ready, batch, lock, history>> /\ stage[g] # "inserted"
    BY <1>3 DEF Receive, CheckFails
  <2>3. ready' = [ready EXCEPT ![g] = ready[g]] /\ s \notin {"locked", "inserted"}
    BY <1>t, <2>2
  <2>4. \A e \in ready[g] : e \in appended /\ Committed(e)
    BY DEF Writing, WritingAt
  <2> QED
    BY <2>1, <2>2, <2>3, <2>4, WorkerMoves
<1>4. ASSUME NEW g \in Gateways, Check(g)
      PROVE  Writing'
  <2>1. stage[g] # "inserted" /\ UNCHANGED <<lock, history>>
    BY <1>4 DEF Check
  <2>2. CASE Found(g) # {}
    <3>1. /\ stage' = [stage EXCEPT ![g] = "checked"] /\ ready' = [ready EXCEPT ![g] = Found(g)]
          /\ UNCHANGED batch
      BY <1>4, <2>2 DEF Check
    <3>2. \A e \in Found(g) : e \in appended /\ Committed(e)
      BY DEF Found, QueuesHoldEvents, Queued, Committed
    <3>3. "checked" \notin {"locked", "inserted"} /\ UNCHANGED <<batch, lock, history>>
      BY <2>1, <3>1
    <3> QED
      BY <2>1, <3>1, <3>2, <3>3, WorkerMoves
  <2>3. CASE Found(g) = {}
    <3>1. /\ ready' = [ready EXCEPT ![g] = {}] /\ batch' = [batch EXCEPT ![g] = EmptyBatch]
          /\ stage' = [stage EXCEPT ![g] = "idle"]
      BY <1>4, <2>3 DEF Check, TurnEnds
    <3> QED
      BY <2>1, <3>1, TurnEndsWriting
  <2> QED
    BY <2>2, <2>3
<1>5. ASSUME NEW g \in Gateways, Lock(g)
      PROVE  Writing'
  <2>1. /\ stage[g] = "checked" /\ lock = Nobody /\ lock' = g
        /\ stage' = [stage EXCEPT ![g] = "locked"] /\ UNCHANGED <<ready, batch, history>>
    BY <1>5 DEF Lock, Free
  <2>2. \A e \in history' : e \in appended' /\ Committed(e)'
    BY <2>1, CommittedStays DEF Writing
  <2>3. ASSUME NEW h \in Gateways, h # g PROVE WritingAt(h)'
    BY <1>t, <2>1, <2>3, OtherKept
  <2>4. WritingAt(g)'
    <3>1. stage'[g] = "locked" /\ batch'[g] = EmptyBatch
      BY <1>t, <2>1 DEF Writing, WritingAt
    <3>2. \A e \in ready'[g] : e \in appended' /\ Committed(e)'
      BY <2>1, CommittedStays DEF Writing, WritingAt
    <3> QED
      BY <2>1, <3>1, <3>2 DEF WritingAt, EmptyBatch
  <2> QED
    BY <2>2, <2>3, <2>4 DEF Writing
<1>6. ASSUME NEW g \in Gateways, Insert(g)
      PROVE  Writing'
  <2> DEFINE above == {e \in ready[g] : e.sequence > Watermark}
             written == {e \in above : Follows(e, above) \/ SkipsGap(above)}
             handled == Handled(ready[g], written)
  <2>1. /\ stage[g] = "locked" /\ stage' = [stage EXCEPT ![g] = "inserted"]
        /\ batch' = [batch EXCEPT ![g] = [written |-> written, handled |-> handled]]
        /\ UNCHANGED <<ready, lock, history>>
    BY <1>6 DEF Insert
  <2>2. \A e \in history' : e \in appended' /\ Committed(e)'
    BY <2>1, CommittedStays DEF Writing
  <2>3. written \subseteq ready[g] /\ \A w \in written : w.sequence > Watermark
    OBVIOUS
  <2>4. \A x \in handled : x \in written \/ (x \in ready[g] /\ x.sequence <= Watermark)
    BY DEF Handled
  <2> HIDE DEF written, handled
  <2>5. ASSUME NEW h \in Gateways, h # g PROVE WritingAt(h)'
    BY <1>t, <2>1, <2>5, OtherKept
  <2>6. WritingAt(g)'
    <3>1. stage'[g] = "inserted" /\ lock' = g /\ ready'[g] = ready[g] /\ history' = history
      BY <1>t, <2>1 DEF Writing, WritingAt
    <3>2. batch'[g].written = written /\ batch'[g].handled = handled
      BY <1>t, <2>1
    <3>3. \A e \in ready[g] : e \in Events /\ e \in appended /\ Committed(e)
      BY <1>t DEF Writing, WritingAt
    <3>4. \A e \in ready'[g] : e \in appended' /\ Committed(e)'
      BY <3>1, <3>3, CommittedStays
    <3>5. history \subseteq Events
      BY DEF TypeOK
    <3>6. ASSUME NEW w \in written, NEW h \in history PROVE h.sequence < w.sequence
      <4>1. h.sequence <= Watermark /\ w.sequence > Watermark /\ Watermark \in Nat
        BY <2>3, <3>5, WatermarkIsLast
      <4>2. h.sequence \in Nat /\ w.sequence \in Nat
        BY <2>3, <3>3, <3>5, EventsTyped
      <4> QED
        BY <4>1, <4>2
    <3>7. ASSUME NEW x \in handled, x \notin written
          PROVE  x \in ready[g] /\ \E h \in history : x.sequence <= h.sequence
      <4>1. x \in ready[g] /\ x.sequence <= Watermark
        BY <2>4, <3>7
      <4>2. x.sequence \in Nat /\ x.sequence # 0
        BY <3>3, <4>1, EventsTyped, LimitsAssumption DEF Numbers
      <4>3. Watermark # 0
        BY <3>5, <4>1, <4>2, WatermarkIsLast
      <4> QED
        BY <3>5, <4>1, <4>3, WatermarkIsLast
    <3> QED
      BY <2>3, <3>1, <3>2, <3>4, <3>6, <3>7 DEF WritingAt
  <2> QED
    BY <2>2, <2>5, <2>6 DEF Writing
<1>7. ASSUME NEW g \in Gateways, LockBusy(g) \/ Record(g) \/ RecordFails(g)
      PROVE  Writing'
  <2>1. /\ ready' = [ready EXCEPT ![g] = {}] /\ batch' = [batch EXCEPT ![g] = EmptyBatch]
        /\ stage' = [stage EXCEPT ![g] = "idle"]
    BY <1>7 DEF LockBusy, Record, RecordFails, TurnEnds
  <2>2. history' = history \/ (history' = history \cup batch[g].written)
    BY <1>7 DEF LockBusy, Record, RecordFails
  <2>3. lock' = lock \/ lock = g
    BY <1>7 DEF LockBusy, Record, RecordFails, Writing, WritingAt
  <2> QED
    BY <2>1, <2>2, <2>3, TurnEndsWriting
<1>8. ASSUME NEW g \in Gateways, Crash(g)
      PROVE  Writing'
  <2>1. /\ ready' = [ready EXCEPT ![g] = {}] /\ batch' = [batch EXCEPT ![g] = EmptyBatch]
        /\ stage' = [stage EXCEPT ![g] = "idle"]
        /\ history' = history \/ (history' = history \cup batch[g].written)
        /\ lock' = lock \/ lock = g
    BY <1>8 DEF Crash
  <2> QED
    BY <2>1, TurnEndsWriting
<1> QED
  BY <1>1, <1>2, <1>3, <1>4, <1>5, <1>6, <1>7, <1>8 DEF Next, Turn

\* The history changes by the batch of a gateway.
LEMMA HistorySteps ==
  ASSUME [Next]_vars, history' # history
  PROVE  \E g \in Gateways : history' = history \cup batch[g].written
<1> USE DEF writing, worker, caller
<1>1. CASE UNCHANGED vars \/ Commit \/ Rollback
  BY <1>1 DEF vars, Commit, Rollback
<1>2. ASSUME NEW g \in Gateways,
             Event(g) \/ Wait(g) \/ Flush(g) \/ Receive(g) \/ ReceiveFlush(g) \/ Check(g)
             \/ CheckFails(g) \/ Lock(g) \/ LockBusy(g) \/ Insert(g)
      PROVE  history' = history
  BY <1>2
  DEF Event, Wait, Flush, Receive, ReceiveFlush, Check, CheckFails, Lock, LockBusy, Insert
<1>3. ASSUME NEW g \in Gateways, Record(g) \/ RecordFails(g) \/ Crash(g)
      PROVE  history' = history \cup batch[g].written
  BY <1>3 DEF Record, RecordFails, Crash
<1> QED
  BY <1>1, <1>2, <1>3 DEF Next, Turn

LEMMA AppendsAbove ==
  ASSUME Writing, [Next]_vars
  PROVE  \A e \in history' \ history, d \in history : d.sequence < e.sequence
<1> SUFFICES ASSUME NEW e \in history' \ history, NEW d \in history
             PROVE  d.sequence < e.sequence
  OBVIOUS
<1>1. PICK g \in Gateways : history' = history \cup batch[g].written
  BY HistorySteps
<1> QED
  BY <1>1 DEF Writing, WritingAt

LEMMA OnlyWhatHappenedHolds == Numbering /\ Writing => OnlyWhatHappened
BY DEF Numbering, Writing, OnlyWhatHappened

-----------------------------------------------------------------------------
(* The barrier *)

Commanded(g) == \E k \in DOMAIN channel[g] : channel[g][k] = FlushCommand

\* A barrier is on the way only while its caller waits.  What is owed to the caller is behind it,
\* is found committed with it, and is gone when it is answered.
FlushingAt(g) ==
  /\ barrier[g] => flush[g] = "asked" /\ ~Commanded(g)
  /\ Commanded(g) => flush[g] = "asked"
  /\ \A e \in owed[g] : e \in Events /\ Committed(e)
  /\ barrier[g] => owed[g] \cap Sent(g) = {}
  /\ barrier[g] /\ stage[g] \in {"checked", "locked", "inserted"}
       => owed[g] \cap pending[g] \subseteq ready[g]
  /\ flush[g] = "done" => owed[g] \cap Queued(g) = {}

LEMMA CommandKept ==
  ASSUME TypeOK, [Next]_vars, NEW h \in Gateways, Commanded(h)'
  PROVE  Commanded(h) \/ Flush(h)
<1> USE DEF writing, worker, caller
<1>t. channel \in [Gateways -> Seq(Events \cup {FlushCommand})]
  BY DEF TypeOK
<1>1. ASSUME UNCHANGED channel
      PROVE  Commanded(h)
  BY <1>1 DEF Commanded
<1>2. ASSUME NEW g \in Gateways, channel' = [channel EXCEPT ![g] = <<>>]
      PROVE  Commanded(h)
  <2>1. g # h
    <3> SUFFICES ASSUME g = h PROVE FALSE
      OBVIOUS
    <3>1. channel'[h] = <<>>
      BY <1>t, <1>2
    <3>2. DOMAIN channel'[h] = {}
      BY <3>1
    <3> QED
      BY <3>2 DEF Commanded
  <2> QED
    BY <1>t, <1>2, <2>1 DEF Commanded
<1>3. ASSUME NEW g \in Gateways, NEW e \in Events, channel' = [channel EXCEPT ![g] = Append(@, e)]
      PROVE  Commanded(h)
  <2>1. CASE g # h
    BY <1>t, <1>3, <2>1 DEF Commanded
  <2>2. CASE g = h
    <3> DEFINE s == channel[h]
    <3>1. channel'[h] = Append(s, e) /\ s \in Seq(Events \cup {FlushCommand})
      BY <1>t, <1>3, <2>2
    <3> HIDE DEF s
    <3>2. PICK k \in DOMAIN Append(s, e) : Append(s, e)[k] = FlushCommand
      BY <3>1 DEF Commanded
    <3>3. e # FlushCommand
      BY EventsTyped
    <3>4. k \in DOMAIN s /\ s[k] = FlushCommand
      BY <3>1, <3>2, <3>3
    <3> QED
      BY <3>4 DEF Commanded, s
  <2> QED
    BY <2>1, <2>2
<1>4. CASE UNCHANGED vars \/ Commit \/ Rollback
  BY <1>1, <1>4 DEF vars, Commit, Rollback
<1>5. ASSUME NEW g \in Gateways,
             Check(g) \/ CheckFails(g) \/ Lock(g) \/ LockBusy(g) \/ Insert(g) \/ Record(g)
             \/ RecordFails(g) \/ Wait(g)
      PROVE  Commanded(h)
  <2>1. UNCHANGED channel
    BY <1>5 DEF Check, CheckFails, Lock, LockBusy, Insert, Record, RecordFails, Wait
  <2> QED
    BY <1>1, <2>1
<1>6. ASSUME NEW g \in Gateways, Event(g)
      PROVE  Commanded(h)
  <2>1. \/ UNCHANGED channel
        \/ \E e \in Events : channel' = [channel EXCEPT ![g] = Append(@, e)]
    BY <1>6, EventEffect
  <2> QED
    BY <1>1, <1>3, <2>1
<1>7. ASSUME NEW g \in Gateways, Receive(g) \/ ReceiveFlush(g) \/ Crash(g)
      PROVE  Commanded(h)
  BY <1>2, <1>7 DEF Receive, ReceiveFlush, Crash
<1>8. ASSUME NEW g \in Gateways, Flush(g), g # h
      PROVE  Commanded(h)
  <2>1. channel' = [channel EXCEPT ![g] = Append(@, FlushCommand)]
    BY <1>8 DEF Flush
  <2>2. channel'[h] = channel[h]
    BY <1>t, <1>8, <2>1
  <2> QED
    BY <2>2 DEF Commanded
<1> QED
  BY <1>4, <1>5, <1>6, <1>7, <1>8 DEF Next, Turn

\* What is owed does not arrive again.
LEMMA OwedStays ==
  ASSUME TypeOK, Numbering, [Next]_vars, NEW g \in Gateways, FlushingAt(g), NEW e \in owed[g]
  PROVE  /\ e \in Events /\ Committed(e)'
         /\ e \in Sent(g)' => e \in Sent(g)
         /\ e \in Queued(g)' => e \in Queued(g)
<1>1. e \in Events /\ Committed(e)
  BY DEF FlushingAt
<1>2. Committed(e)'
  BY <1>1, StatusStep
<1>3. ~Arrives(g, e)
  BY <1>2 DEF Arrives, Committed
<1> QED
  BY <1>1, <1>2, <1>3, QueueSteps DEF QueueStep

\* A gateway whose worker and caller do nothing.
LEMMA FlushUntouched ==
  ASSUME TypeOK, Numbering, [Next]_vars, NEW h \in Gateways, FlushingAt(h), ~Flush(h),
         barrier'[h] = barrier[h], flush'[h] = flush[h], owed'[h] = owed[h],
         stage'[h] = stage[h], ready'[h] = ready[h], pending'[h] = pending[h]
  PROVE  FlushingAt(h)'
<1>1. Commanded(h)' => flush'[h] = "asked"
  BY CommandKept DEF FlushingAt
<1>2. \A e \in owed'[h] : e \in Events /\ Committed(e)'
  BY OwedStays
<1>3. barrier'[h] => owed'[h] \cap Sent(h)' = {}
  BY OwedStays DEF FlushingAt
<1>4. flush'[h] = "done" => owed'[h] \cap Queued(h)' = {}
  BY OwedStays DEF FlushingAt
<1>5. barrier'[h] /\ stage'[h] \in {"checked", "locked", "inserted"}
        => owed'[h] \cap pending'[h] \subseteq ready'[h]
  BY DEF FlushingAt
<1>6. barrier'[h] => flush'[h] = "asked" /\ ~Commanded(h)'
  BY CommandKept DEF FlushingAt
<1> QED
  BY <1>1, <1>2, <1>3, <1>4, <1>5, <1>6 DEF FlushingAt

\* A turn that ends: nothing owed is left if it answers.
LEMMA TurnEndsFlush ==
  ASSUME TypeOK, Numbering, [Next]_vars, NEW g \in Gateways, FlushingAt(g), ~Flush(g),
         NEW left, TurnEnds(g, left), UNCHANGED owed,
         barrier[g] /\ left = {} => owed[g] \cap Queued(g)' = {}
  PROVE  FlushingAt(g)'
<1>t. /\ barrier \in [Gateways -> BOOLEAN] /\ stage \in [Gateways -> Stages]
      /\ flush \in [Gateways -> {"none", "asked", "done"}]
  BY DEF TypeOK, Stages
<1> DEFINE answered == barrier[g] /\ left = {}
<1>1. /\ barrier' = [barrier EXCEPT ![g] = @ /\ ~answered]
      /\ flush' = [flush EXCEPT ![g] = IF answered /\ @ = "asked" THEN "done" ELSE @]
      /\ stage' = [stage EXCEPT ![g] = "idle"]
  BY DEF TurnEnds, Answers
<1> HIDE DEF answered
<1>2. stage'[g] = "idle"
  BY <1>t, <1>1
<1>3. barrier'[g] <=> (barrier[g] /\ ~answered)
  BY <1>t, <1>1, Zenon
<1>4. flush'[g] = IF answered /\ flush[g] = "asked" THEN "done" ELSE flush[g]
  BY <1>t, <1>1
<1>5. \A e \in owed'[g] : e \in Events /\ Committed(e)'
  BY OwedStays
<1>6. CASE answered
  <2>1. barrier[g] /\ flush[g] = "asked"
    BY <1>6 DEF answered, FlushingAt
  <2>2. flush'[g] = "done" /\ ~barrier'[g]
    BY <1>3, <1>4, <1>6, <2>1
  <2>3. owed'[g] \cap Queued(g)' = {}
    BY <1>6 DEF answered
  <2>4. ~Commanded(g)'
    BY <2>1, CommandKept DEF FlushingAt
  <2> QED
    BY <1>2, <1>5, <2>2, <2>3, <2>4 DEF FlushingAt
<1>7. CASE ~answered
  <2>1. (barrier'[g] <=> barrier[g]) /\ flush'[g] = flush[g]
    BY <1>3, <1>4, <1>7
  <2>2. /\ Commanded(g)' => flush'[g] = "asked"
        /\ barrier'[g] => flush'[g] = "asked" /\ ~Commanded(g)'
    BY <2>1, CommandKept DEF FlushingAt
  <2>3. barrier'[g] => owed'[g] \cap Sent(g)' = {}
    BY <2>1, OwedStays DEF FlushingAt
  <2>4. flush'[g] = "done" => owed'[g] \cap Queued(g)' = {}
    BY <2>1, OwedStays DEF FlushingAt
  <2> QED
    BY <1>2, <1>5, <2>1, <2>2, <2>3, <2>4 DEF FlushingAt
<1> QED
  BY <1>6, <1>7

LEMMA InitFlushing == Init => \A g \in Gateways : FlushingAt(g)
<1> SUFFICES ASSUME Init, NEW g \in Gateways PROVE FlushingAt(g)
  OBVIOUS
<1>1. ~barrier[g] /\ channel[g] = <<>> /\ owed[g] = {}
  BY DEF Init
<1>2. DOMAIN channel[g] = {}
  BY <1>1
<1> QED
  BY <1>1, <1>2 DEF FlushingAt, Commanded

\* The steps of its own worker, its caller and its process.
OwnStep(h) ==
  Turn(h) \/ Flush(h) \/ Crash(h)

LEMMA NotOwn ==
  ASSUME TypeOK, [Next]_vars, NEW h \in Gateways, ~OwnStep(h)
  PROVE  /\ ~Flush(h)
         /\ barrier'[h] = barrier[h] /\ flush'[h] = flush[h] /\ owed'[h] = owed[h]
         /\ stage'[h] = stage[h] /\ ready'[h] = ready[h] /\ pending'[h] = pending[h]
<1> USE DEF writing, worker, caller
<1>t. /\ barrier \in [Gateways -> BOOLEAN] /\ stage \in [Gateways -> Stages]
      /\ flush \in [Gateways -> {"none", "asked", "done"}]
      /\ owed \in [Gateways -> SUBSET Events] /\ ready \in [Gateways -> SUBSET Events]
      /\ pending \in [Gateways -> SUBSET Events]
  BY DEF TypeOK, Stages
<1> DEFINE Goal == /\ barrier'[h] = barrier[h] /\ flush'[h] = flush[h] /\ owed'[h] = owed[h]
                   /\ stage'[h] = stage[h] /\ ready'[h] = ready[h] /\ pending'[h] = pending[h]
<1>0. ~Flush(h)
  BY DEF OwnStep
<1>1. ASSUME UNCHANGED <<worker, caller>>
      PROVE  Goal
  BY <1>1
<1>2. ASSUME UNCHANGED vars \/ Commit \/ Rollback
      PROVE  Goal
  BY <1>1, <1>2 DEF vars, Commit, Rollback
<1>3. ASSUME NEW g \in Gateways, Event(g) \/ Wait(g)
      PROVE  Goal
  BY <1>1, <1>3 DEF Event, Wait
<1>4. ASSUME NEW g \in Gateways, g # h, NEW left, TurnEnds(g, left)
      PROVE  /\ barrier'[h] = barrier[h] /\ flush'[h] = flush[h]
             /\ stage'[h] = stage[h] /\ ready'[h] = ready[h]
  BY <1>t, <1>4 DEF TurnEnds
<1>5. ASSUME NEW g \in Gateways, g # h, Receive(g) \/ ReceiveFlush(g) \/ CheckFails(g)
      PROVE  Goal
  BY <1>t, <1>5 DEF Receive, ReceiveFlush, CheckFails
<1>6. ASSUME NEW g \in Gateways, g # h, Check(g)
      PROVE  Goal
  <2>1. pending'[h] = pending[h] /\ owed' = owed
    BY <1>t, <1>6 DEF Check
  <2>2. CASE Found(g) # {}
    BY <1>t, <1>6, <2>1, <2>2 DEF Check
  <2>3. CASE Found(g) = {}
    BY <1>4, <1>6, <2>1, <2>3 DEF Check
  <2> QED
    BY <2>2, <2>3
<1>7. ASSUME NEW g \in Gateways, g # h, Lock(g) \/ Insert(g)
      PROVE  Goal
  BY <1>t, <1>7 DEF Lock, Insert
<1>8. ASSUME NEW g \in Gateways, g # h, LockBusy(g) \/ Record(g) \/ RecordFails(g)
      PROVE  Goal
  <2>1. pending'[h] = pending[h] /\ owed' = owed
    BY <1>t, <1>8 DEF LockBusy, Record, RecordFails
  <2>2. PICK left : TurnEnds(g, left)
    BY <1>8 DEF LockBusy, Record, RecordFails
  <2> QED
    BY <1>4, <1>8, <2>1, <2>2
<1>9. ASSUME NEW g \in Gateways, g # h, Flush(g) \/ Crash(g)
      PROVE  Goal
  BY <1>t, <1>9 DEF Flush, Crash
<1>10. Goal
  BY <1>2, <1>3, <1>5, <1>6, <1>7, <1>8, <1>9 DEF Next, Turn, OwnStep
<1> QED
  BY <1>0, <1>10

LEMMA FlushingKept ==
  ASSUME TypeOK, Numbering, Writing, [Next]_vars, NEW h \in Gateways, FlushingAt(h)
  PROVE  FlushingAt(h)'
<1> USE DEF writing, worker, caller
<1>t. /\ barrier \in [Gateways -> BOOLEAN] /\ stage \in [Gateways -> Stages]
      /\ flush \in [Gateways -> {"none", "asked", "done"}]
      /\ owed \in [Gateways -> SUBSET Events] /\ ready \in [Gateways -> SUBSET Events]
      /\ pending \in [Gateways -> SUBSET Events] /\ batch \in [Gateways -> Batches]
      /\ channel \in [Gateways -> Seq(Events \cup {FlushCommand})]
  BY TypesTogether DEF QueueTypes, WorkerTypes, CallTypes
<1>e. \A e \in owed[h] : e \in Events /\ Committed(e)'
  BY OwedStays
<1>1. CASE ~OwnStep(h)
  BY <1>1, NotOwn, FlushUntouched
<1>2. CASE Receive(h)
  <2>1. channel'[h] = <<>> /\ stage'[h] = "received" /\ flush' = flush /\ owed' = owed
    BY <1>t, <1>2 DEF Receive
  <2>2. DOMAIN channel'[h] = {}
    BY <2>1
  <2>3. ~Commanded(h)' /\ Sent(h)' = {}
    BY <2>2 DEF Commanded, Sent
  <2>4. barrier'[h] => flush'[h] = "asked"
    <3>1. barrier' = [barrier EXCEPT ![h] = @ \/ Commanded(h)]
      BY <1>2 DEF Receive, Commanded
    <3>2. barrier'[h] => (barrier[h] \/ Commanded(h))
      BY <1>t, <3>1, Zenon
    <3> QED
      BY <2>1, <3>2 DEF FlushingAt
  <2>5. flush'[h] = "done" => owed'[h] \cap Queued(h)' = {}
    BY <2>1, OwedStays DEF FlushingAt
  <2> QED
    BY <1>e, <2>1, <2>3, <2>4, <2>5 DEF FlushingAt
<1>3. CASE ReceiveFlush(h)
  <2>1. channel'[h] = <<>> /\ ~barrier'[h] /\ owed' = owed /\ Queued(h) = {}
    BY <1>t, <1>3 DEF ReceiveFlush
  <2>2. DOMAIN channel'[h] = {}
    BY <2>1
  <2>3. ~Commanded(h)'
    BY <2>2 DEF Commanded
  <2>4. owed'[h] \cap Queued(h)' = {}
    BY <2>1, OwedStays
  <2> QED
    BY <1>e, <2>1, <2>3, <2>4 DEF FlushingAt
<1>4. CASE Check(h)
  <2>1. /\ pending' = [pending EXCEPT ![h] = {e \in @ : status[e.tx] \in {"committed", "in progress"}}]
        /\ owed' = owed /\ UNCHANGED channel
    BY <1>4 DEF Check
  <2>2. pending'[h] \subseteq pending[h] /\ Sent(h)' = Sent(h)
    BY <1>t, <2>1, SentKept
  <2>3. owed[h] \cap pending'[h] \subseteq Found(h)
    BY <2>2 DEF Found, FlushingAt
  <2>4. ~Flush(h)
    <3>1. stage[h] = "received" /\ stage'[h] \in {"checked", "idle"}
      BY <1>t, <1>4 DEF Check, TurnEnds
    <3> QED
      BY <3>1 DEF Flush
  <2>5. CASE Found(h) # {}
    <3>1. /\ ready'[h] = Found(h) /\ barrier' = barrier /\ flush' = flush
      BY <1>t, <1>4, <2>5 DEF Check
    <3>2. flush'[h] = "done" => owed'[h] \cap Queued(h)' = {}
      BY <2>1, <3>1, OwedStays DEF FlushingAt
    <3>3. barrier'[h] => owed'[h] \cap Sent(h)' = {}
      BY <2>1, <2>2, <3>1 DEF FlushingAt
    <3>4. /\ Commanded(h)' => flush'[h] = "asked"
          /\ barrier'[h] => flush'[h] = "asked" /\ ~Commanded(h)'
      BY <2>4, <3>1, CommandKept DEF FlushingAt
    <3> QED
      BY <1>e, <2>1, <2>3, <3>1, <3>2, <3>3, <3>4 DEF FlushingAt
  <2>6. CASE Found(h) = {}
    <3>1. TurnEnds(h, {})
      BY <1>4, <2>6 DEF Check
    <3>2. barrier[h] => owed[h] \cap Queued(h)' = {}
      BY <2>2, <2>3, <2>6 DEF FlushingAt, Queued
    <3> QED
      BY <2>1, <2>4, <3>1, <3>2, TurnEndsFlush
  <2> QED
    BY <2>5, <2>6
<1>5. CASE CheckFails(h) \/ Lock(h) \/ Insert(h)
  <2>0. ~Flush(h)
    <3>1. stage'[h] # stage[h]
      BY <1>t, <1>5 DEF CheckFails, Lock, Insert
    <3> QED
      BY <3>1 DEF Flush
  <2>1. UNCHANGED <<barrier, flush, owed, ready, pending, channel>> /\ ~Flush(h)
    BY <1>5, <2>0 DEF CheckFails, Lock, Insert
  <2>2. \/ stage'[h] = "idle"
        \/ stage[h] \in {"checked", "locked"} /\ stage'[h] \in {"locked", "inserted"}
    BY <1>t, <1>5 DEF CheckFails, Lock, Insert
  <2>3. barrier'[h] /\ stage'[h] \in {"checked", "locked", "inserted"}
          => owed'[h] \cap pending'[h] \subseteq ready'[h]
    BY <2>1, <2>2 DEF FlushingAt
  <2>4. /\ Commanded(h)' => flush'[h] = "asked"
        /\ barrier'[h] => flush'[h] = "asked" /\ ~Commanded(h)'
    BY <2>1, CommandKept DEF FlushingAt
  <2>5. /\ barrier'[h] => owed'[h] \cap Sent(h)' = {}
        /\ flush'[h] = "done" => owed'[h] \cap Queued(h)' = {}
    BY <2>1, OwedStays DEF FlushingAt
  <2> QED
    BY <1>e, <2>1, <2>3, <2>4, <2>5 DEF FlushingAt
<1>6. CASE LockBusy(h) \/ RecordFails(h)
  <2>0. TurnEnds(h, ready[h]) /\ UNCHANGED <<owed, pending, channel>>
        /\ stage[h] \in {"checked", "locked", "inserted"}
    BY <1>6 DEF LockBusy, RecordFails
  <2>1. TurnEnds(h, ready[h]) /\ UNCHANGED <<owed, pending, channel>>
        /\ stage[h] \in {"checked", "locked", "inserted"} /\ ~Flush(h)
    <3>1. stage'[h] # stage[h]
      BY <1>t, <2>0 DEF TurnEnds
    <3> QED
      BY <2>0, <3>1 DEF Flush
  <2>2. barrier[h] /\ ready[h] = {} => owed[h] \cap Queued(h)' = {}
    <3>1. Queued(h)' = Queued(h)
      BY <2>1, SentKept DEF Queued
    <3> QED
      BY <2>1, <3>1 DEF FlushingAt, Queued
  <2> QED
    BY <2>1, <2>2, TurnEndsFlush
<1>7. CASE Record(h)
  <2> DEFINE handled == {x.sequence : x \in batch[h].handled}
             left == {e \in ready[h] : e.sequence \notin handled}
  <2>1. /\ TurnEnds(h, left) /\ UNCHANGED <<owed, channel>>
        /\ pending' = [pending EXCEPT ![h] = {e \in @ : e.sequence \notin handled}]
        /\ stage[h] = "inserted" /\ ~Flush(h)
    <3>1. stage[h] = "inserted" /\ stage'[h] = "idle"
      BY <1>t, <1>7 DEF Record, TurnEnds
    <3>2. ~Flush(h)
      BY <3>1 DEF Flush
    <3> QED
      BY <1>7, <3>1, <3>2 DEF Record
  <2>2. pending'[h] = {e \in pending[h] : e.sequence \notin handled} /\ Sent(h)' = Sent(h)
    BY <1>t, <2>1, SentKept
  <2>3. barrier[h] /\ left = {} => owed[h] \cap Queued(h)' = {}
    BY <2>1, <2>2 DEF FlushingAt, Queued
  <2> HIDE DEF left
  <2> QED
    BY <2>1, <2>3, TurnEndsFlush
<1>8. CASE Flush(h)
  <2>1. /\ flush[h] = "none" /\ flush'[h] = "asked" /\ barrier' = barrier
        /\ owed'[h] = {e \in Queued(h) : Committed(e)} /\ status' = status
    BY <1>t, <1>8 DEF Flush
  <2>2. ~barrier'[h]
    BY <2>1 DEF FlushingAt
  <2>3. \A e \in owed'[h] : e \in Events /\ Committed(e)'
    BY <2>1, QueuedTyped, TypesTogether DEF Committed
  <2> QED
    BY <2>1, <2>2, <2>3 DEF FlushingAt
<1>9. CASE Crash(h)
  <2>1. channel'[h] = <<>> /\ ~barrier'[h] /\ owed'[h] = {} /\ flush'[h] = "none"
    BY <1>t, <1>9 DEF Crash
  <2>2. DOMAIN channel'[h] = {}
    BY <2>1
  <2> QED
    BY <2>1, <2>2 DEF FlushingAt, Commanded
<1> QED
  BY <1>1, <1>2, <1>3, <1>4, <1>5, <1>6, <1>7, <1>8, <1>9 DEF OwnStep, Turn

-----------------------------------------------------------------------------
(* Nothing is missing before the first event that is gone *)

\* Something that is gone comes before e, or e is gone itself.
GoneUpTo(e) == \E d \in Gone : d.sequence <= e.sequence

Accounted(e) ==
  \/ e \in history \/ e \in Queued(e.at) \/ e \in lost
  \/ Committed(e) /\ GoneUpTo(e)

\* Below the history, below what is about to be written and below what has waited, an event is
\* in the history or has one that is gone before it.
Lossless ==
  /\ \A e \in appended : Accounted(e)
  /\ \A e \in appended, h \in history :
       e.sequence <= h.sequence => e \in history \/ GoneUpTo(e)
  /\ \A f \in waited :
       /\ f \in appended /\ Committed(f)
       /\ \A e \in appended : e.sequence <= f.sequence => e \in history \/ GoneUpTo(e)
  /\ \A g \in Gateways : \A w \in batch[g].written, e \in appended :
       e.sequence <= w.sequence => e \in history \/ e \in batch[g].written \/ GoneUpTo(e)

LEMMA LostIsGone ==
  ASSUME TypeOK, NEW e \in appended, Committed(e), e \in lost \/ e.at \in Exposed
  PROVE  GoneUpTo(e)
<1>1. e \in Gone /\ e.sequence \in Nat
  BY RowTyped DEF Gone
<1>2. e.sequence <= e.sequence
  BY <1>1
<1> QED
  BY <1>1, <1>2 DEF GoneUpTo

LEMMA LosslessMisses == TypeOK /\ Lossless => MissingAfterGone
<1> SUFFICES ASSUME TypeOK, Lossless, NEW e \in appended, Committed(e)
             PROVE  e \in history \/ e \in Queued(e.at) \/ GoneUpTo(e)
  BY DEF MissingAfterGone, GoneUpTo
<1> QED
  BY LostIsGone DEF Lossless, Accounted

LEMMA InitLossless == Init => Lossless
<1> SUFFICES ASSUME Init PROVE Lossless
  OBVIOUS
<1>1. appended = {} /\ history = {} /\ waited = {}
  BY DEF Init
<1>2. \A g \in Gateways : batch[g].written = {}
  BY DEF Init, EmptyBatch
<1> QED
  BY <1>1, <1>2 DEF Lossless

LEMMA LostGrows ==
  ASSUME [Next]_vars
  PROVE  lost \subseteq lost' /\ history \subseteq history'
<1> USE DEF writing, worker, caller
<1>1. CASE UNCHANGED vars \/ Commit \/ Rollback
  BY <1>1 DEF vars, Commit, Rollback
<1>2. ASSUME NEW g \in Gateways, Turn(g)
      PROVE  lost \subseteq lost' /\ history \subseteq history'
  BY <1>2
  DEF Turn, Receive, ReceiveFlush, Check, CheckFails, Lock, LockBusy, Insert, Record, RecordFails
<1>3. ASSUME NEW g \in Gateways, Event(g) \/ Wait(g) \/ Flush(g) \/ Crash(g)
      PROVE  lost \subseteq lost' /\ history \subseteq history'
  BY <1>3 DEF Event, Enqueue, Wait, Flush, Crash
<1> QED
  BY <1>1, <1>2, <1>3 DEF Next

LEMMA WaitedSteps ==
  ASSUME [Next]_vars
  PROVE  waited' \subseteq waited \/ \E g \in Gateways : Wait(g)
<1> USE DEF writing, worker, caller
<1>1. CASE UNCHANGED vars \/ Commit \/ Rollback
  BY <1>1 DEF vars, Commit, Rollback
<1>2. ASSUME NEW g \in Gateways, Turn(g)
      PROVE  waited' \subseteq waited
  BY <1>2
  DEF Turn, Receive, ReceiveFlush, Check, CheckFails, Lock, LockBusy, Insert, Record, RecordFails,
      Forgets
<1>3. ASSUME NEW g \in Gateways, Event(g) \/ Flush(g) \/ Crash(g)
      PROVE  waited' \subseteq waited
  BY <1>3 DEF Event, Flush, Crash, Forgets
<1> QED
  BY <1>1, <1>2, <1>3 DEF Next

LEMMA BatchSteps ==
  ASSUME TypeOK, [Next]_vars, NEW h \in Gateways
  PROVE  batch'[h] = batch[h] \/ batch'[h] = EmptyBatch \/ Insert(h)
<1> USE DEF writing, worker, caller
<1>t. batch \in [Gateways -> Batches]
  BY TypesTogether DEF WorkerTypes
<1>1. CASE UNCHANGED vars \/ Commit \/ Rollback
  BY <1>1 DEF vars, Commit, Rollback
<1>2. ASSUME NEW g \in Gateways, batch' = [batch EXCEPT ![g] = EmptyBatch]
      PROVE  batch'[h] = batch[h] \/ batch'[h] = EmptyBatch
  BY <1>t, <1>2
<1>3. ASSUME NEW g \in Gateways,
             Event(g) \/ Wait(g) \/ Flush(g) \/ Receive(g) \/ ReceiveFlush(g) \/ CheckFails(g)
             \/ Lock(g)
      PROVE  batch'[h] = batch[h]
  BY <1>3 DEF Event, Wait, Flush, Receive, ReceiveFlush, CheckFails, Lock
<1>4. ASSUME NEW g \in Gateways, Check(g) \/ LockBusy(g) \/ Record(g) \/ RecordFails(g) \/ Crash(g)
      PROVE  batch' = batch \/ batch' = [batch EXCEPT ![g] = EmptyBatch]
  BY <1>4 DEF Check, LockBusy, Record, RecordFails, Crash, TurnEnds
<1>5. ASSUME NEW g \in Gateways, Insert(g), g # h
      PROVE  batch'[h] = batch[h]
  BY <1>t, <1>5 DEF Insert
<1> QED
  BY <1>1, <1>2, <1>3, <1>4, <1>5 DEF Next, Turn

\* A new event comes after all that were numbered before.
LEMMA NewIsLast ==
  ASSUME TypeOK, Numbering, [Next]_vars, NEW e \in appended', e \notin appended
  PROVE  /\ \A d \in appended : d.sequence < e.sequence
         /\ e \in Queued(e.at)' \/ e \in lost'
<1>1. CASE UNCHANGED writing \/ Commit \/ RollsBack
  BY <1>1 DEF writing, Commit, RollsBack
<1>2. CASE \E g \in Gateways : Event(g)
  <2>1. PICK g \in Gateways : Event(g)
    BY <1>2
  <2>2. PICK t \in Transactions, d \in Events :
          /\ d.tx = t /\ d.sequence = sequence + 1 /\ d.at = g
          /\ \/ writer = NoWriter /\ status[t] = "none"
             \/ writer # NoWriter /\ writer.tx = t
          /\ writer' # NoWriter /\ writer'.tx = t
          /\ status' = [status EXCEPT ![t] = "in progress"]
          /\ sequence' = sequence + 1 /\ recorded' = recorded
          /\ appended' = appended \cup {d}
          /\ \/ channel' = [channel EXCEPT ![g] = Append(@, d)] /\ UNCHANGED lost
             \/ lost' = lost \cup {d} /\ UNCHANGED channel
    BY <2>1, EventEffect, Zenon
  <2>3. e = d
    BY <2>2
  <2>4. e.sequence = sequence + 1 /\ sequence \in Nat /\ e.at = g
    BY <2>2, <2>3, RowTyped
  <2>5. \A c \in appended : c.sequence <= sequence /\ c.sequence \in Nat
    BY RowTyped DEF Numbering
  <2>6. \A c \in appended : c.sequence < e.sequence
    BY <2>4, <2>5
  <2>7. CASE channel' = [channel EXCEPT ![g] = Append(@, d)]
    <3>1. Sent(g)' = IF g = g THEN Sent(g) \cup ({d} \ {FlushCommand}) ELSE Sent(g)
      BY <2>7, SentAppended
    <3>2. d # FlushCommand
      BY EventsTyped
    <3> QED
      BY <2>3, <2>4, <2>6, <3>1, <3>2 DEF Queued
  <2> QED
    BY <2>2, <2>3, <2>6, <2>7
<1> QED
  BY <1>1, <1>2, RowSteps

LEMMA GoneStays ==
  ASSUME TypeOK, Numbering, [Next]_vars, NEW e, GoneUpTo(e)
  PROVE  GoneUpTo(e)'
<1>1. PICK d \in Gone : d.sequence <= e.sequence
  BY DEF GoneUpTo
<1>2. d \in appended /\ Committed(d) /\ (d \in lost \/ d.at \in Exposed)
  BY DEF Gone
<1>3. d \in appended' /\ Committed(d)'
  BY <1>2, CommittedStays
<1>4. d \in Gone'
  BY <1>2, <1>3, LostGrows DEF Gone
<1> QED
  BY <1>1, <1>4 DEF GoneUpTo

\* GAP_WAIT is over: what came before has been written, or something is gone.
LEMMA WaitAccounts ==
  ASSUME TypeOK, Numbering, QueuesHoldEvents, Lossless, ~SlowCommits,
         NEW g \in Gateways, NEW f \in Queued(g), Committed(f),
         \A h \in Gateways : \A d \in Queued(h) : d.sequence <= f.sequence => ~Due(d)
  PROVE  /\ f \in appended
         /\ \A e \in appended : e.sequence <= f.sequence => e \in history \/ GoneUpTo(e)
<1>1. f \in appended
  BY DEF QueuesHoldEvents, Committed
<1>2. ASSUME NEW e \in appended, e.sequence <= f.sequence, e \notin history
      PROVE  GoneUpTo(e)
  <2>1. /\ e.sequence \in Nat /\ f.sequence \in Nat /\ sequence \in Nat /\ recorded \in Nat
        /\ f.sequence <= recorded /\ recorded <= sequence /\ e.at \in Gateways
    BY <1>1, RowTyped, EventsTyped DEF Numbering
  <2>2. e.sequence <= recorded
    BY <1>2, <2>1
  <2>3. Committed(e)
    BY <2>2 DEF Numbering
  <2>4. CASE e \in lost \/ GoneUpTo(e)
    BY <2>3, <2>4, LostIsGone
  <2>5. CASE e \in Queued(e.at)
    <3>1. ~Due(e)
      BY <1>2, <2>1, <2>5
    <3>2. PICK n \in Watermark + 1 .. e.sequence :
            \A h \in Gateways \ Exposed : \A d \in Queued(h) : ~(d.sequence = n /\ Committed(d))
      BY <3>1 DEF Due
    <3>3. history \subseteq Events
      BY DEF TypeOK
    <3>4. Watermark \in Nat /\ \A h \in history : h.sequence <= Watermark /\ h.sequence \in Nat
      BY <3>3, WatermarkIsLast, EventsTyped
    <3>5. n \in Nat /\ n > Watermark /\ n <= e.sequence /\ n \in 1 .. sequence /\ n <= recorded
      BY <2>1, <2>2, <3>2, <3>4
    <3>6. PICK c \in appended : c.sequence = n
      BY <3>5 DEF Numbering
    <3>7. Committed(c) /\ c \in Events /\ c.at \in Gateways
      BY <3>5, <3>6, RowTyped, EventsTyped DEF Numbering
    <3>8. c \notin history
      BY <3>4, <3>5, <3>6
    <3>9. c \in Queued(c.at) => c.at \in Exposed
      BY <3>2, <3>6, <3>7
    <3>10. GoneUpTo(c)
      BY <3>7, <3>8, <3>9, LostIsGone DEF Lossless, Accounted
    <3>11. PICK d \in Gone : d.sequence <= c.sequence
      BY <3>10 DEF GoneUpTo
    <3>12. d.sequence \in Nat
      BY RowTyped DEF Gone
    <3>13. d.sequence <= e.sequence
      BY <2>1, <3>5, <3>6, <3>11, <3>12
    <3> QED
      BY <3>11, <3>13 DEF GoneUpTo
  <2> QED
    BY <1>2, <2>4, <2>5 DEF Lossless, Accounted
<1> QED
  BY <1>1, <1>2

\* What audit_flush writes has nothing missing below it.
LEMMA InsertAccounts ==
  ASSUME TypeOK, Numbering, Writing, Lossless, NEW g \in Gateways, Insert(g),
         NEW w \in batch'[g].written, NEW e \in appended, e.sequence <= w.sequence
  PROVE  e \in history \/ e \in batch'[g].written \/ GoneUpTo(e)
<1> DEFINE above == {d \in ready[g] : d.sequence > Watermark}
           written == {d \in above : Follows(d, above) \/ SkipsGap(above)}
<1>1. batch'[g].written = written
  BY TypesTogether DEF Insert, WorkerTypes
<1>2. above \subseteq appended
  BY DEF Writing, WritingAt
<1>3. history \subseteq Events
  BY DEF TypeOK
<1>4. Watermark \in Nat /\ (Watermark = 0 \/ \E h \in history : h.sequence = Watermark)
      /\ \A h \in history : h.sequence <= Watermark
  BY <1>3, WatermarkIsLast
<1>5. w \in above /\ w.sequence \in Nat /\ e.sequence \in Nat /\ e.sequence # 0
  <2>1. w \in above
    BY <1>1
  <2>2. e \in Events /\ w \in Events
    BY <1>2, <2>1, RowTyped
  <2>3. e.sequence \in 1 .. MaxSequence /\ MaxSequence \in Nat
    BY <2>2, EventsTyped, LimitsAssumption DEF Numbers
  <2> QED
    BY <2>1, <2>2, <2>3, EventsTyped
<1>6. CASE e.sequence <= Watermark
  <2>1. PICK h \in history : h.sequence = Watermark
    BY <1>4, <1>5, <1>6
  <2> QED
    BY <1>6, <2>1 DEF Lossless
<1>7. CASE e.sequence > Watermark /\ Follows(w, above)
  <2> HIDE DEF above
  <2>1. \A n \in Watermark + 1 .. w.sequence : \E d \in above : d.sequence = n
    BY <1>7 DEF Follows
  <2>2. e.sequence \in Watermark + 1 .. w.sequence
    BY <1>4, <1>5, <1>7
  <2>3. e \in above
    <3>1. PICK d \in above : d.sequence = e.sequence
      BY <2>1, <2>2
    <3>2. d \in appended
      BY <1>2
    <3>3. d = e
      BY <3>1, <3>2 DEF Numbering
    <3> QED
      BY <3>3
  <2>4. Follows(e, above)
    <3>1. Watermark + 1 .. e.sequence \subseteq Watermark + 1 .. w.sequence
      BY <1>4, <1>5
    <3> QED
      BY <2>1, <3>1 DEF Follows
  <2> QED
    BY <1>1, <2>3, <2>4
<1>8. CASE SkipsGap(above)
  <2>1. PICK f \in above \cap waited : \A d \in above : f.sequence <= d.sequence
    BY <1>8 DEF SkipsGap
  <2>2. f.sequence > Watermark /\ f.sequence \in Nat /\ f \in appended
    BY <1>2, <2>1, RowTyped
  <2>3. CASE e.sequence <= f.sequence
    BY <2>1, <2>3 DEF Lossless
  <2>4. CASE ~(e.sequence <= f.sequence)
    <3>1. f \notin history
      BY <1>4, <2>2
    <3>2. f.sequence <= f.sequence
      BY <2>2
    <3>3. GoneUpTo(f)
      BY <2>1, <2>2, <3>1, <3>2 DEF Lossless
    <3>4. PICK d \in Gone : d.sequence <= f.sequence
      BY <3>3 DEF GoneUpTo
    <3>5. d.sequence \in Nat
      BY RowTyped DEF Gone
    <3>6. d.sequence <= e.sequence
      BY <1>5, <2>2, <2>4, <3>4, <3>5
    <3> QED
      BY <3>4, <3>6 DEF GoneUpTo
  <2> QED
    BY <2>3, <2>4
<1> QED
  <2>1. Follows(w, above) \/ SkipsGap(above)
    BY <1>1
  <2>2. e.sequence <= Watermark \/ e.sequence > Watermark
    BY <1>4, <1>5
  <2> HIDE DEF above
  <2> QED
    BY <2>1, <2>2, <1>6, <1>7, <1>8

LEMMA AccountedStays ==
  ASSUME TypeOK, Numbering, Writing, Lossless, [Next]_vars,
         NEW e \in appended, e \in appended'
  PROVE  Accounted(e)'
<1>1. Accounted(e)
  BY DEF Lossless
<1>2. CASE e \in history \/ e \in lost
  BY <1>2, LostGrows DEF Accounted
<1>3. CASE Committed(e) /\ GoneUpTo(e)
  <2>1. Committed(e)' /\ GoneUpTo(e)'
    BY <1>3, CommittedStays, GoneStays
  <2> QED
    BY <2>1 DEF Accounted
<1>4. CASE e \in Queued(e.at)
  <2>1. e.at \in Gateways
    BY RowTyped, EventsTyped
  <2>2. e \in Queued(e.at)' \/ Leaves(e.at, e)
    BY <1>4, <2>1, QueueSteps DEF QueueStep
  <2>3. CASE status[e.tx] \notin {"committed", "in progress"} /\ UNCHANGED writing
    BY <2>3 DEF Numbering
  <2>4. CASE Record(e.at) /\ \E x \in batch[e.at].handled : x.sequence = e.sequence
    <3>1. PICK x \in batch[e.at].handled : x.sequence = e.sequence
      BY <2>4
    <3>2. \/ x \in batch[e.at].written /\ x \in ready[e.at]
          \/ x \in ready[e.at] /\ \E h \in history : x.sequence <= h.sequence
      BY <2>1 DEF Writing, WritingAt
    <3>3. x \in appended /\ Committed(x)
      BY <2>1, <3>2 DEF Writing, WritingAt
    <3>4. x = e
      BY <3>1, <3>3 DEF Numbering
    <3>5. CASE e \in batch[e.at].written
      <4>1. history' = history \cup batch[e.at].written
        BY <2>4 DEF Record
      <4> QED
        BY <3>5, <4>1 DEF Accounted
    <3>6. CASE \E h \in history : e.sequence <= h.sequence
      <4>1. e \in history \/ GoneUpTo(e)
        BY <3>6 DEF Lossless
      <4> QED
        BY <1>2, <1>3, <3>3, <3>4, <4>1
    <3> QED
      BY <3>2, <3>4, <3>5, <3>6
  <2> QED
    BY <2>2, <2>3, <2>4, LostGrows DEF Leaves, Accounted
<1> QED
  BY <1>1, <1>2, <1>3, <1>4 DEF Accounted

LEMMA LosslessKept ==
  ASSUME ~SlowCommits, TypeOK, Numbering, QueuesHoldEvents, Writing, Lossless, [Next]_vars
  PROVE  Lossless'
\* what was below something old is old
<1>old. ASSUME NEW e \in appended', NEW d \in appended, e.sequence <= d.sequence
        PROVE  e \in appended
  <2> SUFFICES ASSUME e \notin appended PROVE FALSE
    OBVIOUS
  <2>1. d.sequence < e.sequence
    BY NewIsLast
  <2>2. d.sequence \in Nat /\ e.sequence \in Nat
    <3>1. appended' \subseteq Events
      BY TypesKept DEF TypeOK
    <3> QED
      BY <3>1, RowTyped, EventsTyped
  <2> QED
    BY <1>old, <2>1, <2>2
<1>1. \A e \in appended' : Accounted(e)'
  <2> SUFFICES ASSUME NEW e \in appended' PROVE Accounted(e)'
    OBVIOUS
  <2>1. CASE e \in appended
    BY <2>1, AccountedStays
  <2>2. CASE e \notin appended
    BY <2>2, NewIsLast DEF Accounted
  <2> QED
    BY <2>1, <2>2
<1>2. ASSUME NEW e \in appended', NEW h \in history', e.sequence <= h.sequence
      PROVE  (e \in history \/ GoneUpTo(e))'
  <2>1. h \in history \/ \E g \in Gateways : h \in batch[g].written /\ history' = history \cup batch[g].written
    BY HistorySteps
  <2>2. CASE h \in history
    <3>1. h \in appended
      BY <2>2 DEF Writing
    <3>2. e \in appended
      BY <1>2, <1>old, <3>1
    <3>3. e \in history \/ GoneUpTo(e)
      BY <1>2, <2>2, <3>2 DEF Lossless
    <3> QED
      BY <3>3, GoneStays, LostGrows
  <2>3. CASE \E g \in Gateways : h \in batch[g].written /\ history' = history \cup batch[g].written
    <3>1. PICK g \in Gateways : h \in batch[g].written /\ history' = history \cup batch[g].written
      BY <2>3
    <3>2. h \in appended
      BY <3>1 DEF Writing, WritingAt
    <3>3. e \in appended
      BY <1>2, <1>old, <3>2
    <3>4. e \in history \/ e \in batch[g].written \/ GoneUpTo(e)
      BY <1>2, <3>1, <3>3 DEF Lossless
    <3> QED
      BY <3>1, <3>4, GoneStays
  <2> QED
    BY <2>1, <2>2, <2>3
<1>3. ASSUME NEW f \in waited'
      PROVE  /\ f \in appended' /\ Committed(f)'
             /\ \A e \in appended' : e.sequence <= f.sequence => (e \in history \/ GoneUpTo(e))'
  <2>1. /\ f \in appended /\ Committed(f)
        /\ \A e \in appended : e.sequence <= f.sequence => e \in history \/ GoneUpTo(e)
    <3>1. CASE f \in waited
      BY <3>1 DEF Lossless
    <3>2. CASE f \notin waited
      <4>1. PICK g \in Gateways : Wait(g)
        BY <1>3, <3>2, WaitedSteps
      <4>2. /\ f \in Queued(g) /\ Committed(f)
            /\ \A h \in Gateways : \A d \in Queued(h) : d.sequence <= f.sequence => ~Due(d)
        BY <1>3, <3>2, <4>1 DEF Wait
      <4> QED
        BY <4>2, WaitAccounts
    <3> QED
      BY <3>1, <3>2
  <2>2. f \in appended' /\ Committed(f)'
    BY <2>1, CommittedStays
  <2>3. ASSUME NEW e \in appended', e.sequence <= f.sequence
        PROVE  (e \in history \/ GoneUpTo(e))'
    <3>1. e \in appended
      BY <1>old, <2>1, <2>3
    <3>2. e \in history \/ GoneUpTo(e)
      BY <2>1, <2>3, <3>1
    <3> QED
      BY <3>2, GoneStays, LostGrows
  <2> QED
    BY <2>2, <2>3
<1>4. ASSUME NEW g \in Gateways, NEW w \in batch'[g].written, NEW e \in appended',
             e.sequence <= w.sequence
      PROVE  (e \in history \/ e \in batch[g].written \/ GoneUpTo(e))'
  <2>1. batch'[g] # EmptyBatch
    BY <1>4 DEF EmptyBatch
  <2>2. CASE batch'[g] = batch[g]
    <3>1. w \in batch[g].written /\ w \in appended
      BY <2>2 DEF Writing, WritingAt
    <3>2. e \in appended
      BY <1>4, <1>old, <3>1
    <3>3. e \in history \/ e \in batch[g].written \/ GoneUpTo(e)
      BY <1>4, <3>1, <3>2 DEF Lossless
    <3> QED
      BY <2>2, <3>3, GoneStays, LostGrows
  <2>3. CASE Insert(g)
    <3>1. w \in appended
      <4>1. batch'[g].written \subseteq ready[g]
        BY <2>3, TypesTogether DEF Insert, WorkerTypes
      <4> QED
        BY <4>1 DEF Writing, WritingAt
    <3>2. e \in appended
      BY <1>4, <1>old, <3>1
    <3>3. e \in history \/ e \in batch'[g].written \/ GoneUpTo(e)
      BY <1>4, <2>3, <3>2, InsertAccounts
    <3> QED
      BY <3>3, GoneStays, LostGrows
  <2> QED
    BY <2>1, <2>2, <2>3, BatchSteps
<1> QED
  BY <1>1, <1>2, <1>3, <1>4 DEF Lossless

-----------------------------------------------------------------------------
(* The theorems *)

Inv ==
  /\ TypeOK /\ Numbering /\ QueuesHoldEvents /\ Writing
  /\ \A g \in Gateways : FlushingAt(g)
  /\ ~SlowCommits => Lossless

LEMMA InitInv == Init => Inv
BY InitTypes, InitNumbering, InitQueues, InitWriting, InitFlushing, InitLossless DEF Inv

LEMMA InvKept == Inv /\ [Next]_vars => Inv'
<1> SUFFICES ASSUME Inv, [Next]_vars PROVE Inv'
  OBVIOUS
<1>1. TypeOK' /\ Numbering' /\ QueuesHoldEvents' /\ Writing'
  BY TypesKept, NumberingKept, QueuesHoldEventsKept, WritingKept DEF Inv
<1>2. \A g \in Gateways : FlushingAt(g)'
  BY FlushingKept DEF Inv
<1>3. ~SlowCommits => Lossless'
  BY LosslessKept DEF Inv
<1> QED
  BY <1>1, <1>2, <1>3 DEF Inv

LEMMA Invariance == Spec => []Inv
BY InitInv, InvKept, PTL DEF Spec

\* Every variable of the audit queue holds a value of its type.
THEOREM TypesAreCorrect == Spec => []TypeOK
<1>1. Inv => TypeOK
  BY DEF Inv
<1> QED
  BY <1>1, Invariance, PTL

\* Whatever the gateways do, crash or lose, an event enters the history above all in it.
THEOREM HistoryGrowsAtItsEnd == Spec => GrowsAtItsEnd
<1>1. Inv /\ [Next]_vars
        => [\A e \in history' \ history, d \in history : d.sequence < e.sequence]_vars
  BY AppendsAbove DEF Inv
<1> QED
  BY <1>1, Invariance, PTL DEF Spec, GrowsAtItsEnd

\* The history holds events of committed transactions only, one for a number.
THEOREM HistoryHappened == Spec => []OnlyWhatHappened
<1>1. Inv => OnlyWhatHappened
  BY OnlyWhatHappenedHolds DEF Inv
<1> QED
  BY <1>1, Invariance, PTL

\* What a flush waited for is not queued any more when it returns.
THEOREM FlushIsABarrier == Spec => []FlushDrains
<1>1. Inv => FlushDrains
  BY DEF Inv, FlushingAt, FlushDrains
<1> QED
  BY <1>1, Invariance, PTL

\* If transactions end within GAP_WAIT, a gap is skipped only after an event that is gone.
THEOREM NothingMissing == ~SlowCommits => (Spec => []MissingAfterGone)
<1> SUFFICES ASSUME ~SlowCommits PROVE Spec => []MissingAfterGone
  OBVIOUS
<1>1. Inv => MissingAfterGone
  BY LosslessMisses DEF Inv
<1> QED
  BY <1>1, Invariance, PTL

-----------------------------------------------------------------------------
(* The promise *)

\* What a flush was called for happened in that gateway.
OwedHappened ==
  \A g \in Gateways : \A e \in owed[g] : e \in appended /\ Committed(e) /\ e.at = g

HistoryInv == Inv /\ OwedHappened /\ MissingAfterGone

\* A call of flush is made, answered or forgotten, each in a step of its own.
LEMMA CallSteps ==
  ASSUME TypeOK, [Next]_vars
  PROVE  \/ UNCHANGED <<flush, owed>>
         \/ \E g \in Gateways :
              \/ Flush(g) \/ Crash(g)
              \/ flush[g] = "asked" /\ flush' = [flush EXCEPT ![g] = "done"] /\ UNCHANGED owed
<1> USE DEF writing, worker, caller
<1>t. flush \in [Gateways -> {"none", "asked", "done"}]
  BY DEF TypeOK
<1>1. CASE UNCHANGED vars \/ Commit \/ Rollback
  BY <1>1 DEF vars, Commit, Rollback
<1>2. ASSUME NEW g \in Gateways, Event(g) \/ Wait(g)
      PROVE  UNCHANGED <<flush, owed>>
  BY <1>2 DEF Event, Wait
<1>3. ASSUME NEW g \in Gateways, Turn(g)
      PROVE  /\ UNCHANGED owed
             /\ \/ UNCHANGED flush
                \/ flush[g] = "asked" /\ flush' = [flush EXCEPT ![g] = "done"]
  <2>1. UNCHANGED owed
    BY <1>3
    DEF Turn, Receive, ReceiveFlush, Check, CheckFails, Lock, LockBusy, Insert, Record, RecordFails,
        TurnEnds
  <2>2. \/ UNCHANGED flush
        \/ flush' = [flush EXCEPT ![g] = IF @ = "asked" THEN "done" ELSE @]
        \/ \E left : TurnEnds(g, left)
    BY <1>3
    DEF Turn, Receive, ReceiveFlush, Check, CheckFails, Lock, LockBusy, Insert, Record, RecordFails
  <2>3. CASE \E left : TurnEnds(g, left)
    BY <1>t, <2>1, <2>3 DEF TurnEnds
  <2>4. CASE flush' = [flush EXCEPT ![g] = IF @ = "asked" THEN "done" ELSE @]
    BY <1>t, <2>1, <2>4
  <2> QED
    BY <2>1, <2>2, <2>3, <2>4
<1> QED
  BY <1>1, <1>2, <1>3 DEF Next

LEMMA OwedHappenedKept == Inv /\ OwedHappened /\ [Next]_vars => OwedHappened'
<1> SUFFICES ASSUME Inv, OwedHappened, [Next]_vars,
                    NEW g \in Gateways, NEW e \in owed'[g]
             PROVE  e \in appended' /\ Committed(e)' /\ e.at = g
  BY DEF OwedHappened
<1>t. owed \in [Gateways -> SUBSET Events]
  BY DEF Inv, TypeOK
<1>1. e \in appended /\ Committed(e) /\ e.at = g
  <2>1. CASE e \in owed[g]
    BY <2>1 DEF OwedHappened
  <2>2. CASE e \notin owed[g]
    <3>1. PICK h \in Gateways : Flush(h) \/ Crash(h)
      BY <2>2, CallSteps DEF Inv
    <3>2. Flush(h) /\ h = g
      BY <1>t, <2>2, <3>1 DEF Flush, Crash
    <3>3. e \in Queued(g) /\ Committed(e)
      BY <1>t, <3>2 DEF Flush
    <3> QED
      BY <3>3 DEF Inv, QueuesHoldEvents, Committed
  <2> QED
    BY <2>1, <2>2
<1> QED
  BY <1>1, CommittedStays DEF Inv

\* What is new is not committed yet; what is lost at a step is new, or is in a gateway that crashes.
LEMMA LostSteps ==
  ASSUME TypeOK, Numbering, QueuesHoldEvents, [Next]_vars
  PROVE  /\ \A e \in appended' \ appended : ~Committed(e)'
         /\ \A e \in appended : e \in lost' \ lost => e.at \in Exposed
<1> USE DEF writing, worker, caller
<1>t. status \in [Transactions -> {"none", "in progress", "committed", "aborted"}]
  BY DEF TypeOK
<1>1. CASE UNCHANGED vars \/ Commit \/ Rollback
  BY <1>1 DEF vars, Commit, Rollback, RollsBack
<1>2. ASSUME NEW g \in Gateways, Turn(g) \/ Wait(g) \/ Flush(g)
      PROVE  UNCHANGED <<appended, lost>>
  BY <1>2
  DEF Turn, Receive, ReceiveFlush, Check, CheckFails, Lock, LockBusy, Insert, Record, RecordFails,
      Wait, Flush
<1>3. ASSUME NEW g \in Gateways, Event(g)
      PROVE  \E d : /\ appended' \subseteq appended \cup {d} /\ lost' \subseteq lost \cup {d}
                    /\ d \notin appended /\ ~Committed(d)'
  <2>1. PICK t \in Transactions, d \in Events :
          /\ d.tx = t /\ d.sequence = sequence + 1
          /\ status' = [status EXCEPT ![t] = "in progress"]
          /\ appended' = appended \cup {d}
          /\ lost' = lost \/ lost' = lost \cup {d}
    BY <1>3, EventEffect
  <2>2. d \notin appended
    <3>1. \A e \in appended : e.sequence <= sequence
      BY DEF Numbering
    <3>2. d.sequence = sequence + 1
      BY <2>1
    <3> QED
      BY <3>1, <3>2, RowTyped
  <2> QED
    BY <1>t, <2>1, <2>2 DEF Committed
<1>4. ASSUME NEW g \in Gateways, Crash(g)
      PROVE  /\ appended' \subseteq appended
             /\ \A e \in lost' \ lost : e.at \in Exposed
  BY <1>4 DEF Crash, RollsBack, QueuesHoldEvents
<1> QED
  BY <1>1, <1>2, <1>3, <1>4 DEF Next

\* Whether an event is gone is settled when its transaction commits.
LEMMA GoneSettled ==
  ASSUME Inv, [Next]_vars
  PROVE  /\ Gone \subseteq Gone'
         /\ \A e \in Gone' \ Gone : Commit /\ e \in appended /\ ~Committed(e)
<1>1. Gone \subseteq Gone'
  BY CommittedStays, LostGrows DEF Gone, Inv
<1>2. ASSUME NEW e \in Gone', e \notin Gone
      PROVE  Commit /\ e \in appended /\ ~Committed(e)
  <2>1. e \in appended' /\ Committed(e)' /\ (e \in lost' \/ e.at \in Exposed)
    BY DEF Gone
  <2>2. e \in appended /\ (e \in lost \/ e.at \in Exposed)
    BY <2>1, LostSteps DEF Inv
  <2>3. ~Committed(e)
    BY <1>2, <2>2 DEF Gone
  <2> QED
    BY <2>1, <2>2, <2>3, StatusStep DEF Inv
<1> QED
  BY <1>1, <1>2

\* The numbers that enter the history at a step
Entering == {e.sequence : e \in history' \ history}

\* The history's share of a step that is no commit.
LEMMA WritesKeepPromise ==
  ASSUME HistoryInv, HistoryInv', [Next]_vars, ~Commit, ~SlowCommits
  PROVE  Entering \in SUBSET (1 .. recorded) /\ Promise!Write(Entering)
<1> DEFINE Of(E) == {e.sequence : e \in E}
<1>1. history \subseteq history' /\ \A e \in history' : e \in appended' /\ Committed(e)'
  BY LostGrows DEF HistoryInv, Inv, Writing
<1>2. recorded' = recorded
  BY RowSteps DEF writing, Event, HistoryInv, Inv
<1>3. Of(Gone)' = Of(Gone)
  <2>1. Gone' = Gone
    BY GoneSettled DEF HistoryInv
  <2> QED
    BY <2>1
<1>r. sequence' \in Nat /\ recorded' \in Nat /\ recorded' <= sequence'
  <2>1. sequence' \in 0 .. MaxSequence /\ recorded' \in 0 .. MaxSequence /\ MaxSequence \in Nat
    BY LimitsAssumption DEF HistoryInv, Inv, TypeOK
  <2>2. recorded' <= sequence'
    BY DEF HistoryInv, Inv, Numbering
  <2> QED
    BY <2>1, <2>2
<1>4. \A e \in history' : e.sequence \in 1 .. recorded
  <2>1. \A e \in history' : e.sequence \in Numbers
    BY EventsTyped DEF HistoryInv, Inv, TypeOK
  <2>2. \A e \in history' : e.sequence <= recorded'
    BY <1>1 DEF HistoryInv, Inv, Numbering
  <2> QED
    BY <1>2, <1>r, <2>1, <2>2, LimitsAssumption DEF Numbers
<1>5. \A n \in Entering, m \in Of(history) : m < n
  BY AppendsAbove DEF HistoryInv, Inv, Entering
<1>6. Of(history)' = Of(history) \cup Entering
  BY <1>1 DEF Entering
<1>7. ASSUME NEW n \in Entering, NEW m \in 1 .. n
      PROVE  m \in Of(history)' \/ \E d \in Of(Gone) : d <= m
  <2>1. PICK h \in history' : h.sequence = n
    BY DEF Entering
  <2>2. m \in 1 .. sequence' /\ m <= h.sequence
    BY <1>2, <1>4, <1>r, <2>1
  <2>3. PICK e \in appended' : e.sequence = m
    BY <2>2 DEF HistoryInv, Inv, Numbering
  <2>4. e \in history' \/ GoneUpTo(e)'
    BY <2>2, <2>3 DEF HistoryInv, Inv, Lossless
  <2>5. CASE GoneUpTo(e)'
    <3>1. PICK d \in Gone' : d.sequence <= m
      BY <2>3, <2>5 DEF GoneUpTo
    <3>2. d.sequence \in Of(Gone)'
      BY <3>1
    <3> QED
      BY <1>3, <3>1, <3>2
  <2> QED
    BY <2>3, <2>4, <2>5
<1>8. Entering \in SUBSET (1 .. recorded)
  BY <1>4 DEF Entering
<1>9. Promise!Write(Entering)
  BY <1>2, <1>3, <1>5, <1>6, <1>7 DEF Promise!Write, Promise!Unpromised
<1> QED
  BY <1>8, <1>9

\* A commit makes its events happen.
LEMMA CommitHappens ==
  ASSUME HistoryInv, Commit, [Next]_vars
  PROVE  Promise!Next
<1> DEFINE risky == {e.sequence : e \in Gone' \ Gone}
<1>1. recorded' = sequence /\ UNCHANGED <<history, flush, owed>>
  BY DEF Commit, caller
<1>2. sequence \in recorded .. MaxSequence
  <2>1. recorded <= sequence
    BY DEF HistoryInv, Inv, Numbering
  <2>2. recorded \in 0 .. MaxSequence /\ sequence \in 0 .. MaxSequence /\ MaxSequence \in Nat
    BY LimitsAssumption DEF HistoryInv, Inv, TypeOK
  <2> QED
    BY <2>1, <2>2
<1>3. risky \in SUBSET (recorded + 1 .. sequence)
  <2> SUFFICES ASSUME NEW e \in Gone', e \notin Gone
               PROVE  e.sequence \in recorded + 1 .. sequence
    OBVIOUS
  <2>1. e \in appended /\ ~Committed(e)
    BY GoneSettled DEF HistoryInv
  <2>2. e.sequence <= sequence /\ ~(e.sequence <= recorded)
    BY <2>1 DEF HistoryInv, Inv, Numbering
  <2>3. e.sequence \in Nat /\ recorded \in Nat /\ sequence \in Nat
    BY <2>1, RowTyped DEF HistoryInv, Inv
  <2> QED
    BY <2>2, <2>3
<1>4. {e.sequence : e \in Gone}' = {e.sequence : e \in Gone} \cup risky
  BY GoneSettled DEF HistoryInv
<1>5. Promise!Happen(sequence, risky)
  <2> HIDE DEF risky
  <2> QED
    BY <1>1, <1>4 DEF Promise!Happen
<1> HIDE DEF risky
<1> QED
  BY <1>2, <1>3, <1>5 DEF Promise!Next, Promise!Happen

\* The caller's share: what is answered is in the history, unless something before it is gone.
LEMMA CallsKeepPromise ==
  ASSUME HistoryInv, HistoryInv', [Next]_vars, ~Commit
  PROVE  \/ \E g \in Gateways : Flush(g)
         \/ UNCHANGED <<flush, owed>>
         \/ \E g \in Gateways : Promise!Answer(g) \/ Promise!Forget(g)
<1> DEFINE Of(E) == {e.sequence : e \in E}
<1>t. flush \in [Gateways -> {"none", "asked", "done"}] /\ owed \in [Gateways -> SUBSET Events]
  BY DEF HistoryInv, Inv, TypeOK
<1>1. ASSUME NEW g \in Gateways, Crash(g)
      PROVE  Promise!Forget(g)
  <2>1. flush' = [flush EXCEPT ![g] = "none"] /\ owed' = [owed EXCEPT ![g] = {}]
    BY <1>1 DEF Crash
  <2>2. [h \in Gateways |-> Of(owed[h])]' = [[h \in Gateways |-> Of(owed[h])] EXCEPT ![g] = {}]
    BY <1>t, <2>1
  <2> QED
    BY <2>1, <2>2 DEF Promise!Forget
<1>2. ASSUME NEW g \in Gateways, flush[g] = "asked", flush' = [flush EXCEPT ![g] = "done"],
             UNCHANGED owed
      PROVE  Promise!Answer(g)
  <2>1. owed'[g] \cap Queued(g)' = {}
    <3>1. flush'[g] = "done"
      BY <1>t, <1>2
    <3> QED
      BY <3>1 DEF HistoryInv, Inv, FlushingAt
  <2>2. Of(Gone)' = Of(Gone)
    <3>1. Gone' = Gone
      BY GoneSettled DEF HistoryInv
    <3> QED
      BY <3>1
  <2>3. ASSUME NEW e \in owed[g]
        PROVE  e.sequence \in Of(history)' \/ \E d \in Of(Gone) : d <= e.sequence
    <3>1. e \in appended' /\ Committed(e)' /\ e.at = g /\ e \notin Queued(g)'
      BY <1>2, <2>1, <2>3 DEF HistoryInv, OwedHappened
    <3>2. e \in history' \/ \E d \in Gone' : d.sequence <= e.sequence
      BY <3>1 DEF HistoryInv, MissingAfterGone
    <3> QED
      BY <2>2, <3>2
  <2>4. [h \in Gateways |-> Of(owed[h])]' = [h \in Gateways |-> Of(owed[h])]
    BY <1>2
  <2>5. \A n \in [h \in Gateways |-> Of(owed[h])][g] :
          n \in Of(history)' \/ \E d \in Of(Gone)' : d <= n
    BY <2>2, <2>3
  <2> QED
    BY <1>2, <2>2, <2>4, <2>5 DEF Promise!Answer, Promise!Unpromised
<1> QED
  BY <1>1, <1>2, CallSteps DEF HistoryInv, Inv

LEMMA FlushAsks ==
  ASSUME HistoryInv, NEW g \in Gateways, Flush(g), [Next]_vars
  PROVE  Promise!Next
<1> DEFINE Of(E) == {e.sequence : e \in E}
           asked == {e \in Queued(g) : Committed(e)}
<1>t. owed \in [Gateways -> SUBSET Events]
  BY DEF HistoryInv, Inv, TypeOK
<1>1. /\ flush[g] = "none" /\ flush' = [flush EXCEPT ![g] = "asked"]
      /\ owed' = [owed EXCEPT ![g] = asked]
      /\ UNCHANGED <<recorded, status, appended, history, lost>>
  BY DEF Flush, writing
<1>2. Of(Gone)' = Of(Gone)
  BY <1>1 DEF Gone, Committed
<1>3. [h \in Gateways |-> Of(owed[h])]' = [[h \in Gateways |-> Of(owed[h])] EXCEPT ![g] = Of(asked)]
  BY <1>t, <1>1
<1>4. Of(asked) \in SUBSET (1 .. recorded)
  <2>1. \A e \in asked : e \in appended /\ Committed(e)
    BY DEF HistoryInv, Inv, QueuesHoldEvents, Committed
  <2>2. \A e \in asked : e.sequence <= recorded
    BY <2>1 DEF HistoryInv, Inv, Numbering
  <2>3. \A e \in asked : e.sequence \in Numbers
    BY <2>1, RowTyped, EventsTyped DEF HistoryInv, Inv
  <2>4. recorded \in Nat
    BY RowTyped DEF HistoryInv, Inv
  <2> QED
    BY <2>2, <2>3, <2>4, LimitsAssumption DEF Numbers
<1>5. Promise!Ask(g, Of(asked))
  <2> HIDE DEF asked
  <2> QED
    BY <1>1, <1>2, <1>3 DEF Promise!Ask
<1> HIDE DEF asked
<1> QED
  BY <1>4, <1>5 DEF Promise!Next, Promise!Ask

LEMMA StepKeepsPromise ==
  ASSUME HistoryInv, HistoryInv', [Next]_vars, ~SlowCommits
  PROVE  Promise!Next
<1>1. CASE Commit
  BY <1>1, CommitHappens
<1>2. CASE \E g \in Gateways : Flush(g)
  BY <1>2, FlushAsks
<1>3. CASE ~Commit /\ ~\E g \in Gateways : Flush(g)
  <2>1. Entering \in SUBSET (1 .. recorded) /\ Promise!Write(Entering)
    BY <1>3, WritesKeepPromise
  <2>2. \/ UNCHANGED <<flush, owed>>
        \/ \E g \in Gateways : Promise!Answer(g) \/ Promise!Forget(g)
    BY <1>3, CallsKeepPromise
  <2>3. CASE UNCHANGED <<flush, owed>>
    <3>1. [h \in Gateways |-> {e.sequence : e \in owed[h]}]'
            = [h \in Gateways |-> {e.sequence : e \in owed[h]}]
      BY <2>3
    <3> QED
      BY <2>1, <2>3, <3>1 DEF Promise!Next, Promise!Write
  <2>4. CASE \E g \in Gateways : Promise!Answer(g) \/ Promise!Forget(g)
    BY <2>1, <2>4 DEF Promise!Next, Promise!Write
  <2> QED
    BY <2>2, <2>3, <2>4
<1> QED
  BY <1>1, <1>2, <1>3

\* If transactions end within GAP_WAIT, the queue implements ActivityHistory: its history grows
\* at its end, and what it leaves out, or does not show when flush returns, comes after an event
\* that is gone.
THEOREM HistoryIsKept == ~SlowCommits => (Spec => KeepsHistory)
<1> SUFFICES ASSUME ~SlowCommits PROVE Spec => KeepsHistory
  OBVIOUS
<1>1. Init => OwedHappened /\ Promise!Init
  <2> SUFFICES ASSUME Init PROVE OwedHappened /\ Promise!Init
    OBVIOUS
  <2>1. /\ recorded = 0 /\ history = {} /\ appended = {}
        /\ flush = [g \in Gateways |-> "none"] /\ owed = [g \in Gateways |-> {}]
    BY DEF Init
  <2>2. Gone = {}
    BY <2>1 DEF Gone
  <2> QED
    BY <2>1, <2>2 DEF OwedHappened, Promise!Init
<1>2. Inv => MissingAfterGone
  BY LosslessMisses DEF Inv
<1>3. HistoryInv /\ HistoryInv' /\ [Next]_vars => [Promise!Next]_(Promise!vars)
  BY StepKeepsPromise
<1> QED
  BY <1>1, <1>2, <1>3, OwedHappenedKept, Invariance, PTL
  DEF HistoryInv, Spec, KeepsHistory, Promise!Spec
==============================================================================
