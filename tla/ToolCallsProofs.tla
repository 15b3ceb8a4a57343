-------------------------- MODULE ToolCallsProofs --------------------------
(* Theorems about ToolCalls, for every value of its constants. *)
EXTENDS ToolCalls, FiniteSetTheorems, TLAPS

LEMMA CallInCalls ==
  ASSUME NEW t \in Tasks
  PROVE  Call(t) \in Calls
BY DEF Tasks, Call

-----------------------------------------------------------------------------
(* Types *)

LEMMA InitTypes == Init => TypeOK
<1> SUFFICES ASSUME Init PROVE TypeOK
  OBVIOUS
<1> USE BoundsAssumption DEF Init
<1>1. AuditTypes
  BY DEF AuditTypes, Statuses
<1>2. TaskTypes
  BY DEF TaskTypes, TaskStates, NewTask
<1>3. QueueTypes
  BY DEF QueueTypes, Outcomes
<1>4. StreamTypes
  BY DEF StreamTypes, StreamStates, NoStream
<1>5. HostTypes
  BY DEF HostTypes
<1>6. RegistryTypes
  <2>1. exists \in BOOLEAN /\ fresh \in BOOLEAN
    OBVIOUS
  <2>2. token \in 0 .. MaxRotations
    OBVIOUS
  <2> QED BY <2>1, <2>2 DEF RegistryTypes
<1> QED BY <1>1, <1>2, <1>3, <1>4, <1>5, <1>6 DEF TypeOK

LEMMA TaskTypesKept ==
  ASSUME TypeOK, [Next]_vars
  PROVE  TaskTypes'
<1> USE DEF TaskTypes
<1>1. CASE \E t \in Tasks : Request(t)
  <2> PICK t \in Tasks : Request(t)
    BY <1>1
  <2> TaskTypes /\ QueueTypes /\ Call(t) \in Calls
    BY CallInCalls DEF TypeOK
  <2> USE DEF Moves, Gets, Ends, TaskStates, Outcomes
  <2>1. CASE Invoke(t) \/ Prepare(t) \/ Enqueue(t)
    BY <2>1 DEF Invoke, Prepare, Enqueue
  <2>2. CASE Take(t) \/ Abandon(t)
    BY <2>2 DEF Take, Abandon
  <2>3. CASE Finish(t) \/ Deliver(t)
    BY <2>3 DEF Finish, Deliver, Tells
  <2>4. CASE Drop(t) \/ ReportAbort(t) \/ Crash(t)
    BY <2>4 DEF Drop, ReportAbort, Crash
  <2> QED BY <2>1, <2>2, <2>3, <2>4 DEF Request
<1>2. CASE ~ \E t \in Tasks : Request(t)
  <2> UNCHANGED task
    BY <1>2 DEF Next, vars, Gateway, InvocationEnds, ExpireRecord, ExpireRow, Registration,
      Rotate, Delete, GoesStale, Host, Restart, Start, Respond, Watch, Serve, Check, Claim,
      Send, Sent, Break
  <2> QED BY DEF TypeOK
<1> QED BY <1>1, <1>2

LEMMA AuditTypesKept ==
  ASSUME TypeOK, [Next]_vars
  PROVE  AuditTypes'
<1> AuditTypes /\ TaskTypes
  BY DEF TypeOK
<1>1. ASSUME NEW t \in Tasks, Request(t)
      PROVE  AuditTypes'
  <2> Call(t) \in Calls
    BY CallInCalls
  <2> USE DEF AuditTypes, Statuses, audit
  <2>1. CASE Invoke(t)
    BY <2>1 DEF Invoke
  <2>2. CASE Finish(t)
    <3> HIDE DEF Statuses
    <3>1. task[t].outcome \in Statuses
      BY DEF TaskTypes, TaskStates, Statuses, Outcomes
    <3> QED BY <2>2, <3>1 DEF Finish
  <2>3. CASE ReportAbort(t)
    BY <2>3 DEF ReportAbort
  <2>4. CASE ~(Invoke(t) \/ Finish(t) \/ ReportAbort(t))
    BY <1>1, <2>4 DEF Request, Prepare, Enqueue, Take, Abandon, Deliver, Drop, Crash
  <2> QED BY <2>1, <2>2, <2>3, <2>4
<1>2. ASSUME NEW c \in Calls, ExpireRecord(c)
      PROVE  AuditTypes'
  BY <1>2 DEF AuditTypes, Statuses, ExpireRecord
<1>3. CASE InvocationEnds
  BY <1>3 DEF AuditTypes, InvocationEnds, audit
<1>4. CASE /\ ~ \E t \in Tasks : Request(t)
           /\ ~ \E c \in Calls : ExpireRecord(c)
           /\ ~ InvocationEnds
  <2> UNCHANGED audit /\ UNCHANGED over
    BY <1>4 DEF Next, vars, Gateway, ExpireRow, Registration, Rotate, Delete, GoesStale, Host,
      Restart, Start, Respond, Watch, Serve, Check, Claim, Send, Sent, Break
  <2> QED BY DEF AuditTypes, audit
<1> QED BY <1>1, <1>2, <1>3, <1>4

LEMMA QueueTypesKept ==
  ASSUME TypeOK, [Next]_vars
  PROVE  QueueTypes'
<1> QueueTypes
  BY DEF TypeOK
<1> USE DEF QueueTypes, Outcomes, queue
<1>1. ASSUME NEW t \in Tasks, Request(t)
      PROVE  QueueTypes'
  <2> Call(t) \in Calls
    BY CallInCalls
  <2>1. CASE Enqueue(t) \/ Take(t) \/ Abandon(t)
    BY <2>1 DEF Enqueue, Take, Abandon
  <2>2. CASE ~(Enqueue(t) \/ Take(t) \/ Abandon(t))
    BY <1>1, <2>2 DEF Request, Invoke, Prepare, Finish, Deliver, Drop, ReportAbort, Crash
  <2> QED BY <2>1, <2>2
<1>2. ASSUME NEW c \in Calls, ExpireRow(c)
      PROVE  QueueTypes'
  BY <1>2 DEF ExpireRow
<1>3. ASSUME NEW c \in Calls, NEW outcome \in Outcomes, Respond(c, outcome)
      PROVE  QueueTypes'
  BY <1>3 DEF Respond
<1>4. CASE Delete \/ \E s \in Streams : Claim(s)
  BY <1>4 DEF Delete, Claim, Claimed
<1>5. CASE /\ ~ \E t \in Tasks : Request(t)
           /\ ~ \E c \in Calls : ExpireRow(c)
           /\ ~ \E c \in Calls, outcome \in Outcomes : Respond(c, outcome)
           /\ ~ (Delete \/ \E s \in Streams : Claim(s))
  <2> UNCHANGED queue
    BY <1>5 DEF Next, vars, Gateway, InvocationEnds, ExpireRecord, Registration, Rotate,
      GoesStale, Host, Restart, Start, Watch, Serve, Check, Send, Sent, Break
  <2> QED OBVIOUS
<1> QED BY <1>1, <1>2, <1>3, <1>4, <1>5

LEMMA RegistryTypesKept ==
  ASSUME TypeOK, [Next]_vars
  PROVE  RegistryTypes'
<1> RegistryTypes
  BY DEF TypeOK
<1> USE DEF RegistryTypes, registry
<1>1. CASE Registration
  <2>1. token' \in 0 .. MaxRotations
    BY <1>1, BoundsAssumption DEF Registration, Rotate, Delete, GoesStale
  <2>2. exists' \in BOOLEAN /\ fresh' \in BOOLEAN
    BY <1>1, Zenon DEF Registration, Rotate, Delete, GoesStale
  <2> QED BY <2>1, <2>2
<1>2. CASE \E s \in Streams : Watch(s) \/ Claim(s)
  BY <1>2 DEF Watch, Claim
<1>3. CASE ~Registration /\ ~ \E s \in Streams : Watch(s) \/ Claim(s)
  <2> UNCHANGED registry
    BY <1>3 DEF Next, vars, Gateway, InvocationEnds, ExpireRecord, ExpireRow, Host, Restart,
      Start, Respond, Serve, Check, Send, Sent, Break, Request, Invoke, Prepare, Enqueue, Take,
      Abandon, Finish, Deliver, Drop, ReportAbort, Crash
  <2> QED OBVIOUS
<1> QED BY <1>1, <1>2, <1>3

LEMMA StreamTypesKept ==
  ASSUME TypeOK, [Next]_vars
  PROVE  StreamTypes'
<1> StreamTypes /\ HostTypes
  BY DEF TypeOK
<1> USE BoundsAssumption DEF StreamTypes, StreamStates, NoStream
<1>1. ASSUME NEW s \in Streams, Watch(s) \/ Serve(s) \/ Break(s)
      PROVE  StreamTypes'
  <2>1. CASE Watch(s)
    BY <2>1 DEF Watch, HostTypes
  <2>2. CASE Check(s) \/ Sent(s) \/ Break(s)
    BY <2>2 DEF Check, Sent, Break
  <2>3. CASE Claim(s)
    BY <2>3 DEF Claim
  <2>4. ASSUME NEW c \in Calls, Send(s, c)
        PROVE  StreamTypes'
    BY <2>4 DEF Send
  <2> QED BY <1>1, <2>1, <2>2, <2>3, <2>4 DEF Serve
<1>2. CASE Restart
  BY <1>2 DEF Restart
<1>3. CASE ~Restart /\ ~ \E s \in Streams : Watch(s) \/ Serve(s) \/ Break(s)
  <2> UNCHANGED stream
    BY <1>3 DEF Next, vars, Gateway, InvocationEnds, ExpireRecord, ExpireRow, Registration,
      Rotate, Delete, GoesStale, Host, Start, Respond, Request, Invoke, Prepare, Enqueue, Take,
      Abandon, Finish, Deliver, Drop, ReportAbort, Crash
  <2> QED OBVIOUS
<1> QED BY <1>1, <1>2, <1>3

LEMMA HostTypesKept ==
  ASSUME TypeOK, [Next]_vars
  PROVE  HostTypes'
<1> HostTypes /\ RegistryTypes
  BY DEF TypeOK
<1> USE BoundsAssumption DEF HostTypes, host
<1>1. CASE Restart
  BY <1>1 DEF Restart, RegistryTypes
<1>2. ASSUME NEW c \in Calls, Start(c)
      PROVE  HostTypes'
  BY <1>2 DEF Start
<1>3. ASSUME NEW s \in Streams, NEW c \in Calls, Send(s, c)
      PROVE  HostTypes'
  BY <1>3 DEF Send
<1>4. CASE /\ ~Restart /\ ~ \E c \in Calls : Start(c)
           /\ ~ \E s \in Streams, c \in Calls : Send(s, c)
  <2> UNCHANGED host
    BY <1>4 DEF Next, vars, Gateway, InvocationEnds, ExpireRecord, ExpireRow, Registration,
      Rotate, Delete, GoesStale, Host, Respond, Watch, Serve, Check, Claim, Sent, Break,
      Request, Invoke, Prepare, Enqueue, Take, Abandon, Finish, Deliver, Drop, ReportAbort,
      Crash
  <2> QED OBVIOUS
<1> QED BY <1>1, <1>2, <1>3, <1>4

\* Every variable holds a value of its type, whatever the tasks, streams and hosts do.
THEOREM TypeCorrect == Spec => []TypeOK
<1>1. TypeOK /\ [Next]_vars => TypeOK'
  BY AuditTypesKept, TaskTypesKept, QueueTypesKept, RegistryTypesKept, StreamTypesKept,
     HostTypesKept DEF TypeOK
<1> QED BY InitTypes, <1>1, PTL DEF Spec

-----------------------------------------------------------------------------
(* One task works on a call, and the call goes to the host once *)

Active(t) == task[t].phase \notin {"new", "done"}

\* Something of the call has left the queue.
Handed(c) ==
  \/ c \in inbox \cup working \/ ran[c] # 0 \/ accepted[c] # {}
  \/ \E s \in Streams : c \in stream[s].frames

\* Only the task that won the call id is active.
ClaimInv ==
  /\ \A t \in Tasks : Active(t) => record[Call(t)] # "none"
  /\ \A t, u \in Tasks : Active(t) /\ Active(u) /\ Call(t) = Call(u) => t = u

\* A call is in the queue before anything of it leaves the queue, and not before a
\* task has enqueued it.
QueueInv ==
  /\ \A c \in Calls : row[c] # "none" \/ Handed(c) => record[c] # "none"
  /\ \A c \in Calls : row[c] = "pending" => ~Handed(c)
  /\ \A t \in Tasks : task[t].phase \in {"begun", "live"} =>
       row[Call(t)] = "none" /\ ~Handed(Call(t))

\* What has left the queue is in one place, and has run only if it arrived.
OnceInv == \A c \in Calls :
  /\ ran[c] \in {0, 1}
  /\ c \in inbox => ran[c] = 0
  /\ \A s \in Streams : c \in stream[s].frames => ran[c] = 0 /\ c \notin inbox
  /\ \A s, z \in Streams : c \in stream[s].frames \cap stream[z].frames => s = z
  /\ accepted[c] # {} \/ c \in working => ran[c] = 1

\* The answer that was accepted is the one in the queue, with the task and in the record.
AnswerInv ==
  /\ \A c \in Calls :
       /\ row[c] \in {"pending", "delivered"} => accepted[c] = {}
       /\ row[c] \in Outcomes => accepted[c] = {row[c]}
       /\ accepted[c] \in {{}, {"completed"}, {"failed"}}
       /\ record[c] = "completed" => accepted[c] = {"completed"}
  /\ \A t \in Tasks : task[t].phase = "result" /\ task[t].outcome = "completed"
       => accepted[Call(t)] = {"completed"}

ToldInv == \A t \in Tasks :
  /\ task[t].phase \in {"result", "recorded"} => task[t].outcome \in Outcomes
  /\ task[t].phase = "recorded" => record[Call(t)] = task[t].outcome
  /\ task[t].told \in Outcomes => record[Call(t)] = task[t].told

Inv == TypeOK /\ ClaimInv /\ QueueInv /\ OnceInv /\ AnswerInv /\ ToldInv

LEMMA InitInv == Init => Inv
<1> SUFFICES ASSUME Init PROVE Inv
  OBVIOUS
<1> USE CallInCalls DEF Init, NewTask, NoStream
<1>1. ClaimInv /\ ToldInv
  BY DEF ClaimInv, ToldInv, Active, Outcomes
<1>2. QueueInv
  BY DEF QueueInv, Handed
<1>3. OnceInv
  BY DEF OnceInv
<1>4. AnswerInv
  BY DEF AnswerInv, Outcomes
<1> QED BY <1>1, <1>2, <1>3, <1>4, InitTypes DEF Inv

\* What the actions of a request do to its task and to the record.
LEMMA ClaimKept ==
  ASSUME Inv, [Next]_vars
  PROVE  ClaimInv'
<1> AuditTypes /\ TaskTypes /\ ClaimInv
  BY DEF Inv, TypeOK
<1> USE DEF ClaimInv, Active, AuditTypes, TaskTypes, TaskStates
<1>1. ASSUME NEW t \in Tasks, Request(t)
      PROVE  ClaimInv'
  <2> Call(t) \in Calls /\ \A u \in Tasks : Call(u) \in Calls
    BY CallInCalls
  <2> USE DEF Moves, Gets, Ends, audit
  <2>1. CASE Invoke(t)
    BY <2>1 DEF Invoke
  <2>2. CASE Prepare(t) \/ Enqueue(t)
    BY <2>2 DEF Prepare, Enqueue
  <2>3. CASE Take(t) \/ Abandon(t) \/ Drop(t)
    BY <2>3 DEF Take, Abandon, Drop
  <2>4. CASE Finish(t)
    <3>1. task[t].outcome # "none"
      BY <2>4 DEF Finish, Inv, ToldInv, Outcomes
    <3> QED BY <2>4, <3>1 DEF Finish
  <2>5. CASE Deliver(t) \/ ReportAbort(t) \/ Crash(t)
    BY <2>5 DEF Deliver, ReportAbort, Crash
  <2> QED BY <1>1, <2>1, <2>2, <2>3, <2>4, <2>5 DEF Request
<1>2. ASSUME NEW c \in Calls, ExpireRecord(c)
      PROVE  ClaimInv'
  BY <1>2, CallInCalls DEF ExpireRecord
<1>3. CASE /\ ~ \E t \in Tasks : Request(t)
           /\ ~ \E c \in Calls : ExpireRecord(c)
  <2> UNCHANGED <<record, task>>
    BY <1>3 DEF Next, vars, audit, Gateway, InvocationEnds, ExpireRow, Registration, Rotate,
      Delete, GoesStale, Host, Restart, Start, Respond, Watch, Serve, Check, Claim, Send, Sent,
      Break
  <2> QED OBVIOUS
<1> QED BY <1>1, <1>2, <1>3

\* A stream takes calls on only when it claims them.
LEMMA FramesShrink ==
  ASSUME StreamTypes, NEW s \in Streams, Watch(s) \/ Check(s) \/ Sent(s) \/ Break(s),
         NEW z \in Streams
  PROVE  stream'[z].frames \subseteq stream[z].frames
<1> USE DEF StreamTypes, StreamStates, NoStream
<1>1. CASE Watch(s)
  <2>1. stream' = [stream EXCEPT ![s] = [NoStream EXCEPT !.phase = "turn", !.token = uses]]
    BY <1>1 DEF Watch
  <2>2. [NoStream EXCEPT !.phase = "turn", !.token = uses].frames = {}
    OBVIOUS
  <2> HIDE DEF NoStream
  <2> QED BY <2>1, <2>2
<1>4. CASE Break(s)
  BY <1>4 DEF Break
<1>2. CASE Check(s)
  <2>1. CASE Authentic(stream[s].token)
    BY <1>2, <2>1 DEF Check
  <2>2. CASE ~Authentic(stream[s].token)
    BY <1>2, <2>2 DEF Check
  <2> QED BY <2>1, <2>2
<1>3. CASE Sent(s)
  BY <1>3 DEF Sent
<1> QED BY <1>1, <1>2, <1>3, <1>4

LEMMA QueueKept ==
  ASSUME Inv, [Next]_vars
  PROVE  QueueInv'
<1> TypeOK /\ ClaimInv /\ QueueInv /\ OnceInv
  BY DEF Inv
<1> AuditTypes /\ TaskTypes /\ QueueTypes /\ StreamTypes /\ HostTypes
  BY DEF TypeOK
<1> USE DEF QueueInv, Handed
<1>1. ASSUME NEW t \in Tasks, Request(t)
      PROVE  QueueInv'
  <2> Call(t) \in Calls /\ \A u \in Tasks : Call(u) \in Calls
    BY CallInCalls
  <2>1. UNCHANGED <<stream, inbox, working, ran, accepted>>
    BY <1>1 DEF Request, Invoke, Prepare, Enqueue, Take, Abandon, Finish, Deliver, Drop,
      ReportAbort, Crash, queue, host
  <2>2. \A c \in Calls : Handed(c)' = Handed(c)
    BY <2>1
  <2> HIDE DEF Handed
  <2> USE DEF Moves, Gets, Ends, audit, queue, AuditTypes, TaskTypes, TaskStates, QueueTypes
  <2>3. CASE Invoke(t)
    BY <2>2, <2>3 DEF Invoke
  <2>4. CASE Prepare(t)
    BY <2>2, <2>4 DEF Prepare
  <2>5. CASE Enqueue(t)
    BY <2>2, <2>5 DEF Enqueue, ClaimInv, Active
  <2>6. CASE Take(t) \/ Abandon(t)
    BY <2>2, <2>6 DEF Take, Abandon
  <2>7. CASE Finish(t)
    <3>1. task[t].outcome # "none"
      BY <2>7 DEF Finish, Inv, ToldInv, Outcomes
    <3> QED BY <2>2, <2>7, <3>1 DEF Finish
  <2>8. CASE Deliver(t) \/ Drop(t) \/ ReportAbort(t) \/ Crash(t)
    BY <2>2, <2>8 DEF Deliver, Drop, ReportAbort, Crash
  <2> QED BY <1>1, <2>3, <2>4, <2>5, <2>6, <2>7, <2>8 DEF Request
<1>2. ASSUME NEW c \in Calls, ExpireRecord(c) \/ ExpireRow(c)
      PROVE  QueueInv'
  <2>1. CASE ExpireRecord(c)
    BY <1>2, <2>1 DEF ExpireRecord, queue, host, audit, AuditTypes
  <2>2. CASE ExpireRow(c)
    BY <1>2, <2>2, CallInCalls DEF ExpireRow, queue, host, audit, QueueTypes
  <2> QED BY <1>2, <2>1, <2>2
<1>3. CASE Delete \/ Restart
  <2>1. CASE Delete
    BY <2>1, CallInCalls DEF Delete, queue, host, audit
  <2>2. CASE Restart
    <3>1. \A c \in Calls : Handed(c)' => Handed(c)
      BY <2>2 DEF Restart, NoStream, queue
    <3> QED BY <2>2, <3>1, CallInCalls DEF Restart, queue, audit
  <2> QED BY <1>3, <2>1, <2>2
<1>4. ASSUME NEW c \in Calls, Start(c)
      PROVE  QueueInv'
  BY <1>4 DEF Start, queue, host, audit, HostTypes
<1>5. ASSUME NEW c \in Calls, NEW outcome \in Outcomes, Respond(c, outcome)
      PROVE  QueueInv'
  BY <1>5 DEF Respond, Answerable, queue, host, audit, QueueTypes, Outcomes
<1>6. ASSUME NEW s \in Streams, Claim(s)
      PROVE  QueueInv'
  BY <1>6 DEF Claim, Claimed, queue, host, audit, QueueTypes, StreamTypes, StreamStates
<1>7. ASSUME NEW s \in Streams, NEW c \in Calls, Send(s, c)
      PROVE  QueueInv'
  BY <1>7 DEF Send, queue, host, audit, StreamTypes, StreamStates
<1>8. ASSUME NEW s \in Streams, Watch(s) \/ Check(s) \/ Sent(s) \/ Break(s)
      PROVE  QueueInv'
  <2>1. UNCHANGED <<record, row, accepted, inbox, working, ran, task>>
    BY <1>8 DEF Watch, Check, Sent, Break, queue, host, audit
  <2>2. \A c \in Calls : Handed(c)' => Handed(c)
    BY <1>8, <2>1, FramesShrink
  <2> QED BY <2>1, <2>2, CallInCalls
<1>9. CASE InvocationEnds \/ Rotate \/ GoesStale \/ UNCHANGED vars
  BY <1>9 DEF InvocationEnds, Rotate, GoesStale, vars, queue, host, audit
<1> QED BY <1>1, <1>2, <1>3, <1>4, <1>5, <1>6, <1>7, <1>8, <1>9 DEF Next, Gateway,
  Registration, Host, Serve

LEMMA OnceKept ==
  ASSUME Inv, [Next]_vars
  PROVE  OnceInv'
<1> QueueInv /\ OnceInv /\ QueueTypes /\ StreamTypes /\ HostTypes
  BY DEF Inv, TypeOK
<1> USE DEF OnceInv, queue, host
<1>1. ASSUME NEW c \in Calls, Start(c)
      PROVE  OnceInv'
  BY <1>1 DEF Start, HostTypes
<1>2. ASSUME NEW c \in Calls, NEW outcome \in Outcomes, Respond(c, outcome)
      PROVE  OnceInv'
  BY <1>2 DEF Respond, QueueTypes
<1>3. CASE Restart
  BY <1>3 DEF Restart, NoStream
<1>4. ASSUME NEW s \in Streams, Claim(s)
      PROVE  OnceInv'
  BY <1>4 DEF Claim, QueueInv, Handed, StreamTypes, StreamStates
<1>5. ASSUME NEW s \in Streams, NEW c \in Calls, Send(s, c)
      PROVE  OnceInv'
  BY <1>5 DEF Send, StreamTypes, StreamStates
<1>6. ASSUME NEW s \in Streams, Watch(s) \/ Check(s) \/ Sent(s) \/ Break(s)
      PROVE  OnceInv'
  <2>1. UNCHANGED <<accepted, inbox, working, ran>>
    BY <1>6 DEF Watch, Check, Sent, Break
  <2> QED BY <1>6, <2>1, FramesShrink
<1>7. CASE UNCHANGED <<stream, inbox, working, ran, accepted>>
  BY <1>7
<1>8. CASE Gateway \/ Registration \/ UNCHANGED vars
  BY <1>7, <1>8 DEF Gateway, InvocationEnds, ExpireRecord, ExpireRow, Registration, Rotate,
    Delete, GoesStale, vars
<1>9. ASSUME NEW t \in Tasks, Request(t)
      PROVE  OnceInv'
  BY <1>7, <1>9 DEF Request, Invoke, Prepare, Enqueue, Take, Abandon, Finish, Deliver, Drop,
    ReportAbort, Crash
<1> QED BY <1>1, <1>2, <1>3, <1>4, <1>5, <1>6, <1>8, <1>9 DEF Next, Host, Serve

LEMMA AnswerKept ==
  ASSUME Inv, [Next]_vars
  PROVE  AnswerInv'
<1> AnswerInv /\ QueueInv /\ AuditTypes /\ TaskTypes /\ QueueTypes
  BY DEF Inv, TypeOK
<1> USE DEF AnswerInv, Outcomes
<1>1. ASSUME NEW t \in Tasks, Request(t)
      PROVE  AnswerInv'
  <2> Call(t) \in Calls /\ \A u \in Tasks : Call(u) \in Calls
    BY CallInCalls
  <2> UNCHANGED accepted
    BY <1>1 DEF Request, Invoke, Prepare, Enqueue, Take, Abandon, Finish, Deliver, Drop,
      ReportAbort, Crash, queue
  <2> USE DEF Moves, Gets, Ends, audit, queue, AuditTypes, TaskTypes, TaskStates, QueueTypes
  <2>1. CASE Invoke(t)
    <3>1. CASE record[Call(t)] = "none"
      BY <2>1, <3>1 DEF Invoke
    <3>2. CASE record[Call(t)] # "none"
      BY <2>1, <3>2 DEF Invoke
    <3> QED BY <3>1, <3>2
  <2>2. CASE Prepare(t)
    BY <2>2 DEF Prepare
  <2>3. CASE Enqueue(t)
    <3>1. accepted[Call(t)] = {}
      BY <2>3 DEF Enqueue, QueueInv, Handed
    <3>2. CASE UNCHANGED row
      BY <2>3, <3>2 DEF Enqueue
    <3>3. CASE row' = [row EXCEPT ![Call(t)] = "pending"] /\ Moves(t, "waiting")
      <4>1. UNCHANGED record
        BY <2>3 DEF Enqueue
      <4>2. \A u \in Tasks : task'[u].phase = "result" => u # t /\ task'[u] = task[u]
        BY <3>3
      <4>3. \A u \in Tasks : task'[u].phase = "result" /\ task'[u].outcome = "completed"
              => accepted[Call(u)] = {"completed"}
        BY <4>2
      <4> QED BY <3>1, <3>3, <4>1, <4>3
    <3> QED BY <2>3, <3>2, <3>3 DEF Enqueue
  <2>4. CASE Take(t)
    BY <2>4 DEF Take
  <2>5. CASE Abandon(t)
    BY <2>5 DEF Abandon
  <2>6. CASE Finish(t)
    BY <2>6 DEF Finish
  <2>7. CASE Deliver(t) \/ Drop(t) \/ ReportAbort(t) \/ Crash(t)
    BY <2>7 DEF Deliver, Drop, ReportAbort, Crash
  <2> QED BY <1>1, <2>1, <2>2, <2>3, <2>4, <2>5, <2>6, <2>7 DEF Request
<1>2. ASSUME NEW c \in Calls, ExpireRecord(c)
      PROVE  AnswerInv'
  BY <1>2 DEF ExpireRecord, queue, AuditTypes
<1>3. ASSUME NEW c \in Calls, ExpireRow(c)
      PROVE  AnswerInv'
  BY <1>3 DEF ExpireRow, audit, QueueTypes
<1>4. CASE Delete
  BY <1>4 DEF Delete, audit
<1>5. ASSUME NEW c \in Calls, NEW outcome \in Outcomes, Respond(c, outcome)
      PROVE  AnswerInv'
  <2>1. accepted[c] = {} /\ record[c] # "completed"
    BY <1>5 DEF Respond, Answerable
  <2>2. \A t \in Tasks : task[t].phase = "result" /\ task[t].outcome = "completed"
          => Call(t) # c
    BY <2>1
  <2> QED BY <1>5, <2>1, <2>2, CallInCalls DEF Respond, audit, QueueTypes
<1>6. ASSUME NEW s \in Streams, Claim(s)
      PROVE  AnswerInv'
  BY <1>6 DEF Claim, Claimed, audit
<1>7. CASE UNCHANGED <<row, accepted, record, task>>
  BY <1>7
<1>8. CASE InvocationEnds \/ Rotate \/ GoesStale \/ Restart \/ UNCHANGED vars
  BY <1>7, <1>8 DEF InvocationEnds, Rotate, GoesStale, Restart, vars, queue, audit
<1>9. ASSUME NEW c \in Calls, Start(c) \/ \E s \in Streams : Send(s, c)
      PROVE  AnswerInv'
  BY <1>7, <1>9 DEF Start, Send, queue, audit
<1>10. ASSUME NEW s \in Streams, Watch(s) \/ Check(s) \/ Sent(s) \/ Break(s)
       PROVE  AnswerInv'
  BY <1>7, <1>10 DEF Watch, Check, Sent, Break, queue, audit
<1> QED BY <1>1, <1>2, <1>3, <1>4, <1>5, <1>6, <1>8, <1>9, <1>10 DEF Next, Gateway,
  Registration, Host, Serve

LEMMA ToldKept ==
  ASSUME Inv, [Next]_vars
  PROVE  ToldInv'
<1> ToldInv /\ AuditTypes /\ TaskTypes
  BY DEF Inv, TypeOK
<1> USE DEF ToldInv, Outcomes
<1>1. ASSUME NEW t \in Tasks, Request(t)
      PROVE  ToldInv'
  <2> Call(t) \in Calls /\ \A u \in Tasks : Call(u) \in Calls
    BY CallInCalls
  <2> USE DEF Moves, Gets, Ends, audit, AuditTypes, TaskTypes, TaskStates
  <2>1. CASE Invoke(t)
    <3>1. CASE record[Call(t)] = "none"
      BY <2>1, <3>1 DEF Invoke
    <3>2. CASE record[Call(t)] # "none"
      BY <2>1, <3>2 DEF Invoke
    <3> QED BY <3>1, <3>2
  <2>2. CASE Prepare(t) \/ Enqueue(t)
    BY <2>2 DEF Prepare, Enqueue
  <2>3. CASE Take(t) \/ Abandon(t)
    BY <2>3 DEF Take, Abandon
  <2>4. CASE Finish(t)
    BY <2>4 DEF Finish, Tells
  <2>5. CASE Deliver(t) \/ Drop(t)
    BY <2>5 DEF Deliver, Drop
  <2>6. CASE ReportAbort(t) \/ Crash(t)
    BY <2>6 DEF ReportAbort, Crash
  <2> QED BY <1>1, <2>1, <2>2, <2>3, <2>4, <2>5, <2>6 DEF Request
<1>2. ASSUME NEW c \in Calls, ExpireRecord(c)
      PROVE  ToldInv'
  <2>1. record[c] = "running" /\ record' = [record EXCEPT ![c] = "aborted"] /\ UNCHANGED task
    BY <1>2 DEF ExpireRecord, Interrupted
  <2>2. \A t \in Tasks : task[t].phase = "recorded" => task[t].outcome \in Outcomes
    OBVIOUS
  <2> QED BY <2>1, <2>2, CallInCalls DEF AuditTypes
<1>3. CASE /\ ~ \E t \in Tasks : Request(t)
           /\ ~ \E c \in Calls : ExpireRecord(c)
  <2> UNCHANGED <<record, task>>
    BY <1>3 DEF Next, vars, audit, Gateway, InvocationEnds, ExpireRow, Registration, Rotate,
      Delete, GoesStale, Host, Restart, Start, Respond, Watch, Serve, Check, Claim, Send, Sent,
      Break
  <2> QED OBVIOUS
<1> QED BY <1>1, <1>2, <1>3

LEMMA Invariance == Spec => []Inv
<1>1. Inv /\ [Next]_vars => TypeOK'
  BY AuditTypesKept, TaskTypesKept, QueueTypesKept, RegistryTypesKept, StreamTypesKept,
     HostTypesKept DEF Inv, TypeOK
<1>2. Inv /\ [Next]_vars => Inv'
  BY <1>1, ClaimKept, QueueKept, OnceKept, AnswerKept, ToldKept DEF Inv
<1> QED BY InitInv, <1>2, PTL DEF Spec

-----------------------------------------------------------------------------
(* What follows *)

\* A call has one answer, the first the host gave, and the record shows a success only
\* if that answer was one.
THEOREM AnswerIsFirst == Spec => []CompletedIsAnswered
<1>1. ASSUME Inv, NEW c \in Calls
      PROVE  Cardinality(accepted[c]) <= 1
  <2>1. Cardinality({}) = 0 /\ \A x : Cardinality({x}) = 1
    BY FS_EmptySet, FS_Singleton
  <2>2. accepted[c] = {} \/ accepted[c] = {"completed"} \/ accepted[c] = {"failed"}
    BY <1>1 DEF Inv, AnswerInv
  <2>3. Cardinality(accepted[c]) \in {0, 1}
    BY <2>1, <2>2
  <2> QED BY <2>3
<1>2. Inv => CompletedIsAnswered
  BY <1>1 DEF Inv, AnswerInv, CompletedIsAnswered
<1> QED BY Invariance, <1>2, PTL

\* The agent is never told an outcome that the record does not show, then or later.
THEOREM ToldWhatIsRecorded == Spec => []ToldIsRecorded
<1>1. Inv => ToldIsRecorded
  BY DEF Inv, ToldInv, ToldIsRecorded
<1> QED BY Invariance, <1>1, PTL

-----------------------------------------------------------------------------
(* Every step keeps the promise *)

LEMMA StepKeepsPromise ==
  ASSUME Inv, [Next]_vars
  PROVE  [Promise!Next]_(Promise!vars)
<1> AuditTypes /\ TaskTypes /\ HostTypes
  BY DEF Inv, TypeOK
<1> USE DEF Promise!vars, Promise!Next
<1>1. ASSUME NEW t \in Tasks, Request(t)
      PROVE  [Promise!Next]_(Promise!vars)
  <2> Call(t) \in Calls
    BY CallInCalls
  <2> UNCHANGED ran
    BY <1>1 DEF Request, Invoke, Prepare, Enqueue, Take, Abandon, Finish, Deliver, Drop,
      ReportAbort, Crash, host
  <2>1. CASE Invoke(t)
    <3>1. CASE record[Call(t)] = "none"
      <4>1. Promise!Claim(Call(t))
        BY <2>1, <3>1 DEF Invoke, Promise!Claim, Promise!Open
      <4> QED BY <4>1
    <3>2. CASE record[Call(t)] # "none"
      BY <2>1, <3>2 DEF Invoke, audit
    <3> QED BY <3>1, <3>2
  <2>2. CASE Finish(t) /\ record[Call(t)] = "running"
    <3>1. task[t].outcome \in {"completed", "failed"}
      BY <2>2 DEF Finish, Inv, ToldInv, Outcomes
    <3>2. task[t].outcome = "completed" => ran[Call(t)] = 1
      BY <2>2 DEF Finish, Inv, AnswerInv, OnceInv
    <3>3. Promise!Close(Call(t), task[t].outcome)
      BY <2>2, <3>2 DEF Finish, Promise!Close, Promise!Open
    <3> QED BY <3>1, <3>3 DEF Promise!Closed
  <2>3. CASE ReportAbort(t) /\ record[Call(t)] = "running"
    <3>1. Promise!Close(Call(t), "aborted")
      BY <2>3 DEF ReportAbort, Promise!Close, Promise!Open
    <3> QED BY <3>1 DEF Promise!Closed
  <2>4. CASE UNCHANGED record
    BY <2>4
  <2>5. CASE Finish(t) \/ ReportAbort(t)
    BY <2>2, <2>3, <2>4, <2>5 DEF Finish, ReportAbort
  <2>6. CASE ~(Invoke(t) \/ Finish(t) \/ ReportAbort(t))
    BY <1>1, <2>4, <2>6 DEF Request, Prepare, Enqueue, Take, Abandon, Deliver, Drop, Crash, audit
  <2> QED BY <2>1, <2>5, <2>6
<1>2. ASSUME NEW c \in Calls, ExpireRecord(c)
      PROVE  [Promise!Next]_(Promise!vars)
  <2>1. Promise!Close(c, "aborted")
    BY <1>2 DEF ExpireRecord, Interrupted, host, Promise!Close, Promise!Open
  <2> QED BY <2>1 DEF Promise!Closed
<1>3. ASSUME NEW c \in Calls, Start(c)
      PROVE  [Promise!Next]_(Promise!vars)
  <2>1. record[c] # "none" /\ ran[c] = 0
    BY <1>3 DEF Start, Inv, QueueInv, OnceInv, Handed
  <2>2. Promise!Execute(c)
    BY <1>3, <2>1 DEF Start, audit, Promise!Execute, HostTypes
  <2> QED BY <2>2
<1>4. CASE UNCHANGED <<record, ran>>
  BY <1>4
<1>5. CASE /\ ~ \E t \in Tasks : Request(t)
           /\ ~ \E c \in Calls : ExpireRecord(c) \/ Start(c)
  BY <1>4, <1>5 DEF Next, vars, audit, host, Gateway, InvocationEnds, ExpireRow, Registration,
    Rotate, Delete, GoesStale, Host, Restart, Respond, Watch, Serve, Check, Claim, Send, Sent,
    Break
<1> QED BY <1>1, <1>2, <1>3, <1>5

\* A claimed call is never executed twice, and its record closes once and shows a success
\* only of what has run: the queue, its retries, drops and restarts implement CallPromise.
THEOREM PromiseKept == Spec => KeepsPromise
<1>1. Init => Promise!Init
  BY DEF Init, Promise!Init
<1>2. Inv /\ [Next]_vars => [Promise!Next]_(Promise!vars)
  BY StepKeepsPromise
<1> QED BY Invariance, <1>1, <1>2, PTL DEF Spec, KeepsPromise, Promise!Spec
=============================================================================
