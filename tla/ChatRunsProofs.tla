--------------------------- MODULE ChatRunsProofs ---------------------------
(* Theorems about ChatRuns, for every value of its constants. *)
EXTENDS ChatRuns, FiniteSetTheorems, WellFoundedInduction, TLAPS

USE DEF Runs, Invocations, None

-----------------------------------------------------------------------------
(* Places in the queue are natural numbers *)

\* A set of inputs is finite, so it has a cardinality.
LEMMA InputsCounted ==
  ASSUME NEW S, S \subseteq Inputs
  PROVE  Cardinality(S) \in Nat
<1>1. IsFiniteSet(S)
  BY EventsAssumption, FS_Subset DEF Inputs
<1> QED BY <1>1, FS_CardinalityType

\* A new row's place in the queue is a number.
LEMMA BackType == Back \in Nat
<1> DEFINE rowsNow == {x \in Inputs : origin[x] # None}
<1>1. Cardinality(rowsNow) \in Nat
  BY InputsCounted
<1> QED BY <1>1 DEF Back

\* Renumbering the queue gives every input a number again.
LEMMA RenumberType ==
  ASSUME NEW x, NEW rest, position \in [Inputs -> Nat]
  PROVE  Renumber(x, rest) \in [Inputs -> Nat]
<1> DEFINE others == Queue \ {x}
           ahead(y) == Cardinality({z \in others : position[z] < position[y]})
           place(y) == CASE y = x -> Cardinality(others \ rest)
                         [] y \in others -> ahead(y) + (IF y \in rest THEN 1 ELSE 0)
                         [] OTHER -> position[y]
<1>1. others \subseteq Inputs
  BY DEF Queue
<1>2. Cardinality(others \ rest) \in Nat
  BY <1>1, InputsCounted
<1>3. \A y : ahead(y) \in Nat
  <2> TAKE y
  <2>1. {z \in others : position[z] < position[y]} \subseteq Inputs
    BY <1>1
  <2> QED BY <2>1, InputsCounted
<1>4. \A y \in Inputs : place(y) \in Nat
  <2> HIDE DEF ahead, others
  <2> QED BY <1>2, <1>3
<1>5. Renumber(x, rest) = [y \in Inputs |-> place(y)]
  BY DEF Renumber
<1> HIDE DEF place
<1> QED BY <1>4, <1>5

-----------------------------------------------------------------------------
(* Types of the parts of transactions *)

\* The rows' part of TypeOK, what Creates, Create writes.
RowsType ==
  /\ runStatus \in [Runs -> RunStatuses]
  /\ objective \in [Runs -> SUBSET Events]
  /\ source \in [Runs -> Sources]
  /\ invStatus \in [Invocations -> InvocationStatuses]
  /\ invRun \in [Invocations -> Runs \cup {None}]
  /\ pinned \subseteq Invocations

\* The leases', the queue's and the rows' part, what End writes.
EndType ==
  /\ RowsType
  /\ leased \subseteq Invocations /\ polling \subseteq Invocations
  /\ owner \in [Inputs -> Invocations \cup {None}]
  /\ accepted \in [Inputs -> BOOLEAN]
  /\ position \in [Inputs -> Nat]

\* A run is created on behalf of somebody.
Creates(statuses, invocations, i, events) ==
  \E from \in Sources : Create(statuses, invocations, i, events, from)

\* Whoever it is, the columns can hold it.
LEMMA SourceOfType ==
  /\ Native \in Sources
  /\ \A x, r : SourceOf(x, r) \in Sources
BY DEF SourceOf, SenderOf, Sources

\* Selected and eligible inputs were waiting.
LEMMA ChosenWaits ==
  ASSUME NEW waiting, NEW places, NEW policy
  PROVE  /\ Selected(Eligible(waiting), places, policy) \subseteq Eligible(waiting)
         /\ Eligible(waiting) \subseteq waiting
BY DEF Selected, Eligible

Ends == {"stopped", "failed", "canceled"}
Closes == {"waiting", "failed", "canceled"}

\* A run and its first invocation are created with values of their types.
LEMMA CreateType ==
  ASSUME RowsType,
         NEW statuses \in [Runs -> RunStatuses],
         NEW invocations \in [Invocations -> InvocationStatuses],
         NEW i \in Invocations, NEW events \in SUBSET Events,
         Creates(statuses, invocations, i, events)
  PROVE  RowsType'
BY DEF RowsType, Creates, Create, RunStatuses, InvocationStatuses

\* run_status writes a status the column's check constraint knows.
LEMMA SetStatusType ==
  ASSUME RowsType, NEW r, NEW status \in RunStatuses
  PROVE  SetStatus(r, status) \in [Runs -> RunStatuses]
BY DEF RowsType, SetStatus

\* The end of an invocation, with or without a dispatch, keeps the types it writes.
LEMMA EndTypes ==
  ASSUME EndType,
         NEW i \in Invocations \cup {None}, NEW status \in Ends, NEW to \in Closes,
         NEW dispatch \in BOOLEAN, NEW waiting \in SUBSET Inputs,
         NEW places \in [Inputs -> Nat], NEW policy,
         End(i, status, to, dispatch, waiting, places, policy)
  PROVE  EndType'
<1> DEFINE live == i \in Live
           closed == IF live THEN SetStatus(invRun[i], to) ELSE runStatus
           ended == IF live THEN [invStatus EXCEPT ![i] = status] ELSE invStatus
           chosen == Selected(Eligible(waiting), places, policy)
<1>1. RowsType
  BY DEF EndType
<1>2. closed \in [Runs -> RunStatuses]
  BY <1>1, SetStatusType DEF RowsType, Closes, RunStatuses
<1>3. ended \in [Invocations -> InvocationStatuses]
  BY <1>1 DEF RowsType, Ends, InvocationStatuses
<1>4. chosen \subseteq waiting /\ chosen \in SUBSET Events
  BY ChosenWaits DEF Events
<1>5. leased' = leased \ {i} /\ polling' = polling \ {i} /\ position' = places
  BY DEF End
<1>6. CASE dispatch /\ chosen # {}
  <2>1. PICK n \in Invocations :
          /\ Creates(closed, ended, n, chosen)
          /\ owner' = [x \in Inputs |-> IF x \in waiting THEN n ELSE owner[x]]
          /\ accepted' = [x \in Inputs |-> accepted[x] \/ x \in chosen]
    BY <1>6, SourceOfType DEF End, Creates
  <2>2. RowsType'
    <3> HIDE DEF closed, ended, chosen
    <3> QED BY <2>1, <1>1, <1>2, <1>3, <1>4, CreateType
  <2>3. owner' \in [Inputs -> Invocations \cup {None}]
    BY <2>1 DEF EndType
  <2>4. accepted' \in [Inputs -> BOOLEAN]
    BY <2>1 DEF EndType
  <2> QED BY <2>2, <2>3, <2>4, <1>5 DEF EndType
<1>7. CASE ~(dispatch /\ chosen # {})
  <2>1. /\ runStatus' = closed /\ invStatus' = ended
        /\ UNCHANGED <<objective, source, invRun, pinned, accepted>>
        /\ owner' = [x \in Inputs |-> IF x \in waiting THEN i ELSE owner[x]]
    BY <1>7 DEF End
  <2> HIDE DEF closed, ended
  <2> QED BY <2>1, <1>2, <1>3, <1>5 DEF EndType, RowsType
<1> QED BY <1>6, <1>7

\* TypeOK is the part End writes and the rest.
RestType ==
  /\ agent \in {"available", "paused", "deleted"}
  /\ deployable \in BOOLEAN /\ admitted \in Admissions
  /\ started \subseteq Invocations
  /\ routed \subseteq Messages
  /\ origin \in [Inputs -> Invocations \cup {None}]
  /\ reads \subseteq [run : Runs, invocation : Invocations]
  /\ setup \subseteq Invocations /\ hosts \subseteq Invocations

\* TypeOK is the columns an end writes and the rest.
LEMMA TypeParts ==
  /\ TypeOK <=> EndType /\ RestType
  /\ EndType' /\ RestType' => TypeOK'
BY DEF TypeOK, EndType, RestType, RowsType

\* Every end through finish keeps the types.
LEMMA FinishTypes ==
  ASSUME EndType, NEW i, NEW status \in Ends, Finish(i, status)
  PROVE  EndType'
<1> DEFINE to == CASE status = "stopped" -> "waiting"
                   [] status = "canceled" -> "canceled"
                   [] OTHER -> "failed"
           dispatch == runStatus[invRun[i]] # "suspending"
<1>1. PICK policy \in Policies :
        End(i, status, to, dispatch, Waiting(i), position, policy)
  BY DEF Finish
<1>2. to \in Closes /\ dispatch \in BOOLEAN
  BY DEF Ends, Closes
<1>3. i \in Invocations /\ Waiting(i) \in SUBSET Inputs /\ position \in [Inputs -> Nat]
  BY DEF Finish, Live, Waiting, EndType
<1> HIDE DEF to, dispatch
<1> QED BY <1>1, <1>2, <1>3, EndTypes

\* A new input keeps the types, whatever the policy makes of it.
LEMMA ScheduleTypes ==
  ASSUME EndType, RestType,
         NEW i \in Invocations, NEW x \in Inputs, NEW policy,
         Schedule(i, x, policy)
  PROVE  EndType' /\ origin' \in [Inputs -> Invocations \cup {None}]
<1>1. Back \in Nat
  BY BackType
<1>2. CASE policy = "interrupt"
  <2>1. /\ origin' = [origin EXCEPT ![x] = i]
        /\ End(i, "canceled", "canceled", TRUE, Waiting(i) \cup {x},
               [position EXCEPT ![x] = Back], policy)
    BY <1>2 DEF Schedule
  <2>2. /\ Waiting(i) \cup {x} \in SUBSET Inputs
        /\ [position EXCEPT ![x] = Back] \in [Inputs -> Nat]
    BY <1>1 DEF Waiting, EndType
  <2>3. EndType'
    BY <2>1, <2>2, EndTypes DEF Ends, Closes
  <2> QED BY <2>1, <2>3 DEF RestType
<1>3. CASE policy # "interrupt"
  <2>1. Enqueue(i, x)
    BY <1>3 DEF Schedule
  <2>2. /\ origin' \in [Inputs -> Invocations \cup {None}]
        /\ owner' \in [Inputs -> Invocations \cup {None}]
        /\ position' \in [Inputs -> Nat]
    BY <2>1, <1>1 DEF Enqueue, EndType, RestType
  <2>3. /\ accepted' \in [Inputs -> BOOLEAN]
        /\ objective' \in [Runs -> SUBSET Events]
        /\ UNCHANGED <<runStatus, source, invStatus, invRun, pinned, held>>
    <3>1. CASE /\ accepted' = [accepted EXCEPT ![x] = TRUE]
               /\ objective' = [objective EXCEPT ![invRun[i]] = @ \cup {x}]
               /\ UNCHANGED <<runStatus, source, invStatus, invRun, pinned, held>>
      <4>1. x \in Events
        BY DEF Events
      <4> QED BY <3>1, <4>1 DEF EndType, RowsType
    <3>2. CASE UNCHANGED <<rows, held, accepted>>
      BY <3>2 DEF EndType, RowsType, rows
    <3> QED BY <1>3, <3>1, <3>2 DEF Schedule
  <2> QED BY <2>2, <2>3 DEF EndType, RowsType, held
<1> QED BY <1>2, <1>3

\* The empty tables hold values of their types.
LEMMA InitTypes == Init => TypeOK
<1> SUFFICES ASSUME Init PROVE TypeOK
  OBVIOUS
<1>1. EndType
  BY DEF Init, EndType, RowsType, RunStatuses, InvocationStatuses, Sources
<1>2. RestType
  BY AccessAssumption DEF Init, RestType
<1> QED BY <1>1, <1>2, TypeParts

\* Requests of users, applications and tools keep the types.
LEMMA ClientTypes == ASSUME TypeOK, Client PROVE TypeOK'
<1> USE TypeParts
<1> USE DEF registry, rows, held, queue, processes
<1>1. EndType /\ RestType
  OBVIOUS
<1>2. RowsType
  BY DEF EndType
<1>3. ASSUME NEW q \in Requests, StartRun(q) PROVE TypeOK'
  <2>1. PICK i \in Invocations : Creates(runStatus, invStatus, i, {q})
    BY <1>3, SourceOfType DEF StartRun, Creates
  <2>2. RowsType'
    BY <2>1, <1>2, CreateType DEF RowsType, Events
  <2> QED BY <2>2, <1>3 DEF StartRun, TypeOK, RowsType
<1>4. ASSUME NEW r \in Runs, ReadRun(r) PROVE TypeOK'
  <2>1. Latest(r) \subseteq Invocations
    BY DEF Latest
  <2>2. reads' \subseteq [run : Runs, invocation : Invocations]
    BY <2>1, <1>4, <1>1 DEF ReadRun, RestType
  <2>3. EndType'
    BY <1>4, <1>1 DEF ReadRun, EndType, RowsType
  <2>4. RestType'
    BY <2>2, <1>4, <1>1 DEF ReadRun, RestType
  <2> QED BY <2>3, <2>4
<1>5. ASSUME NEW read \in reads, ResumeRun(read) PROVE TypeOK'
  <2>1. read.run \in Runs
    BY DEF TypeOK
  <2>2. PICK n \in Invocations :
          /\ runStatus' = [runStatus EXCEPT ![read.run] = "active"]
          /\ invStatus' = [invStatus EXCEPT ![n] = "pending"]
          /\ invRun' = [invRun EXCEPT ![n] = read.run]
          /\ pinned' = IF deployable THEN pinned \cup {n} ELSE pinned
          /\ owner' = [x \in Inputs |->
                        IF x \in Waiting(read.invocation) THEN n ELSE owner[x]]
    BY <1>5 DEF ResumeRun
  <2>3. RowsType'
    BY <2>1, <2>2, <1>2, <1>5 DEF ResumeRun, RowsType, RunStatuses, InvocationStatuses
  <2>4. owner' \in [Inputs -> Invocations \cup {None}]
    BY <2>2 DEF TypeOK
  <2>5. reads' \subseteq reads
    BY <1>5 DEF ResumeRun
  <2> QED BY <2>3, <2>4, <2>5, <1>5 DEF ResumeRun, TypeOK, RowsType
<1>6. ASSUME NEW read \in reads, ResumeRefused(read) PROVE TypeOK'
  BY <1>6 DEF ResumeRefused, TypeOK
<1>7. ASSUME NEW m \in Messages, NEW policy \in Policies, RouteMessage(m, policy)
      PROVE TypeOK'
  <2>1. routed' \subseteq Messages
    BY <1>7 DEF RouteMessage, TypeOK
  <2>2. CASE \E i \in Invocations : Creates(runStatus, invStatus, i, {m})
                                      /\ UNCHANGED <<held, queue>>
    <3>1. RowsType'
      BY <2>2, <1>2, CreateType DEF RowsType, Events, Inputs
    <3> QED BY <3>1, <2>1, <2>2, <1>7 DEF RouteMessage, TypeOK, RowsType
  <2>3. CASE \E i \in Live : Schedule(i, m, policy)
    <3>1. EndType' /\ origin' \in [Inputs -> Invocations \cup {None}]
      BY <2>3, <1>1, ScheduleTypes DEF Live, Inputs
    <3> QED BY <3>1, <2>1, <1>7, <1>1 DEF RouteMessage, RestType
  <2> QED BY <2>2, <2>3, <1>7, SourceOfType DEF RouteMessage, Creates
<1>8. ASSUME NEW i \in Invocations, NEW x \in Steers, NEW policy \in Policies,
             SteerInvocation(i, x, policy)
      PROVE TypeOK'
  <2>1. EndType' /\ origin' \in [Inputs -> Invocations \cup {None}]
    BY <1>8, <1>1, ScheduleTypes DEF SteerInvocation, Inputs
  <2> QED BY <2>1, <1>8, <1>1 DEF SteerInvocation, RestType
<1>9. ASSUME NEW i \in Invocations, NEW x \in Steers, QueueInput(i, x) PROVE TypeOK'
  <2>1. /\ origin' \in [Inputs -> Invocations \cup {None}]
        /\ owner' \in [Inputs -> Invocations \cup {None}]
        /\ position' \in [Inputs -> Nat]
    BY <1>9, BackType DEF QueueInput, Enqueue, TypeOK
  <2> QED BY <2>1, <1>9 DEF QueueInput, TypeOK
<1>10. ASSUME NEW i \in Invocations, CancelInvocation(i) PROVE TypeOK'
  <2>1. EndType'
    BY <1>10, <1>1, FinishTypes DEF CancelInvocation, Ends
  <2> QED BY <2>1, <1>10, <1>1 DEF CancelInvocation, Finish, RestType
<1>11. ASSUME NEW i \in Invocations, SuspendInvocation(i) PROVE TypeOK'
  BY <1>11 DEF SuspendInvocation, TypeOK, RunStatuses
<1>12. ASSUME NEW x \in Inputs, RemoveQueued(x) PROVE TypeOK'
  BY <1>12 DEF RemoveQueued, TypeOK
<1>13. ASSUME NEW x \in Inputs, MoveQueued(x) PROVE TypeOK'
  <2>1. position' \in [Inputs -> Nat]
    <3>1. \A rest : Renumber(x, rest) \in [Inputs -> Nat]
      BY RenumberType DEF TypeOK
    <3>2. \E rest : position' = Renumber(x, rest)
      BY <1>13 DEF MoveQueued
    <3> QED BY <3>1, <3>2
  <2> QED BY <2>1, <1>13 DEF MoveQueued, TypeOK
<1>14. ASSUME NEW x \in Inputs, NEW policy \in Policies, SteerQueued(x, policy)
       PROVE TypeOK'
  <2>1. PICK i \in Invocations \cup {None} :
          End(i, "canceled", "canceled", TRUE, Queue, Renumber(x, Queue \ {x}), policy)
    BY <1>14 DEF SteerQueued, Live, TypeOK
  <2>2. Renumber(x, Queue \ {x}) \in [Inputs -> Nat]
    BY RenumberType DEF TypeOK
  <2>3. EndType'
    BY <2>1, <2>2, <1>1, EndTypes DEF Queue, Ends, Closes
  <2> QED BY <2>3, <1>14, <1>1 DEF SteerQueued, RestType
<1> QED
  BY <1>3, <1>4, <1>5, <1>6, <1>7, <1>8, <1>9, <1>10, <1>11, <1>12, <1>13, <1>14
  DEF Client

\* The gateway's tasks keep the types.
LEMMA GatewayTypes == ASSUME TypeOK, Gateway PROVE TypeOK'
<1> USE TypeParts
<1> USE DEF registry, rows, held, queue, processes
<1>1. EndType /\ RestType
  OBVIOUS
<1>2. PICK i \in Invocations :
        Claim(i) \/ Task(i) \/ RenewLease(i) \/ LeaseLapses(i) \/ Expire(i)
  BY DEF Gateway
<1>3. CASE Claim(i)
  BY <1>3 DEF Claim, TypeOK, InvocationStatuses
<1>4. CASE Wake(i)
  BY <1>4 DEF Wake, TypeOK
<1>5. CASE TaskReturns(i)
  BY <1>5 DEF TaskReturns, TypeOK
<1>6. CASE TaskFails(i)
  <2>1. EndType'
    BY <1>6, <1>1, FinishTypes DEF TaskFails, Ends
  <2> QED BY <2>1, <1>6, <1>1 DEF TaskFails, Finish, RestType
<1>7. CASE TaskLost(i)
  BY <1>7 DEF TaskLost, TypeOK
<1>8. CASE RenewLease(i)
  BY <1>8 DEF RenewLease, TypeOK
<1>9. CASE LeaseLapses(i)
  BY <1>9 DEF LeaseLapses, TypeOK
<1>10. CASE Expire(i)
  <2>1. PICK policy \in Policies :
          End(i, "failed", "failed", TRUE, Waiting(i), position, policy)
    BY <1>10 DEF Expire
  <2>2. EndType'
    BY <2>1, <1>1, EndTypes DEF Waiting, Ends, Closes, EndType
  <2> QED BY <2>2, <1>10, <1>1 DEF Expire, RestType
<1> QED BY <1>2, <1>3, <1>4, <1>5, <1>6, <1>7, <1>8, <1>9, <1>10 DEF Task

\* An agent's host keeps the types.
LEMMA HostTypes == ASSUME TypeOK, Host PROVE TypeOK'
<1> USE TypeParts
<1> USE DEF registry, rows, held, queue, processes
<1>1. EndType /\ RestType
  OBVIOUS
<1>2. ASSUME NEW i \in Invocations, HostGone(i) PROVE TypeOK'
  BY <1>2 DEF HostGone, TypeOK
<1>3. ASSUME NEW i \in Invocations, NEW status \in {"stopped", "failed"}, Report(i, status)
      PROVE TypeOK'
  <2>1. EndType'
    BY <1>3, <1>1, FinishTypes DEF Report, Ends
  <2> QED BY <2>1, <1>3, <1>1 DEF Report, Finish, RestType
<1>4. ASSUME NEW i \in Invocations,
             NEW status \in {"waiting", "completed", "failed", "canceled"},
             SetRunStatus(i, status)
      PROVE TypeOK'
  <2>1. runStatus' \in [Runs -> RunStatuses]
    BY <1>4, <1>1, SetStatusType DEF SetRunStatus, EndType, RunStatuses
  <2> QED BY <2>1, <1>4 DEF SetRunStatus, TypeOK
<1> QED BY <1>2, <1>3, <1>4 DEF Host

\* Pausing, resuming and deleting the agent and changing its deployments keep them.
LEMMA RegistryTypes ==
  ASSUME TypeOK, DeployablesAssumption, Registry PROVE TypeOK'
<1> USE TypeParts
<1> USE DEF registry, rows, held, queue, processes
<1>1. EndType /\ RestType
  OBVIOUS
<1>2. CASE PauseAgent
  <2>1. CASE \E i \in Live, policy \in Policies :
               End(i, "canceled", "waiting", TRUE, Waiting(i), position, policy)
    <3>1. EndType'
      BY <2>1, <1>1, EndTypes DEF Live, Waiting, Ends, Closes, EndType
    <3> QED BY <3>1, <1>2, <1>1 DEF PauseAgent, RestType
  <2>2. CASE UNCHANGED <<rows, held, owner, accepted, position>>
    BY <2>2, <1>2 DEF PauseAgent, TypeOK
  <2> QED BY <2>1, <2>2, <1>2 DEF PauseAgent
<1>3. CASE ResumeAgent
  BY <1>3 DEF ResumeAgent, TypeOK
<1>4. CASE DeleteAgent
  <2>1. invStatus' \in [Invocations -> InvocationStatuses]
    BY <1>4 DEF DeleteAgent, TypeOK, InvocationStatuses
  <2>2. runStatus' \in [Runs -> RunStatuses]
    <3>1. \A r \in Runs : SetStatus(r, "canceled")[r] \in RunStatuses
      BY SetStatusType, <1>1 DEF EndType, RunStatuses
    <3> QED BY <3>1, <1>4 DEF DeleteAgent, TypeOK
  <2> QED BY <2>1, <2>2, <1>4 DEF DeleteAgent, TypeOK
<1>5. CASE ChangeDeployments
  BY <1>5, DeployablesAssumption DEF ChangeDeployments, TypeOK, DeployablesAssumption
<1>6. CASE ChangeAccess
  BY <1>6, AccessAssumption DEF ChangeAccess, TypeOK
<1> QED BY <1>2, <1>3, <1>4, <1>5, <1>6 DEF Registry

\* A refused request keeps the types.
LEMMA StutterTypes == ASSUME TypeOK, UNCHANGED vars PROVE TypeOK'
BY DEF TypeOK, vars, registry, rows, held, queue, processes

\* Every column of the gateway's tables holds a value of its type, whatever the
\* requests, tasks, hosts and registry do.
THEOREM TypeInvariant == Spec => []TypeOK
<1>1. Init => TypeOK
  BY InitTypes
<1>2. TypeOK /\ [Next]_vars => TypeOK'
  BY ClientTypes, GatewayTypes, HostTypes, RegistryTypes, StutterTypes,
     DeployablesAssumption DEF Next
<1> QED BY <1>1, <1>2, PTL DEF Spec

-----------------------------------------------------------------------------
(* One live invocation, and runs that follow it *)

\* What holds of the runs and invocations whatever becomes of the agent.
Exclusive == OneActiveInvocation /\ ActiveRunIsExecuted

\* The inductive invariant behind the safety theorems.
Safe == Exclusive /\ RevokedAgentRunsNothing

OnlyPending == \A j \in Live : invStatus[j] = "pending"

\* A run and an invocation created over rows nothing of which is live
LEMMA CreateExclusive ==
  ASSUME RowsType,
         NEW statuses \in [Runs -> RunStatuses],
         NEW invocations \in [Invocations -> InvocationStatuses],
         NEW n \in Invocations, NEW events,
         \A r \in Runs : statuses[r] \notin {"active", "suspending"},
         \A j \in Invocations : invocations[j] \notin {"pending", "running"},
         Creates(statuses, invocations, n, events)
  PROVE  Exclusive' /\ OnlyPending'
<1>1. PICK r \in Runs :
        /\ runStatus' = [statuses EXCEPT ![r] = "active"]
        /\ invStatus' = [invocations EXCEPT ![n] = "pending"]
        /\ invRun' = [invRun EXCEPT ![n] = r]
  BY DEF Creates, Create
<1>2. Live' = {n} /\ invStatus'[n] = "pending"
  BY <1>1 DEF Live
<1>3. invRun'[n] = r
  BY <1>1 DEF RowsType
<1>4. \A s \in Runs : runStatus'[s] \in {"active", "suspending"} => s = r
  BY <1>1
<1> QED BY <1>2, <1>3, <1>4
  DEF Exclusive, OneActiveInvocation, ActiveRunIsExecuted, OnlyPending

\* The end of the only live invocation settles its run; what it dispatches is
\* pending.
LEMMA EndExclusive ==
  ASSUME EndType, Exclusive,
         NEW i, i \in Live \/ Idle, NEW status \in Ends, NEW to \in Closes,
         NEW dispatch \in BOOLEAN, NEW waiting,
         NEW places, NEW policy,
         End(i, status, to, dispatch, waiting, places, policy)
  PROVE  Exclusive' /\ OnlyPending'
<1> DEFINE live == i \in Live
           closed == IF live THEN SetStatus(invRun[i], to) ELSE runStatus
           ended == IF live THEN [invStatus EXCEPT ![i] = status] ELSE invStatus
           chosen == Selected(Eligible(waiting), places, policy)
<1>1. RowsType
  BY DEF EndType
<1>2. closed \in [Runs -> RunStatuses] /\ ended \in [Invocations -> InvocationStatuses]
  BY <1>1, SetStatusType DEF RowsType, Closes, Ends, RunStatuses, InvocationStatuses
<1>3. \A r \in Runs : closed[r] \notin {"active", "suspending"}
  <2> SUFFICES ASSUME NEW r \in Runs, closed[r] \in {"active", "suspending"} PROVE FALSE
    OBVIOUS
  <2>1. runStatus[r] \in {"active", "suspending"}
    BY <1>1 DEF SetStatus, Open, Closes, RowsType
  <2>2. PICK j \in Live : invRun[j] = r
    BY <2>1 DEF Exclusive, ActiveRunIsExecuted
  <2>3. j = i
    BY <2>2 DEF Exclusive, OneActiveInvocation, Idle
  <2>4. closed[r] = to
    BY <2>1, <2>2, <2>3, <1>1 DEF SetStatus, Open, RowsType
  <2> QED BY <2>4 DEF Closes
<1>4. \A j \in Invocations : ended[j] \notin {"pending", "running"}
  BY <1>1 DEF Live, Idle, Ends, Exclusive, OneActiveInvocation, RowsType
<1>5. CASE dispatch /\ chosen # {}
  <2>1. PICK n \in Invocations : Creates(closed, ended, n, chosen)
    BY <1>5, SourceOfType DEF End, Creates
  <2> HIDE DEF closed, ended, chosen
  <2> QED BY <2>1, <1>1, <1>2, <1>3, <1>4, CreateExclusive
<1>6. CASE ~(dispatch /\ chosen # {})
  <2>1. runStatus' = closed /\ invStatus' = ended
    BY <1>6 DEF End
  <2> HIDE DEF closed, ended
  <2>2. Live' = {}
    BY <2>1, <1>4 DEF Live
  <2> QED BY <2>1, <2>2, <1>3
    DEF Exclusive, OneActiveInvocation, ActiveRunIsExecuted, OnlyPending
<1> QED BY <1>5, <1>6

\* finish ends the only live invocation.
LEMMA FinishExclusive ==
  ASSUME EndType, Exclusive, NEW i, NEW status \in Ends, Finish(i, status)
  PROVE  Exclusive' /\ OnlyPending'
<1> DEFINE to == CASE status = "stopped" -> "waiting"
                   [] status = "canceled" -> "canceled"
                   [] OTHER -> "failed"
           dispatch == runStatus[invRun[i]] # "suspending"
<1>1. PICK policy \in Policies :
        /\ i \in Live
        /\ End(i, status, to, dispatch, Waiting(i), position, policy)
  BY DEF Finish
<1>2. to \in Closes /\ dispatch \in BOOLEAN
  BY DEF Ends, Closes
<1> HIDE DEF to, dispatch
<1> QED BY <1>1, <1>2, EndExclusive

\* Nothing of it changes with the rest of the state.
LEMMA SameRows ==
  ASSUME Exclusive, UNCHANGED <<runStatus, invStatus, invRun>>
  PROVE  Exclusive' /\ Live' = Live /\ (OnlyPending => OnlyPending')
BY DEF Exclusive, OneActiveInvocation, ActiveRunIsExecuted, Live, OnlyPending

\* Under no policy does a new input add a live invocation to the one there is.
LEMMA ScheduleExclusive ==
  ASSUME EndType, Exclusive, NEW i \in Live, NEW x, NEW policy,
         Schedule(i, x, policy)
  PROVE  Exclusive'
<1>1. CASE policy = "interrupt"
  <2>1. End(i, "canceled", "canceled", TRUE, Waiting(i) \cup {x},
            [position EXCEPT ![x] = Back], policy)
    BY <1>1 DEF Schedule
  <2> QED BY <2>1, EndExclusive DEF Ends, Closes
<1>2. CASE policy # "interrupt"
  BY <1>2, SameRows DEF Schedule, rows
<1> QED BY <1>1, <1>2

\* A deleted agent's conversation stays idle and a paused agent's is not run.
LEMMA StillRevoked ==
  /\ agent' = "available" => RevokedAgentRunsNothing'
  /\ agent' = "paused" /\ OnlyPending' => RevokedAgentRunsNothing'
  /\ agent' # "deleted" /\ OnlyPending' => RevokedAgentRunsNothing'
BY DEF RevokedAgentRunsNothing, Idle, OnlyPending

\* A step that changes neither the agent nor an invocation's status.
LEMMA SameRevoked ==
  ASSUME RevokedAgentRunsNothing, UNCHANGED <<agent, invStatus>>
  PROVE  RevokedAgentRunsNothing'
BY DEF RevokedAgentRunsNothing, Idle, Live

\* A live invocation's agent is not deleted.
LEMMA LiveNotDeleted ==
  ASSUME RevokedAgentRunsNothing, Live # {}
  PROVE  agent # "deleted"
BY DEF RevokedAgentRunsNothing, Idle

\* An action that only ends an invocation of an agent it leaves alone
LEMMA FinishSafe ==
  ASSUME TypeOK, Safe, NEW i, NEW status \in Ends, Finish(i, status)
  PROVE  Safe'
<1>1. EndType /\ agent' = agent /\ i \in Live
  BY TypeParts DEF Finish, registry
<1>2. Exclusive' /\ OnlyPending'
  BY <1>1, FinishExclusive DEF Safe
<1> QED BY <1>1, <1>2, LiveNotDeleted, StillRevoked DEF Safe

-----------------------------------------------------------------------------
\* The empty tables are safe.
LEMMA InitSafe == Init => Safe
BY DEF Init, Safe, Exclusive, OneActiveInvocation, ActiveRunIsExecuted,
       RevokedAgentRunsNothing, Idle, Live

\* Requests of users, applications and tools: none adds a second live invocation.
LEMMA ClientSafe == ASSUME TypeOK, Safe, Client PROVE Safe'
<1> USE DEF registry, rows, held, queue, processes
<1>1. EndType /\ RowsType /\ Exclusive /\ RevokedAgentRunsNothing
  BY TypeParts DEF EndType, Safe
<1>2. Idle => \A r \in Runs : runStatus[r] \notin {"active", "suspending"}
  BY <1>1 DEF Idle, Exclusive, ActiveRunIsExecuted
<1>3. Idle => \A j \in Invocations : invStatus[j] \notin {"pending", "running"}
  BY DEF Idle, Live
<1>4. ASSUME NEW i \in Invocations, NEW events, Idle,
             Creates(runStatus, invStatus, i, events)
      PROVE  Exclusive' /\ OnlyPending'
  <2>1. runStatus \in [Runs -> RunStatuses] /\ invStatus \in [Invocations -> InvocationStatuses]
    BY <1>1 DEF RowsType
  <2> QED BY <2>1, <1>1, <1>2, <1>3, <1>4, CreateExclusive
<1>5. ASSUME NEW q \in Requests, StartRun(q) PROVE Safe'
  <2>1. Exclusive' /\ OnlyPending'
    BY <1>4, <1>5, SourceOfType DEF StartRun, Creates
  <2>2. agent' = "available"
    BY <1>5 DEF StartRun, Available
  <2> QED BY <2>1, <2>2, StillRevoked DEF Safe
<1>6. ASSUME NEW r \in Runs, ReadRun(r) PROVE Safe'
  BY <1>6, <1>1, SameRows, SameRevoked DEF ReadRun, Safe
<1>7. ASSUME NEW read \in reads, ResumeRun(read) PROVE Safe'
  <2>1. read.run \in Runs /\ Idle
    BY <1>7 DEF TypeOK, ResumeRun
  <2>2. PICK n \in Invocations :
          /\ runStatus' = [runStatus EXCEPT ![read.run] = "active"]
          /\ invStatus' = [invStatus EXCEPT ![n] = "pending"]
          /\ invRun' = [invRun EXCEPT ![n] = read.run]
    BY <1>7 DEF ResumeRun
  <2>3. Live' = {n}
    BY <2>1, <2>2, <1>1, <1>3 DEF Live, RowsType
  <2>4. \A s \in Runs : runStatus'[s] \in {"active", "suspending"} => s = read.run
    BY <2>1, <2>2, <1>1, <1>2 DEF RowsType
  <2>5. invRun'[n] = read.run
    BY <2>2, <1>1 DEF RowsType
  <2>6. agent' = "available"
    BY <1>7 DEF ResumeRun, Available
  <2> QED BY <2>3, <2>4, <2>5, <2>6, StillRevoked
    DEF Safe, Exclusive, OneActiveInvocation, ActiveRunIsExecuted
<1>8. ASSUME NEW read \in reads, ResumeRefused(read) PROVE Safe'
  BY <1>8, <1>1, SameRows, SameRevoked DEF ResumeRefused, Safe
<1>9. ASSUME NEW m \in Messages, NEW policy \in Policies, RouteMessage(m, policy)
      PROVE Safe'
  <2>1. agent' = "available"
    BY <1>9 DEF RouteMessage, Available
  <2>2. CASE Idle /\ \E i \in Invocations : Creates(runStatus, invStatus, i, {m})
    BY <2>1, <2>2, <1>4, StillRevoked DEF Safe
  <2>3. CASE \E i \in Live : Schedule(i, m, policy)
    BY <2>1, <2>3, <1>1, ScheduleExclusive, StillRevoked DEF Safe
  <2> QED BY <2>2, <2>3, <1>9, SourceOfType DEF RouteMessage, Creates
<1>10. ASSUME NEW i \in Invocations, NEW x \in Steers, NEW policy \in Policies,
              SteerInvocation(i, x, policy)
       PROVE Safe'
  <2>1. agent' = "available"
    BY <1>10 DEF SteerInvocation, Available
  <2>2. Exclusive'
    BY <1>10, <1>1, ScheduleExclusive DEF SteerInvocation
  <2> QED BY <2>1, <2>2, StillRevoked DEF Safe
<1>11. ASSUME NEW i \in Invocations, NEW x \in Steers, QueueInput(i, x) PROVE Safe'
  BY <1>11, <1>1, SameRows, SameRevoked DEF QueueInput, Safe
<1>12. ASSUME NEW i \in Invocations, CancelInvocation(i) PROVE Safe'
  BY <1>12, FinishSafe DEF CancelInvocation, Ends
<1>13. ASSUME NEW i \in Invocations, SuspendInvocation(i) PROVE Safe'
  <2>1. invRun[i] \in Runs \/ runStatus' = runStatus
    BY <1>13, <1>1 DEF SuspendInvocation, RowsType
  <2>2. /\ i \in Live
        /\ runStatus' = [runStatus EXCEPT ![invRun[i]] = "suspending"]
        /\ UNCHANGED <<agent, invStatus, invRun>>
    BY <1>13 DEF SuspendInvocation, Live
  <2>3. Live' = Live /\ OneActiveInvocation'
    BY <2>2, <1>1 DEF Live, Exclusive, OneActiveInvocation
  <2>4. ActiveRunIsExecuted'
    BY <2>1, <2>2, <2>3, <1>1 DEF Exclusive, ActiveRunIsExecuted, RowsType
  <2> QED BY <2>2, <2>3, <2>4, <1>1, SameRevoked DEF Safe, Exclusive
<1>14. ASSUME NEW x \in Inputs, RemoveQueued(x) PROVE Safe'
  BY <1>14, <1>1, SameRows, SameRevoked DEF RemoveQueued, Safe
<1>15. ASSUME NEW x \in Inputs, MoveQueued(x) PROVE Safe'
  BY <1>15, <1>1, SameRows, SameRevoked DEF MoveQueued, Safe
<1>16. ASSUME NEW x \in Inputs, NEW policy \in Policies, SteerQueued(x, policy)
       PROVE Safe'
  <2>1. agent' = "available"
    BY <1>16 DEF SteerQueued, Available
  <2>2. PICK i : /\ i \in Live \/ Idle
                 /\ End(i, "canceled", "canceled", TRUE, Queue,
                        Renumber(x, Queue \ {x}), policy)
    BY <1>16 DEF SteerQueued
  <2>3. Exclusive'
    BY <2>2, <1>1, EndExclusive DEF Ends, Closes
  <2> QED BY <2>1, <2>3, StillRevoked DEF Safe
<1> QED
  BY <1>5, <1>6, <1>7, <1>8, <1>9, <1>10, <1>11, <1>12, <1>13, <1>14, <1>15, <1>16
  DEF Client

\* The gateway's tasks claim what is pending and end what is live.
LEMMA GatewaySafe == ASSUME TypeOK, Safe, Gateway PROVE Safe'
<1> USE DEF registry, rows, held, queue, processes
<1>1. EndType /\ RowsType /\ Exclusive /\ RevokedAgentRunsNothing
  BY TypeParts DEF EndType, Safe
<1>2. PICK i \in Invocations :
        Claim(i) \/ Task(i) \/ RenewLease(i) \/ LeaseLapses(i) \/ Expire(i)
  BY DEF Gateway
<1>3. CASE Claim(i)
  <2>1. /\ agent' = "available"
        /\ i \in Live /\ invStatus' = [invStatus EXCEPT ![i] = "running"]
        /\ UNCHANGED <<runStatus, invRun>>
    BY <1>3 DEF Claim, Available, Live
  <2>2. Live' = Live
    BY <2>1, <1>1 DEF Live, RowsType
  <2>3. Exclusive'
    BY <2>1, <2>2, <1>1 DEF Exclusive, OneActiveInvocation, ActiveRunIsExecuted
  <2> QED BY <2>1, <2>3, StillRevoked DEF Safe
<1>4. CASE TaskFails(i)
  BY <1>4, FinishSafe DEF TaskFails, Ends
<1>5. CASE Wake(i) \/ TaskReturns(i) \/ TaskLost(i) \/ RenewLease(i) \/ LeaseLapses(i)
  <2>1. UNCHANGED <<agent, runStatus, invStatus, invRun>>
    BY <1>5 DEF Wake, TaskReturns, TaskLost, RenewLease, LeaseLapses
  <2> QED BY <2>1, <1>1, SameRows, SameRevoked DEF Safe
<1>6. CASE Expire(i)
  <2>1. i \in Live /\ agent' = agent
    BY <1>6 DEF Expire, Live
  <2>2. PICK policy \in Policies :
          End(i, "failed", "failed", TRUE, Waiting(i), position, policy)
    BY <1>6 DEF Expire
  <2>3. Exclusive' /\ OnlyPending'
    BY <2>1, <2>2, <1>1, EndExclusive DEF Ends, Closes
  <2> QED BY <2>1, <2>3, <1>1, LiveNotDeleted, StillRevoked DEF Safe
<1> QED BY <1>2, <1>3, <1>4, <1>5, <1>6 DEF Task

\* An agent's host, reporting late or twice, changes only what is live.
LEMMA HostSafe == ASSUME TypeOK, Safe, Host PROVE Safe'
<1> USE DEF registry, rows, held, queue, processes
<1>1. EndType /\ RowsType /\ Exclusive /\ RevokedAgentRunsNothing
  BY TypeParts DEF EndType, Safe
<1>2. ASSUME NEW i \in Invocations, HostGone(i) PROVE Safe'
  BY <1>2, <1>1, SameRows, SameRevoked DEF HostGone, Safe
<1>3. ASSUME NEW i \in Invocations, NEW status \in {"stopped", "failed"}, Report(i, status)
      PROVE Safe'
  BY <1>3, FinishSafe DEF Report, Ends
<1>4. ASSUME NEW i \in Invocations,
             NEW status \in {"waiting", "completed", "failed", "canceled"},
             SetRunStatus(i, status)
      PROVE Safe'
  <2>1. runStatus' = SetStatus(invRun[i], status) /\ UNCHANGED <<agent, invStatus, invRun>>
    BY <1>4 DEF SetRunStatus
  <2>2. \A r \in Runs : runStatus'[r] \in {"active", "suspending"} => runStatus'[r] = runStatus[r]
    BY <2>1, <1>1 DEF SetStatus, RowsType
  <2>3. Exclusive'
    BY <2>1, <2>2, <1>1 DEF Exclusive, OneActiveInvocation, ActiveRunIsExecuted, Live
  <2> QED BY <2>1, <2>3, <1>1, SameRevoked DEF Safe
<1> QED BY <1>2, <1>3, <1>4 DEF Host

\* Pausing and deleting the agent end what it runs, in the same transaction.
LEMMA RegistrySafe == ASSUME TypeOK, Safe, Registry PROVE Safe'
<1> USE DEF registry, rows, held, queue, processes
<1>1. EndType /\ RowsType /\ Exclusive /\ RevokedAgentRunsNothing
  BY TypeParts DEF EndType, Safe
<1>2. CASE PauseAgent
  <2>1. CASE \E i \in Live, policy \in Policies :
               End(i, "canceled", "waiting", TRUE, Waiting(i), position, policy)
    <3>1. Exclusive' /\ OnlyPending'
      BY <2>1, <1>1, EndExclusive DEF Ends, Closes
    <3> QED BY <3>1, <1>2, StillRevoked DEF PauseAgent, Safe
  <2>2. CASE (\A i \in Live : invStatus[i] = "pending") /\ UNCHANGED rows
    <3>1. Exclusive' /\ OnlyPending'
      BY <2>2, <1>1, SameRows DEF OnlyPending
    <3> QED BY <3>1, <1>2, StillRevoked DEF PauseAgent, Safe
  <2> QED BY <2>1, <2>2, <1>2 DEF PauseAgent
<1>3. CASE ResumeAgent
  <2>1. agent' = "available" /\ UNCHANGED <<runStatus, invStatus, invRun>>
    BY <1>3 DEF ResumeAgent
  <2> QED BY <2>1, <1>1, SameRows, StillRevoked DEF Safe
<1>4. CASE DeleteAgent
  <2>1. Live' = {}
    BY <1>4, <1>1 DEF DeleteAgent, Live, RowsType
  <2>2. \A r \in Runs : runStatus'[r] \notin {"active", "suspending"}
    BY <1>4, <1>1
    DEF DeleteAgent, SetStatus, Open, RowsType, Exclusive, ActiveRunIsExecuted
  <2> QED BY <2>1, <2>2
    DEF Safe, Exclusive, OneActiveInvocation, ActiveRunIsExecuted,
        RevokedAgentRunsNothing, Idle
<1>5. CASE ChangeDeployments
  BY <1>5, <1>1, SameRows, SameRevoked DEF ChangeDeployments, Safe
<1>6. CASE ChangeAccess
  BY <1>6, <1>1, SameRows, SameRevoked DEF ChangeAccess, Safe
<1> QED BY <1>2, <1>3, <1>4, <1>5, <1>6 DEF Registry

\* The inductive invariant of the next three theorems: one live invocation at most,
\* an active or suspending run has it, and a paused or deleted agent runs nothing.
THEOREM SafeInvariant == Spec => []Safe
<1>1. Init => Safe
  BY InitSafe
<1>2. TypeOK /\ Safe /\ [Next]_vars => Safe'
  <2>1. CASE UNCHANGED vars
    BY <2>1, SameRows, SameRevoked DEF Safe, vars, registry, rows
  <2> QED BY <2>1, ClientSafe, GatewaySafe, HostSafe, RegistrySafe DEF Next
<1> QED BY <1>1, <1>2, TypeInvariant, PTL DEF Spec

\* At most one invocation of a conversation is pending or running.
THEOREM OneActive == Spec => []OneActiveInvocation
<1>1. Safe => OneActiveInvocation
  BY DEF Safe, Exclusive
<1> QED BY <1>1, SafeInvariant, PTL

\* An active or suspending run always has a live invocation.
THEOREM ActiveRunsAreExecuted == Spec => []ActiveRunIsExecuted
<1>1. Safe => ActiveRunIsExecuted
  BY DEF Safe, Exclusive
<1> QED BY <1>1, SafeInvariant, PTL

\* A paused agent runs nothing and a deleted one has nothing live.
THEOREM RevokedAgents == Spec => []RevokedAgentRunsNothing
<1>1. Safe => RevokedAgentRunsNothing
  BY DEF Safe
<1> QED BY <1>1, SafeInvariant, PTL

-----------------------------------------------------------------------------
(* What has ended stays ended *)

\* EndedStaysEnded, as a fact about one step.
FinalRowsKept ==
  /\ \A i \in Invocations :
       invStatus[i] \notin {"none", "pending", "running"} => invStatus'[i] = invStatus[i]
  /\ \A r \in Runs :
       runStatus[r] \in {"completed", "canceled"} => runStatus'[r] = runStatus[r]

\* A row is created where there is none, over statuses that keep what is final.
LEMMA CreateKeeps ==
  ASSUME RowsType,
         NEW statuses \in [Runs -> RunStatuses],
         NEW invocations \in [Invocations -> InvocationStatuses],
         NEW n \in Invocations, NEW events,
         \A r \in Runs :
           runStatus[r] \in {"none", "completed", "canceled"} => statuses[r] = runStatus[r],
         \A j \in Invocations :
           invStatus[j] \notin {"pending", "running"} => invocations[j] = invStatus[j],
         Creates(statuses, invocations, n, events)
  PROVE  FinalRowsKept
<1>1. PICK r \in Runs :
        /\ runStatus[r] = "none" /\ invStatus[n] = "none"
        /\ runStatus' = [statuses EXCEPT ![r] = "active"]
        /\ invStatus' = [invocations EXCEPT ![n] = "pending"]
  BY DEF Creates, Create, NewRun, NewInvocation
<1>2. \A j \in Invocations :
        invStatus[j] \notin {"none", "pending", "running"} => invStatus'[j] = invStatus[j]
  BY <1>1
<1>3. \A s \in Runs :
        runStatus[s] \in {"completed", "canceled"} => runStatus'[s] = runStatus[s]
  BY <1>1
<1> QED BY <1>2, <1>3 DEF FinalRowsKept

\* The end of an invocation writes no status over a final one.
LEMMA EndKeeps ==
  ASSUME RowsType, NEW i, NEW status \in Ends, NEW to \in Closes,
         NEW dispatch, NEW waiting, NEW places, NEW policy,
         End(i, status, to, dispatch, waiting, places, policy)
  PROVE  FinalRowsKept
<1> DEFINE live == i \in Live
           closed == IF live THEN SetStatus(invRun[i], to) ELSE runStatus
           ended == IF live THEN [invStatus EXCEPT ![i] = status] ELSE invStatus
           chosen == Selected(Eligible(waiting), places, policy)
<1>1. closed \in [Runs -> RunStatuses] /\ ended \in [Invocations -> InvocationStatuses]
  BY SetStatusType DEF RowsType, Closes, Ends, RunStatuses, InvocationStatuses
<1>2. \A r \in Runs :
        runStatus[r] \in {"none", "completed", "canceled"} => closed[r] = runStatus[r]
  BY DEF SetStatus, Open, RowsType
<1>3. \A j \in Invocations :
        invStatus[j] \notin {"pending", "running"} => ended[j] = invStatus[j]
  BY DEF Live, RowsType
<1>4. CASE dispatch /\ chosen # {}
  <2>1. PICK n \in Invocations : Creates(closed, ended, n, chosen)
    BY <1>4, SourceOfType DEF End, Creates
  <2> HIDE DEF closed, ended, chosen
  <2> QED BY <2>1, <1>1, <1>2, <1>3, CreateKeeps
<1>5. CASE ~(dispatch /\ chosen # {})
  <2>1. runStatus' = closed /\ invStatus' = ended
    BY <1>5 DEF End
  <2> HIDE DEF closed, ended
  <2> QED BY <2>1, <1>2, <1>3 DEF FinalRowsKept
<1> QED BY <1>4, <1>5

\* Neither does finish.
LEMMA FinishKeeps ==
  ASSUME RowsType, NEW i, NEW status \in Ends, Finish(i, status)
  PROVE  FinalRowsKept
<1> DEFINE to == CASE status = "stopped" -> "waiting"
                   [] status = "canceled" -> "canceled"
                   [] OTHER -> "failed"
           dispatch == runStatus[invRun[i]] # "suspending"
<1>1. PICK policy \in Policies :
        End(i, status, to, dispatch, Waiting(i), position, policy)
  BY DEF Finish
<1>2. to \in Closes
  BY DEF Ends, Closes
<1> HIDE DEF to, dispatch
<1> QED BY <1>1, <1>2, EndKeeps

\* A step that changes no status.
LEMMA SameKeeps ==
  ASSUME UNCHANGED <<runStatus, invStatus>> PROVE FinalRowsKept
BY DEF FinalRowsKept

\* A new input writes no status over a final one.
LEMMA ScheduleKeeps ==
  ASSUME RowsType, NEW i, NEW x, NEW policy, Schedule(i, x, policy)
  PROVE  FinalRowsKept
<1>1. CASE policy = "interrupt"
  <2>1. End(i, "canceled", "canceled", TRUE, Waiting(i) \cup {x},
            [position EXCEPT ![x] = Back], policy)
    BY <1>1 DEF Schedule
  <2> QED BY <2>1, EndKeeps DEF Ends, Closes
<1>2. CASE policy # "interrupt"
  BY <1>2, SameKeeps DEF Schedule, rows
<1> QED BY <1>1, <1>2

\* No step does.
LEMMA StepKeeps == ASSUME TypeOK, Next PROVE FinalRowsKept
<1> USE DEF registry, rows, held, queue, processes
<1>1. RowsType
  BY TypeParts DEF EndType
<1>2. ASSUME NEW i \in Invocations, NEW events, Creates(runStatus, invStatus, i, events)
      PROVE  FinalRowsKept
  <2>1. runStatus \in [Runs -> RunStatuses] /\ invStatus \in [Invocations -> InvocationStatuses]
    BY <1>1 DEF RowsType
  <2> QED BY <2>1, <1>1, <1>2, CreateKeeps
<1>3. CASE Client
  <2>1. ASSUME NEW q \in Requests, StartRun(q) PROVE FinalRowsKept
    BY <2>1, <1>2, SourceOfType DEF StartRun, Creates
  <2>2. ASSUME NEW read \in reads, ResumeRun(read) PROVE FinalRowsKept
    <3>1. PICK n \in Invocations :
            /\ invStatus[n] = "none"
            /\ runStatus[read.run] \in {"waiting", "failed"}
            /\ runStatus' = [runStatus EXCEPT ![read.run] = "active"]
            /\ invStatus' = [invStatus EXCEPT ![n] = "pending"]
      BY <2>2 DEF ResumeRun, NewInvocation
    <3> QED BY <3>1, <1>1 DEF FinalRowsKept, RowsType
  <2>3. ASSUME NEW m \in Messages, NEW policy \in Policies, RouteMessage(m, policy)
        PROVE FinalRowsKept
    BY <2>3, <1>1, <1>2, ScheduleKeeps, SourceOfType DEF RouteMessage, Creates
  <2>4. ASSUME NEW i \in Invocations, NEW x \in Steers, NEW policy \in Policies,
               SteerInvocation(i, x, policy)
        PROVE FinalRowsKept
    BY <2>4, <1>1, ScheduleKeeps DEF SteerInvocation
  <2>5. ASSUME NEW i \in Invocations, CancelInvocation(i) PROVE FinalRowsKept
    BY <2>5, <1>1, FinishKeeps DEF CancelInvocation, Ends
  <2>6. ASSUME NEW i \in Invocations, SuspendInvocation(i) PROVE FinalRowsKept
    BY <2>6, <1>1 DEF SuspendInvocation, FinalRowsKept, RowsType
  <2>7. ASSUME NEW x \in Inputs, NEW policy \in Policies, SteerQueued(x, policy)
        PROVE FinalRowsKept
    BY <2>7, <1>1, EndKeeps DEF SteerQueued, Ends, Closes
  <2>8. ASSUME NEW r \in Runs, ReadRun(r) PROVE FinalRowsKept
    BY <2>8, SameKeeps DEF ReadRun
  <2>9. ASSUME NEW read \in reads, ResumeRefused(read) PROVE FinalRowsKept
    BY <2>9, SameKeeps DEF ResumeRefused
  <2>10. ASSUME NEW i \in Invocations, NEW x \in Steers, QueueInput(i, x) PROVE FinalRowsKept
    BY <2>10, SameKeeps DEF QueueInput
  <2>11. ASSUME NEW x \in Inputs, RemoveQueued(x) \/ MoveQueued(x) PROVE FinalRowsKept
    BY <2>11, SameKeeps DEF RemoveQueued, MoveQueued
  <2> QED BY <1>3, <2>1, <2>2, <2>3, <2>4, <2>5, <2>6, <2>7, <2>8, <2>9, <2>10, <2>11
          DEF Client
<1>4. CASE Gateway
  <2>1. PICK i \in Invocations :
          Claim(i) \/ Task(i) \/ RenewLease(i) \/ LeaseLapses(i) \/ Expire(i)
    BY <1>4 DEF Gateway
  <2>2. CASE Claim(i)
    BY <2>2, <1>1 DEF Claim, FinalRowsKept, RowsType
  <2>3. CASE TaskFails(i)
    BY <2>3, <1>1, FinishKeeps DEF TaskFails, Ends
  <2>4. CASE Wake(i) \/ TaskReturns(i) \/ TaskLost(i) \/ RenewLease(i) \/ LeaseLapses(i)
    BY <2>4, SameKeeps DEF Wake, TaskReturns, TaskLost, RenewLease, LeaseLapses
  <2>5. CASE Expire(i)
    BY <2>5, <1>1, EndKeeps DEF Expire, Ends, Closes
  <2> QED BY <2>1, <2>2, <2>3, <2>4, <2>5 DEF Task
<1>5. CASE Host
  <2>1. ASSUME NEW i \in Invocations, HostGone(i) PROVE FinalRowsKept
    BY <2>1, SameKeeps DEF HostGone
  <2>2. ASSUME NEW i \in Invocations, NEW status \in {"stopped", "failed"}, Report(i, status)
        PROVE FinalRowsKept
    BY <2>2, <1>1, FinishKeeps DEF Report, Ends
  <2>3. ASSUME NEW i \in Invocations, NEW status, SetRunStatus(i, status)
        PROVE FinalRowsKept
    BY <2>3, <1>1 DEF SetRunStatus, SetStatus, Open, FinalRowsKept, RowsType
  <2> QED BY <1>5, <2>1, <2>2, <2>3 DEF Host
<1>6. CASE Registry
  <2>1. CASE PauseAgent
    <3>1. CASE \E i \in Live, policy \in Policies :
                 End(i, "canceled", "waiting", TRUE, Waiting(i), position, policy)
      BY <3>1, <1>1, EndKeeps DEF Ends, Closes
    <3>2. CASE UNCHANGED rows
      BY <3>2, SameKeeps
    <3> QED BY <3>1, <3>2, <2>1 DEF PauseAgent
  <2>2. CASE DeleteAgent
    BY <2>2, <1>1 DEF DeleteAgent, SetStatus, Open, Live, FinalRowsKept, RowsType
  <2>3. CASE ResumeAgent \/ ChangeDeployments \/ ChangeAccess
    BY <2>3, SameKeeps DEF ResumeAgent, ChangeDeployments, ChangeAccess
  <2> QED BY <1>6, <2>1, <2>2, <2>3 DEF Registry
<1> QED BY <1>3, <1>4, <1>5, <1>6 DEF Next

\* An invocation that has ended and a run that is completed or canceled keep their
\* status, whatever request, report, expiry or pause comes late.
THEOREM EndedIsFinal == Spec => EndedStaysEnded
<1>1. TypeOK /\ [Next]_vars => [FinalRowsKept]_vars
  BY StepKeeps
<1>2. Spec => [][FinalRowsKept]_vars
  BY <1>1, TypeInvariant, PTL DEF Spec
<1> QED BY <1>2 DEF EndedStaysEnded, FinalRowsKept

-----------------------------------------------------------------------------
(* Every event is dispatched once *)

InObjective(x) == \E r \in Runs : x \in objective[r]

\* The inductive invariant: an event is fresh until a start, a route or a steer
\* takes it in; an input in the queue is in no objective.
Dispatched ==
  /\ \A r, s \in Runs : r # s => objective[r] \cap objective[s] = {}
  /\ \A x \in Inputs : InObjective(x) /\ origin[x] # None => accepted[x]
  /\ \A x \in Inputs : owner[x] # None <=> origin[x] # None
  /\ \A m \in Messages : InObjective(m) \/ origin[m] # None => m \in routed
  /\ \A x \in Steers : InObjective(x) => origin[x] # None

\* Events that may go into an objective.
Fresh(events) == \A x \in events : ~InObjective(x)

\* What a run's creation does to the objectives.
LEMMA CreateObjective ==
  ASSUME RowsType, NEW statuses, NEW invocations, NEW n, NEW events,
         Fresh(events),
         \A r, s \in Runs : r # s => objective[r] \cap objective[s] = {},
         Creates(statuses, invocations, n, events)
  PROVE  /\ \A r, s \in Runs : r # s => objective'[r] \cap objective'[s] = {}
         /\ \A x : InObjective(x)' => InObjective(x) \/ x \in events
<1>1. PICK r \in Runs : objective' = [objective EXCEPT ![r] = events]
  BY DEF Creates, Create
<1>2. objective'[r] = events /\ \A s \in Runs : s # r => objective'[s] = objective[s]
  BY <1>1 DEF RowsType
<1>3. \A s \in Runs : events \cap objective[s] = {}
  BY DEF Fresh, InObjective
<1> QED BY <1>2, <1>3 DEF InObjective

\* The inputs an invocation's end dispatches are accepted, and were in no
\* objective before.
LEMMA EndDispatches ==
  ASSUME EndType, Dispatched, routed \subseteq routed',
         NEW i, i # None, NEW status, NEW to, NEW dispatch, NEW waiting \in SUBSET Inputs,
         NEW places, NEW policy,
         origin' \in [Inputs -> Invocations \cup {None}],
         \A x \in Inputs : origin[x] # None => origin'[x] # None,
         \A x \in Inputs : origin'[x] # origin[x] => x \in waiting /\ ~InObjective(x),
         \A m \in Messages : origin'[m] # None => m \in routed',
         \A x \in waiting : ~InObjective(x) /\ origin'[x] # None,
         End(i, status, to, dispatch, waiting, places, policy)
  PROVE  Dispatched'
<1> DEFINE live == i \in Live
           closed == IF live THEN SetStatus(invRun[i], to) ELSE runStatus
           ended == IF live THEN [invStatus EXCEPT ![i] = status] ELSE invStatus
           chosen == Selected(Eligible(waiting), places, policy)
<1>1. chosen \subseteq waiting
  BY ChosenWaits
<1>2. CASE dispatch /\ chosen # {}
  <2>1. PICK n \in Invocations :
          /\ Creates(closed, ended, n, chosen)
          /\ owner' = [x \in Inputs |-> IF x \in waiting THEN n ELSE owner[x]]
          /\ accepted' = [x \in Inputs |-> accepted[x] \/ x \in chosen]
    BY <1>2, SourceOfType DEF End, Creates
  <2> HIDE DEF closed, ended, chosen
  <2>2. /\ \A r, s \in Runs : r # s => objective'[r] \cap objective'[s] = {}
        /\ \A x : InObjective(x)' => InObjective(x) \/ x \in chosen
    BY <1>1, <2>1, CreateObjective DEF Fresh, EndType, Dispatched
  <2>3. \A x \in Inputs : InObjective(x)' /\ origin'[x] # None => accepted'[x]
    BY <2>1, <2>2 DEF Dispatched
  <2>4. \A x \in Inputs : owner'[x] # None <=> origin'[x] # None
    BY <2>1 DEF Dispatched
  <2>5. \A m \in Messages : InObjective(m)' \/ origin'[m] # None => m \in routed'
    BY <1>1, <2>2 DEF Dispatched
  <2>6. \A x \in Steers : InObjective(x)' => origin'[x] # None
    BY <1>1, <2>2 DEF Dispatched, Inputs
  <2> QED BY <2>2, <2>3, <2>4, <2>5, <2>6 DEF Dispatched
<1>3. CASE ~(dispatch /\ chosen # {})
  <2>1. /\ UNCHANGED <<objective, accepted>>
        /\ owner' = [x \in Inputs |-> IF x \in waiting THEN i ELSE owner[x]]
    BY <1>3 DEF End
  <2>2. \A x : InObjective(x)' <=> InObjective(x)
    BY <2>1 DEF InObjective
  <2>3. \A x \in Inputs : InObjective(x)' /\ origin'[x] # None => accepted'[x]
    BY <2>1, <2>2 DEF Dispatched
  <2>4. \A x \in Inputs : owner'[x] # None <=> origin'[x] # None
    BY <2>1 DEF Dispatched
  <2> QED BY <2>1, <2>2, <2>3, <2>4 DEF Dispatched, Inputs
<1> QED BY <1>2, <1>3

\* A step that changes none of these columns.
LEMMA SameDispatched ==
  ASSUME Dispatched, UNCHANGED <<objective, origin, owner, accepted, routed>>
  PROVE  Dispatched'
BY DEF Dispatched, InObjective

\* An input of the queue is in no objective.
LEMMA QueuedIsFresh ==
  ASSUME Dispatched
  PROVE  /\ \A x \in Queue : ~InObjective(x) /\ origin[x] # None
         /\ \A i : i # None => Waiting(i) \subseteq Queue
BY DEF Dispatched, Queue, Waiting

\* The end of a live invocation, or one whose inputs are the whole queue, when the
\* queue itself is left alone.
LEMMA EndQueue ==
  ASSUME EndType, RestType, Dispatched, UNCHANGED <<origin, routed>>,
         NEW i, i # None, NEW status, NEW to, NEW dispatch, NEW waiting \in SUBSET Queue,
         NEW places, NEW policy,
         End(i, status, to, dispatch, waiting, places, policy)
  PROVE  Dispatched'
<1>1. waiting \in SUBSET Inputs
  BY DEF Queue
<1>2. \A x \in waiting : ~InObjective(x) /\ origin'[x] # None
  BY QueuedIsFresh
<1>3. \A m \in Messages : origin'[m] # None => m \in routed
  BY DEF Dispatched
<1>4. origin' \in [Inputs -> Invocations \cup {None}]
  BY DEF RestType
<1> QED BY <1>1, <1>2, <1>3, <1>4, EndDispatches

\* finish dispatches only what waits on the invocation.
LEMMA FinishDispatched ==
  ASSUME EndType, RestType, Dispatched, NEW i, NEW status, Finish(i, status)
  PROVE  Dispatched'
<1> DEFINE to == CASE status = "stopped" -> "waiting"
                   [] status = "canceled" -> "canceled"
                   [] OTHER -> "failed"
           dispatch == runStatus[invRun[i]] # "suspending"
<1>1. PICK policy \in Policies :
        /\ i \in Live /\ UNCHANGED <<origin, routed>>
        /\ End(i, status, to, dispatch, Waiting(i), position, policy)
  BY DEF Finish
<1>2. i # None /\ Waiting(i) \in SUBSET Queue
  BY <1>1, QueuedIsFresh DEF Live
<1> HIDE DEF to, dispatch
<1> QED BY <1>1, <1>2, EndQueue

\* A fresh input is scheduled on a live invocation under any policy.
LEMMA ScheduleDispatched ==
  ASSUME EndType, RestType, Dispatched, routed \subseteq routed',
         NEW i \in Live, NEW x \in Inputs, NEW policy,
         ~InObjective(x), x \in Messages => x \in routed',
         Schedule(i, x, policy)
  PROVE  Dispatched'
<1>1. i \in Invocations /\ i # None
  BY DEF Live
<1>2. CASE policy = "interrupt"
  <2>1. /\ origin' = [origin EXCEPT ![x] = i]
        /\ End(i, "canceled", "canceled", TRUE, Waiting(i) \cup {x},
               [position EXCEPT ![x] = Back], policy)
    BY <1>2 DEF Schedule
  <2>2. /\ origin' \in [Inputs -> Invocations \cup {None}]
        /\ origin'[x] = i
        /\ \A y \in Inputs : y # x => origin'[y] = origin[y]
    BY <1>1, <2>1 DEF RestType
  <2>3. \A y \in Waiting(i) : ~InObjective(y) /\ origin[y] # None /\ y \in Inputs
    BY <1>1, QueuedIsFresh DEF Waiting
  <2>4. \A y \in Waiting(i) \cup {x} : ~InObjective(y) /\ origin'[y] # None
    BY <1>1, <2>2, <2>3
  <2>5. \A m \in Messages : origin'[m] # None => m \in routed'
    BY <2>2 DEF Dispatched, Inputs
  <2>6. \A y \in Inputs : origin[y] # None => origin'[y] # None
    BY <1>1, <2>2
  <2>7. \A y \in Inputs : origin'[y] # origin[y] => y \in Waiting(i) \cup {x} /\ ~InObjective(y)
    BY <2>2
  <2>8. Waiting(i) \cup {x} \in SUBSET Inputs
    BY <2>3
  <2> QED BY <2>1, <2>2, <2>4, <2>5, <2>6, <2>7, <2>8, EndDispatches
<1>3. CASE policy # "interrupt"
  <2>1. Enqueue(i, x)
    BY <1>3 DEF Schedule
  <2>2. /\ origin'[x] = i /\ owner'[x] = i
        /\ \A y \in Inputs : y # x => origin'[y] = origin[y] /\ owner'[y] = owner[y]
    BY <2>1, <1>1 DEF Enqueue, EndType, RestType
  <2>3. CASE /\ accepted' = [accepted EXCEPT ![x] = TRUE]
             /\ objective' = [objective EXCEPT ![invRun[i]] = @ \cup {x}]
    <3>1. \A r \in Runs :
            objective'[r] = IF r = invRun[i] THEN objective[r] \cup {x} ELSE objective[r]
      BY <2>3 DEF EndType, RowsType
    <3>2. \A y : InObjective(y)' => InObjective(y) \/ y = x
      BY <3>1 DEF InObjective
    <3>3. \A r, s \in Runs : r # s => objective'[r] \cap objective'[s] = {}
      <4>1. \A r \in Runs : x \notin objective[r]
        BY DEF InObjective
      <4>2. \A r, s \in Runs : r # s => objective[r] \cap objective[s] = {}
        BY DEF Dispatched
      <4> SUFFICES ASSUME NEW r \in Runs, NEW s \in Runs, r # s,
                          NEW y \in objective'[r] \cap objective'[s]
                   PROVE FALSE
        OBVIOUS
      <4>3. CASE y = x
        BY <3>1, <4>1, <4>3
      <4>4. CASE y # x
        BY <3>1, <4>2, <4>4
      <4> QED BY <4>3, <4>4
    <3>4. accepted'[x] /\ \A y \in Inputs : y # x => accepted'[y] = accepted[y]
      BY <2>3 DEF EndType
    <3>5. \A y \in Inputs : InObjective(y)' /\ origin'[y] # None => accepted'[y]
      BY <2>2, <3>2, <3>4 DEF Dispatched
    <3>6. \A y \in Inputs : owner'[y] # None <=> origin'[y] # None
      BY <1>1, <2>2 DEF Dispatched
    <3>7. \A m \in Messages : InObjective(m)' \/ origin'[m] # None => m \in routed'
      BY <2>2, <3>2 DEF Dispatched, Inputs
    <3>8. \A y \in Steers : InObjective(y)' => origin'[y] # None
      BY <1>1, <2>2, <3>2 DEF Dispatched, Inputs
    <3> QED BY <3>3, <3>5, <3>6, <3>7, <3>8 DEF Dispatched
  <2>4. CASE UNCHANGED <<rows, accepted>>
    <3>1. \A y : InObjective(y)' <=> InObjective(y)
      BY <2>4 DEF InObjective, rows
    <3>2. objective' = objective /\ accepted' = accepted
      BY <2>4 DEF rows
    <3>3. \A y \in Inputs : InObjective(y)' /\ origin'[y] # None => accepted'[y]
      BY <2>2, <3>1, <3>2 DEF Dispatched
    <3>4. \A y \in Inputs : owner'[y] # None <=> origin'[y] # None
      BY <1>1, <2>2 DEF Dispatched
    <3>5. \A m \in Messages : InObjective(m)' \/ origin'[m] # None => m \in routed'
      BY <2>2, <3>1 DEF Dispatched, Inputs
    <3>6. \A y \in Steers : InObjective(y)' => origin'[y] # None
      BY <1>1, <2>2, <3>1 DEF Dispatched, Inputs
    <3> QED BY <3>2, <3>3, <3>4, <3>5, <3>6 DEF Dispatched
  <2> QED BY <1>3, <2>3, <2>4 DEF Schedule, rows
<1> QED BY <1>2, <1>3

\* Nothing is dispatched at first.
LEMMA InitDispatched == Init => Dispatched
BY DEF Init, Dispatched, InObjective, Inputs

\* A step that creates a run for one event that is in no objective yet.
LEMMA CreateDispatched ==
  ASSUME EndType, Dispatched, NEW i, NEW event, ~InObjective(event),
         Creates(runStatus, invStatus, i, {event}),
         UNCHANGED <<origin, owner, accepted>>,
         routed \subseteq routed', event \in Messages => event \in routed',
         event \notin Steers,
         event \in Messages => event \notin routed
  PROVE  Dispatched'
<1>1. /\ \A r, s \in Runs : r # s => objective'[r] \cap objective'[s] = {}
      /\ \A x : InObjective(x)' => InObjective(x) \/ x = event
  BY CreateObjective DEF Fresh, EndType, Dispatched
<1>2. \A x \in Inputs : InObjective(x)' /\ origin'[x] # None => accepted'[x]
  BY <1>1, EventsAssumption DEF Dispatched, Inputs
<1>3. \A m \in Messages : InObjective(m)' \/ origin'[m] # None => m \in routed'
  BY <1>1 DEF Dispatched
<1>4. \A x \in Steers : InObjective(x)' => origin'[x] # None
  BY <1>1 DEF Dispatched, Inputs
<1> QED BY <1>1, <1>2, <1>3, <1>4 DEF Dispatched

\* Requests of users, applications and tools dispatch only what is fresh.
LEMMA ClientDispatched == ASSUME TypeOK, Dispatched, Client PROVE Dispatched'
<1> USE DEF registry, rows, held, queue, processes
<1>1. EndType /\ RestType
  BY TypeParts
<1>2. \A m \in Messages : m \notin routed => ~InObjective(m)
  BY DEF Dispatched
<1>3. ASSUME NEW q \in Requests, StartRun(q) PROVE Dispatched'
  <2>1. PICK i \in Invocations : Creates(runStatus, invStatus, i, {q})
    BY <1>3, SourceOfType DEF StartRun, Creates
  <2>2. ~InObjective(q)
    BY <1>3 DEF StartRun, InObjective
  <2>3. q \notin Messages /\ q \notin Steers
    BY EventsAssumption
  <2>4. UNCHANGED <<origin, owner, accepted, routed>>
    BY <1>3 DEF StartRun
  <2> QED BY <2>1, <2>2, <2>3, <2>4, <1>1, CreateDispatched
<1>4. ASSUME NEW read \in reads, ResumeRun(read) PROVE Dispatched'
  <2>1. /\ owner' = owner \/ \E n \in Invocations :
             owner' = [x \in Inputs |-> IF x \in Waiting(read.invocation) THEN n ELSE owner[x]]
        /\ UNCHANGED <<objective, origin, accepted, routed>>
    BY <1>4 DEF ResumeRun
  <2>2. read.invocation # None
    BY DEF TypeOK
  <2>3. \A x \in Inputs : owner'[x] # None <=> origin[x] # None
    BY <2>1, <2>2, QueuedIsFresh DEF Dispatched
  <2> QED BY <2>1, <2>3 DEF Dispatched, InObjective
<1>5. ASSUME NEW m \in Messages, NEW policy \in Policies, RouteMessage(m, policy)
      PROVE Dispatched'
  <2>1. m \in Inputs /\ m \notin Steers /\ ~InObjective(m)
    BY <1>2, <1>5, EventsAssumption DEF RouteMessage, Inputs
  <2>2. m \notin routed /\ routed' = routed \cup {m}
    BY <1>5 DEF RouteMessage
  <2>3. CASE \E i \in Invocations : Creates(runStatus, invStatus, i, {m})
                                      /\ UNCHANGED queue
    BY <2>1, <2>2, <2>3, <1>1, CreateDispatched
  <2>4. CASE \E i \in Live : Schedule(i, m, policy)
    BY <2>1, <2>2, <2>4, <1>1, ScheduleDispatched
  <2> QED BY <2>3, <2>4, <1>5, SourceOfType DEF RouteMessage, Creates
<1>6. ASSUME NEW i \in Invocations, NEW x \in Steers, NEW policy \in Policies,
             SteerInvocation(i, x, policy)
      PROVE Dispatched'
  <2>1. x \in Inputs /\ x \notin Messages /\ ~InObjective(x)
    BY <1>6, EventsAssumption DEF SteerInvocation, Inputs, Dispatched
  <2> QED BY <2>1, <1>1, <1>6, ScheduleDispatched DEF SteerInvocation
<1>7. ASSUME NEW i \in Invocations, NEW x \in Steers, QueueInput(i, x)
      PROVE Dispatched'
  <2>1. ~InObjective(x) /\ x \notin Messages
    BY <1>7, EventsAssumption DEF QueueInput, Dispatched
  <2>2. /\ origin'[x] = i /\ owner'[x] = i /\ i # None
        /\ \A y \in Inputs : y # x => origin'[y] = origin[y] /\ owner'[y] = owner[y]
        /\ UNCHANGED <<objective, accepted, routed>>
    BY <1>7, <1>1 DEF QueueInput, Enqueue, EndType, RestType, Inputs
  <2>3. \A y \in Inputs : InObjective(y) /\ origin'[y] # None => accepted[y]
    BY <2>1, <2>2 DEF Dispatched
  <2>4. \A y \in Inputs : owner'[y] # None <=> origin'[y] # None
    BY <2>2 DEF Dispatched
  <2>5. \A m \in Messages : InObjective(m) \/ origin'[m] # None => m \in routed
    BY <2>1, <2>2 DEF Dispatched, Inputs
  <2>6. \A y \in Steers : InObjective(y) => origin'[y] # None
    BY <2>2 DEF Dispatched, Inputs
  <2> QED BY <2>2, <2>3, <2>4, <2>5, <2>6 DEF Dispatched, InObjective
<1>8. ASSUME NEW i \in Invocations, CancelInvocation(i) PROVE Dispatched'
  BY <1>8, <1>1, FinishDispatched DEF CancelInvocation
<1>9. ASSUME NEW x \in Inputs, RemoveQueued(x) PROVE Dispatched'
  <2>1. /\ \A y \in Inputs : accepted[y] => accepted'[y]
        /\ UNCHANGED <<objective, origin, owner, routed>>
    BY <1>9, <1>1 DEF RemoveQueued, EndType
  <2> QED BY <2>1 DEF Dispatched, InObjective
<1>10. ASSUME NEW x \in Inputs, NEW policy \in Policies, SteerQueued(x, policy)
       PROVE Dispatched'
  <2>1. PICK i \in (IF Idle THEN {owner[x]} ELSE Live) :
          End(i, "canceled", "canceled", TRUE, Queue, Renumber(x, Queue \ {x}), policy)
    BY <1>10 DEF SteerQueued
  <2>2. i # None
    <3>1. owner[x] # None
      BY <1>10, QueuedIsFresh DEF SteerQueued, Dispatched
    <3>2. None \notin Live
      BY DEF Live
    <3> QED BY <2>1, <3>1, <3>2
  <2>3. UNCHANGED <<origin, routed>>
    BY <1>10 DEF SteerQueued
  <2>4. Queue \in SUBSET Queue
    OBVIOUS
  <2> QED BY <2>1, <2>2, <2>3, <2>4, <1>1, EndQueue
<1>11. ASSUME \/ \E r \in Runs : ReadRun(r)
              \/ \E read \in reads : ResumeRefused(read)
              \/ \E i \in Invocations : SuspendInvocation(i)
              \/ \E x \in Inputs : MoveQueued(x)
       PROVE Dispatched'
  <2>1. UNCHANGED <<objective, origin, owner, accepted, routed>>
    BY <1>11 DEF ReadRun, ResumeRefused, SuspendInvocation, MoveQueued
  <2> QED BY <2>1, SameDispatched
<1> QED BY <1>3, <1>4, <1>5, <1>6, <1>7, <1>8, <1>9, <1>10, <1>11 DEF Client

\* Tasks, hosts and the registry dispatch only what waits in the queue.
LEMMA ServerDispatched ==
  ASSUME TypeOK, Dispatched, Gateway \/ Host \/ Registry PROVE Dispatched'
<1> USE DEF registry, rows, held, queue, processes
<1>1. EndType /\ RestType
  BY TypeParts
<1>2. ASSUME NEW i \in Invocations, NEW status, Report(i, status) \/ TaskFails(i)
      PROVE Dispatched'
  BY <1>1, <1>2, FinishDispatched DEF Report, TaskFails
<1>3. ASSUME NEW i \in Invocations, Expire(i) PROVE Dispatched'
  <2>1. PICK policy \in Policies :
          /\ UNCHANGED <<origin, routed>>
          /\ End(i, "failed", "failed", TRUE, Waiting(i), position, policy)
    BY <1>3 DEF Expire
  <2>2. i # None /\ Waiting(i) \in SUBSET Queue
    BY QueuedIsFresh
  <2> QED BY <2>1, <2>2, <1>1, EndQueue
<1>4. ASSUME NEW i \in Live, NEW policy, UNCHANGED <<origin, routed>>,
             End(i, "canceled", "waiting", TRUE, Waiting(i), position, policy)
      PROVE Dispatched'
  <2>1. i # None /\ Waiting(i) \in SUBSET Queue
    BY QueuedIsFresh DEF Live
  <2> QED BY <2>1, <1>4, <1>1, EndQueue
<1>5. ASSUME UNCHANGED <<objective, origin, owner, accepted, routed>> PROVE Dispatched'
  BY <1>5, SameDispatched
<1>6. CASE Gateway
  BY <1>6, <1>2, <1>3, <1>5
  DEF Gateway, Task, Claim, Wake, TaskReturns, TaskLost, RenewLease, LeaseLapses
<1>7. CASE Host
  BY <1>7, <1>2, <1>5 DEF Host, HostGone, SetRunStatus
<1>8. CASE Registry
  BY <1>8, <1>4, <1>5 DEF Registry, PauseAgent, ResumeAgent, DeleteAgent, ChangeDeployments,
                    ChangeAccess
<1> QED BY <1>6, <1>7, <1>8

\* The inductive invariant of the next theorem: an input in the queue, a message
\* that is not routed and an input nobody has sent are in no objective.
THEOREM DispatchedInvariant == Spec => []Dispatched
<1>1. Init => Dispatched
  BY InitDispatched
<1>2. TypeOK /\ Dispatched /\ [Next]_vars => Dispatched'
  <2>1. CASE UNCHANGED vars
    BY <2>1, SameDispatched DEF vars, rows, queue
  <2> QED BY <2>1, ClientDispatched, ServerDispatched DEF Next
<1> QED BY <1>1, <1>2, TypeInvariant, PTL DEF Spec

\* A start request, a message and an input reach one objective at most, and an
\* input that has reached one no longer waits in the queue.
THEOREM EventsAreDispatchedOnce == Spec => []DispatchedOnce
<1>1. Dispatched => DispatchedOnce
  BY DEF Dispatched, DispatchedOnce, InObjective
<1> QED BY <1>1, DispatchedInvariant, PTL

-----------------------------------------------------------------------------
(* The queue: nothing is dropped, the oldest goes first, nothing is left behind *)

\* What is needed of rows that exist and rows that do not: a run not created has no
\* objective, an invocation that exists has a run, and an input waits on one that exists.
RowsInUse ==
  /\ \A r \in Runs : runStatus[r] = "none" => objective[r] = {}
  /\ \A i \in Invocations :
       invStatus[i] # "none" => invRun[i] \in Runs /\ runStatus[invRun[i]] # "none"
  /\ \A x \in Inputs : owner[x] # None => invStatus[owner[x]] # "none"

\* NothingDropped, as a fact about one step.
HandedOn == \A x \in Inputs :
  origin'[x] # None /\ accepted'[x] # accepted[x] =>
    RemoveQueued(x) \/ \E r \in Runs : x \in objective'[r] \ objective[r]

\* OldestFirst, as a fact about one step.
FrontTaken == \A r \in Runs, x, y \in Inputs :
  /\ runStatus[r] = "none" /\ x \in objective'[r] /\ origin'[x] # None
  /\ owner'[y] = owner'[x] /\ ~accepted'[y]
  => x \notin Barred /\ (y \in Barred \/ position'[x] < position'[y])

\* HeldOnlyBySuspension, as a fact about one step.
HeldBySuspension == \A x \in Inputs :
  origin'[x] # None /\ ~accepted'[x] =>
    \/ owner'[x] \in Live'
    \/ owner'[x] = owner[x] /\ owner[x] \notin Live
    \/ owner'[x] = owner[x] /\ runStatus[invRun[owner[x]]] = "suspending"
    \/ owner'[x] = owner[x] /\ agent' = "deleted"
    \/ \A y \in Inputs : owner'[y] = owner'[x] /\ ~accepted'[y] => y \in Barred

\* What every step does with the queue.
Serves == RowsInUse' /\ HandedOn /\ FrontTaken /\ HeldBySuspension

\* A step that creates no row, dispatches nothing and ends nothing.
LEMMA SameServes ==
  ASSUME RowsInUse, UNCHANGED <<objective, owner, invRun>>,
         \A r \in Runs : (runStatus'[r] = "none") <=> (runStatus[r] = "none"),
         \A i \in Invocations : (invStatus'[i] = "none") <=> (invStatus[i] = "none"),
         owner \in [Inputs -> Invocations \cup {None}],
         Live \subseteq Live' \/ agent' = "deleted"
  PROVE  RowsInUse' /\ FrontTaken /\ HeldBySuspension
<1>1. RowsInUse'
  BY DEF RowsInUse
<1>2. FrontTaken
  BY DEF FrontTaken, RowsInUse
<1>3. HeldBySuspension
  BY DEF HeldBySuspension
<1> QED BY <1>1, <1>2, <1>3

\* What Selected leaves waiting comes after all that it takes.
LEMMA SelectedFirst ==
  ASSUME NEW waiting \in SUBSET Inputs, NEW places \in [Inputs -> Nat], NEW policy,
         NEW x \in Selected(waiting, places, policy),
         NEW y \in waiting, y \notin Selected(waiting, places, policy)
  PROVE  places[x] < places[y]
<1>1. policy = "queue" /\ x \in waiting /\ \A z \in waiting : places[x] <= places[z]
  BY DEF Selected
<1>2. PICK z \in waiting : ~(places[y] <= places[z])
  BY <1>1 DEF Selected
<1>3. places[x] \in Nat /\ places[y] \in Nat /\ places[z] \in Nat /\ places[x] <= places[z]
  BY <1>1, <1>2
<1> QED BY <1>2, <1>3

\* Numbers have a least, so something is selected from a queue that is not empty.
LEMMA SelectedSome ==
  ASSUME NEW waiting \in SUBSET Inputs, waiting # {}, NEW places \in [Inputs -> Nat], NEW policy
  PROVE  Selected(waiting, places, policy) # {}
<1> DEFINE Less == {p \in Nat \X Nat : p[1] < p[2]}
           S == {places[x] : x \in waiting}
<1>1. IsWellFoundedOn(Less, Nat)
  BY NatLessThanWellFounded DEF OpToRel
<1>2. S \subseteq Nat /\ S # {}
  OBVIOUS
<1> HIDE DEF Less, S
<1>3. \E s \in S : \A u \in S : ~(<<u, s>> \in Less)
  BY <1>1, <1>2, WFMin
<1>4. \E s \in S : \A u \in S : s <= u
  <2>1. \E s \in S : \A u \in S : ~(u < s)
    BY <1>2, <1>3 DEF Less
  <2> QED BY <1>2, <2>1
<1>5. \E x \in waiting : \A y \in waiting : places[x] <= places[y]
  BY <1>4 DEF S
<1> QED BY <1>5 DEF Selected

\* What an end can be of: the live invocation, or one that an input waits on.
Endable(i) ==
  \/ i \in Live
  \/ Idle /\ i # None /\ \E z \in Inputs : owner[z] = i /\ ~accepted[z]

\* Run r, with a first invocation n, is what the step adds to the rows.
StartedFor(r, n, events) ==
  /\ runStatus[r] = "none" /\ objective[r] = {} /\ objective'[r] = events
  /\ \A s \in Runs : s # r => objective'[s] = objective[s]
  /\ \A s \in Runs : runStatus'[s] = "none" => objective'[s] = {}
  /\ \A i \in Invocations :
       invStatus'[i] # "none" => invRun'[i] \in Runs /\ runStatus'[invRun'[i]] # "none"
  /\ \A i \in Invocations : invStatus[i] # "none" => invStatus'[i] # "none"
  /\ invStatus[n] = "none" /\ invStatus'[n] = "pending"

\* A run created for events with a first invocation n.
LEMMA CreateUses ==
  ASSUME RowsType, RowsInUse,
         NEW statuses \in [Runs -> RunStatuses],
         NEW invocations \in [Invocations -> InvocationStatuses],
         NEW n \in Invocations, NEW events,
         \A r \in Runs : (statuses[r] = "none") <=> (runStatus[r] = "none"),
         \A i \in Invocations : (invocations[i] = "none") <=> (invStatus[i] = "none"),
         Creates(statuses, invocations, n, events)
  PROVE  \E r \in Runs : StartedFor(r, n, events)
<1>1. PICK r \in Runs :
        /\ runStatus[r] = "none" /\ invStatus[n] = "none"
        /\ runStatus' = [statuses EXCEPT ![r] = "active"]
        /\ objective' = [objective EXCEPT ![r] = events]
        /\ invStatus' = [invocations EXCEPT ![n] = "pending"]
        /\ invRun' = [invRun EXCEPT ![n] = r]
  BY DEF Creates, Create, NewRun, NewInvocation
<1>2. objective[r] = {}
  BY <1>1 DEF RowsInUse
<1>3. objective'[r] = events /\ \A s \in Runs : s # r => objective'[s] = objective[s]
  BY <1>1 DEF RowsType
<1>4. runStatus'[r] = "active" /\ \A s \in Runs : s # r => runStatus'[s] = statuses[s]
  BY <1>1
<1>5. /\ invStatus'[n] = "pending" /\ invRun'[n] = r
      /\ \A i \in Invocations : i # n => invStatus'[i] = invocations[i] /\ invRun'[i] = invRun[i]
  BY <1>1 DEF RowsType
<1>6. \A s \in Runs : runStatus'[s] = "none" => objective'[s] = {}
  BY <1>3, <1>4 DEF RowsInUse
<1>7. \A i \in Invocations :
        invStatus'[i] # "none" => invRun'[i] \in Runs /\ runStatus'[invRun'[i]] # "none"
  <2> SUFFICES ASSUME NEW i \in Invocations, invStatus'[i] # "none"
               PROVE  invRun'[i] \in Runs /\ runStatus'[invRun'[i]] # "none"
    OBVIOUS
  <2>1. CASE i = n
    BY <2>1, <1>4, <1>5
  <2>2. CASE i # n
    <3>1. invRun'[i] = invRun[i] /\ invRun[i] \in Runs /\ runStatus[invRun[i]] # "none"
      BY <2>2, <1>5 DEF RowsInUse
    <3> QED BY <3>1, <1>4
  <2> QED BY <2>1, <2>2
<1>8. \A i \in Invocations : invStatus[i] # "none" => invStatus'[i] # "none"
  BY <1>5
<1> QED BY <1>1, <1>2, <1>3, <1>5, <1>6, <1>7, <1>8 DEF StartedFor

\* The end of the live invocation hands what waits on it to the new one, oldest
\* first, unless its run is being suspended or none of it may be dispatched.
LEMMA EndServes ==
  ASSUME EndType, OneActiveInvocation, RowsInUse,
         NEW i, Endable(i), NEW status \in Ends, NEW to \in Closes,
         NEW dispatch \in BOOLEAN, ~dispatch => runStatus[invRun[i]] = "suspending",
         NEW waiting \in SUBSET Inputs, Waiting(i) \subseteq waiting,
         ~dispatch => waiting = Waiting(i),
         \A x \in waiting : ~InObjective(x),
         NEW places \in [Inputs -> Nat], NEW policy,
         End(i, status, to, dispatch, waiting, places, policy)
  PROVE  Serves
<1> DEFINE live == i \in Live
           closed == IF live THEN SetStatus(invRun[i], to) ELSE runStatus
           ended == IF live THEN [invStatus EXCEPT ![i] = status] ELSE invStatus
           chosen == Selected(Eligible(waiting), places, policy)
<1>1. RowsType /\ position' = places
  BY DEF EndType, End
<1>2. closed \in [Runs -> RunStatuses] /\ ended \in [Invocations -> InvocationStatuses]
  BY <1>1, SetStatusType DEF RowsType, Closes, Ends, RunStatuses, InvocationStatuses
<1>3. \A r \in Runs : (closed[r] = "none") <=> (runStatus[r] = "none")
  BY <1>1 DEF SetStatus, Open, Closes, RowsType
<1>4. \A j \in Invocations : (ended[j] = "none") <=> (invStatus[j] = "none")
  BY <1>1 DEF Live, Ends, RowsType
<1>5. \A x \in Inputs : owner[x] \in Live /\ ~accepted[x] => live /\ owner[x] = i /\ x \in waiting
  BY DEF Idle, OneActiveInvocation, Waiting, Endable
<1>6. chosen \subseteq Eligible(waiting) /\ Eligible(waiting) = waiting \ Barred
  BY ChosenWaits DEF Eligible
<1>7. CASE dispatch /\ chosen # {}
  <2>1. PICK n \in Invocations :
          /\ Creates(closed, ended, n, chosen)
          /\ owner' = [x \in Inputs |-> IF x \in waiting THEN n ELSE owner[x]]
          /\ accepted' = [x \in Inputs |-> accepted[x] \/ x \in chosen]
    BY <1>7, SourceOfType DEF End, Creates
  <2> HIDE DEF closed, ended, chosen, live
  <2>2. PICK r \in Runs : StartedFor(r, n, chosen)
    BY <2>1, <1>1, <1>2, <1>3, <1>4, CreateUses
  <2> USE DEF StartedFor
  <2>3. \A x \in Inputs : owner'[x] = IF x \in waiting THEN n ELSE owner[x]
    BY <2>1
  <2>4. RowsInUse'
    <3>1. \A x \in Inputs : owner'[x] # None => invStatus'[owner'[x]] # "none"
      BY <2>2, <2>3 DEF RowsInUse, EndType
    <3> QED BY <3>1, <2>2 DEF RowsInUse
  <2>5. HandedOn
    <3> SUFFICES ASSUME NEW x \in Inputs, accepted'[x] # accepted[x]
                 PROVE  x \in objective'[r] \ objective[r]
      BY DEF HandedOn
    <3>1. accepted[x] \in BOOLEAN /\ accepted'[x] = (accepted[x] \/ x \in chosen)
      BY <2>1 DEF EndType
    <3>2. x \in chosen
      BY <3>1
    <3> QED BY <3>2, <2>2
  <2>6. FrontTaken
    <3> SUFFICES ASSUME NEW s \in Runs, NEW x \in Inputs, NEW y \in Inputs,
                        runStatus[s] = "none", x \in objective'[s],
                        owner'[y] = owner'[x], ~accepted'[y]
                 PROVE  x \notin Barred /\ (y \in Barred \/ position'[x] < position'[y])
      BY DEF FrontTaken
    <3>1. s = r /\ x \in chosen
      BY <2>2 DEF RowsInUse
    <3>2. owner'[y] = n /\ y \notin chosen
      BY <3>1, <1>6, <2>1, <2>3
    <3>3. y \in waiting
      <4>1. n # None
        BY DEF Invocations, None
      <4>2. owner[y] = n => FALSE
        BY <4>1, <2>2 DEF RowsInUse
      <4> QED BY <4>2, <3>2, <2>3
    <3>4. x \notin Barred
      BY <3>1, <1>6
    <3>5. CASE y \notin Barred
      <4>1. y \in Eligible(waiting) /\ Eligible(waiting) \in SUBSET Inputs
        BY <3>3, <3>5, <1>6
      <4>2. places[x] < places[y]
        BY <3>1, <3>2, <4>1, SelectedFirst DEF chosen
      <4> QED BY <4>2, <3>4, <1>1
    <3> QED BY <3>4, <3>5
  <2>7. HeldBySuspension
    <3> SUFFICES ASSUME NEW x \in Inputs, ~accepted'[x]
                 PROVE  owner'[x] \in Live' \/ (owner'[x] = owner[x] /\ owner[x] \notin Live)
      BY DEF HeldBySuspension
    <3>1. n \in Live' /\ ~accepted[x]
      BY <2>1, <2>2 DEF Live
    <3> QED BY <3>1, <2>3, <1>5
  <2> QED BY <2>4, <2>5, <2>6, <2>7 DEF Serves
<1>8. CASE ~(dispatch /\ chosen # {})
  <2>1. /\ runStatus' = closed /\ invStatus' = ended
        /\ owner' = [x \in Inputs |-> IF x \in waiting THEN i ELSE owner[x]]
        /\ UNCHANGED <<objective, invRun, accepted>>
    BY <1>8 DEF End
  <2>0. i \in Invocations /\ invStatus[i] # "none"
    BY DEF Endable, Live, RowsInUse, EndType
  <2> HIDE DEF closed, ended, chosen, live
  <2>2. RowsInUse'
    <3>1. /\ \A r \in Runs : (runStatus'[r] = "none") <=> (runStatus[r] = "none")
          /\ \A j \in Invocations : (invStatus'[j] = "none") <=> (invStatus[j] = "none")
      BY <2>1, <1>3, <1>4
    <3>2. \A r \in Runs : runStatus'[r] = "none" => objective'[r] = {}
      BY <3>1, <2>1 DEF RowsInUse
    <3>3. \A j \in Invocations :
            invStatus'[j] # "none" => invRun'[j] \in Runs /\ runStatus'[invRun'[j]] # "none"
      BY <3>1, <2>1 DEF RowsInUse
    <3>4. \A x \in Inputs : owner'[x] # None => invStatus'[owner'[x]] # "none"
      BY <3>1, <2>0, <2>1 DEF RowsInUse, EndType
    <3> QED BY <3>2, <3>3, <3>4 DEF RowsInUse
  <2>3. HandedOn
    BY <2>1 DEF HandedOn
  <2>4. FrontTaken
    BY <2>1 DEF FrontTaken, RowsInUse
  <2>5. HeldBySuspension
    <3>1. CASE ~dispatch
      <4>1. \A x \in Inputs : owner'[x] = owner[x]
        BY <3>1, <2>1 DEF Waiting
      <4>2. \A x \in Inputs : owner[x] \in Live /\ ~accepted[x] => owner[x] = i
        BY <1>5
      <4> QED BY <4>1, <4>2, <3>1, <2>1 DEF HeldBySuspension
    <3>2. CASE dispatch
      <4>1. Eligible(waiting) = {}
        BY <3>2, <1>6, <1>8, SelectedSome DEF chosen
      <4> SUFFICES ASSUME NEW x \in Inputs, ~accepted[x]
                   PROVE  \/ owner'[x] = owner[x] /\ owner[x] \notin Live
                          \/ \A y \in Inputs : owner'[y] = owner'[x] /\ ~accepted[y] => y \in Barred
        BY <2>1 DEF HeldBySuspension
      <4>2. CASE x \in waiting
        <5>1. owner'[x] = i
          BY <4>2, <2>1
        <5> SUFFICES ASSUME NEW y \in Inputs, owner'[y] = i, ~accepted[y] PROVE y \in Barred
          BY <5>1
        <5>2. y \in waiting
          BY <2>1 DEF Waiting
        <5> QED BY <5>2, <4>1, <1>6
      <4>3. CASE x \notin waiting
        BY <4>3, <2>1, <1>5
      <4> QED BY <4>2, <4>3
    <3> QED BY <3>1, <3>2
  <2> QED BY <2>2, <2>3, <2>4, <2>5 DEF Serves
<1> QED BY <1>7, <1>8

\* finish withholds the inputs of a suspending run and hands on all others.
LEMMA FinishServes ==
  ASSUME EndType, RestType, OneActiveInvocation, Dispatched, RowsInUse,
         NEW i, NEW status \in Ends, Finish(i, status)
  PROVE  Serves
<1> DEFINE to == CASE status = "stopped" -> "waiting"
                   [] status = "canceled" -> "canceled"
                   [] OTHER -> "failed"
           dispatch == runStatus[invRun[i]] # "suspending"
<1>1. PICK policy \in Policies :
        /\ i \in Live
        /\ End(i, status, to, dispatch, Waiting(i), position, policy)
  BY DEF Finish
<1>2. to \in Closes /\ dispatch \in BOOLEAN /\ (~dispatch => runStatus[invRun[i]] = "suspending")
  BY DEF Ends, Closes
<1>3. Waiting(i) \in SUBSET Inputs /\ \A x \in Waiting(i) : ~InObjective(x)
  BY <1>1, QueuedIsFresh DEF Live, Waiting
<1>4. position \in [Inputs -> Nat]
  BY DEF EndType
<1>5. Endable(i)
  BY <1>1 DEF Endable
<1> HIDE DEF to, dispatch
<1> QED BY <1>1, <1>2, <1>3, <1>4, <1>5, EndServes

\* A new input joins the live invocation's queue, goes into its objective, or
\* ends it, under any policy.
LEMMA ScheduleServes ==
  ASSUME EndType, RestType, OneActiveInvocation, Dispatched, RowsInUse,
         NEW i \in Live, NEW x \in Inputs, NEW policy,
         ~InObjective(x), origin[x] = None, Schedule(i, x, policy)
  PROVE  Serves
<1>1. i \in Invocations /\ i # None /\ invStatus[i] \in {"pending", "running"}
  BY DEF Live
<1>2. invRun[i] \in Runs /\ runStatus[invRun[i]] # "none"
  BY <1>1 DEF RowsInUse
<1>3. CASE policy = "interrupt"
  <2>1. End(i, "canceled", "canceled", TRUE, Waiting(i) \cup {x},
            [position EXCEPT ![x] = Back], policy)
    BY <1>3 DEF Schedule
  <2>2. Waiting(i) \cup {x} \in SUBSET Inputs /\ \A y \in Waiting(i) \cup {x} : ~InObjective(y)
    BY <1>1, QueuedIsFresh DEF Waiting
  <2>3. [position EXCEPT ![x] = Back] \in [Inputs -> Nat]
    BY BackType DEF EndType
  <2>4. "canceled" \in Ends /\ "canceled" \in Closes
    BY DEF Ends, Closes
  <2> QED BY <2>1, <2>2, <2>3, <2>4, EndServes DEF Endable
<1>4. CASE policy # "interrupt"
  <2>1. Enqueue(i, x) /\ UNCHANGED <<runStatus, invStatus, invRun>>
    BY <1>4 DEF Schedule, rows
  <2>2. owner'[x] = i /\ \A y \in Inputs : y # x => owner'[y] = owner[y]
    BY <2>1 DEF Enqueue, EndType
  <2>3. Live' = Live
    BY <2>1 DEF Live
  <2>4. CASE /\ accepted' = [accepted EXCEPT ![x] = TRUE]
             /\ objective' = [objective EXCEPT ![invRun[i]] = @ \cup {x}]
    <3>1. /\ objective'[invRun[i]] = objective[invRun[i]] \cup {x}
          /\ \A r \in Runs : r # invRun[i] => objective'[r] = objective[r]
      BY <2>4, <1>2 DEF EndType, RowsType
    <3>2. x \in objective'[invRun[i]] \ objective[invRun[i]]
      BY <3>1, <1>2 DEF InObjective
    <3>3. \A y \in Inputs : y # x => accepted'[y] = accepted[y]
      BY <2>4 DEF EndType
    <3>4. \A r \in Runs : runStatus[r] = "none" => objective'[r] = {}
      BY <3>1, <1>2 DEF RowsInUse
    <3>5. RowsInUse'
      <4>1. \A y \in Inputs : owner'[y] # None => invStatus'[owner'[y]] # "none"
        BY <2>1, <2>2, <1>1 DEF RowsInUse
      <4> QED BY <4>1, <3>4, <2>1 DEF RowsInUse
    <3>6. HandedOn
      BY <3>2, <3>3, <1>2 DEF HandedOn
    <3>7. FrontTaken
      BY <3>4 DEF FrontTaken
    <3>8. HeldBySuspension
      BY <2>2, <2>3 DEF HeldBySuspension
    <3> QED BY <3>5, <3>6, <3>7, <3>8 DEF Serves
  <2>5. CASE UNCHANGED <<rows, accepted>>
    <3>1. objective' = objective /\ accepted' = accepted
      BY <2>5 DEF rows
    <3>2. RowsInUse'
      <4>1. \A y \in Inputs : owner'[y] # None => invStatus'[owner'[y]] # "none"
        BY <2>1, <2>2, <1>1 DEF RowsInUse
      <4> QED BY <4>1, <3>1, <2>1 DEF RowsInUse
    <3>3. HandedOn
      BY <3>1 DEF HandedOn
    <3>4. FrontTaken
      BY <3>1 DEF FrontTaken, RowsInUse
    <3>5. HeldBySuspension
      BY <2>2, <2>3 DEF HeldBySuspension
    <3> QED BY <3>2, <3>3, <3>4, <3>5 DEF Serves
  <2> QED BY <1>4, <2>4, <2>5 DEF Schedule, rows
<1> QED BY <1>3, <1>4

\* A run started for a request or a message while nothing is live takes nothing
\* from the queue.
LEMMA CreateServes ==
  ASSUME EndType, RowsInUse, Idle, NEW n \in Invocations, NEW event,
         event \in Inputs => origin[event] = None,
         Creates(runStatus, invStatus, n, {event}), UNCHANGED queue
  PROVE  Serves
<1>1. PICK r \in Runs : StartedFor(r, n, {event})
  <2>1. RowsType /\ runStatus \in [Runs -> RunStatuses]
        /\ invStatus \in [Invocations -> InvocationStatuses]
    BY DEF EndType, RowsType
  <2> QED BY <2>1, CreateUses
<1> USE DEF StartedFor
<1>2. UNCHANGED <<origin, owner, accepted>>
  BY DEF queue
<1>3. RowsInUse'
  <2>1. \A x \in Inputs : owner'[x] # None => invStatus'[owner'[x]] # "none"
    BY <1>1, <1>2 DEF RowsInUse, EndType
  <2> QED BY <2>1, <1>1 DEF RowsInUse
<1>4. HandedOn
  BY <1>2 DEF HandedOn
<1>5. FrontTaken
  BY <1>1, <1>2 DEF FrontTaken, RowsInUse
<1>6. HeldBySuspension
  BY <1>2 DEF HeldBySuspension, Idle
<1> QED BY <1>3, <1>4, <1>5, <1>6 DEF Serves

\* Requests of users, applications and tools keep the queue's promises.
LEMMA ClientServes ==
  ASSUME TypeOK, OneActiveInvocation, Dispatched, RowsInUse, Client
  PROVE  Serves
<1> USE DEF registry, rows, held, processes
<1>1. EndType /\ RestType /\ RowsType
  BY TypeParts DEF EndType
<1>2. owner \in [Inputs -> Invocations \cup {None}]
  BY <1>1 DEF EndType
<1>3. ASSUME NEW q \in Requests, StartRun(q) PROVE Serves
  <2>1. PICK i \in Invocations : Creates(runStatus, invStatus, i, {q})
    BY <1>3, SourceOfType DEF StartRun, Creates
  <2>2. Idle /\ UNCHANGED queue /\ q \notin Inputs
    BY <1>3, EventsAssumption DEF StartRun, Inputs
  <2> QED BY <2>1, <2>2, <1>1, CreateServes
<1>4. ASSUME NEW read \in reads, ResumeRun(read) PROVE Serves
  <2>1. read.run \in Runs
    BY <1>1 DEF RestType
  <2>2. PICK n \in Invocations :
          /\ NewInvocation(n)
          /\ runStatus' = [runStatus EXCEPT ![read.run] = "active"]
          /\ invStatus' = [invStatus EXCEPT ![n] = "pending"]
          /\ invRun' = [invRun EXCEPT ![n] = read.run]
          /\ owner' = [x \in Inputs |-> IF x \in Waiting(read.invocation) THEN n ELSE owner[x]]
    BY <1>4 DEF ResumeRun
  <2>3. Idle /\ runStatus[read.run] # "none" /\ UNCHANGED <<objective, accepted>>
    BY <1>4 DEF ResumeRun
  <2>4. \A r \in Runs : (runStatus'[r] = "none") <=> (runStatus[r] = "none")
    BY <2>1, <2>2, <2>3, <1>1 DEF RowsType
  <2>5. /\ invStatus'[n] = "pending" /\ invRun'[n] = read.run
        /\ \A i \in Invocations : i # n => invStatus'[i] = invStatus[i] /\ invRun'[i] = invRun[i]
    BY <2>2, <1>1 DEF RowsType
  <2>6. RowsInUse'
    <3>1. \A r \in Runs : runStatus'[r] = "none" => objective'[r] = {}
      BY <2>3, <2>4 DEF RowsInUse
    <3>2. \A i \in Invocations :
            invStatus'[i] # "none" => invRun'[i] \in Runs /\ runStatus'[invRun'[i]] # "none"
      BY <2>1, <2>3, <2>4, <2>5 DEF RowsInUse
    <3>3. \A x \in Inputs : owner'[x] # None => invStatus'[owner'[x]] # "none"
      BY <2>2, <2>5, <1>2 DEF RowsInUse
    <3> QED BY <3>1, <3>2, <3>3 DEF RowsInUse
  <2>7. HandedOn
    BY <2>3 DEF HandedOn
  <2>8. FrontTaken
    BY <2>3 DEF FrontTaken, RowsInUse
  <2>9. HeldBySuspension
    <3>1. n \in Live' /\ Live = {}
      BY <2>3, <2>5 DEF Live, Idle
    <3> QED BY <3>1, <2>2 DEF HeldBySuspension
  <2> QED BY <2>6, <2>7, <2>8, <2>9 DEF Serves
<1>5. ASSUME NEW m \in Messages, NEW policy \in Policies, RouteMessage(m, policy)
      PROVE Serves
  <2>1. m \in Inputs /\ ~InObjective(m) /\ origin[m] = None
    BY <1>5 DEF RouteMessage, Inputs, Dispatched
  <2>2. CASE Idle /\ \E i \in Invocations : Creates(runStatus, invStatus, i, {m})
                                             /\ UNCHANGED queue
    BY <2>1, <2>2, <1>1, CreateServes
  <2>3. CASE \E i \in Live : Schedule(i, m, policy)
    BY <2>1, <2>3, <1>1, ScheduleServes
  <2> QED BY <2>2, <2>3, <1>5, SourceOfType DEF RouteMessage, Creates
<1>6. ASSUME NEW i \in Invocations, NEW x \in Steers, NEW policy \in Policies,
             SteerInvocation(i, x, policy)
      PROVE Serves
  <2>1. x \in Inputs /\ ~InObjective(x) /\ origin[x] = None /\ i \in Live
    BY <1>6 DEF SteerInvocation, Inputs, Dispatched
  <2> QED BY <2>1, <1>1, <1>6, ScheduleServes DEF SteerInvocation
<1>7. ASSUME NEW i \in Invocations, NEW x \in Steers, QueueInput(i, x)
      PROVE Serves
  <2>1. x \in Inputs /\ i \in Live /\ invStatus[i] # "none"
    BY <1>7 DEF QueueInput, Inputs, Live
  <2>2. owner'[x] = i /\ \A y \in Inputs : y # x => owner'[y] = owner[y]
    BY <1>7, <2>1, <1>2 DEF QueueInput, Enqueue
  <2>3. UNCHANGED <<runStatus, objective, invStatus, invRun, accepted>> /\ Live' = Live
    BY <1>7 DEF QueueInput, Live
  <2>4. RowsInUse'
    <3>1. \A y \in Inputs : owner'[y] # None => invStatus'[owner'[y]] # "none"
      BY <2>1, <2>2, <2>3 DEF RowsInUse
    <3> QED BY <3>1, <2>3 DEF RowsInUse
  <2>5. HandedOn
    BY <2>3 DEF HandedOn
  <2>6. FrontTaken
    BY <2>3 DEF FrontTaken, RowsInUse
  <2>7. HeldBySuspension
    BY <2>1, <2>2, <2>3 DEF HeldBySuspension
  <2> QED BY <2>4, <2>5, <2>6, <2>7 DEF Serves
<1>8. ASSUME NEW i \in Invocations, CancelInvocation(i) PROVE Serves
  BY <1>8, <1>1, FinishServes DEF CancelInvocation, Ends
<1>9. ASSUME NEW x \in Inputs, RemoveQueued(x) PROVE Serves
  <2>1. UNCHANGED <<runStatus, objective, invStatus, invRun, owner>> /\ Live' = Live
    BY <1>9 DEF RemoveQueued, Live
  <2>2. RowsInUse' /\ FrontTaken /\ HeldBySuspension
    BY <2>1, <1>2, SameServes
  <2>3. \A y \in Inputs : y # x => accepted'[y] = accepted[y]
    BY <1>9, <1>1 DEF RemoveQueued, EndType
  <2>4. HandedOn
    BY <2>3, <1>9 DEF HandedOn
  <2> QED BY <2>2, <2>4 DEF Serves
<1>10. ASSUME NEW x \in Inputs, NEW policy \in Policies, SteerQueued(x, policy)
       PROVE Serves
  <2>1. PICK i \in (IF Idle THEN {owner[x]} ELSE Live) :
          End(i, "canceled", "canceled", TRUE, Queue, Renumber(x, Queue \ {x}), policy)
    BY <1>10 DEF SteerQueued
  <2>2. Endable(i)
    BY <2>1, <1>10 DEF SteerQueued, Endable, Queue, Dispatched
  <2>3. Waiting(i) \subseteq Queue
    BY <2>2, QueuedIsFresh DEF Endable, Live
  <2>4. Queue \in SUBSET Inputs /\ \A y \in Queue : ~InObjective(y)
    BY QueuedIsFresh DEF Queue
  <2>5. Renumber(x, Queue \ {x}) \in [Inputs -> Nat]
    BY <1>1, RenumberType DEF EndType
  <2>6. "canceled" \in Ends /\ "canceled" \in Closes
    BY DEF Ends, Closes
  <2> QED BY <2>1, <2>2, <2>3, <2>4, <2>5, <2>6, <1>1, EndServes
<1>11. ASSUME NEW i \in Invocations, SuspendInvocation(i) PROVE Serves
  <2>1. /\ UNCHANGED <<objective, invStatus, invRun, owner, accepted>> /\ Live' = Live
        /\ \A r \in Runs : (runStatus'[r] = "none") <=> (runStatus[r] = "none")
    BY <1>11, <1>1 DEF SuspendInvocation, queue, RowsType, Live
  <2>2. RowsInUse' /\ FrontTaken /\ HeldBySuspension
    BY <2>1, <1>2, SameServes
  <2> QED BY <2>1, <2>2 DEF Serves, HandedOn
<1>12. ASSUME \/ \E r \in Runs : ReadRun(r)
              \/ \E read \in reads : ResumeRefused(read)
              \/ \E x \in Inputs : MoveQueued(x)
       PROVE Serves
  <2>1. UNCHANGED <<runStatus, objective, invStatus, invRun, owner, accepted>> /\ Live' = Live
    BY <1>12 DEF ReadRun, ResumeRefused, MoveQueued, queue, Live
  <2>2. RowsInUse' /\ FrontTaken /\ HeldBySuspension
    BY <2>1, <1>2, SameServes
  <2> QED BY <2>1, <2>2 DEF Serves, HandedOn
<1> QED BY <1>3, <1>4, <1>5, <1>6, <1>7, <1>8, <1>9, <1>10, <1>11, <1>12 DEF Client

\* So do tasks, hosts and the registry.
LEMMA ServerServes ==
  ASSUME TypeOK, OneActiveInvocation, Dispatched, RowsInUse, Gateway \/ Host \/ Registry
  PROVE  Serves
<1> USE DEF registry, rows, held, processes
<1>1. EndType /\ RestType /\ RowsType
  BY TypeParts DEF EndType
<1>2. owner \in [Inputs -> Invocations \cup {None}] /\ position \in [Inputs -> Nat]
  BY <1>1 DEF EndType
<1>3. ASSUME NEW i \in Invocations, NEW status \in Ends,
             Report(i, status) \/ TaskFails(i)
      PROVE Serves
  BY <1>1, <1>3, FinishServes DEF Report, TaskFails, Ends
<1>4. ASSUME NEW i \in Live, NEW status \in Ends, NEW to \in Closes, NEW policy,
             End(i, status, to, TRUE, Waiting(i), position, policy)
      PROVE Serves
  <2>1. Waiting(i) \in SUBSET Inputs /\ \A x \in Waiting(i) : ~InObjective(x)
    BY QueuedIsFresh DEF Live, Waiting
  <2> QED BY <2>1, <1>1, <1>2, <1>4, EndServes DEF Endable
<1>5. ASSUME UNCHANGED <<objective, owner, accepted, invRun>>,
             \A r \in Runs : (runStatus'[r] = "none") <=> (runStatus[r] = "none"),
             \A i \in Invocations : (invStatus'[i] = "none") <=> (invStatus[i] = "none"),
             Live \subseteq Live' \/ agent' = "deleted"
      PROVE Serves
  <2>1. RowsInUse' /\ FrontTaken /\ HeldBySuspension
    BY <1>2, <1>5, SameServes
  <2> QED BY <2>1, <1>5 DEF Serves, HandedOn
<1>6. ASSUME UNCHANGED <<rows, queue>> PROVE Serves
  <2>1. UNCHANGED <<runStatus, objective, invStatus, invRun, owner, accepted>> /\ Live' = Live
    BY <1>6 DEF queue, Live
  <2> QED BY <2>1, <1>5
<1>7. CASE Gateway
  <2>1. PICK i \in Invocations :
          Claim(i) \/ Task(i) \/ RenewLease(i) \/ LeaseLapses(i) \/ Expire(i)
    BY <1>7 DEF Gateway
  <2>2. CASE Claim(i)
    <3>1. /\ UNCHANGED <<runStatus, objective, owner, accepted, invRun>>
          /\ invStatus[i] = "pending" /\ invStatus' = [invStatus EXCEPT ![i] = "running"]
      BY <2>2 DEF Claim, queue
    <3>2. /\ \A j \in Invocations : (invStatus'[j] = "none") <=> (invStatus[j] = "none")
          /\ Live \subseteq Live'
      BY <3>1, <1>1 DEF RowsType, Live
    <3> QED BY <3>1, <3>2, <1>5
  <2>3. CASE Expire(i)
    <3>1. i \in Live /\ "failed" \in Ends /\ "failed" \in Closes
      BY <2>3 DEF Expire, Live, Ends, Closes
    <3>2. PICK policy \in Policies :
            End(i, "failed", "failed", TRUE, Waiting(i), position, policy)
      BY <2>3 DEF Expire
    <3> QED BY <3>1, <3>2, <1>4
  <2>4. CASE TaskFails(i)
    BY <2>4, <1>3 DEF Ends
  <2>5. CASE Wake(i) \/ TaskReturns(i) \/ TaskLost(i) \/ RenewLease(i) \/ LeaseLapses(i)
    BY <2>5, <1>6 DEF Wake, TaskReturns, TaskLost, RenewLease, LeaseLapses
  <2> QED BY <2>1, <2>2, <2>3, <2>4, <2>5 DEF Task
<1>8. CASE Host
  <2>1. ASSUME NEW i \in Invocations, HostGone(i) PROVE Serves
    BY <2>1, <1>6 DEF HostGone
  <2>2. ASSUME NEW i \in Invocations, NEW status \in {"stopped", "failed"}, Report(i, status)
        PROVE Serves
    BY <2>2, <1>3 DEF Ends
  <2>3. ASSUME NEW i \in Invocations,
               NEW status \in {"waiting", "completed", "failed", "canceled"},
               SetRunStatus(i, status)
        PROVE Serves
    <3>1. /\ UNCHANGED <<objective, owner, accepted, invRun, invStatus>> /\ Live' = Live
          /\ \A r \in Runs : (runStatus'[r] = "none") <=> (runStatus[r] = "none")
      BY <2>3, <1>1 DEF SetRunStatus, SetStatus, Open, queue, Live, RowsType
    <3> QED BY <3>1, <1>5
  <2> QED BY <1>8, <2>1, <2>2, <2>3 DEF Host
<1>9. CASE Registry
  <2>1. CASE PauseAgent
    <3>1. CASE \E i \in Live, policy \in Policies :
                 End(i, "canceled", "waiting", TRUE, Waiting(i), position, policy)
      <4>1. "canceled" \in Ends /\ "waiting" \in Closes
        BY DEF Ends, Closes
      <4> QED BY <3>1, <4>1, <1>4
    <3>2. CASE UNCHANGED <<rows, owner, accepted>>
      <4>1. UNCHANGED <<runStatus, objective, invStatus, invRun, owner, accepted>> /\ Live' = Live
        BY <3>2 DEF Live
      <4> QED BY <4>1, <1>5
    <3> QED BY <3>1, <3>2, <2>1 DEF PauseAgent
  <2>2. CASE DeleteAgent
    <3>1. /\ UNCHANGED <<objective, owner, accepted, invRun>> /\ agent' = "deleted"
          /\ invStatus' = [i \in Invocations |-> IF i \in Live THEN "canceled" ELSE invStatus[i]]
          /\ runStatus' = [r \in Runs |->
               IF \E i \in Live : invRun[i] = r THEN SetStatus(r, "canceled")[r] ELSE runStatus[r]]
      BY <2>2 DEF DeleteAgent, queue
    <3>2. \A i \in Invocations : (invStatus'[i] = "none") <=> (invStatus[i] = "none")
      BY <3>1 DEF Live
    <3>3. \A r \in Runs : (runStatus'[r] = "none") <=> (runStatus[r] = "none")
      BY <3>1, <1>1 DEF SetStatus, Open, RowsType
    <3> QED BY <3>1, <3>2, <3>3, <1>5
  <2>3. CASE ResumeAgent \/ ChangeDeployments \/ ChangeAccess
    BY <2>3, <1>6 DEF ResumeAgent, ChangeDeployments, ChangeAccess
  <2> QED BY <1>9, <2>1, <2>2, <2>3 DEF Registry
<1> QED BY <1>7, <1>8, <1>9

\* The inductive invariant of the next three theorems, with those before it.
THEOREM RowsInvariant == Spec => []RowsInUse
<1>1. Init => RowsInUse
  BY DEF Init, RowsInUse
<1>2. TypeOK /\ Safe /\ Dispatched /\ RowsInUse /\ [Next]_vars => RowsInUse'
  <2>1. CASE UNCHANGED vars
    BY <2>1 DEF RowsInUse, vars, rows, queue
  <2>2. CASE Next
    BY <2>2, ClientServes, ServerServes DEF Next, Safe, Exclusive, Serves
  <2> QED BY <2>1, <2>2
<1> QED BY <1>1, <1>2, TypeInvariant, SafeInvariant, DispatchedInvariant, PTL DEF Spec

\* Every step keeps the queue's promises.
LEMMA EveryStepServes == Spec => [][Serves]_vars
<1>1. TypeOK /\ Safe /\ Dispatched /\ RowsInUse /\ [Next]_vars => [Serves]_vars
  BY ClientServes, ServerServes DEF Next, Safe, Exclusive
<1> QED
  BY <1>1, TypeInvariant, SafeInvariant, DispatchedInvariant, RowsInvariant, PTL DEF Spec

\* An input leaves the queue into an objective or by the user's hand: no retry,
\* requeue or move consumes one silently.
THEOREM NothingIsDropped == Spec => NothingDropped
<1>1. [Serves]_vars => [HandedOn]_vars
  BY DEF Serves
<1>2. Spec => [][HandedOn]_vars
  BY <1>1, EveryStepServes, PTL
<1> QED BY <1>2 DEF NothingDropped, HandedOn

\* A new run takes the queue from its front, also after it was renumbered, and passes over
\* what is of senders who lost access.
THEOREM OldestGoesFirst == Spec => OldestFirst
<1>1. [Serves]_vars => [FrontTaken]_vars
  BY DEF Serves
<1>2. Spec => [][FrontTaken]_vars
  BY <1>1, EveryStepServes, PTL
<1> QED BY <1>2 DEF OldestFirst, FrontTaken

\* Inputs stay behind on an invocation that ends only for ResumeRun to collect, with a
\* deleted agent, or if all of them are of senders who lost access.
THEOREM NothingLeftBehind == Spec => HeldOnlyBySuspension
<1>1. [Serves]_vars => [HeldBySuspension]_vars
  BY DEF Serves
<1>2. Spec => [][HeldBySuspension]_vars
  BY <1>1, EveryStepServes, PTL
<1> QED BY <1>2 DEF HeldOnlyBySuspension, HeldBySuspension

-----------------------------------------------------------------------------
(* The order of invocations, and what a resume carries forward *)

\* Rows are numbered as they are created, and the live one is the newest.
Lineage ==
  /\ \A i \in Invocations : invStatus[i] = "none" => invRun[i] = None
  /\ \A i, j \in Invocations : i < j /\ invStatus[j] # "none" => invStatus[i] # "none"
  /\ \A i \in Live, j \in Invocations : i < j => invStatus[j] = "none"
  /\ \A i \in started : invStatus[i] # "none"

\* A step that creates no invocation.
RowsKept ==
  /\ invRun' = invRun /\ Live' \subseteq Live
  /\ \A i \in Invocations : (invStatus'[i] = "none") <=> (invStatus[i] = "none")

\* A step that creates invocation n of run r, and leaves nothing else live.
RowAdded(n, r) ==
  /\ NewInvocation(n) /\ Live' = {n} /\ invStatus'[n] # "none" /\ invRun'[n] = r
  /\ \A i \in Invocations : i # n =>
       invRun'[i] = invRun[i] /\ ((invStatus'[i] = "none") <=> (invStatus[i] = "none"))

\* Where an input is moved to, one is live or another input waits.
Owning == \A x \in Inputs :
  \/ owner'[x] = owner[x]
  \/ owner'[x] \in Live \cup Live'
  \/ owner'[x] # None /\ \E z \in Inputs : owner'[x] = owner[z] /\ ~accepted[z]

\* What a step other than a resume does to invocations and owners.
Moves ==
  /\ RowsKept \/ \E n \in Invocations, r \in Runs : NewRun(r) /\ RowAdded(n, r)
  /\ Owning

\* A step that changes no invocation's status and no owner.
LEMMA SameMoves ==
  ASSUME UNCHANGED <<invStatus, invRun, owner>> PROVE Moves
BY DEF Moves, RowsKept, Owning, Live

\* A run's creation, while nothing is live.
LEMMA CreateMoves ==
  ASSUME RowsType,
         NEW statuses, NEW invocations \in [Invocations -> InvocationStatuses],
         NEW n \in Invocations, NEW events,
         \A j \in Invocations : invocations[j] \notin {"pending", "running"},
         \A j \in Invocations : (invocations[j] = "none") <=> (invStatus[j] = "none"),
         Creates(statuses, invocations, n, events)
  PROVE  \E r \in Runs : NewRun(r) /\ RowAdded(n, r)
<1>1. PICK r \in Runs :
        /\ NewRun(r) /\ NewInvocation(n)
        /\ invStatus' = [invocations EXCEPT ![n] = "pending"]
        /\ invRun' = [invRun EXCEPT ![n] = r]
  BY DEF Creates, Create
<1>2. /\ invStatus'[n] = "pending" /\ invRun'[n] = r
      /\ \A i \in Invocations : i # n => invStatus'[i] = invocations[i] /\ invRun'[i] = invRun[i]
  BY <1>1 DEF RowsType
<1>3. Live' = {n}
  BY <1>2 DEF Live
<1> QED BY <1>1, <1>2, <1>3 DEF RowAdded

\* An end, with or without a dispatch.
LEMMA EndMoves ==
  ASSUME EndType, OneActiveInvocation,
         NEW i, Endable(i), NEW status \in Ends, NEW to,
         NEW dispatch \in BOOLEAN, NEW waiting \in SUBSET Inputs,
         NEW places, NEW policy,
         End(i, status, to, dispatch, waiting, places, policy)
  PROVE  Moves
<1> DEFINE closed == IF i \in Live THEN SetStatus(invRun[i], to) ELSE runStatus
           ended == IF i \in Live THEN [invStatus EXCEPT ![i] = status] ELSE invStatus
           chosen == Selected(Eligible(waiting), places, policy)
<1>1. RowsType /\ ended \in [Invocations -> InvocationStatuses]
  BY DEF EndType, RowsType, Ends, InvocationStatuses
<1>2. \A j \in Invocations : ended[j] \notin {"pending", "running"}
  BY <1>1 DEF Live, Idle, Ends, Endable, OneActiveInvocation, RowsType
<1>3. \A j \in Invocations : (ended[j] = "none") <=> (invStatus[j] = "none")
  BY <1>1 DEF Live, Ends, RowsType
<1>4. CASE dispatch /\ chosen # {}
  <2>1. PICK n \in Invocations :
          /\ Creates(closed, ended, n, chosen)
          /\ owner' = [x \in Inputs |-> IF x \in waiting THEN n ELSE owner[x]]
    BY <1>4, SourceOfType DEF End, Creates
  <2> HIDE DEF closed, ended, chosen
  <2>2. \E r \in Runs : NewRun(r) /\ RowAdded(n, r)
    BY <2>1, <1>1, <1>2, <1>3, CreateMoves
  <2>3. Owning
    BY <2>1, <2>2 DEF Owning, RowAdded
  <2> QED BY <2>2, <2>3 DEF Moves
<1>5. CASE ~(dispatch /\ chosen # {})
  <2>1. /\ invStatus' = ended /\ invRun' = invRun
        /\ owner' = [x \in Inputs |-> IF x \in waiting THEN i ELSE owner[x]]
    BY <1>5 DEF End
  <2> HIDE DEF ended
  <2>2. Live' = {}
    BY <2>1, <1>2 DEF Live
  <2>3. RowsKept /\ Owning
    BY <2>1, <2>2, <1>3 DEF RowsKept, Owning, Endable
  <2> QED BY <2>3 DEF Moves
<1> QED BY <1>4, <1>5

\* finish.
LEMMA FinishMoves ==
  ASSUME EndType, OneActiveInvocation, NEW i, NEW status \in Ends, Finish(i, status)
  PROVE  Moves
<1> DEFINE to == CASE status = "stopped" -> "waiting"
                   [] status = "canceled" -> "canceled"
                   [] OTHER -> "failed"
           dispatch == runStatus[invRun[i]] # "suspending"
<1>1. PICK policy \in Policies :
        End(i, status, to, dispatch, Waiting(i), position, policy)
  BY DEF Finish
<1>2. Endable(i) /\ dispatch \in BOOLEAN /\ Waiting(i) \in SUBSET Inputs
  BY DEF Finish, Waiting, Endable
<1> HIDE DEF to, dispatch
<1> QED BY <1>1, <1>2, EndMoves

\* A new input.
LEMMA ScheduleMoves ==
  ASSUME EndType, RestType, OneActiveInvocation, NEW i \in Live, NEW x \in Inputs, NEW policy,
         Schedule(i, x, policy)
  PROVE  Moves
<1>1. CASE policy = "interrupt"
  <2>1. End(i, "canceled", "canceled", TRUE, Waiting(i) \cup {x},
            [position EXCEPT ![x] = Back], policy)
    BY <1>1 DEF Schedule
  <2>2. Waiting(i) \cup {x} \in SUBSET Inputs /\ "canceled" \in Ends /\ Endable(i)
    BY DEF Waiting, Ends, Endable
  <2> QED BY <2>1, <2>2, EndMoves
<1>2. CASE policy # "interrupt"
  <2>1. Enqueue(i, x) /\ UNCHANGED <<invStatus, invRun>>
    BY <1>2 DEF Schedule, rows
  <2>2. Owning
    BY <2>1 DEF Owning, Enqueue, EndType
  <2>3. RowsKept
    BY <2>1 DEF RowsKept, Live
  <2> QED BY <2>2, <2>3 DEF Moves
<1> QED BY <1>1, <1>2

\* A resume.
LEMMA ResumeMoves ==
  ASSUME TypeOK, NEW read \in reads, ResumeRun(read)
  PROVE  /\ Idle /\ runStatus[read.run] \in {"waiting", "failed"} /\ read.run \in Runs
         /\ origin' = origin /\ accepted' = accepted
         /\ \E n \in Invocations :
              /\ RowAdded(n, read.run)
              /\ \A x \in Inputs :
                   owner'[x] = IF x \in Waiting(read.invocation) THEN n ELSE owner[x]
<1>1. RowsType /\ read.run \in Runs
  BY TypeParts DEF EndType, RestType
<1>2. Idle /\ runStatus[read.run] \in {"waiting", "failed"} /\ UNCHANGED <<origin, accepted>>
  BY DEF ResumeRun
<1>3. PICK n \in Invocations :
        /\ NewInvocation(n)
        /\ invStatus' = [invStatus EXCEPT ![n] = "pending"]
        /\ invRun' = [invRun EXCEPT ![n] = read.run]
        /\ owner' = [x \in Inputs |-> IF x \in Waiting(read.invocation) THEN n ELSE owner[x]]
  BY DEF ResumeRun
<1>4. /\ invStatus'[n] = "pending" /\ invRun'[n] = read.run
      /\ \A i \in Invocations : i # n => invStatus'[i] = invStatus[i] /\ invRun'[i] = invRun[i]
  BY <1>1, <1>3 DEF RowsType
<1>5. Live' = {n}
  BY <1>2, <1>4 DEF Live, Idle
<1>6. RowAdded(n, read.run)
  BY <1>3, <1>4, <1>5 DEF RowAdded
<1> QED BY <1>1, <1>2, <1>3, <1>6

\* Requests other than a resume.
LEMMA ClientMoves ==
  ASSUME TypeOK, OneActiveInvocation, Dispatched, Client,
         ~ \E read \in reads : ResumeRun(read)
  PROVE  Moves
<1> USE DEF registry, rows, queue
<1>1. EndType /\ RestType /\ RowsType
  BY TypeParts DEF EndType
<1>2. ASSUME NEW n \in Invocations, NEW events, Idle,
             Creates(runStatus, invStatus, n, events), UNCHANGED queue
      PROVE  Moves
  <2>1. \A j \in Invocations : invStatus[j] \notin {"pending", "running"}
    BY <1>2 DEF Idle, Live
  <2>2. \E r \in Runs : NewRun(r) /\ RowAdded(n, r)
    <3>1. invStatus \in [Invocations -> InvocationStatuses]
      BY <1>1 DEF RowsType
    <3> QED BY <3>1, <2>1, <1>1, <1>2, CreateMoves
  <2>3. Owning
    BY <1>2 DEF Owning
  <2> QED BY <2>2, <2>3 DEF Moves
<1>3. ASSUME NEW q \in Requests, StartRun(q) PROVE Moves
  BY <1>2, <1>3, SourceOfType DEF StartRun, Creates
<1>4. ASSUME NEW m \in Messages, NEW policy \in Policies, RouteMessage(m, policy)
      PROVE Moves
  <2>1. CASE Idle /\ \E i \in Invocations : Creates(runStatus, invStatus, i, {m})
                                             /\ UNCHANGED queue
    BY <2>1, <1>2
  <2>2. CASE \E i \in Live : Schedule(i, m, policy)
    BY <2>2, <1>1, ScheduleMoves DEF Inputs
  <2> QED BY <2>1, <2>2, <1>4, SourceOfType DEF RouteMessage, Creates
<1>5. ASSUME NEW i \in Invocations, NEW x \in Steers, NEW policy \in Policies,
             SteerInvocation(i, x, policy)
      PROVE Moves
  BY <1>5, <1>1, ScheduleMoves DEF SteerInvocation, Inputs
<1>6. ASSUME NEW i \in Invocations, NEW x \in Steers, QueueInput(i, x) PROVE Moves
  <2>1. Enqueue(i, x) /\ UNCHANGED <<invStatus, invRun>>
    BY <1>6 DEF QueueInput
  <2>2. Owning
    BY <2>1, <1>1, <1>6 DEF Owning, Enqueue, EndType, QueueInput
  <2> QED BY <2>1, <2>2 DEF Moves, RowsKept, Live
<1>7. ASSUME NEW i \in Invocations, CancelInvocation(i) PROVE Moves
  BY <1>7, <1>1, FinishMoves DEF CancelInvocation, Ends
<1>8. ASSUME NEW x \in Inputs, NEW policy \in Policies, SteerQueued(x, policy)
      PROVE Moves
  <2>1. PICK i \in (IF Idle THEN {owner[x]} ELSE Live) :
          End(i, "canceled", "canceled", TRUE, Queue, Renumber(x, Queue \ {x}), policy)
    BY <1>8 DEF SteerQueued
  <2>2. Endable(i) /\ "canceled" \in Ends /\ Queue \in SUBSET Inputs
    BY <2>1, <1>8 DEF Ends, Queue, Endable, SteerQueued, Dispatched
  <2> QED BY <2>1, <2>2, <1>1, EndMoves
<1>9. ASSUME NEW i \in Invocations, SuspendInvocation(i) PROVE Moves
  BY <1>9, SameMoves DEF SuspendInvocation
<1>10. ASSUME \/ \E r \in Runs : ReadRun(r)
              \/ \E read \in reads : ResumeRefused(read)
              \/ \E x \in Inputs : RemoveQueued(x) \/ MoveQueued(x)
       PROVE Moves
  BY <1>10, SameMoves DEF ReadRun, ResumeRefused, RemoveQueued, MoveQueued
<1> QED BY <1>3, <1>4, <1>5, <1>6, <1>7, <1>8, <1>9, <1>10 DEF Client

\* Tasks, hosts and the registry.
LEMMA ServerMoves ==
  ASSUME TypeOK, OneActiveInvocation, Gateway \/ Host \/ Registry
  PROVE  Moves
<1> USE DEF registry, rows, queue
<1>1. EndType /\ RestType /\ RowsType
  BY TypeParts DEF EndType
<1>2. ASSUME NEW i \in Live, NEW status \in Ends, NEW to, NEW policy,
             End(i, status, to, TRUE, Waiting(i), position, policy)
      PROVE  Moves
  <2>1. Waiting(i) \in SUBSET Inputs
    BY DEF Waiting
  <2> QED BY <2>1, <1>1, <1>2, EndMoves DEF Endable
<1>3. CASE Gateway
  <2>1. PICK i \in Invocations :
          Claim(i) \/ Task(i) \/ RenewLease(i) \/ LeaseLapses(i) \/ Expire(i)
    BY <1>3 DEF Gateway
  <2>2. CASE Claim(i)
    <3>1. /\ UNCHANGED <<invRun, owner>>
          /\ invStatus[i] = "pending" /\ invStatus' = [invStatus EXCEPT ![i] = "running"]
      BY <2>2 DEF Claim
    <3>2. RowsKept
      BY <3>1, <1>1 DEF RowsType, RowsKept, Live
    <3> QED BY <3>1, <3>2 DEF Moves, Owning
  <2>3. CASE Expire(i)
    <3>1. i \in Live /\ "failed" \in Ends
      BY <2>3 DEF Expire, Live, Ends
    <3>2. PICK policy \in Policies :
            End(i, "failed", "failed", TRUE, Waiting(i), position, policy)
      BY <2>3 DEF Expire
    <3> QED BY <3>1, <3>2, <1>2
  <2>4. CASE TaskFails(i)
    BY <2>4, <1>1, FinishMoves DEF TaskFails, Ends
  <2>5. CASE Wake(i) \/ TaskReturns(i) \/ TaskLost(i) \/ RenewLease(i) \/ LeaseLapses(i)
    BY <2>5, SameMoves DEF Wake, TaskReturns, TaskLost, RenewLease, LeaseLapses
  <2> QED BY <2>1, <2>2, <2>3, <2>4, <2>5 DEF Task
<1>4. CASE Host
  <2>1. ASSUME NEW i \in Invocations, NEW status \in {"stopped", "failed"}, Report(i, status)
        PROVE Moves
    BY <2>1, <1>1, FinishMoves DEF Report, Ends
  <2>2. ASSUME NEW i \in Invocations, NEW status, HostGone(i) \/ SetRunStatus(i, status)
        PROVE Moves
    BY <2>2, SameMoves DEF HostGone, SetRunStatus
  <2> QED BY <1>4, <2>1, <2>2 DEF Host
<1>5. CASE Registry
  <2>1. CASE PauseAgent
    <3>1. CASE \E i \in Live, policy \in Policies :
                 End(i, "canceled", "waiting", TRUE, Waiting(i), position, policy)
      <4>1. "canceled" \in Ends
        BY DEF Ends
      <4> QED BY <3>1, <4>1, <1>2
    <3>2. CASE UNCHANGED <<rows, owner>>
      BY <3>2, <2>1, SameMoves DEF PauseAgent
    <3> QED BY <3>1, <3>2, <2>1 DEF PauseAgent
  <2>2. CASE DeleteAgent
    <3>1. /\ UNCHANGED <<invRun, owner>>
          /\ invStatus' = [i \in Invocations |-> IF i \in Live THEN "canceled" ELSE invStatus[i]]
      BY <2>2 DEF DeleteAgent
    <3>2. RowsKept
      BY <3>1 DEF RowsKept, Live
    <3> QED BY <3>1, <3>2 DEF Moves, Owning
  <2>3. CASE ResumeAgent \/ ChangeDeployments \/ ChangeAccess
    BY <2>3, SameMoves DEF ResumeAgent, ChangeDeployments, ChangeAccess
  <2> QED BY <1>5, <2>1, <2>2, <2>3 DEF Registry
<1> QED BY <1>3, <1>4, <1>5

\* Only a claim starts an invocation, and only a live one.
LEMMA StartsLive ==
  ASSUME Next
  PROVE  started' = started \/ \E i \in Live : started' = started \cup {i}
<1>1. CASE Client
  BY <1>1 DEF Client, StartRun, ReadRun, ResumeRun, ResumeRefused, RouteMessage, QueueInput,
              SteerInvocation, CancelInvocation, Finish, SuspendInvocation, RemoveQueued,
              MoveQueued, SteerQueued
<1>2. CASE Gateway
  <2>1. PICK i \in Invocations :
          Claim(i) \/ Task(i) \/ RenewLease(i) \/ LeaseLapses(i) \/ Expire(i)
    BY <1>2 DEF Gateway
  <2>2. CASE Claim(i)
    BY <2>2 DEF Claim, Live
  <2>3. CASE Task(i) \/ RenewLease(i) \/ LeaseLapses(i) \/ Expire(i)
    BY <2>3 DEF Task, Wake, TaskReturns, TaskFails, Finish, TaskLost, RenewLease, LeaseLapses,
                Expire
  <2> QED BY <2>1, <2>2, <2>3
<1>3. CASE Host
  BY <1>3 DEF Host, HostGone, Report, Finish, SetRunStatus
<1>4. CASE Registry
  BY <1>4 DEF Registry, PauseAgent, ResumeAgent, DeleteAgent, ChangeDeployments,
              ChangeAccess
<1> QED BY <1>1, <1>2, <1>3, <1>4 DEF Next

\* A row that is added takes the number behind all others.
LEMMA AddedKeepsOrder ==
  ASSUME Lineage, NEW n \in Invocations, NEW r, RowAdded(n, r)
  PROVE  /\ \A i \in Invocations : invStatus'[i] = "none" => invRun'[i] = None
         /\ \A i, j \in Invocations : i < j /\ invStatus'[j] # "none" => invStatus'[i] # "none"
         /\ \A i \in Live', j \in Invocations : i < j => invStatus'[j] = "none"
         /\ \A i \in Invocations : invStatus[i] # "none" => i < n /\ invStatus'[i] # "none"
<1>1. \A j \in Invocations : n < j => invStatus[j] = "none"
  BY DEF Lineage, RowAdded, NewInvocation
<1>2. \A j \in Invocations : j < n => invStatus[j] # "none"
  BY DEF RowAdded, NewInvocation
<1>3. \A i \in Invocations : invStatus'[i] = "none" => invRun'[i] = None
  BY DEF Lineage, RowAdded
<1>4. \A i, j \in Invocations : i < j /\ invStatus'[j] # "none" => invStatus'[i] # "none"
  <2> SUFFICES ASSUME NEW i \in Invocations, NEW j \in Invocations, i < j,
                      invStatus'[j] # "none"
               PROVE  invStatus'[i] # "none"
    OBVIOUS
  <2>1. CASE j = n \/ i = n
    BY <2>1, <1>2 DEF RowAdded
  <2>2. CASE j # n /\ i # n
    BY <2>2 DEF RowAdded, Lineage
  <2> QED BY <2>1, <2>2
<1>5. \A i \in Live', j \in Invocations : i < j => invStatus'[j] = "none"
  BY <1>1 DEF RowAdded
<1>6. \A i \in Invocations : invStatus[i] # "none" => i < n /\ invStatus'[i] # "none"
  BY <1>1 DEF RowAdded, NewInvocation
<1> QED BY <1>3, <1>4, <1>5, <1>6

\* Every step keeps the order.
LEMMA LineageStep ==
  ASSUME TypeOK, OneActiveInvocation, Dispatched, Lineage, [Next]_vars
  PROVE  Lineage'
<1>1. CASE UNCHANGED vars
  BY <1>1 DEF vars, rows, queue, Lineage, Live
<1>2. CASE Next
  <2>1. started \subseteq Invocations /\ Live \subseteq Invocations
    BY DEF TypeOK, Live
  <2>2. \A i \in started' : i \in started \/ i \in Live
    BY <1>2, StartsLive
  <2>3. \A i \in started' : i \in Invocations /\ invStatus[i] # "none"
    BY <2>1, <2>2 DEF Lineage, Live
  <2>4. ASSUME RowsKept PROVE Lineage'
    <3>1. \A i \in Invocations : (invStatus'[i] = "none") <=> (invStatus[i] = "none")
      BY <2>4 DEF RowsKept
    <3>2. \A i \in Live' : i \in Live
      BY <2>4 DEF RowsKept
    <3>3. \A i \in Invocations : invStatus'[i] = "none" => invRun'[i] = None
      BY <2>4, <3>1 DEF RowsKept, Lineage
    <3>4. \A i, j \in Invocations : i < j /\ invStatus'[j] # "none" => invStatus'[i] # "none"
      BY <3>1 DEF Lineage
    <3>5. \A i \in Live', j \in Invocations : i < j => invStatus'[j] = "none"
      BY <3>1, <3>2 DEF Lineage
    <3>6. \A i \in started' : invStatus'[i] # "none"
      BY <2>3, <3>1
    <3> QED BY <3>3, <3>4, <3>5, <3>6 DEF Lineage
  <2>5. ASSUME NEW n \in Invocations, NEW r, RowAdded(n, r) PROVE Lineage'
    <3>1. \A i \in started' : invStatus'[i] # "none"
      BY <2>3, <2>5, AddedKeepsOrder
    <3> QED BY <3>1, <2>5, AddedKeepsOrder DEF Lineage
  <2>6. ASSUME NEW read \in reads, ResumeRun(read) PROVE Lineage'
    <3>1. PICK n \in Invocations : RowAdded(n, read.run)
      BY <2>6, ResumeMoves
    <3> QED BY <3>1, <2>5
  <2>7. CASE ~ \E read \in reads : ResumeRun(read)
    <3>1. Moves
      BY <1>2, <2>7, ClientMoves, ServerMoves DEF Next
    <3> QED BY <3>1, <2>4, <2>5 DEF Moves
  <2> QED BY <2>6, <2>7
<1> QED BY <1>1, <1>2

\* Rows are numbered as they are created, and the live one is the newest.
THEOREM LineageInvariant == Spec => []Lineage
<1>1. Init => Lineage
  BY DEF Init, Lineage, Live
<1>2. TypeOK /\ Safe /\ Dispatched /\ Lineage /\ [Next]_vars => Lineage'
  BY LineageStep DEF Safe, Exclusive
<1> QED BY <1>1, <1>2, TypeInvariant, SafeInvariant, DispatchedInvariant, PTL DEF Spec

\* Invocations start in the order of their numbers, whoever ended the one before:
\* the order by started_at of run_get is the order the model numbers them in.
THEOREM StartedInOrder == Spec => [][\A i \in started' \ started, j \in started : j < i]_vars
<1>1. TypeOK /\ Lineage /\ [Next]_vars =>
        [\A i \in started' \ started, j \in started : j < i]_vars
  <2> SUFFICES ASSUME TypeOK, Lineage, Next, NEW i \in started' \ started, NEW j \in started
               PROVE  j < i
    BY DEF vars
  <2>1. i \in Live
    BY StartsLive
  <2>2. i \in Invocations /\ j \in Invocations /\ j # i /\ invStatus[j] # "none"
    BY <2>1 DEF TypeOK, Live, Lineage
  <2> QED BY <2>1, <2>2 DEF Lineage
<1> QED BY <1>1, TypeInvariant, LineageInvariant, PTL DEF Spec

\* An input that has not been dispatched waits on what is live, or on the newest
\* invocation of its run.
HeldOnNewest == \A x \in Inputs :
  owner[x] # None /\ ~accepted[x] => owner[x] \in Live \/ owner[x] \in Newest(invRun[owner[x]])

\* ResumesReadNewest, as a fact about one step.
ReadsNewest ==
  (\E read \in reads : ResumeRun(read)) =>
    \E read \in reads : ResumeRun(read) /\ read.invocation \in Newest(read.run)

\* A live invocation is the newest of its run, and stays so when another run gets one.
LEMMA LiveIsNewest ==
  ASSUME TypeOK, RowsInUse, Lineage, NEW i \in Live
  PROVE  i \in Newest(invRun[i])
<1>1. i \in Invocations /\ invStatus[i] # "none"
  BY DEF Live
<1>2. invRun[i] \in Runs
  BY <1>1 DEF RowsInUse
<1>3. ASSUME NEW j \in Invocations, invRun[j] = invRun[i] PROVE j <= i
  <2>1. invStatus[j] # "none"
    BY <1>2, <1>3 DEF Lineage
  <2> QED BY <1>1, <2>1 DEF Lineage
<1> QED BY <1>1, <1>3 DEF Newest

\* What is the newest of its run stays so unless that run gets another.
LEMMA NewestStays ==
  ASSUME Lineage, NEW n \in Invocations, NEW r, RowAdded(n, r),
         NEW i, i \in Newest(invRun[i]), invStatus[i] # "none", invRun[i] # r
  PROVE  invRun'[i] = invRun[i] /\ i \in Newest(invRun[i])'
<1>1. i \in Invocations /\ i # n
  BY DEF Newest, RowAdded, NewInvocation
<1>2. invRun'[i] = invRun[i] /\ invRun'[n] = r
  BY <1>1 DEF RowAdded
<1>3. \A j \in Invocations : invRun'[j] = invRun'[i] => j <= i
  BY <1>1, <1>2 DEF RowAdded, Newest
<1> QED BY <1>1, <1>2, <1>3 DEF Newest

\* A dispatched input stays dispatched.
LEMMA StaysAccepted ==
  ASSUME Dispatched', HandedOn, TypeOK, TypeOK', NEW x \in Inputs, owner'[x] # None, accepted[x]
  PROVE  accepted'[x]
<1>1. origin'[x] # None /\ accepted[x] \in BOOLEAN /\ accepted'[x] \in BOOLEAN
  BY DEF Dispatched, TypeOK
<1>2. SUFFICES ASSUME accepted'[x] # accepted[x] PROVE accepted'[x]
  BY <1>1
<1>3. CASE RemoveQueued(x)
  BY <1>3 DEF RemoveQueued, TypeOK
<1>4. CASE \E r \in Runs : x \in objective'[r] \ objective[r]
  BY <1>1, <1>4 DEF Dispatched, InObjective
<1> QED BY <1>1, <1>2, <1>3, <1>4 DEF HandedOn

\* Only a resume that moves other inputs than the newest invocation's leaves some
\* behind.
LEMMA HeldStep ==
  ASSUME TypeOK, TypeOK', Safe, Dispatched, Dispatched', RowsInUse, Lineage, HeldOnNewest,
         Next, Serves, ReadsNewest
  PROVE  HeldOnNewest'
<1> SUFFICES ASSUME NEW x \in Inputs, owner'[x] # None, ~accepted'[x], owner'[x] \notin Live'
             PROVE  owner'[x] \in Newest(invRun[owner[x]])'
  BY DEF HeldOnNewest
<1>0. PICK o : o = owner'[x]
  OBVIOUS
<1>1. ~accepted[x]
  BY StaysAccepted DEF Serves
<1>2. o \in Live \/ \E z \in Inputs : owner[z] = o /\ ~accepted[z]
  <2>1. CASE \E read \in reads : ResumeRun(read)
    BY <2>1, <1>0, <1>1, ResumeMoves DEF RowAdded
  <2>2. CASE ~ \E read \in reads : ResumeRun(read)
    <3>1. Moves
      BY <2>2, ClientMoves, ServerMoves DEF Next, Safe, Exclusive
    <3> QED BY <3>1, <1>0, <1>1 DEF Moves, Owning
  <2> QED BY <2>1, <2>2
<1>3. o \in Invocations /\ invStatus[o] # "none" /\ invRun[o] \in Runs
      /\ runStatus[invRun[o]] # "none"
  <2>1. o # None
    BY <1>0
  <2> QED BY <1>2, <2>1 DEF TypeOK, RowsInUse, Live
<1>4. o \in Newest(invRun[o])
  <2>1. o # None
    BY <1>0
  <2> QED BY <1>2, <2>1, LiveIsNewest DEF HeldOnNewest
<1>5. ASSUME NEW n \in Invocations, NEW r, RowAdded(n, r), invRun[o] # r
      PROVE  o \in Newest(invRun[o])'
  BY <1>3, <1>4, <1>5, NewestStays
<1>6. o \in Newest(invRun[o])'
  <2>1. CASE \E read \in reads : ResumeRun(read)
    <3>1. PICK read \in reads : ResumeRun(read) /\ read.invocation \in Newest(read.run)
      BY <2>1 DEF ReadsNewest
    <3>2. PICK n \in Invocations :
            /\ RowAdded(n, read.run)
            /\ \A y \in Inputs :
                 owner'[y] = IF y \in Waiting(read.invocation) THEN n ELSE owner[y]
      BY <3>1, ResumeMoves
    <3>3. invRun[o] # read.run
      <4> SUFFICES ASSUME invRun[o] = read.run PROVE FALSE
        OBVIOUS
      <4>1. o = read.invocation
        BY <3>1, <1>3, <1>4 DEF Newest
      <4>2. x \in Waiting(read.invocation)
        <5>1. o = owner[x]
          BY <3>2, <1>0 DEF RowAdded
        <5> QED BY <5>1, <4>1, <1>1 DEF Waiting
      <4>3. owner'[x] = n /\ n \in Live'
        BY <4>2, <3>2 DEF RowAdded
      <4> QED BY <4>3
    <3> QED BY <3>2, <3>3, <1>5
  <2>2. CASE ~ \E read \in reads : ResumeRun(read)
    <3>1. Moves
      BY <2>2, ClientMoves, ServerMoves DEF Next, Safe, Exclusive
    <3>2. CASE RowsKept
      BY <3>2, <1>4 DEF RowsKept, Newest
    <3>3. CASE \E n \in Invocations, r \in Runs : NewRun(r) /\ RowAdded(n, r)
      BY <3>3, <1>3, <1>5 DEF NewRun
    <3> QED BY <3>1, <3>2, <3>3 DEF Moves
  <2> QED BY <2>1, <2>2
<1> QED BY <1>0, <1>6

\* A resume that comes too late, or reads an invocation that never started, is all
\* that ever leaves an input behind: if what each resume moves are the inputs of the
\* run's newest invocation, then while a run is active none of its inputs waits on an
\* invocation that has ended.
THEOREM TimelyResumesCarryInput == Spec /\ ResumesReadNewest => []ResumeCarriesInput
<1>1. Init => HeldOnNewest
  BY DEF Init, HeldOnNewest
<1>2. /\ TypeOK /\ TypeOK' /\ Safe /\ Dispatched /\ Dispatched' /\ RowsInUse /\ Lineage
      /\ HeldOnNewest /\ [Next]_vars /\ [Serves]_vars /\ [ReadsNewest]_vars
      => HeldOnNewest'
  <2>1. CASE UNCHANGED vars
    BY <2>1 DEF vars, rows, queue, HeldOnNewest, Live, Newest
  <2> QED BY <2>1, HeldStep
<1>3. TypeOK /\ Safe /\ Dispatched /\ RowsInUse /\ Lineage /\ HeldOnNewest => ResumeCarriesInput
  <2> SUFFICES ASSUME TypeOK, Safe, Dispatched, RowsInUse, Lineage, HeldOnNewest,
                      NEW x \in Queue, runStatus[invRun[owner[x]]] = "active"
               PROVE  owner[x] \in Live
    BY DEF ResumeCarriesInput
  <2>1. x \in Inputs /\ owner[x] # None /\ ~accepted[x]
    BY DEF Queue, Dispatched
  <2>2. owner[x] \in Invocations /\ invStatus[owner[x]] # "none" /\ invRun[owner[x]] \in Runs
    BY <2>1 DEF TypeOK, RowsInUse
  <2>3. PICK i \in Live : invRun[i] = invRun[owner[x]]
    BY <2>2 DEF Safe, Exclusive, ActiveRunIsExecuted
  <2>4. CASE owner[x] \in Newest(invRun[owner[x]])
    <3>1. i \in Invocations /\ i <= owner[x]
      BY <2>3, <2>4 DEF Newest, Live
    <3>2. ~(i < owner[x])
      BY <2>2, <2>3 DEF Lineage
    <3> QED BY <3>1, <3>2, <2>2
  <2> QED BY <2>1, <2>4 DEF HeldOnNewest
<1>4. ResumesReadNewest => [][ReadsNewest]_vars
  BY DEF ResumesReadNewest, ReadsNewest
<1> QED
  BY <1>1, <1>2, <1>3, <1>4, TypeInvariant, SafeInvariant, DispatchedInvariant,
     RowsInvariant, LineageInvariant, EveryStepServes, PTL DEF Spec

-----------------------------------------------------------------------------
(* The conversation's promises *)

\* A run that exists was given something, and only what was sent has been accepted.
Founded ==
  /\ \A r \in Runs : runStatus[r] # "none" => objective[r] # {}
  /\ \A x \in Inputs : accepted[x] => origin[x] # None

\* What a step does for the conversation.
Fulfills == [Contract!Next]_(Contract!vars) /\ Founded'

\* What the actions may rely on.
Sound == Exclusive /\ Dispatched /\ RowsInUse /\ Lineage /\ Founded

\* What is executed is the live invocation's run; what waits, waits on it.
LEMMA OnLive ==
  ASSUME EndType, Sound, NEW i \in Live
  PROVE  /\ Executed = {invRun[i]} /\ Behind = Waiting(i)
         /\ Suspending = {} <=> runStatus[invRun[i]] # "suspending"
         /\ invRun[i] \in Runs /\ runStatus[invRun[i]] # "none" /\ objective[invRun[i]] # {}
<1>1. i \in Invocations /\ i # None /\ invStatus[i] # "none"
  BY DEF Live
<1>2. Live = {i}
  BY DEF Sound, Exclusive, OneActiveInvocation
<1>3. Executed = {invRun[i]}
  BY <1>2 DEF Executed
<1>4. Behind = Waiting(i)
  BY <1>1, <1>2 DEF Behind, Waiting, Queue, Sound, Dispatched
<1>5. Suspending = {} <=> runStatus[invRun[i]] # "suspending"
  BY <1>3 DEF Suspending
<1> QED BY <1>1, <1>3, <1>4, <1>5 DEF Sound, RowsInUse, Founded

LEMMA OnIdle ==
  ASSUME Idle
  PROVE  Executed = {} /\ Behind = {} /\ Withheld = Queue /\ Suspending = {}
BY DEF Idle, Executed, Behind, Withheld, Suspending

\* A step that users of the conversation do not see.
LEMMA SameFulfills ==
  ASSUME Founded, UNCHANGED <<runStatus, objective, invRun, origin, owner, accepted>>,
         Live' = Live, admitted' = admitted, (agent' = "deleted") = (agent = "deleted")
  PROVE  Fulfills
<1>1. Founded'
  BY DEF Founded
<1>2. UNCHANGED <<objective, Executed, Behind, Withheld, Seen, Suspending, Over, Barred>>
  BY DEF Executed, Behind, Withheld, Queue, Seen, Suspending, Over, Barred
<1> QED BY <1>1, <1>2 DEF Fulfills, Contract!vars

\* A new run, with its first invocation, is given `events` of what was posted and of `taken`.
LEMMA BeginFulfills ==
  ASSUME RowsType, Sound, agent # "deleted", agent' # "deleted", admitted' = admitted,
         NEW statuses \in [Runs -> RunStatuses],
         NEW invocations \in [Invocations -> InvocationStatuses],
         NEW n \in Invocations, NEW events, events # {},
         \A r \in Runs : (statuses[r] = "none") <=> (runStatus[r] = "none"),
         \A j \in Invocations : (invocations[j] = "none") <=> (invStatus[j] = "none"),
         \A j \in Invocations : invocations[j] \notin {"pending", "running"},
         {r \in Runs : statuses[r] \in {"completed", "canceled"}} \in {Over, Over \cup Executed},
         Creates(statuses, invocations, n, events),
         NEW posted, NEW taken \in {Behind, Behind \cup Withheld},
         events \subseteq (posted \cup taken) \ Barred,
         posted \cap (Seen \cup Barred) = {}, Seen' = Seen \cup posted,
         Behind' = (posted \cup taken) \ events, Withheld' = Withheld \ taken,
         \A x \in Inputs : accepted'[x] => origin'[x] # None,
         \/ \E e \in Events : posted = {e} /\ taken = Behind /\ events = {e}
         \/ posted = {} \/ \E x \in Inputs : posted = {x}
  PROVE  Fulfills
<1>1. PICK r \in Runs :
        /\ runStatus[r] = "none"
        /\ runStatus' = [statuses EXCEPT ![r] = "active"]
        /\ objective' = [objective EXCEPT ![r] = events]
        /\ invStatus' = [invocations EXCEPT ![n] = "pending"]
        /\ invRun' = [invRun EXCEPT ![n] = r]
  BY DEF Creates, Create, NewRun, NewInvocation
<1>2. objective[r] = {}
  BY <1>1 DEF Sound, RowsInUse
<1>3. Live' = {n} /\ invRun'[n] = r
  BY <1>1 DEF Live, RowsType
<1>4. Executed' = {r}
  BY <1>3 DEF Executed
<1>5. runStatus'[r] = "active" /\ \A s \in Runs : s # r => runStatus'[s] = statuses[s]
  BY <1>1
<1>6. Suspending' = {}
  BY <1>4, <1>5 DEF Suspending
<1>7. Over' \in {Over, Over \cup Executed}
  <2>1. statuses[r] = "none"
    BY <1>1
  <2>2. Over' = {s \in Runs : statuses[s] \in {"completed", "canceled"}}
    BY <2>1, <1>5 DEF Over
  <2> QED BY <2>2
<1>8. Founded'
  <2>1. objective'[r] = events /\ \A s \in Runs : s # r => objective'[s] = objective[s]
    BY <1>1 DEF RowsType
  <2> QED BY <2>1, <1>5 DEF Founded, Sound
<1>9. Contract!Begin(r, posted, taken, events)
  <2>1. Barred' = Barred
    BY DEF Barred
  <2> QED BY <2>1, <1>1, <1>2, <1>4, <1>6, <1>7 DEF Contract!Begin, Contract!Posted
<1>10. Contract!Next
  <2>1. CASE \E e \in Events : posted = {e} /\ taken = Behind /\ events = {e}
    BY <2>1, <1>9 DEF Contract!Next
  <2>2. CASE posted \in {{}} \cup {{x} : x \in Inputs}
    <3>1. events \in SUBSET (posted \cup taken)
      OBVIOUS
    <3>2. \E p \in {{}} \cup {{x} : x \in Inputs}, q \in {Behind, Behind \cup Withheld} :
            \E t \in SUBSET (p \cup q) : Contract!Begin(r, p, q, t)
      BY <3>1, <2>2, <1>9
    <3> QED BY <3>2 DEF Contract!Next
  <2> QED BY <2>1, <2>2
<1> QED BY <1>8, <1>10 DEF Fulfills

\* The end of the live invocation, or of none, with a queue to hand on: what waited, with what
\* was posted just now, or all there is.
LEMMA EndFulfills ==
  ASSUME EndType, RestType, Sound, agent # "deleted", agent' # "deleted", admitted' = admitted,
         NEW i, i \in Live \/ Idle, NEW status \in Ends, NEW to \in Closes,
         NEW dispatch \in BOOLEAN, dispatch \/ runStatus[invRun[i]] = "suspending",
         NEW posted, posted = {} \/ \E x \in Inputs : posted = {x} /\ x \notin Seen /\ x \notin Barred,
         posted # {} => dispatch,
         \A x \in Inputs : IF x \in posted THEN origin'[x] # None ELSE origin'[x] = origin[x],
         NEW taken \in {Behind, Behind \cup Withheld}, i \in Live \/ taken # {},
         dispatch \/ taken = Behind,
         NEW waiting, waiting = posted \cup taken,
         NEW places \in [Inputs -> Nat], NEW policy,
         End(i, status, to, dispatch, waiting, places, policy)
  PROVE  Fulfills
<1> DEFINE closed == IF i \in Live THEN SetStatus(invRun[i], to) ELSE runStatus
           ended == IF i \in Live THEN [invStatus EXCEPT ![i] = status] ELSE invStatus
           chosen == Selected(Eligible(waiting), places, policy)
<1>1. /\ RowsType /\ closed \in [Runs -> RunStatuses]
      /\ ended \in [Invocations -> InvocationStatuses]
  BY SetStatusType DEF EndType, RowsType, Closes, Ends, RunStatuses, InvocationStatuses
<1>2. \A r \in Runs : (closed[r] = "none") <=> (runStatus[r] = "none")
  BY <1>1 DEF SetStatus, Open, Closes, RowsType
<1>3. /\ \A j \in Invocations : (ended[j] = "none") <=> (invStatus[j] = "none")
      /\ \A j \in Invocations : ended[j] \notin {"pending", "running"}
  BY <1>1 DEF Live, Idle, Ends, RowsType, Sound, Exclusive, OneActiveInvocation
<1>4. {r \in Runs : closed[r] \in {"completed", "canceled"}} \in {Over, Over \cup Executed}
  <2>1. CASE i \in Live
    <3>1. Executed = {invRun[i]} /\ invRun[i] \in Runs
      BY <2>1, OnLive
    <3>2. closed = [runStatus EXCEPT ![invRun[i]] = IF @ \in Open THEN to ELSE @]
      BY <2>1 DEF SetStatus
    <3>3. CASE runStatus[invRun[i]] \in Open /\ to = "canceled"
      <4>1. closed[invRun[i]] = "canceled"
        BY <3>1, <3>2, <3>3, <1>1 DEF RowsType
      <4>2. \A r \in Runs : r # invRun[i] => closed[r] = runStatus[r]
        BY <3>2, <1>1 DEF RowsType
      <4> HIDE DEF closed
      <4>3. {r \in Runs : closed[r] \in {"completed", "canceled"}} = Over \cup Executed
        BY <3>1, <4>1, <4>2 DEF Over
      <4> QED BY <4>3
    <3>4. CASE ~(runStatus[invRun[i]] \in Open /\ to = "canceled")
      <4>1. {r \in Runs : closed[r] \in {"completed", "canceled"}} = Over
        BY <3>1, <3>2, <3>4, <1>1 DEF Over, RowsType, Open, Closes
      <4> QED BY <4>1
    <3> QED BY <3>3, <3>4
  <2>2. CASE i \notin Live
    BY <2>2 DEF Over
  <2> QED BY <2>1, <2>2
<1>5. /\ Behind \cap Withheld = {} /\ Behind \cup Withheld = Queue
      /\ \A x \in Queue : x \in Inputs /\ origin[x] # None /\ ~accepted[x]
  BY DEF Behind, Withheld, Queue
<1>6. \A x \in posted : x \in Inputs /\ x \notin Seen /\ origin[x] = None /\ ~accepted[x]
  <2> SUFFICES ASSUME NEW x \in posted
               PROVE  x \in Inputs /\ x \notin Seen /\ origin[x] = None /\ ~accepted[x]
    OBVIOUS
  <2>1. x \in Inputs /\ x \notin Seen
    OBVIOUS
  <2>2. origin[x] = None
    BY <2>1 DEF Seen
  <2> QED BY <2>1, <2>2 DEF Sound, Founded
<1>7. waiting \in SUBSET Inputs
  BY <1>5, <1>6
<1>8. CASE dispatch /\ chosen # {}
  <2>1. PICK n \in Invocations :
          /\ Creates(closed, ended, n, chosen)
          /\ owner' = [x \in Inputs |-> IF x \in waiting THEN n ELSE owner[x]]
          /\ accepted' = [x \in Inputs |-> accepted[x] \/ x \in chosen]
    BY <1>8, SourceOfType DEF End, Creates
  <2>2. chosen # {} /\ chosen \subseteq (posted \cup taken) \ Barred
    BY <1>8, ChosenWaits DEF Eligible
  <2> HIDE DEF closed, ended, chosen
  <2>3. PICK r \in Runs : StartedFor(r, n, chosen)
    BY <2>1, <1>1, <1>2, <1>3, CreateUses DEF Sound
  <2>4. Live' = {n} /\ \A x \in Inputs : owner[x] # n
    <3>1. Live' = {n}
      BY <2>1, <1>1, <1>3, CreateMoves DEF RowAdded
    <3> QED BY <3>1, <2>3 DEF StartedFor, Sound, RowsInUse
  <2>5. \A x \in Inputs : x \in waiting => origin'[x] # None /\ ~accepted[x]
    BY <1>5, <1>6
  <2>6. \A x \in Inputs : accepted'[x] = (accepted[x] \/ x \in chosen)
    BY <2>1
  <2>7. Behind' = waiting \ chosen
    <3>1. \A x \in Inputs : x \in Behind' <=> x \in waiting /\ x \notin chosen
      BY <2>1, <2>4, <2>5, <2>6 DEF Behind, Queue
    <3> QED BY <3>1, <1>7 DEF Behind, Queue
  <2>8. Withheld' = Withheld \ taken
    <3>1. \A x \in Inputs : x \in Withheld' <=> x \notin waiting /\ x \in Queue
      BY <2>1, <2>2, <2>4, <2>6, <1>6, <1>7 DEF Withheld, Queue
    <3> QED BY <3>1, <1>5, <1>6 DEF Withheld, Queue
  <2>9. Seen' = Seen \cup posted
    <3>1. \A e : InObjective(e)' <=> InObjective(e) \/ e \in chosen
      BY <2>3 DEF StartedFor, InObjective
    <3>2. taken \subseteq Queue
      BY <1>5
    <3>3. chosen \subseteq Inputs
      BY <2>2, <1>7
    <3>4. chosen \subseteq Seen \cup posted
      BY <2>2, <3>2, <1>5 DEF Seen
    <3>5. \A x \in Inputs : origin'[x] # None <=> origin[x] # None \/ x \in posted
      BY <1>6
    <3>6. Inputs \subseteq Events
      BY DEF Events
    <3>7. \A e : e \in Seen' <=> e \in Seen \/ e \in posted
      BY <3>1, <3>3, <3>4, <3>5, <3>6, <1>6 DEF Seen, InObjective
    <3> QED BY <3>7
  <2>10. \A x \in Inputs : accepted'[x] => origin'[x] # None
    BY <2>2, <2>5, <2>6, <1>7 DEF Sound, Founded
  <2>11. posted \cap (Seen \cup Barred) = {}
    BY <1>6
  <2>12. posted = {} \/ \E x \in Inputs : posted = {x}
    OBVIOUS
  <2>13. Behind' = (posted \cup taken) \ chosen
    BY <2>7
  <2> QED
    BY <2>1, <2>2, <2>8, <2>9, <2>10, <2>11, <2>12, <2>13, <1>1, <1>2, <1>3, <1>4,
       BeginFulfills
<1>9. CASE ~(dispatch /\ chosen # {})
  <2>1. /\ runStatus' = closed /\ invStatus' = ended
        /\ UNCHANGED <<objective, invRun, accepted>>
    BY <1>9 DEF End
  <2>2. ~dispatch \/ waiting \subseteq Barred
    <3>1. Eligible(waiting) \in SUBSET Inputs
      BY <1>7, ChosenWaits
    <3> QED BY <3>1, <1>9, SelectedSome DEF Eligible
  <2>3. posted = {} /\ \A x \in Inputs : origin'[x] = origin[x]
    <3>1. posted = {}
      BY <2>2
    <3> QED BY <3>1
  <2> HIDE DEF closed, ended, chosen
  <2>4. Live' = {}
    BY <2>1, <1>3 DEF Live
  <2>5. Executed' = {} /\ Behind' = {} /\ Suspending' = {} /\ Withheld' = Queue'
    BY <2>4 DEF Executed, Behind, Suspending, Withheld
  <2>6. Queue' = Queue /\ Seen' = Seen /\ Barred' = Barred
    BY <2>1, <2>3 DEF Queue, Seen, Barred
  <2>7. Over' \in {Over, Over \cup Executed}
    BY <2>1, <1>4 DEF Over
  <2>8. Founded'
    BY <2>1, <2>3, <1>2 DEF Founded, Sound
  <2>9. CASE i \in Live
    <3>1. Behind \subseteq Barred \/ Suspending # {}
      BY <2>2, <2>9, OnLive
    <3>2. Executed # {}
      BY <2>9, OnLive
    <3>3. Contract!Stop
      BY <2>1, <2>5, <2>6, <2>7, <3>1, <3>2, <1>5 DEF Contract!Stop
    <3> QED BY <3>3, <2>8 DEF Fulfills, Contract!Next
  <2>10. CASE i \notin Live
    <3>1. Executed = {} /\ Behind = {} /\ Suspending = {} /\ Withheld = Queue
      BY <2>10, OnIdle
    <3>2. UNCHANGED <<objective, Executed, Behind, Withheld, Seen, Suspending, Over, Barred>>
      BY <3>1, <2>1, <2>5, <2>6, <2>7
    <3> QED BY <3>2, <2>8 DEF Fulfills, Contract!vars
  <2> QED BY <2>9, <2>10
<1> QED BY <1>8, <1>9

\* The end of the live invocation, when its own inputs are all that is handed on.
LEMMA OwnEndFulfills ==
  ASSUME EndType, RestType, Sound, agent # "deleted", agent' # "deleted",
         origin' = origin, admitted' = admitted,
         NEW i \in Live, NEW status \in Ends, NEW to \in Closes, NEW policy,
         NEW dispatch \in BOOLEAN, dispatch \/ runStatus[invRun[i]] = "suspending",
         End(i, status, to, dispatch, Waiting(i), position, policy)
  PROVE  Fulfills
<1> DEFINE posted == {}
<1>1. posted = {} /\ Waiting(i) = posted \cup Behind
  BY OnLive
<1>2. position \in [Inputs -> Nat]
  BY DEF EndType
<1>3. \A x \in Inputs : IF x \in posted THEN origin'[x] # None ELSE origin'[x] = origin[x]
  BY <1>1
<1> HIDE DEF posted
<1> QED BY <1>1, <1>2, <1>3, EndFulfills

\* Whatever ends an invocation through finish.
LEMMA FinishFulfills ==
  ASSUME TypeOK, Sound, RevokedAgentRunsNothing, NEW i, NEW status \in Ends, Finish(i, status)
  PROVE  Fulfills
<1> DEFINE to == CASE status = "stopped" -> "waiting"
                   [] status = "canceled" -> "canceled"
                   [] OTHER -> "failed"
           dispatch == runStatus[invRun[i]] # "suspending"
<1>1. PICK policy \in Policies :
        End(i, status, to, dispatch, Waiting(i), position, policy)
  BY DEF Finish
<1>2. i \in Live /\ UNCHANGED <<origin, agent, admitted>>
  BY DEF Finish, registry
<1>3. agent # "deleted"
  BY <1>2, LiveNotDeleted
<1>4. to \in Closes /\ dispatch \in BOOLEAN /\ (dispatch \/ runStatus[invRun[i]] = "suspending")
  BY DEF Closes, Ends
<1>5. EndType /\ RestType
  BY TypeParts
<1> HIDE DEF to, dispatch
<1> QED BY <1>1, <1>2, <1>3, <1>4, <1>5, OwnEndFulfills

\* A run started for a request or a message that nobody has seen, while nothing is executed.
LEMMA CreateFulfills ==
  ASSUME TypeOK, Sound, agent = "available", agent' = agent, Idle, NEW n \in Invocations,
         NEW e \in Events, e \notin Seen, e \notin Barred, admitted' = admitted,
         Creates(runStatus, invStatus, n, {e}), UNCHANGED queue
  PROVE  Fulfills
<1>1. RowsType /\ runStatus \in [Runs -> RunStatuses]
      /\ invStatus \in [Invocations -> InvocationStatuses]
  BY TypeParts DEF EndType, RowsType
<1>2. \A j \in Invocations : invStatus[j] \notin {"pending", "running"}
  BY DEF Idle, Live
<1>3. PICK r \in Runs : StartedFor(r, n, {e})
  BY <1>1, CreateUses DEF Sound
<1>4. UNCHANGED <<origin, owner, accepted>>
  BY DEF queue
<1>5. Live' = {n} /\ \A x \in Inputs : owner[x] # n
  <2>1. Live' = {n}
    BY <1>1, <1>2, CreateMoves DEF RowAdded
  <2> QED BY <2>1, <1>3 DEF StartedFor, Sound, RowsInUse
<1>6. Behind = {} /\ Behind' = {} /\ Withheld' = Withheld
  BY <1>4, <1>5, OnIdle DEF Behind, Withheld, Queue
<1>7. Seen' = Seen \cup {e}
  <2>1. \A d : InObjective(d)' <=> InObjective(d) \/ d = e
    BY <1>3 DEF StartedFor, InObjective
  <2> QED BY <2>1, <1>4 DEF Seen, InObjective
<1>8. \A x \in Inputs : accepted'[x] => origin'[x] # None
  BY <1>4 DEF Sound, Founded
<1>9. {q \in Runs : runStatus[q] \in {"completed", "canceled"}} \in {Over, Over \cup Executed}
  BY DEF Over
<1> DEFINE events == {e}
<1>10. /\ events # {} /\ events \subseteq (events \cup Behind) \ Barred
       /\ events \cap (Seen \cup Barred) = {}
       /\ Seen' = Seen \cup events
       /\ Behind' = (events \cup Behind) \ events /\ Withheld' = Withheld \ Behind
       /\ \E d \in Events : events = {d} /\ Behind = Behind /\ events = {d}
  BY <1>6, <1>7
<1>11. Creates(runStatus, invStatus, n, events)
  OBVIOUS
<1> HIDE DEF events
<1> QED BY <1>1, <1>2, <1>8, <1>9, <1>10, <1>11, BeginFulfills

\* A new input nobody has seen, that waits on the live invocation or is one of its run's.
LEMMA EnqueueFulfills ==
  ASSUME TypeOK, Sound, agent' = agent, admitted' = admitted,
         NEW i \in Live, NEW x \in Inputs, x \notin Seen, x \notin Barred,
         Enqueue(i, x), UNCHANGED <<runStatus, invStatus, invRun>>,
         \/ UNCHANGED <<objective, accepted>>
         \/ /\ accepted' = [accepted EXCEPT ![x] = TRUE]
            /\ objective' = [objective EXCEPT ![invRun[i]] = @ \cup {x}]
  PROVE  Fulfills
<1>1. i \in Invocations /\ i # None
  BY DEF Live
<1>2. origin[x] = None /\ ~accepted[x]
  <2>1. origin[x] = None
    BY DEF Seen
  <2> QED BY <2>1 DEF Sound, Founded
<1>3. /\ origin'[x] = i /\ owner'[x] = i
      /\ \A y \in Inputs : y # x => origin'[y] = origin[y] /\ owner'[y] = owner[y]
  BY DEF Enqueue, TypeOK
<1>4. UNCHANGED <<Live, Executed, Suspending, Over, Barred>>
  BY DEF Live, Executed, Suspending, Over, Barred
<1>5. /\ EndType /\ Executed = {invRun[i]} /\ invRun[i] \in Runs
  BY TypeParts, OnLive
<1>6. CASE UNCHANGED <<objective, accepted>>
  <2>1. Behind' = Behind \cup {x}
    BY <1>1, <1>2, <1>3, <1>4, <1>6 DEF Behind, Queue
  <2>2. Withheld' = Withheld
    <3>1. \A y \in Inputs : y \in Withheld' <=> y \in Withheld
      BY <1>1, <1>2, <1>3, <1>4, <1>6 DEF Withheld, Queue
    <3> QED BY <3>1 DEF Withheld, Queue
  <2>3. Seen' = Seen \cup {x}
    <3>1. \A e : e \in Seen' <=> e \in Seen \/ e = x
      BY <1>1, <1>3, <1>6 DEF Seen
    <3> QED BY <3>1
  <2>4. Contract!Queue(x)
    BY <2>1, <2>2, <2>3, <1>4, <1>5, <1>6 DEF Contract!Queue, Contract!Posted
  <2>5. Founded'
    BY <1>1, <1>3, <1>6 DEF Founded, Sound
  <2> QED BY <2>4, <2>5 DEF Fulfills, Contract!Next
<1>7. CASE /\ accepted' = [accepted EXCEPT ![x] = TRUE]
           /\ objective' = [objective EXCEPT ![invRun[i]] = @ \cup {x}]
  <2>1. accepted'[x] /\ \A y \in Inputs : y # x => accepted'[y] = accepted[y]
    BY <1>7 DEF TypeOK
  <2>2. /\ objective'[invRun[i]] = objective[invRun[i]] \cup {x}
        /\ \A r \in Runs : r # invRun[i] => objective'[r] = objective[r]
    BY <1>5, <1>7 DEF TypeOK
  <2>3. Behind' = Behind /\ Withheld' = Withheld
    <3>1. \A y \in Inputs : (y \in Behind' <=> y \in Behind) /\ (y \in Withheld' <=> y \in Withheld)
      BY <1>2, <1>3, <1>4, <2>1 DEF Behind, Withheld, Queue
    <3> QED BY <3>1 DEF Behind, Withheld, Queue
  <2>4. Seen' = Seen \cup {x}
    <3>1. \A e : InObjective(e)' <=> InObjective(e) \/ e = x
      BY <2>2, <1>5 DEF InObjective
    <3>2. \A e : e \in Seen' <=> e \in Seen \/ e = x
      BY <3>1, <1>1, <1>3 DEF Seen, InObjective, Events
    <3> QED BY <3>2
  <2>5. Contract!Join(invRun[i], x)
    BY <2>3, <2>4, <1>4, <1>5, <1>7 DEF Contract!Join, Contract!Posted
  <2>6. Founded'
    BY <2>1, <2>2, <1>1, <1>3 DEF Founded, Sound
  <2> QED BY <2>5, <2>6, <1>5 DEF Fulfills, Contract!Next
<1> QED BY <1>6, <1>7

\* A new input, under any policy.
LEMMA ScheduleFulfills ==
  ASSUME TypeOK, Sound, agent = "available", agent' = agent, admitted' = admitted,
         NEW i \in Live, NEW x \in Inputs, x \notin Seen, x \notin Barred, NEW policy, Schedule(i, x, policy)
  PROVE  Fulfills
<1>1. EndType /\ RestType /\ i # None
  BY TypeParts DEF Live
<1>2. CASE policy = "interrupt"
  <2> DEFINE posted == {x}
             waiting == Waiting(i) \cup {x}
             places == [position EXCEPT ![x] = Back]
  <2>1. /\ origin' = [origin EXCEPT ![x] = i]
        /\ End(i, "canceled", "canceled", TRUE, waiting, places, policy)
    BY <1>2 DEF Schedule
  <2>2. \A y \in Inputs : IF y \in posted THEN origin'[y] # None ELSE origin'[y] = origin[y]
    BY <2>1, <1>1 DEF RestType
  <2>3. waiting = posted \cup Behind
    BY <1>1, OnLive
  <2>4. places \in [Inputs -> Nat]
    BY <1>1, BackType DEF EndType
  <2>5. /\ "canceled" \in Ends /\ "canceled" \in Closes
        /\ \E y \in Inputs : posted = {y} /\ y \notin Seen /\ y \notin Barred
    BY DEF Ends, Closes
  <2> HIDE DEF posted, waiting, places
  <2> QED BY <2>1, <2>2, <2>3, <2>4, <2>5, <1>1, EndFulfills
<1>3. CASE policy # "interrupt"
  BY <1>3, EnqueueFulfills DEF Schedule, rows
<1> QED BY <1>2, <1>3

\* A resume gives the run that is executed again the inputs it has read.
LEMMA ResumeFulfills ==
  ASSUME TypeOK, Sound, NEW read \in reads, ResumeRun(read)
  PROVE  Fulfills
<1> DEFINE back == Waiting(read.invocation)
<1>1. PICK n \in Invocations :
        /\ RowAdded(n, read.run)
        /\ \A x \in Inputs : owner'[x] = IF x \in back THEN n ELSE owner[x]
  BY ResumeMoves
<1>2. /\ Idle /\ runStatus[read.run] \in {"waiting", "failed"} /\ read.run \in Runs
      /\ UNCHANGED <<origin, accepted, objective, agent, admitted>> /\ agent = "available"
      /\ runStatus' = [runStatus EXCEPT ![read.run] = "active"]
  BY ResumeMoves DEF ResumeRun, registry, Available
<1>3. /\ runStatus'[read.run] = "active"
      /\ \A r \in Runs : r # read.run => runStatus'[r] = runStatus[r]
  BY <1>2 DEF TypeOK
<1>4. Executed' = {read.run} /\ Suspending' = {} /\ Over' = Over /\ read.run \notin Over
  <2>1. Executed' = {read.run}
    BY <1>1 DEF Executed, RowAdded
  <2> QED BY <2>1, <1>2, <1>3 DEF Suspending, Over
<1>5. read.invocation # None
  BY DEF TypeOK
<1>6. back \in SUBSET Withheld
  BY <1>2, <1>5, QueuedIsFresh, OnIdle DEF Sound
<1>7. \A x \in Inputs : owner[x] # n
  BY <1>1 DEF RowAdded, NewInvocation, Sound, RowsInUse
<1>8. Live' = {n} /\ Queue' = Queue
  BY <1>1, <1>2 DEF RowAdded, Queue
<1>9. Behind' = back
  <2>1. \A x \in Inputs : x \in Behind' <=> x \in back
    BY <1>1, <1>6, <1>7, <1>8 DEF Behind, Withheld
  <2> QED BY <2>1, <1>6 DEF Behind, Withheld, Queue
<1>10. Withheld' = Withheld \ back
  <2>1. \A x \in Inputs : x \in Withheld' <=> x \in Withheld /\ x \notin back
    BY <1>1, <1>2, <1>7, <1>8, OnIdle DEF Withheld
  <2> QED BY <2>1 DEF Withheld, Queue
<1>11. Seen' = Seen /\ Barred' = Barred
  BY <1>2 DEF Seen, Barred
<1>12. objective[read.run] # {}
  BY <1>2 DEF Sound, Founded
<1>13. Contract!Resume(read.run, back)
  BY <1>2, <1>4, <1>9, <1>10, <1>11, <1>12, OnIdle DEF Contract!Resume
<1>14. Founded'
  BY <1>2, <1>3 DEF Founded, Sound
<1> HIDE DEF back
<1> QED BY <1>2, <1>6, <1>13, <1>14 DEF Fulfills, Contract!Next

\* An input is removed.
LEMMA RemoveFulfills ==
  ASSUME TypeOK, Sound, NEW x \in Inputs, RemoveQueued(x)
  PROVE  Fulfills
<1>1. /\ origin[x] # None /\ accepted' = [accepted EXCEPT ![x] = TRUE]
      /\ UNCHANGED <<agent, admitted, runStatus, objective, invStatus, invRun, origin, owner>>
  BY DEF RemoveQueued, Queue, registry, rows
<1>2. accepted'[x] /\ \A y \in Inputs : y # x => accepted'[y] = accepted[y]
  BY <1>1 DEF TypeOK
<1>3. Live' = Live
  BY <1>1 DEF Live
<1>4. Behind' = Behind \ {x} /\ Withheld' = Withheld \ {x}
  <2>1. \A y \in Inputs : /\ y \in Behind' <=> y \in Behind /\ y # x
                          /\ y \in Withheld' <=> y \in Withheld /\ y # x
    BY <1>1, <1>2, <1>3 DEF Behind, Withheld, Queue
  <2> QED BY <2>1 DEF Behind, Withheld, Queue
<1>5. UNCHANGED <<Executed, Seen, Suspending, Over, Barred>>
  BY <1>1, <1>3 DEF Executed, Seen, Suspending, Over, Barred
<1>6. Contract!Remove(x)
  BY <1>1, <1>4, <1>5 DEF Contract!Remove
<1>7. Founded'
  BY <1>1, <1>2 DEF Founded, Sound
<1> QED BY <1>6, <1>7 DEF Fulfills, Contract!Next

\* The run that is executed is asked to stop.
LEMMA SuspendFulfills ==
  ASSUME TypeOK, Sound, NEW i \in Invocations, SuspendInvocation(i)
  PROVE  Fulfills
<1>1. /\ i \in Live /\ runStatus[invRun[i]] \in {"active", "suspending"}
      /\ runStatus' = [runStatus EXCEPT ![invRun[i]] = "suspending"]
      /\ UNCHANGED <<agent, admitted, objective, invStatus, invRun, origin, owner, accepted>>
  BY DEF SuspendInvocation, Live, registry, queue
<1>2. Executed = {invRun[i]} /\ invRun[i] \in Runs
  BY <1>1, TypeParts, OnLive
<1>3. /\ runStatus'[invRun[i]] = "suspending"
      /\ \A r \in Runs : r # invRun[i] => runStatus'[r] = runStatus[r]
  BY <1>1, <1>2 DEF TypeOK
<1>4. Live' = Live /\ Executed' = Executed
  BY <1>1 DEF Live, Executed
<1>5. UNCHANGED <<Behind, Withheld, Seen, Barred>>
  BY <1>1, <1>4 DEF Behind, Withheld, Queue, Seen, Barred
<1>6. Suspending' = Executed
  BY <1>2, <1>3, <1>4 DEF Suspending
<1>7. Over' = Over
  BY <1>1, <1>3 DEF Over
<1>8. Contract!Suspend
  BY <1>1, <1>2, <1>4, <1>5, <1>6, <1>7 DEF Contract!Suspend
<1>9. Founded'
  BY <1>1, <1>2, <1>3 DEF Founded, Sound
<1> QED BY <1>8, <1>9 DEF Fulfills, Contract!Next

\* A host says what its run has come to, however late.
LEMMA TellFulfills ==
  ASSUME TypeOK, Sound, NEW i \in Invocations,
         NEW status \in {"waiting", "completed", "failed", "canceled"}, SetRunStatus(i, status)
  PROVE  Fulfills
<1> DEFINE r == invRun[i]
<1>1. /\ runStatus' = [runStatus EXCEPT ![r] = IF @ \in Open THEN status ELSE @]
      /\ UNCHANGED <<agent, admitted, objective, invStatus, invRun, origin, owner, accepted>>
  BY DEF SetRunStatus, SetStatus, registry, queue
<1>2. Live' = Live
  BY <1>1 DEF Live
<1>3. CASE r \in Runs /\ runStatus[r] \in Open
  <2>1. /\ runStatus'[r] = status
        /\ \A s \in Runs : s # r => runStatus'[s] = runStatus[s]
    BY <1>1, <1>3 DEF TypeOK
  <2>2. UNCHANGED <<objective, Executed, Behind, Withheld, Seen, Barred>>
    BY <1>1, <1>2 DEF Executed, Behind, Withheld, Queue, Seen, Barred
  <2>3. runStatus[r] # "none" /\ objective[r] # {}
    BY <1>3 DEF Open, Sound, Founded
  <2> HIDE DEF r
  <2>4. Suspending' \subseteq Suspending
    <3>1. Executed \subseteq Runs
      BY DEF Executed, Live, Sound, RowsInUse
    <3> QED BY <3>1, <2>1, <2>2 DEF Suspending
  <2>5. Over' \in {Over, Over \cup {r}}
    <3>1. CASE status \in {"completed", "canceled"}
      <4>1. Over' = Over \cup {r}
        BY <3>1, <2>1, <1>3 DEF Over
      <4> QED BY <4>1
    <3>2. CASE status \notin {"completed", "canceled"}
      <4>1. Over' = Over
        BY <3>2, <2>1, <1>3 DEF Over, Open
      <4> QED BY <4>1
    <3> QED BY <3>1, <3>2
  <2>6. Contract!Tell(r)
    BY <1>1, <2>2, <2>3, <2>4, <2>5 DEF Contract!Tell
  <2>7. Founded'
    BY <1>1, <2>1, <2>3 DEF Founded, Sound
  <2> QED BY <2>6, <2>7, <1>3 DEF Fulfills, Contract!Next
<1>4. CASE ~(r \in Runs /\ runStatus[r] \in Open)
  <2>1. runStatus' = runStatus
    BY <1>1, <1>4 DEF TypeOK
  <2> QED BY <1>1, <1>2, <2>1, SameFulfills DEF Sound
<1> QED BY <1>3, <1>4

\* The agent is deleted.
LEMMA DeleteFulfills ==
  ASSUME TypeOK, Sound, DeleteAgent
  PROVE  Fulfills
<1>1. /\ agent' = "deleted" /\ UNCHANGED <<admitted, objective, invRun, origin, owner, accepted>>
      /\ invStatus' = [i \in Invocations |-> IF i \in Live THEN "canceled" ELSE invStatus[i]]
      /\ runStatus' = [r \in Runs |-> IF r \in Executed THEN SetStatus(r, "canceled")[r]
                                                        ELSE runStatus[r]]
  <2>1. \A r \in Runs : r \in Executed <=> \E i \in Live : invRun[i] = r
    BY DEF Executed
  <2> QED BY <2>1 DEF DeleteAgent, queue
<1>2. Live' = {}
  BY <1>1 DEF Live
<1>3. Executed' = {} /\ Behind' = {} /\ Suspending' = {} /\ Withheld' = Withheld \cup Behind
  BY <1>1, <1>2 DEF Executed, Behind, Suspending, Withheld, Queue
<1>4. Seen' = Seen /\ Barred' = Barred
  BY <1>1 DEF Seen, Barred
<1>5. \A r \in Runs : runStatus'[r] = IF r \in Executed /\ runStatus[r] \in Open
                                      THEN "canceled" ELSE runStatus[r]
  BY <1>1 DEF SetStatus, TypeOK
<1>6. Over' \in {Over, Over \cup Executed}
  <2>1. CASE Executed = {}
    <3>1. Over' = Over
      BY <2>1, <1>5 DEF Over
    <3> QED BY <3>1
  <2>2. CASE Executed # {}
    <3>1. PICK i \in Live : TRUE
      BY <2>2 DEF Executed
    <3>2. Executed = {invRun[i]} /\ invRun[i] \in Runs
      BY <3>1, TypeParts, OnLive
    <3>3. CASE runStatus[invRun[i]] \in Open
      <4>1. Over' = Over \cup Executed
        BY <3>2, <3>3, <1>5 DEF Over
      <4> QED BY <4>1
    <3>4. CASE runStatus[invRun[i]] \notin Open
      <4>1. Over' = Over
        BY <3>2, <3>4, <1>5 DEF Over
      <4> QED BY <4>1
    <3> QED BY <3>3, <3>4
  <2> QED BY <2>1, <2>2
<1>7. Contract!Delete
  BY <1>1, <1>3, <1>4, <1>6 DEF Contract!Delete
<1>8. Founded'
  BY <1>1, <1>5 DEF Founded, Sound, Open
<1> QED BY <1>7, <1>8 DEF Fulfills, Contract!Next

\* Who has access changes.
LEMMA AdmitFulfills ==
  ASSUME Founded, ChangeAccess
  PROVE  Fulfills
<1>1. UNCHANGED <<agent, runStatus, objective, invStatus, invRun, origin, owner, accepted>>
  BY DEF ChangeAccess, rows, queue
<1>2. Live' = Live
  BY <1>1 DEF Live
<1>3. UNCHANGED <<objective, Executed, Behind, Withheld, Seen, Suspending, Over>>
  BY <1>1, <1>2 DEF Executed, Behind, Withheld, Queue, Seen, Suspending, Over
<1>4. Barred' \subseteq Inputs
  BY AccessAssumption DEF Barred, Inputs
<1>5. Contract!Admit
  BY <1>1, <1>3, <1>4 DEF Contract!Admit
<1>6. Founded'
  BY <1>1 DEF Founded
<1> QED BY <1>5, <1>6 DEF Fulfills, Contract!Next

-----------------------------------------------------------------------------
\* Requests of users, applications and tools
LEMMA ClientFulfills ==
  ASSUME TypeOK, Sound, RevokedAgentRunsNothing, Client
  PROVE  Fulfills
<1> USE DEF registry, rows, queue
<1>1. EndType /\ RestType /\ Founded
  BY TypeParts DEF Sound
<1>2. \A x : x \in Seen <=> x \in Events /\ (InObjective(x) \/ (x \in Inputs /\ origin[x] # None))
  BY DEF Seen, InObjective, Events
<1>3. ASSUME NEW q \in Requests, StartRun(q) PROVE Fulfills
  <2>1. q \in Events /\ q \notin Seen /\ q \notin Barred
    BY <1>2, <1>3, EventsAssumption, AccessAssumption
    DEF StartRun, InObjective, Events, Inputs, Barred
  <2>2. PICK i \in Invocations : Creates(runStatus, invStatus, i, {q})
    BY <1>3, SourceOfType DEF StartRun, Creates
  <2>3. agent = "available" /\ UNCHANGED <<agent, admitted, queue>> /\ Idle
    BY <1>3 DEF StartRun, Available
  <2> QED BY <2>1, <2>2, <2>3, CreateFulfills
<1>4. ASSUME NEW m \in Messages, NEW policy \in Policies, RouteMessage(m, policy)
      PROVE  Fulfills
  <2>1. m \in Inputs /\ m \in Events /\ m \notin Seen /\ m \notin Barred
    BY <1>2, <1>4 DEF RouteMessage, Inputs, Events, Sound, Dispatched, SenderOf, Barred
  <2>2. agent = "available" /\ agent' = agent /\ admitted' = admitted
    BY <1>4 DEF RouteMessage, Available
  <2>3. CASE Idle /\ \E i \in Invocations : Creates(runStatus, invStatus, i, {m})
                                             /\ UNCHANGED queue
    BY <2>1, <2>2, <2>3, CreateFulfills
  <2>4. CASE \E i \in Live : Schedule(i, m, policy)
    BY <2>1, <2>2, <2>4, ScheduleFulfills
  <2> QED BY <2>3, <2>4, <1>4, SourceOfType DEF RouteMessage, Creates
<1>5. ASSUME NEW x \in Steers, origin[x] = None
      PROVE  x \in Inputs /\ x \notin Seen /\ x \notin Barred
  BY <1>2, <1>5, EventsAssumption, AccessAssumption DEF Inputs, Sound, Dispatched, Barred
<1>6. ASSUME NEW i \in Invocations, NEW x \in Steers, NEW policy \in Policies,
             SteerInvocation(i, x, policy)
      PROVE  Fulfills
  BY <1>5, <1>6, ScheduleFulfills DEF SteerInvocation, Available
<1>7. ASSUME NEW i \in Invocations, NEW x \in Steers, QueueInput(i, x) PROVE Fulfills
  BY <1>5, <1>7, EnqueueFulfills DEF QueueInput
<1>8. ASSUME NEW i \in Invocations, CancelInvocation(i) PROVE Fulfills
  BY <1>8, FinishFulfills DEF CancelInvocation, Ends
<1>9. ASSUME NEW x \in Inputs, NEW policy \in Policies, SteerQueued(x, policy)
      PROVE  Fulfills
  <2> DEFINE posted == {}
             places == Renumber(x, Queue \ {x})
  <2>1. PICK i \in (IF Idle THEN {owner[x]} ELSE Live) :
          End(i, "canceled", "canceled", TRUE, Queue, places, policy)
    BY <1>9 DEF SteerQueued
  <2>2. i \in Live \/ Idle
    BY <2>1
  <2>3. /\ x \in Queue /\ agent = "available" /\ agent' = agent /\ admitted' = admitted
        /\ \A y \in Inputs : IF y \in posted THEN origin'[y] # None ELSE origin'[y] = origin[y]
    BY <1>9 DEF SteerQueued, Available
  <2>4. Queue = posted \cup (Behind \cup Withheld) /\ Behind \cup Withheld # {} /\ posted = {}
    BY <2>3 DEF Behind, Withheld
  <2>5. places \in [Inputs -> Nat]
    BY <1>1, RenumberType DEF EndType
  <2>6. "canceled" \in Ends /\ "canceled" \in Closes
    BY DEF Ends, Closes
  <2> HIDE DEF posted, places
  <2> QED BY <2>1, <2>2, <2>3, <2>4, <2>5, <2>6, <1>1, EndFulfills
<1>10. ASSUME \/ \E r \in Runs : ReadRun(r)
              \/ \E read \in reads : ResumeRefused(read)
              \/ \E x \in Inputs : MoveQueued(x)
       PROVE  Fulfills
  <2>1. UNCHANGED <<agent, admitted, runStatus, objective, invStatus, invRun, origin, owner, accepted>>
    BY <1>10 DEF ReadRun, ResumeRefused, MoveQueued
  <2> QED BY <1>1, <2>1, SameFulfills DEF Live
<1> QED
  BY <1>3, <1>4, <1>6, <1>7, <1>8, <1>9, <1>10, ResumeFulfills, RemoveFulfills, SuspendFulfills
  DEF Client

\* Tasks, hosts and the registry
LEMMA ServerFulfills ==
  ASSUME TypeOK, Sound, RevokedAgentRunsNothing, Gateway \/ Host \/ Registry
  PROVE  Fulfills
<1> USE DEF registry, rows, queue
<1>1. EndType /\ RestType /\ Founded
  BY TypeParts DEF Sound
<1>2. CASE Gateway
  <2>1. PICK i \in Invocations :
          Claim(i) \/ Task(i) \/ RenewLease(i) \/ LeaseLapses(i) \/ Expire(i)
    BY <1>2 DEF Gateway
  <2>2. CASE Claim(i)
    <3>1. /\ UNCHANGED <<agent, admitted, runStatus, objective, invRun, origin, owner, accepted>>
          /\ invStatus[i] = "pending" /\ invStatus' = [invStatus EXCEPT ![i] = "running"]
      BY <2>2 DEF Claim
    <3>2. Live' = Live
      BY <3>1 DEF Live, TypeOK
    <3> QED BY <3>1, <3>2, <1>1, SameFulfills
  <2>3. CASE Expire(i)
    <3>1. PICK policy \in Policies :
            End(i, "failed", "failed", TRUE, Waiting(i), position, policy)
      BY <2>3 DEF Expire
    <3>2. i \in Live /\ UNCHANGED <<origin, agent, admitted>>
      BY <2>3 DEF Expire, Live
    <3>3. agent # "deleted" /\ "failed" \in Ends /\ "failed" \in Closes
      BY <3>2, LiveNotDeleted DEF Ends, Closes
    <3> QED BY <3>1, <3>2, <3>3, <1>1, OwnEndFulfills
  <2>4. CASE TaskFails(i)
    BY <2>4, FinishFulfills DEF TaskFails, Ends
  <2>5. CASE Wake(i) \/ TaskReturns(i) \/ TaskLost(i) \/ RenewLease(i) \/ LeaseLapses(i)
    <3>1. UNCHANGED <<agent, admitted, runStatus, objective, invStatus, invRun, origin, owner, accepted>>
      BY <2>5 DEF Wake, TaskReturns, TaskLost, RenewLease, LeaseLapses
    <3> QED BY <1>1, <3>1, SameFulfills DEF Live
  <2> QED BY <2>1, <2>2, <2>3, <2>4, <2>5 DEF Task
<1>3. CASE Host
  <2>1. ASSUME NEW i \in Invocations, NEW status \in {"stopped", "failed"}, Report(i, status)
        PROVE  Fulfills
    BY <2>1, FinishFulfills DEF Report, Ends
  <2>2. ASSUME NEW i \in Invocations, HostGone(i) PROVE Fulfills
    BY <1>1, <2>2, SameFulfills DEF HostGone, Live
  <2> QED BY <1>3, <2>1, <2>2, TellFulfills DEF Host
<1>4. CASE Registry
  <2>1. CASE PauseAgent
    <3>1. agent = "available" /\ agent' = "paused" /\ origin' = origin /\ admitted' = admitted
      BY <2>1 DEF PauseAgent, Available
    <3>2. CASE \E i \in Live, policy \in Policies :
                 End(i, "canceled", "waiting", TRUE, Waiting(i), position, policy)
      <4>1. "canceled" \in Ends /\ "waiting" \in Closes
        BY DEF Ends, Closes
      <4> QED BY <3>1, <3>2, <4>1, <1>1, OwnEndFulfills
    <3>3. CASE UNCHANGED <<rows, owner, accepted>>
      BY <3>1, <3>3, <1>1, SameFulfills DEF Live
    <3> QED BY <3>2, <3>3, <2>1 DEF PauseAgent
  <2>2. CASE ResumeAgent \/ ChangeDeployments
    BY <2>2, <1>1, SameFulfills DEF ResumeAgent, ChangeDeployments, Live
  <2> QED BY <1>4, <2>1, <2>2, <1>1, DeleteFulfills, AdmitFulfills DEF Registry
<1> QED BY <1>2, <1>3, <1>4

\* Nothing was ever asked of a new conversation.
LEMMA InitFulfills == Init => Contract!Init /\ Founded
<1> SUFFICES ASSUME Init PROVE Contract!Init /\ Founded
  OBVIOUS
<1>1. Live = {} /\ Queue = {}
  BY DEF Init, Live, Queue
<1>2. Executed = {} /\ Behind = {} /\ Withheld = {} /\ Suspending = {}
  BY <1>1 DEF Executed, Behind, Withheld, Suspending
<1>3. Seen = {} /\ Over = {} /\ Barred \subseteq Inputs
  BY AccessAssumption DEF Init, Seen, Over, Barred, Inputs
<1>4. Contract!Init
  BY <1>2, <1>3 DEF Init, Contract!Init
<1>5. Founded
  BY DEF Init, Founded
<1> QED BY <1>4, <1>5

\* The gateway's transactions, tasks and hosts implement the conversation that CONTEXT.md
\* describes: whatever is started, routed, steered, queued, moved, resumed, paused, expired or
\* reported late, one run is executed at a time, each event is given to one run, once, and
\* what waits behind a run that ends is taken over, withheld by a suspension, or removed;
\* only what is of senders without access is left behind, and none of it is taken.
THEOREM ConversationIsKept == Spec => KeepsConversation
<1>1. Init => Contract!Init /\ Founded
  BY InitFulfills
<1>2. TypeOK /\ Safe /\ Dispatched /\ RowsInUse /\ Lineage /\ Founded /\ [Next]_vars
      => [Contract!Next]_(Contract!vars) /\ Founded'
  <2> SUFFICES ASSUME TypeOK, Safe, Dispatched, RowsInUse, Lineage, Founded, [Next]_vars
               PROVE  Fulfills
    BY DEF Fulfills
  <2>1. Sound /\ RevokedAgentRunsNothing
    BY DEF Sound, Safe
  <2>2. CASE UNCHANGED vars
    BY <2>2, SameFulfills DEF vars, registry, rows, queue, Live
  <2>3. CASE Next
    BY <2>1, <2>3, ClientFulfills, ServerFulfills DEF Next
  <2> QED BY <2>2, <2>3
<1> QED
  BY <1>1, <1>2, TypeInvariant, SafeInvariant, DispatchedInvariant, RowsInvariant,
     LineageInvariant, PTL DEF Spec, KeepsConversation, Contract!Spec
=============================================================================
