------------------------- MODULE ThreadLeaseProofs -------------------------
(* Theorems about ThreadLease, for every value of its constants. *)
EXTENDS ThreadLeaseTypes, TLAPS

-----------------------------------------------------------------------------
(* Versions order what replicas are told *)

\* What a frame, an answer or a cached lease says, "the holder at version v is h", is not
\* newer than the row, and is right if it is the row's version.
Claim(h, v) == h # Nobody =>
  /\ v <= version
  /\ v = version /\ holder # Nobody => holder = h

\* The clock is the version of the last row, whether or not the row still exists.
RowInv == holder \in Holders /\ version \in Nat /\ clock = version

ThreadInv ==
  /\ thread \in [Replicas -> [cached : BOOLEAN, holds : BOOLEAN, version : Nat]]
  /\ \A r \in Replicas : thread[r].holds => Claim(r, thread[r].version)

Loads == [stage : {"idle", "asked", "leased", "read"}, version : Nat, interrupted : BOOLEAN]

LoadInv ==
  /\ load \in [Replicas -> Loads]
  /\ \A r \in Replicas : load[r].stage = "asked" => load[r].version = 0
  /\ \A r \in Replicas :
       load[r].stage \in {"leased", "read"} => Claim(r, load[r].version)

\* At most one frame, and what it says.
Told(frames) == frames # <<>> =>
  /\ frames[1].holder \in Holders /\ frames[1].version \in Nat
  /\ Claim(frames[1].holder, frames[1].version)

WatchInv == DOMAIN watch = Replicas /\ \A r \in Replicas : Told(watch[r])
CallInv == DOMAIN call = Replicas /\ \A r \in Replicas : Told(call[r].lost)

VersionInv == RowInv /\ ThreadInv /\ LoadInv /\ WatchInv /\ CallInv

\* What a step may do to the row: nothing, delete it, or give the lease to a replica.
RowDeleted == holder' = Nobody /\ UNCHANGED <<version, clock>>
RowMoves == UNCHANGED lease \/ RowDeleted \/ \E r \in Replicas : Give(r, Later)

\* Whatever was right to say of the lease is right after the step.
ClaimsKept == \A h \in Holders, v \in Nat : Claim(h, v) => Claim(h, v)'

LEMMA ClaimsSurvive ==
  ASSUME RowInv, RowMoves
  PROVE  RowInv' /\ ClaimsKept
<1>1. CASE UNCHANGED lease
  BY <1>1 DEF RowInv, ClaimsKept, Claim, lease
<1>2. CASE RowDeleted
  BY <1>2 DEF RowInv, ClaimsKept, Claim, RowDeleted, Holders
<1>3. CASE \E r \in Replicas : Give(r, Later)
  BY <1>3, NobodyAssumption DEF RowInv, ClaimsKept, Claim, Give, Later, Holders
<1> QED BY <1>1, <1>2, <1>3 DEF RowMoves

\* No Hydrate transaction is held up before it gets the conversation's lock.
Prompt == "stall" \notin Upsets

\* Every action of the specification does one of these to the row.
LEMMA RowMoved ==
  ASSUME RowInv, LoadInv, [Next]_vars
  PROVE  RowMoves
<1> USE DEF RowMoves, lease
<1>1. CASE UNCHANGED vars
  BY <1>1 DEF vars
<1>2. ASSUME NEW r \in Replicas, NEW frames, Projects(r, frames), UNCHANGED <<version, clock>>
      PROVE  RowMoves
  BY <1>2 DEF Projects, RowDeleted
<1>3. ASSUME NEW h \in Holders, NEW stop, TakeOver(h, stop)
      PROVE  RowMoves
  BY <1>3 DEF TakeOver, RowDeleted, Holders
<1>4. CASE Gateway
  <2>1. CASE Recover
    BY <1>3, <2>1 DEF Recover, Recovers, RowDeleted
  <2>2. CASE Scan \/ RecoverSkips
    BY <2>2 DEF Scan, RecoverSkips
  <2>3. ASSUME NEW r \in Replicas, Publish(r)
        PROVE  RowMoves
    BY <1>2, <2>3 DEF Publish
  <2>4. ASSUME NEW r \in Replicas, Lease(r)
        PROVE  RowMoves
    <3>1. CASE LeaseInserted(r)
      <4>1. {load[r].version} \cap 1 .. clock = {}
        BY <3>1 DEF LeaseInserted, LoadInv, RowInv
      <4> QED BY <3>1, <4>1 DEF LeaseInserted
    <3>2. CASE ~LeaseInserted(r)
      BY <1>3, <2>4, <3>2 DEF Lease, LeaseRefused, LeaseConfirmed, LeaseTaken, Holders
    <3> QED BY <3>1, <3>2
  <2>5. ASSUME NEW r \in Replicas,
               ReadRecord(r) \/ StreamLease(r) \/ DeclareDead(r) \/ Disconnect(r)
        PROVE  RowMoves
    BY <2>5 DEF ReadRecord, StreamLease, DeclareDead, Disconnect
  <2> QED BY <1>4, <2>1, <2>2, <2>3, <2>4, <2>5 DEF Gateway
<1>5. ASSUME NEW r \in Replicas, Replica(r)
      PROVE  RowMoves
  <2>1. CASE DrainFlush(r)
    BY <1>2, <2>1 DEF DrainFlush
  <2>2. CASE ~DrainFlush(r)
    BY <1>5, <2>2 DEF Replica, StartRun, ExecuteCommand, EndInvocation, FencedTick, OrphanEnds,
       Ship, Answered, PublishFails, AskToLoad, Loaded, LoadFails, DeliverLease, Reconnect,
       Heartbeat, Fence, Evict, Drain, DrainBeat, DrainFails, Crash
  <2> QED BY <2>1, <2>2
<1>6. CASE Network
  BY <1>6 DEF Network, Cut, Heal
<1> QED BY <1>1, <1>4, <1>5, <1>6 DEF Next

\* A frame that takes a cached lease away or hands it over says no more than it was told.
LEMMA LeaseApplied ==
  ASSUME NEW r \in Replicas, NEW frames, ThreadInv, frames # <<>>, Told(frames)
  PROVE  LET after == ApplyLease(r, frames[1])
         IN /\ after \in [cached : BOOLEAN, holds : BOOLEAN, version : Nat]
            /\ after.holds => Claim(r, after.version)
BY NobodyAssumption DEF ThreadInv, Told, ApplyLease, Holders

\* The claims of the cached leases survive a step.
LEMMA ThreadStep ==
  ASSUME VersionInv, [Next]_vars, ClaimsKept
  PROVE  ThreadInv'
<1> USE DEF VersionInv
<1>1. ASSUME NEW r \in Replicas, NEW t \in [cached : BOOLEAN, holds : BOOLEAN, version : Nat],
             t.holds => Claim(r, t.version), thread' = [thread EXCEPT ![r] = t]
      PROVE  ThreadInv'
  <2>1. \A s \in Replicas : thread'[s].holds => Claim(s, thread'[s].version)
    BY <1>1 DEF ThreadInv
  <2>2. thread' \in [Replicas -> [cached : BOOLEAN, holds : BOOLEAN, version : Nat]]
    BY <1>1 DEF ThreadInv
  <2> QED BY <2>1, <2>2 DEF ThreadInv, ClaimsKept, Holders
<1>2. ASSUME UNCHANGED thread
      PROVE  ThreadInv'
  BY <1>2 DEF ThreadInv, ClaimsKept, Holders
<1>3. ASSUME NEW r \in Replicas, Gone(r)
      PROVE  ThreadInv'
  BY <1>1, <1>3 DEF Gone, NotCached
<1>4. CASE UNCHANGED vars \/ Gateway \/ Network
  BY <1>2, <1>4 DEF vars, local, Gateway, Network, Scan, Recover, RecoverSkips, Publish, Lease,
     LeaseRefused, LeaseConfirmed, LeaseInserted, LeaseTaken, ReadRecord, StreamLease,
     DeclareDead, Disconnect, Cut, Heal
<1>5. ASSUME NEW r \in Replicas, Replica(r)
      PROVE  ThreadInv'
  <2>1. CASE Answered(r)
    <3> DEFINE lost == call[r].lost
               kept == IF lost = <<>> THEN thread[r] ELSE ApplyLease(r, lost[1])
    <3>1. kept \in [cached : BOOLEAN, holds : BOOLEAN, version : Nat]
          /\ (kept.holds => Claim(r, kept.version))
      BY LeaseApplied DEF CallInv, ThreadInv
    <3>2. PICK t : /\ t = kept \/ t = NotCached
                   /\ thread' = [thread EXCEPT ![r] = t]
      BY <2>1 DEF Answered
    <3> HIDE DEF kept
    <3>3. t \in [cached : BOOLEAN, holds : BOOLEAN, version : Nat]
          /\ (t.holds => Claim(r, t.version))
      <4>1. CASE t = kept
        BY <3>1, <4>1
      <4>2. CASE t = NotCached
        BY <4>2 DEF NotCached
      <4> QED BY <3>2, <4>1, <4>2
    <3> QED BY <1>1, <3>2, <3>3
  <2>2. CASE Evict(r)
    BY <1>1, <2>2 DEF Evict, NotCached
  <2>3. CASE Loaded(r)
    <3> DEFINE t == [cached |-> TRUE, holds |-> TRUE, version |-> load[r].version]
    <3>1. t \in [cached : BOOLEAN, holds : BOOLEAN, version : Nat] /\ Claim(r, t.version)
      BY <2>3 DEF Loaded, LoadInv, Loads
    <3> QED BY <1>1, <2>3, <3>1 DEF Loaded
  <2>4. CASE DeliverLease(r)
    BY <1>1, <2>4, LeaseApplied DEF DeliverLease, WatchInv
  <2>5. CASE Drain(r)
    <3> DEFINE t == [thread[r] EXCEPT !.holds = @ /\ work[r] # NoWork]
    <3>1. t \in [cached : BOOLEAN, holds : BOOLEAN, version : Nat]
          /\ (t.holds => Claim(r, t.version))
      BY DEF ThreadInv
    <3>2. thread' = [thread EXCEPT ![r] = t]
      BY <2>5 DEF Drain
    <3> QED BY <1>1, <3>1, <3>2
  <2>6. CASE Crash(r) \/ DrainFlush(r) \/ DrainFails(r)
    BY <1>3, <2>6 DEF Crash, DrainFlush, DrainFails
  <2>7. CASE ~(Answered(r) \/ Evict(r) \/ Loaded(r) \/ DeliverLease(r) \/ Drain(r)
               \/ Crash(r) \/ DrainFlush(r) \/ DrainFails(r))
    BY <1>2, <1>5, <2>7 DEF Replica, local, StartRun, ExecuteCommand, EndInvocation, FencedTick,
       OrphanEnds, Ship, PublishFails, AskToLoad, LoadFails, Reconnect, Heartbeat, Fence,
       DrainBeat
  <2> QED BY <2>1, <2>2, <2>3, <2>4, <2>5, <2>6, <2>7
<1> QED BY <1>4, <1>5 DEF Next

\* So do those of the answers to Hydrate.
LEMMA LoadStep ==
  ASSUME VersionInv, Prompt, [Next]_vars, ClaimsKept
  PROVE  LoadInv'
<1> USE DEF VersionInv
<1>1. ASSUME NEW r \in Replicas, NEW l \in Loads, load' = [load EXCEPT ![r] = l],
             l.stage = "asked" => l.version = 0,
             l.stage \in {"leased", "read"} => Claim(r, l.version)'
      PROVE  LoadInv'
  BY <1>1 DEF LoadInv, Loads, ClaimsKept, Holders
<1>2. ASSUME UNCHANGED load
      PROVE  LoadInv'
  BY <1>2 DEF LoadInv, Loads, ClaimsKept, Holders
<1>3. ASSUME NEW r \in Replicas, load' = [load EXCEPT ![r] = NoLoad]
      PROVE  LoadInv'
  BY <1>1, <1>3 DEF NoLoad, Loads
<1>4. ASSUME NEW r \in Replicas, Asked(r)
      PROVE  LoadInv'
  BY <1>1, <1>4 DEF Asked, Prompt, NoLoad, Loads
<1>5. ASSUME NEW r \in Replicas, NEW v \in Nat, Granted(r, v), Claim(r, v)'
      PROVE  LoadInv'
  BY <1>1, <1>5 DEF Granted, NoLoad, Loads
<1>6. CASE UNCHANGED vars \/ Network
  BY <1>2, <1>6 DEF vars, Network, Cut, Heal
<1>7. CASE Gateway
  <2>1. CASE Scan \/ Recover \/ RecoverSkips
    BY <1>2, <2>1 DEF Scan, Recover, RecoverSkips
  <2>2. ASSUME NEW r \in Replicas,
               Publish(r) \/ StreamLease(r) \/ DeclareDead(r) \/ Disconnect(r)
        PROVE  LoadInv'
    BY <1>2, <2>2 DEF Publish, StreamLease, DeclareDead, Disconnect
  <2>3. ASSUME NEW r \in Replicas, ReadRecord(r)
        PROVE  LoadInv'
    <3>1. (runActive /\ live = {}) \in BOOLEAN
      OBVIOUS
    <3>2. PICK l \in Loads : /\ l.stage = "read" /\ l.version = load[r].version
                             /\ load' = [load EXCEPT ![r] = l]
      BY <2>3, <3>1 DEF ReadRecord, LoadInv, Loads
    <3>3. Claim(r, l.version)'
      BY <2>3, <3>2 DEF ReadRecord, LoadInv, Loads, ClaimsKept, Holders
    <3> QED BY <1>1, <3>2, <3>3
  <2>4. ASSUME NEW r \in Replicas, Lease(r)
        PROVE  LoadInv'
    <3>1. CASE LeaseRefused(r)
      BY <1>3, <3>1 DEF LeaseRefused
    <3>2. CASE LeaseConfirmed(r)
      BY <1>5, <3>2 DEF LeaseConfirmed, RowInv, Claim, lease
    <3>3. CASE LeaseInserted(r)
      <4>1. {load[r].version} \cap 1 .. clock = {}
        BY <3>3 DEF LeaseInserted, LoadInv, RowInv
      <4>2. Give(r, Later) /\ Granted(r, version')
        BY <3>3, <4>1 DEF LeaseInserted
      <4> QED BY <1>5, <4>2 DEF RowInv, Claim, Give, Later
    <3>4. CASE LeaseTaken(r)
      BY <1>5, <3>4, NobodyAssumption DEF LeaseTaken, TakeOver, RowInv, Claim, Give,
         Later
    <3> QED BY <2>4, <3>1, <3>2, <3>3, <3>4 DEF Lease
  <2> QED BY <1>7, <2>1, <2>2, <2>3, <2>4 DEF Gateway
<1>8. ASSUME NEW r \in Replicas, Replica(r)
      PROVE  LoadInv'
  <2>1. CASE AskToLoad(r)
    BY <1>4, <2>1 DEF AskToLoad
  <2>2. CASE DeliverLease(r)
    BY <1>2, <1>4, <2>2 DEF DeliverLease
  <2>3. CASE Loaded(r) \/ LoadFails(r) \/ Crash(r) \/ DrainFlush(r) \/ DrainFails(r)
    BY <1>3, <2>3 DEF Loaded, LoadFails, Crash, DrainFlush, DrainFails, Gone
  <2>4. CASE ~(AskToLoad(r) \/ DeliverLease(r) \/ Loaded(r) \/ LoadFails(r) \/ Crash(r)
               \/ DrainFlush(r) \/ DrainFails(r))
    BY <1>2, <1>8, <2>4 DEF Replica, StartRun, ExecuteCommand, EndInvocation, FencedTick,
       OrphanEnds, Ship, Answered, PublishFails, Reconnect, Heartbeat, Fence, Evict, Drain,
       DrainBeat
  <2> QED BY <2>1, <2>2, <2>3, <2>4
<1> QED BY <1>6, <1>7, <1>8 DEF Next

\* And those of the frames of the Watch stream.
LEMMA WatchStep ==
  ASSUME VersionInv, [Next]_vars, ClaimsKept
  PROVE  WatchInv'
<1> USE DEF VersionInv
<1>1. ASSUME NEW frames, Told(frames)
      PROVE  Told(frames)'
  BY <1>1 DEF Told, ClaimsKept
<1>2. ASSUME NEW r \in Replicas, NEW frames, watch' = [watch EXCEPT ![r] = frames], Told(frames)
      PROVE  WatchInv'
  BY <1>1, <1>2 DEF WatchInv
<1>3. ASSUME UNCHANGED watch
      PROVE  WatchInv'
  BY <1>1, <1>3 DEF WatchInv
<1>4. Told(<<>>)
  BY DEF Told
<1>5. CASE UNCHANGED vars \/ Network
  BY <1>3, <1>5 DEF vars, stream, Network, Cut, Heal
<1>6. CASE Gateway
  <2>1. ASSUME NEW r \in Replicas, StreamLease(r)
        PROVE  WatchInv'
    <3>1. Told(<<LeaseFrame(holder, version)>>)
      BY DEF Told, LeaseFrame, Claim, RowInv
    <3> QED BY <1>2, <2>1, <3>1 DEF StreamLease
  <2>2. ASSUME NEW r \in Replicas, Disconnect(r)
        PROVE  WatchInv'
    BY <1>2, <1>4, <2>2 DEF Disconnect
  <2>3. CASE ~\E r \in Replicas : StreamLease(r) \/ Disconnect(r)
    BY <1>3, <1>6, <2>3 DEF Gateway, stream, Scan, Recover, RecoverSkips, Publish, Lease,
       LeaseRefused, LeaseConfirmed, LeaseInserted, LeaseTaken, ReadRecord, DeclareDead
  <2> QED BY <2>1, <2>2, <2>3
<1>7. ASSUME NEW r \in Replicas, Replica(r)
      PROVE  WatchInv'
  <2>1. CASE DeliverLease(r)
    BY <1>2, <1>4, <2>1 DEF DeliverLease
  <2>2. CASE ~DeliverLease(r)
    BY <1>3, <1>7, <2>2 DEF Replica, stream, StartRun, ExecuteCommand, EndInvocation, FencedTick,
       OrphanEnds, Ship, Answered, PublishFails, AskToLoad, Loaded, LoadFails, Reconnect,
       Heartbeat, Fence, Evict, Drain, DrainBeat, DrainFlush, DrainFails, Crash
  <2> QED BY <2>1, <2>2
<1> QED BY <1>5, <1>6, <1>7 DEF Next

\* And those of the answers to Publish.
LEMMA CallStep ==
  ASSUME VersionInv, [Next]_vars, ClaimsKept
  PROVE  CallInv'
<1> USE DEF VersionInv
<1>1. ASSUME NEW frames, Told(frames)
      PROVE  Told(frames)'
  BY <1>1 DEF Told, ClaimsKept
<1>2. ASSUME NEW r \in Replicas, NEW c, call' = [call EXCEPT ![r] = c], Told(c.lost)
      PROVE  CallInv'
  BY <1>1, <1>2 DEF CallInv
<1>3. ASSUME UNCHANGED call
      PROVE  CallInv'
  BY <1>1, <1>3 DEF CallInv
<1>4. Told(<<>>)
  BY DEF Told
<1>5. CASE UNCHANGED vars \/ Network
  BY <1>3, <1>5 DEF vars, Network, Cut, Heal
<1>6. CASE Gateway
  <2>1. ASSUME NEW r \in Replicas, Publish(r)
        PROVE  CallInv'
    <3> DEFINE done == Projection(r, call[r].frames)
    <3>1. Told(Lost(r, done))
      BY DEF Told, Lost, LeaseFrame, Claim, RowInv, Holders, Now
    <3> DEFINE seen == [k \in DOMAIN call[r].frames |->
                          [call[r].frames[k] EXCEPT !.seen = @ \/ k \in done.receipts]]
               c == [stage |-> "handled", lost |-> Lost(r, done), rejected |-> done.rejected,
                     frames |-> seen]
    <3>2. call' = [call EXCEPT ![r] = c]
      BY <2>1, Zenon DEF Publish
    <3> HIDE DEF done, seen
    <3>3. Told(c.lost)
      BY <3>1
    <3> HIDE DEF c
    <3> QED BY <1>2, <3>2, <3>3
  <2>2. CASE ~\E r \in Replicas : Publish(r)
    BY <1>3, <1>6, <2>2 DEF Gateway, Scan, Recover, RecoverSkips, StreamLease, Disconnect, Lease,
       LeaseRefused, LeaseConfirmed, LeaseInserted, LeaseTaken, ReadRecord, DeclareDead
  <2> QED BY <2>1, <2>2
<1>7. ASSUME NEW r \in Replicas, Replica(r)
      PROVE  CallInv'
  <2>1. CASE Ship(r)
    <3> DEFINE c == [NoCall EXCEPT !.stage = "sent", !.frames = outbox[r]]
    <3>1. call' = [call EXCEPT ![r] = c]
      BY <2>1 DEF Ship
    <3>2. Told(c.lost)
      BY <1>4 DEF NoCall
    <3> HIDE DEF c
    <3> QED BY <1>2, <3>1, <3>2
  <2>2. CASE Answered(r) \/ PublishFails(r) \/ Crash(r)
    <3>1. Told(NoCall.lost)
      BY <1>4 DEF NoCall
    <3>2. UNCHANGED call \/ call' = [call EXCEPT ![r] = NoCall]
      BY <2>2 DEF Answered, PublishFails, Crash
    <3> QED BY <1>2, <1>3, <3>1, <3>2
  <2>3. CASE ~(Ship(r) \/ Answered(r) \/ PublishFails(r) \/ Crash(r))
    BY <1>3, <1>7, <2>3 DEF Replica, StartRun, ExecuteCommand, EndInvocation, FencedTick,
       OrphanEnds, AskToLoad, Loaded, LoadFails, DeliverLease, Reconnect, Heartbeat, Fence,
       Evict, Drain, DrainBeat, DrainFlush, DrainFails
  <2> QED BY <2>1, <2>2, <2>3
<1> QED BY <1>5, <1>6, <1>7 DEF Next

LEMMA VersionInit == Init => VersionInv
BY NobodyAssumption DEF Init, VersionInv, RowInv, ThreadInv, LoadInv, Loads, WatchInv, CallInv,
   Told, Holders, NotCached, NoLoad, NoCall

LEMMA VersionStep ==
  ASSUME Prompt, VersionInv, [Next]_vars
  PROVE  VersionInv'
<1>1. RowInv' /\ ClaimsKept
  BY RowMoved, ClaimsSurvive DEF VersionInv
<1> QED BY <1>1, ThreadStep, LoadStep, WatchStep, CallStep DEF VersionInv

\* A replica that believes it holds the lease at the row's version is the row's holder
\* (VersionsAgree), through every crash, drain, eviction and partition and for any number
\* of replicas: apply_lease may order a Watch frame against the answers of Hydrate and
\* Publish by their versions, provided that no transaction is held up before its lock.
THEOREM VersionsAlwaysAgree ==
  ASSUME Prompt
  PROVE  Spec => []VersionsAgree
<1>1. VersionInv => VersionsAgree
  BY NobodyAssumption DEF VersionInv, ThreadInv, Claim, VersionsAgree
<1> QED BY <1>1, VersionInit, VersionStep, PTL DEF Spec

\* What a replica does, it does under a lease it takes for its own.
UnderLease == \A r \in Replicas : work[r] # NoWork => thread[r].holds

LEMMA UnderLeaseStep ==
  ASSUME TypeInv, UnderLease, [Next]_vars
  PROVE  UnderLease'
<1> USE DEF UnderLease
<1>1. DOMAIN thread = Replicas /\ DOMAIN work = Replicas
  BY DEF TypeInv, ThreadTypes, WorkTypes
<1>2. ASSUME UNCHANGED <<thread, work>>
      PROVE  UnderLease'
  BY <1>2
<1>3. ASSUME NEW r \in Replicas, work' = [work EXCEPT ![r] = NoWork],
             UNCHANGED thread \/ \E t : thread' = [thread EXCEPT ![r] = t]
      PROVE  UnderLease'
  BY <1>1, <1>3
<1>4. CASE UNCHANGED vars \/ Gateway \/ Network
  BY <1>2, <1>4 DEF vars, local, Gateway, Network, Scan, Recover, RecoverSkips, Publish, Lease,
     LeaseRefused, LeaseConfirmed, LeaseInserted, LeaseTaken, ReadRecord, StreamLease,
     DeclareDead, Disconnect, Cut, Heal
<1>5. ASSUME NEW r \in Replicas, Replica(r)
      PROVE  UnderLease'
  <2>1. CASE StartRun(r) \/ ExecuteCommand(r)
    <3>1. UNCHANGED thread /\ \A s \in Replicas \ {r} : UNCHANGED work[s]
      BY <1>1, <2>1 DEF StartRun, Begin, ExecuteCommand
    <3>2. thread[r].holds
      BY <2>1 DEF StartRun, Owns, ExecuteCommand, NoWork
    <3> QED BY <3>1, <3>2
  <2>2. CASE EndInvocation(r) \/ FencedTick(r)
    BY <1>3, <2>2 DEF EndInvocation, FencedTick
  <2>3. CASE Loaded(r)
    <3>1. \A s \in Replicas \ {r} : UNCHANGED <<thread[s], work[s]>>
      BY <1>1, <2>3 DEF Loaded, Begin
    <3>2. thread'[r].holds
      BY <1>1, <2>3 DEF Loaded
    <3> QED BY <3>1, <3>2
  <2>4. CASE DeliverLease(r)
    <3>1. \A s \in Replicas \ {r} : UNCHANGED <<thread[s], work[s]>>
      BY <1>1, <2>4 DEF DeliverLease
    <3>2. /\ thread'[r] = ApplyLease(r, watch[r][1])
          /\ work'[r] = WorkUnder(r, watch[r][1])
      BY <1>1, <2>4 DEF DeliverLease
    <3> QED BY <3>1, <3>2 DEF WorkUnder
  <2>5. CASE Answered(r)
    <3> DEFINE lost == call[r].lost
               kept == IF lost = <<>> THEN thread[r] ELSE ApplyLease(r, lost[1])
               busy == IF lost = <<>> THEN work[r] ELSE WorkUnder(r, lost[1])
    <3>1. busy # NoWork => kept.holds
      BY DEF WorkUnder
    <3>2. /\ work' = [work EXCEPT ![r] = busy]
          /\ thread' = [thread EXCEPT ![r] =
               IF call[r].rejected /\ busy = NoWork THEN NotCached ELSE kept]
      BY <2>5 DEF Answered
    <3> HIDE DEF busy, kept
    <3> QED BY <1>1, <3>1, <3>2
  <2>6. CASE Evict(r)
    BY <1>1, <2>6 DEF Evict
  <2>7. CASE Drain(r)
    <3>1. PICK t : thread' = [thread EXCEPT ![r] = t]
      BY <2>7 DEF Drain
    <3> QED BY <1>3, <2>7, <3>1 DEF Drain
  <2>8. CASE Crash(r) \/ DrainFlush(r) \/ DrainFails(r)
    BY <1>3, <2>8 DEF Crash, DrainFlush, DrainFails, Gone
  <2>9. CASE ~(StartRun(r) \/ ExecuteCommand(r) \/ EndInvocation(r) \/ FencedTick(r) \/ Loaded(r)
               \/ DeliverLease(r) \/ Answered(r) \/ Evict(r) \/ Drain(r) \/ Crash(r)
               \/ DrainFlush(r) \/ DrainFails(r))
    BY <1>2, <1>5, <2>9 DEF Replica, local, OrphanEnds, Ship, PublishFails, AskToLoad, LoadFails,
       Reconnect, Heartbeat, Fence, DrainBeat
  <2> QED BY <2>1, <2>2, <2>3, <2>4, <2>5, <2>6, <2>7, <2>8, <2>9
<1> QED BY <1>4, <1>5 DEF Next

\* The answer that tells an executing replica of the lease it has lost is never older than
\* the lease it has (RefusalIsHeeded), through evictions, drains, crashes and partitions: a
\* transaction that is held up before its lock is all that makes it look old.
THEOREM RefusalsAreHeeded ==
  ASSUME Prompt
  PROVE  Spec => []RefusalIsHeeded
<1>1. Init => VersionInv /\ UnderLease
  BY VersionInit DEF Init, UnderLease
<1>2. VersionInv /\ UnderLease => RefusalIsHeeded
  BY NobodyAssumption DEF VersionInv, ThreadInv, Claim, UnderLease, RefusalIsHeeded, Executing, NoWork
<1> QED BY <1>1, <1>2, InitTypes, TypesStep, UnderLeaseStep, VersionStep, PTL DEF Spec

-----------------------------------------------------------------------------
(* Crashes and drains *)

\* What a replica that runs has not released.
Event == [kind : {"begin", "end"}, inv : Nat, seen : BOOLEAN]

\* A replica that runs is taken for alive: only a draining replica says it is not ready,
\* and only one that is gone misses its heartbeats.
UpInv ==
  /\ process \in [Replicas -> {"up", "draining", "flushing", "down"}] /\ cut = {}
  /\ \A r \in Replicas : Runs(r) => r \in ready /\ r \in connected

\* No replica that runs releases its lease: what it publishes are events.
QueueInv ==
  /\ DOMAIN outbox = Replicas
  /\ \A r \in Replicas : call[r].frames \in Seq(Event)
  /\ \A r \in Replicas : Runs(r) => outbox[r] \in Seq(Event)

WorkInv ==
  /\ began \in Nat
  /\ work \in [Replicas -> [phase : {"none", "queued", "skipped", "running"}, inv : Nat]]
  /\ \A r \in Replicas : work[r].phase = "running" => Runs(r)

\* An answer about a lost lease names somebody else.
LostInv == \A r \in Replicas : call[r].lost # <<>> => call[r].lost[1].holder # r

\* All a replica goes by when it takes itself for the holder.
Believes(r) ==
  \/ thread[r].holds
  \/ load[r].stage \in {"leased", "read"}
  \/ watch[r] # <<>> /\ watch[r][1].holder = r
  \/ Executing(r)

HeldInv == \A r \in Replicas : Runs(r) /\ Believes(r) => holder = r

ExecutionInv == VersionInv /\ UpInv /\ QueueInv /\ WorkInv /\ LostInv /\ HeldInv

\* Nothing happens to a replica but crashes and drains.
Calm == Upsets \subseteq {"crash", "drain"}

LEMMA CalmUpsets ==
  ASSUME Calm, NEW r
  PROVE  ~Upset("evict", r) /\ ~Upset("partition", r)
BY DEF Calm, Upset

LEMMA UpStep ==
  ASSUME UpInv, Calm, [Next]_vars
  PROVE  UpInv' /\ \A r \in Replicas : Runs(r)' => Runs(r)
<1> USE DEF UpInv, Runs
<1>1. CASE UNCHANGED <<process, cut, ready, connected>>
  BY <1>1
<1>2. CASE UNCHANGED vars
  BY <1>1, <1>2 DEF vars, replica, instances
<1>3. CASE Network
  BY <1>3, CalmUpsets DEF Network, Cut, Heal
<1>4. CASE Gateway
  <2>1. ASSUME NEW r \in Replicas, DeclareDead(r) \/ Disconnect(r)
        PROVE  /\ ready' = ready \ {r} /\ connected' \in {connected, connected \ {r}}
               /\ ~Runs(r) /\ UNCHANGED <<process, cut>>
    BY <2>1 DEF DeclareDead, Disconnect, replica
  <2>2. CASE \E r \in Replicas : DeclareDead(r) \/ Disconnect(r)
    BY <2>1, <2>2
  <2>3. CASE ~\E r \in Replicas : DeclareDead(r) \/ Disconnect(r)
    BY <1>1, <1>4, <2>3 DEF Gateway, replica, instances, Scan, Recover, RecoverSkips, Publish,
       StreamLease, ReadRecord, Lease, LeaseRefused, LeaseConfirmed, LeaseInserted, LeaseTaken
  <2> QED BY <2>2, <2>3
<1>5. ASSUME NEW r \in Replicas, Replica(r)
      PROVE  UpInv' /\ \A s \in Replicas : Runs(s)' => Runs(s)
  <2>1. CASE Crash(r) \/ DrainFlush(r) \/ DrainFails(r) \/ Drain(r)
    <3>1. /\ \E p \in {"down", "draining"} : process' = [process EXCEPT ![r] = p]
          /\ UNCHANGED <<cut, ready, connected>>
      BY <2>1 DEF Crash, DrainFlush, DrainFails, Drain, Gone, instances
    <3> QED BY <3>1
  <2>2. CASE DrainBeat(r)
    BY <2>2 DEF DrainBeat
  <2>3. CASE Heartbeat(r)
    <3>1. \A s \in Replicas : s \in ready => s \in ready'
      BY <2>3 DEF Heartbeat, Beats
    <3> QED BY <2>3, <3>1 DEF Heartbeat
  <2>4. CASE Reconnect(r)
    BY <2>4 DEF Reconnect, Reaches
  <2>5. CASE ~(Crash(r) \/ DrainFlush(r) \/ DrainFails(r) \/ Drain(r) \/ DrainBeat(r)
               \/ Heartbeat(r) \/ Reconnect(r))
    BY <1>1, <1>5, <2>5 DEF Replica, replica, instances, StartRun, ExecuteCommand,
       EndInvocation, FencedTick, OrphanEnds, Ship, Answered, PublishFails, AskToLoad, Loaded,
       LoadFails, DeliverLease, Fence, Evict
  <2> QED BY <2>1, <2>2, <2>3, <2>4, <2>5
<1> QED BY <1>2, <1>3, <1>4, <1>5 DEF Next

\* A batch of events releases nothing.
LEMMA EventsOnly ==
  ASSUME NEW frames \in Seq(Event), NEW r
  PROVE  ~ReleasesLease(r, frames)
<1>1. ASSUME NEW k \in DOMAIN frames
      PROVE  frames[k] \in Event
  <2>1. k \in 1 .. Len(frames)
    OBVIOUS
  <2> QED BY <2>1
<1> QED BY <1>1 DEF ReleasesLease, Event

\* A replica that goes on running keeps the lease it has.
LEMMA HolderStays ==
  ASSUME RowInv, UpInv, QueueInv, [Next]_vars, NEW s \in Replicas, Runs(s), Runs(s)', holder = s
  PROVE  holder' = s /\ version' = version
<1> USE DEF lease
<1>1. Live(s)
  BY DEF UpInv, Live
<1>2. CASE UNCHANGED vars \/ Network
  BY <1>2 DEF vars, Network, Cut, Heal
<1>3. CASE Gateway
  <2>1. ASSUME NEW r \in Replicas, Publish(r)
        PROVE  holder' = s /\ version' = version
    <3>1. ~ReleasesLease(r, call[r].frames)
      BY EventsOnly DEF QueueInv
    <3> QED BY <2>1, <3>1 DEF Publish, Projects
  <2>2. ASSUME NEW r \in Replicas, Lease(r)
        PROVE  holder' = s /\ version' = version
    BY <1>1, <2>2, NobodyAssumption DEF Lease, LeaseRefused, LeaseConfirmed, LeaseInserted,
       LeaseTaken
  <2>3. CASE Recover
    BY <1>1, <2>3 DEF Recover
  <2>4. CASE ~Recover /\ ~\E r \in Replicas : Publish(r) \/ Lease(r)
    BY <1>3, <2>4 DEF Gateway, Scan, RecoverSkips, ReadRecord, StreamLease, DeclareDead,
       Disconnect
  <2> QED BY <2>1, <2>2, <2>3, <2>4
<1>4. ASSUME NEW r \in Replicas, Replica(r)
      PROVE  holder' = s /\ version' = version
  <2>1. CASE DrainFlush(r)
    <3>1. r # s
      BY <2>1 DEF DrainFlush, Runs
    <3> QED BY <2>1, <3>1 DEF DrainFlush, Projects, ReleasesLease
  <2>2. CASE ~DrainFlush(r)
    BY <1>4, <2>2 DEF Replica, StartRun, ExecuteCommand, EndInvocation, FencedTick, OrphanEnds,
       Ship, Answered, PublishFails, AskToLoad, Loaded, LoadFails, DeliverLease, Reconnect,
       Heartbeat, Fence, Evict, Drain, DrainBeat, DrainFails, Crash
  <2> QED BY <2>1, <2>2
<1> QED BY <1>2, <1>3, <1>4 DEF Next

\* The queues of a running replica hold events, and so do its calls.
LEMMA QueueStep ==
  ASSUME CallInv, UpInv, QueueInv, WorkInv, Calm, [Next]_vars
  PROVE  QueueInv'
<1>1. \A r \in Replicas : Runs(r)' => Runs(r)
  BY UpStep
<1>2. CASE UNCHANGED <<outbox, call>>
  BY <1>1, <1>2 DEF QueueInv
<1>3. ASSUME NEW r \in Replicas, NEW f \in Event, UNCHANGED call,
             DOMAIN outbox' = Replicas, \A s \in Replicas \ {r} : outbox'[s] = outbox[s],
             outbox'[r] \in {outbox[r], Append(outbox[r], f)}
      PROVE  QueueInv'
  <2>1. ASSUME Runs(r)'
        PROVE  outbox'[r] \in Seq(Event)
    <3>1. outbox[r] \in Seq(Event)
      BY <1>1, <2>1 DEF QueueInv
    <3>2. Append(outbox[r], f) \in Seq(Event)
      BY <3>1
    <3> QED BY <1>3, <3>1, <3>2
  <2>2. ASSUME NEW s \in Replicas \ {r}, Runs(s)'
        PROVE  outbox'[s] \in Seq(Event)
    BY <1>1, <1>3, <2>2 DEF QueueInv
  <2>3. \A s \in Replicas : call'[s].frames \in Seq(Event)
    BY <1>3 DEF QueueInv
  <2>4. \A s \in Replicas : Runs(s)' => outbox'[s] \in Seq(Event)
    BY <2>1, <2>2
  <2> QED BY <1>3, <2>3, <2>4 DEF QueueInv
<1>4. ASSUME NEW r \in Replicas, ~Runs(r)', DOMAIN outbox' = Replicas,
             \A s \in Replicas \ {r} : outbox'[s] = outbox[s],
             \A s \in Replicas : call'[s].frames \in Seq(Event)
      PROVE  QueueInv'
  BY <1>1, <1>4 DEF QueueInv
<1>5. ASSUME NEW r \in Replicas, Begin(r), UNCHANGED call
      PROVE  QueueInv'
  <2>1. Frame("begin", began + 1) \in Event
    BY DEF WorkInv, Frame, Event
  <2> QED BY <1>3, <1>5, <2>1 DEF Begin, QueueInv
<1>6. CASE UNCHANGED vars \/ Network
  BY <1>2, <1>6 DEF vars, Network, Cut, Heal
<1>7. CASE Gateway
  <2>1. ASSUME NEW r \in Replicas, Publish(r)
        PROVE  QueueInv'
    <3> DEFINE frames == call[r].frames
               done == Projection(r, frames)
               seen == [k \in DOMAIN frames |-> [frames[k] EXCEPT !.seen = @ \/ k \in done.receipts]]
               c == [stage |-> "handled", lost |-> Lost(r, done), rejected |-> done.rejected,
                     frames |-> seen]
    <3>1. call' = [call EXCEPT ![r] = c] /\ UNCHANGED outbox
      BY <2>1, Zenon DEF Publish
    <3> HIDE DEF done
    <3>2. ASSUME NEW k \in DOMAIN frames
          PROVE  seen[k] \in Event
      <4>1. frames[k] \in Event
        BY DEF QueueInv
      <4> QED BY <4>1 DEF Event
    <3>3. seen \in Seq(Event)
      <4>1. /\ Len(frames) \in Nat
            /\ DOMAIN frames = 1 .. Len(frames)
        BY DEF QueueInv
      <4>2. seen \in [1 .. Len(frames) -> Event]
        BY <3>2, <4>1
      <4> HIDE DEF seen, frames
      <4> QED BY <4>1, <4>2
    <3> HIDE DEF seen
    <3>4. \A s \in Replicas : call'[s].frames \in Seq(Event)
      BY <3>1, <3>3 DEF QueueInv, CallInv
    <3> QED BY <1>1, <3>1, <3>4 DEF QueueInv
  <2>2. CASE ~\E r \in Replicas : Publish(r)
    BY <1>2, <1>7, <2>2 DEF Gateway, Scan, Recover, RecoverSkips, StreamLease, Disconnect, Lease,
       LeaseRefused, LeaseConfirmed, LeaseInserted, LeaseTaken, ReadRecord, DeclareDead
  <2> QED BY <2>1, <2>2
<1>8. ASSUME NEW r \in Replicas, Replica(r)
      PROVE  QueueInv'
  <2>1. CASE StartRun(r)
    BY <1>5, <2>1 DEF StartRun
  <2>2. CASE Loaded(r)
    BY <1>2, <1>5, <2>2 DEF Loaded
  <2>3. CASE EndInvocation(r)
    <3>1. Frame("end", work[r].inv) \in Event
      BY DEF WorkInv, Frame, Event
    <3>2. /\ DOMAIN outbox' = Replicas /\ \A s \in Replicas \ {r} : outbox'[s] = outbox[s]
          /\ outbox'[r] \in {outbox[r], Append(outbox[r], Frame("end", work[r].inv))}
      BY <2>3 DEF EndInvocation, QueueInv
    <3> QED BY <1>3, <2>3, <3>1, <3>2 DEF EndInvocation
  <2>4. ASSUME NEW i \in Invocations, OrphanEnds(r, i)
        PROVE  QueueInv'
    <3>1. Frame("end", i) \in Event
      BY BoundsAssumption DEF Invocations, Frame, Event
    <3>2. /\ DOMAIN outbox' = Replicas /\ \A s \in Replicas \ {r} : outbox'[s] = outbox[s]
          /\ outbox'[r] \in {outbox[r], Append(outbox[r], Frame("end", i))}
      BY <2>4 DEF OrphanEnds, QueueInv
    <3> QED BY <1>3, <2>4, <3>1, <3>2 DEF OrphanEnds
  <2>5. CASE Ship(r)
    <3>1. outbox[r] \in Seq(Event)
      BY <2>5 DEF Ship, Reaches, QueueInv
    <3>2. PICK c : call' = [call EXCEPT ![r] = c] /\ c.frames = outbox[r]
      <4> DEFINE c == [NoCall EXCEPT !.stage = "sent", !.frames = outbox[r]]
      <4>1. c.frames = outbox[r]
        BY DEF NoCall
      <4>2. call' = [call EXCEPT ![r] = c]
        BY <2>5 DEF Ship
      <4> HIDE DEF c
      <4> QED BY <4>1, <4>2
    <3>3. outbox' = [outbox EXCEPT ![r] = <<>>]
      BY <2>5 DEF Ship
    <3> QED BY <1>1, <3>1, <3>2, <3>3 DEF QueueInv, CallInv
  <2>6. CASE Answered(r)
    <3>1. NoCall.frames \in Seq(Event)
      BY DEF NoCall
    <3>2. call' = [call EXCEPT ![r] = NoCall] /\ UNCHANGED outbox
      BY <2>6 DEF Answered
    <3> QED BY <1>1, <3>1, <3>2 DEF QueueInv, CallInv
  <2>7. CASE PublishFails(r) \/ Evict(r)
    BY <2>7, CalmUpsets DEF PublishFails, Evict, UpInv
  <2>8. CASE Drain(r)
    <3>1. ~Runs(r)' /\ UNCHANGED call
      BY <2>8 DEF Drain, Runs, UpInv
    <3>2. DOMAIN outbox' = Replicas /\ \A s \in Replicas \ {r} : outbox'[s] = outbox[s]
      BY <2>8 DEF Drain, QueueInv
    <3> QED BY <1>4, <3>1, <3>2 DEF QueueInv
  <2>9. CASE Crash(r) \/ DrainFlush(r) \/ DrainFails(r)
    <3>1. ~Runs(r)' /\ outbox' = [outbox EXCEPT ![r] = <<>>]
      BY <2>9 DEF Crash, DrainFlush, DrainFails, Gone, Runs, UpInv
    <3>2. NoCall.frames \in Seq(Event)
      BY DEF NoCall
    <3>3. call' \in {call, [call EXCEPT ![r] = NoCall]}
      BY <2>9 DEF Crash, DrainFlush, DrainFails
    <3>4. \A s \in Replicas : call'[s].frames \in Seq(Event)
      BY <3>2, <3>3 DEF QueueInv, CallInv
    <3> QED BY <1>4, <3>1, <3>4 DEF QueueInv
  <2>10. CASE ExecuteCommand(r) \/ FencedTick(r) \/ AskToLoad(r) \/ LoadFails(r)
              \/ DeliverLease(r) \/ Reconnect(r) \/ Heartbeat(r) \/ Fence(r) \/ DrainBeat(r)
    BY <1>2, <2>10 DEF ExecuteCommand, FencedTick, AskToLoad, LoadFails, DeliverLease, Reconnect,
       Heartbeat, Fence, DrainBeat, local
  <2> QED BY <1>8, <2>1, <2>2, <2>3, <2>4, <2>5, <2>6, <2>7, <2>8, <2>9, <2>10 DEF Replica
<1> QED BY <1>6, <1>7, <1>8 DEF Next

\* What runs, runs in a process that is up.
LEMMA WorkStep ==
  ASSUME UpInv, WorkInv, [Next]_vars
  PROVE  WorkInv'
<1> DEFINE Works == [phase : {"none", "queued", "skipped", "running"}, inv : Nat]
<1>1. CASE UNCHANGED <<began, work, process>>
  BY <1>1 DEF WorkInv, Runs
<1>2. ASSUME NEW r \in Replicas, NEW w \in Works, work' = [work EXCEPT ![r] = w],
             UNCHANGED process, began' \in Nat, w.phase = "running" => Runs(r)
      PROVE  WorkInv'
  BY <1>2 DEF WorkInv, Runs
<1>3. NoWork \in Works /\ NoWork.phase # "running"
  BY DEF NoWork
<1>4. ASSUME NEW r \in Replicas, work' = [work EXCEPT ![r] = NoWork], UNCHANGED began,
             UNCHANGED process \/ \E p : process' = [process EXCEPT ![r] = p]
      PROVE  WorkInv'
  BY <1>3, <1>4 DEF WorkInv, Runs, UpInv
<1>5. ASSUME NEW r \in Replicas, Begin(r), UNCHANGED process
      PROVE  WorkInv'
  <2>1. [phase |-> "queued", inv |-> began + 1] \in Works
    BY DEF WorkInv
  <2> QED BY <1>2, <1>5, <2>1 DEF Begin, WorkInv
<1>6. CASE UNCHANGED vars \/ Network
  BY <1>1, <1>6 DEF vars, replica, local, Network, Cut, Heal
<1>7. CASE Gateway
  BY <1>1, <1>7 DEF replica, local, Gateway, Scan, Recover, RecoverSkips, Publish, StreamLease,
     Disconnect, Lease, LeaseRefused, LeaseConfirmed, LeaseInserted, LeaseTaken, ReadRecord,
     DeclareDead
<1>8. ASSUME NEW r \in Replicas, Replica(r)
      PROVE  WorkInv'
  <2>1. CASE StartRun(r)
    BY <1>5, <2>1 DEF StartRun, replica
  <2>2. CASE Loaded(r)
    BY <1>4, <1>5, <2>2 DEF Loaded, replica
  <2>3. CASE ExecuteCommand(r)
    <3> DEFINE w == [work[r] EXCEPT !.phase = IF Owns(r) THEN "running" ELSE "skipped"]
    <3>1. w \in Works
      BY DEF WorkInv
    <3>2. work' = [work EXCEPT ![r] = w] /\ UNCHANGED <<process, began>> /\ Runs(r)
      BY <2>3 DEF ExecuteCommand, replica
    <3> HIDE DEF w
    <3> QED BY <1>2, <3>1, <3>2 DEF WorkInv
  <2>4. CASE EndInvocation(r) \/ FencedTick(r) \/ Drain(r)
    BY <1>4, <2>4 DEF EndInvocation, FencedTick, Drain, replica
  <2>5. CASE Answered(r) \/ DeliverLease(r)
    <3>1. work' \in {work, [work EXCEPT ![r] = NoWork]}
      BY <2>5 DEF Answered, DeliverLease, WorkUnder, WorkInv
    <3>2. UNCHANGED <<process, began>>
      BY <2>5 DEF Answered, DeliverLease, replica
    <3> QED BY <1>1, <1>4, <3>1, <3>2
  <2>6. CASE Crash(r) \/ DrainFlush(r) \/ DrainFails(r)
    BY <1>4, <2>6 DEF Crash, DrainFlush, DrainFails, Gone
  <2>7. CASE DrainBeat(r)
    BY <2>7 DEF DrainBeat, WorkInv, Runs, UpInv, local
  <2>8. CASE ~(StartRun(r) \/ Loaded(r) \/ ExecuteCommand(r) \/ EndInvocation(r)
               \/ FencedTick(r) \/ Drain(r) \/ Answered(r) \/ DeliverLease(r) \/ Crash(r)
               \/ DrainFlush(r) \/ DrainFails(r) \/ DrainBeat(r))
    BY <1>1, <1>8, <2>8 DEF Replica, replica, local, OrphanEnds, Ship, PublishFails, AskToLoad,
       LoadFails, Reconnect, Heartbeat, Fence, Evict
  <2> QED BY <2>1, <2>2, <2>3, <2>4, <2>5, <2>6, <2>7, <2>8
<1> QED BY <1>6, <1>7, <1>8 DEF Next

\* An answer about a lost lease never names the replica it goes to.
LEMMA LostStep ==
  ASSUME CallInv, LostInv, [Next]_vars
  PROVE  LostInv'
<1>1. CASE UNCHANGED call
  BY <1>1 DEF LostInv
<1>2. ASSUME NEW r \in Replicas, NEW c, call' = [call EXCEPT ![r] = c],
             c.lost # <<>> => c.lost[1].holder # r
      PROVE  LostInv'
  BY <1>2 DEF LostInv, CallInv
<1>3. CASE UNCHANGED vars \/ Network
  BY <1>1, <1>3 DEF vars, Network, Cut, Heal
<1>4. CASE Gateway
  <2>1. ASSUME NEW r \in Replicas, Publish(r)
        PROVE  LostInv'
    <3> DEFINE done == Projection(r, call[r].frames)
               seen == [k \in DOMAIN call[r].frames |->
                          [call[r].frames[k] EXCEPT !.seen = @ \/ k \in done.receipts]]
               c == [stage |-> "handled", lost |-> Lost(r, done), rejected |-> done.rejected,
                     frames |-> seen]
    <3>1. call' = [call EXCEPT ![r] = c]
      BY <2>1, Zenon DEF Publish
    <3> HIDE DEF done, seen
    <3>2. c.lost # <<>> => c.lost[1].holder # r
      BY NobodyAssumption DEF Lost, LeaseFrame
    <3> HIDE DEF c
    <3> QED BY <1>2, <3>1, <3>2
  <2>2. CASE ~\E r \in Replicas : Publish(r)
    BY <1>1, <1>4, <2>2 DEF Gateway, Scan, Recover, RecoverSkips, StreamLease, Disconnect, Lease,
       LeaseRefused, LeaseConfirmed, LeaseInserted, LeaseTaken, ReadRecord, DeclareDead
  <2> QED BY <2>1, <2>2
<1>5. ASSUME NEW r \in Replicas, Replica(r)
      PROVE  LostInv'
  <2>1. CASE Ship(r)
    <3> DEFINE c == [NoCall EXCEPT !.stage = "sent", !.frames = outbox[r]]
    <3>1. call' = [call EXCEPT ![r] = c]
      BY <2>1 DEF Ship
    <3>2. c.lost = <<>>
      BY DEF NoCall
    <3> HIDE DEF c
    <3> QED BY <1>2, <3>1, <3>2
  <2>2. CASE Answered(r) \/ PublishFails(r) \/ Crash(r)
    <3>1. NoCall.lost = <<>>
      BY DEF NoCall
    <3>2. UNCHANGED call \/ call' = [call EXCEPT ![r] = NoCall]
      BY <2>2 DEF Answered, PublishFails, Crash
    <3> QED BY <1>1, <1>2, <3>1, <3>2
  <2>3. CASE ~(Ship(r) \/ Answered(r) \/ PublishFails(r) \/ Crash(r))
    BY <1>1, <1>5, <2>3 DEF Replica, StartRun, ExecuteCommand, EndInvocation, FencedTick,
       OrphanEnds, AskToLoad, Loaded, LoadFails, DeliverLease, Reconnect, Heartbeat, Fence,
       Evict, Drain, DrainBeat, DrainFlush, DrainFails
  <2> QED BY <2>1, <2>2, <2>3
<1> QED BY <1>3, <1>4, <1>5 DEF Next

\* A replica that comes to believe it is the holder is told so by the row.
LEMMA BelievesTheRow ==
  ASSUME VersionInv, WorkInv, LostInv, [Next]_vars, NEW s \in Replicas, Believes(s)'
  PROVE  Believes(s) \/ holder = s \/ holder' = s
<1> USE DEF VersionInv, Believes, Executing
<1>1. CASE UNCHANGED <<thread, load, watch, work>>
  BY <1>1
<1>2. ASSUME NEW r \in Replicas, Gone(r), UNCHANGED watch
      PROVE  Believes(s) \/ holder = s \/ holder' = s
  BY <1>2 DEF Gone, NotCached, NoLoad, NoWork, ThreadInv, LoadInv, WorkInv
<1>3. CASE UNCHANGED vars \/ Network
  BY <1>1, <1>3 DEF vars, local, stream, Network, Cut, Heal
<1>4. CASE Gateway
  <2>1. ASSUME NEW r \in Replicas, Lease(r)
        PROVE  Believes(s) \/ holder = s \/ holder' = s
    <3>1. UNCHANGED <<thread, watch, work>>
      BY <2>1 DEF Lease, LeaseRefused, LeaseConfirmed, LeaseInserted, LeaseTaken, local, stream
    <3>2. \A q \in Replicas \ {r} : load'[q] = load[q]
      BY <2>1 DEF Lease, LeaseRefused, LeaseConfirmed, LeaseInserted, LeaseTaken, Granted, LoadInv
    <3>3. load'[r].stage = "idle" \/ holder' = r
      BY <2>1, NobodyAssumption DEF Lease, LeaseRefused, LeaseConfirmed, LeaseInserted,
         LeaseTaken, TakeOver, Give, NoLoad, LoadInv, lease
    <3> QED BY <3>1, <3>2, <3>3
  <2>2. ASSUME NEW r \in Replicas, ReadRecord(r)
        PROVE  Believes(s) \/ holder = s \/ holder' = s
    <3>1. UNCHANGED <<thread, watch, work>>
      BY <2>2 DEF ReadRecord, local, stream
    <3>2. \A q \in Replicas \ {r} : load'[q] = load[q]
      BY <2>2 DEF ReadRecord, LoadInv
    <3>3. load[r].stage = "leased"
      BY <2>2 DEF ReadRecord
    <3> QED BY <3>1, <3>2, <3>3
  <2>3. ASSUME NEW r \in Replicas, StreamLease(r)
        PROVE  Believes(s) \/ holder = s \/ holder' = s
    BY <2>3 DEF StreamLease, LeaseFrame, WatchInv, local
  <2>4. ASSUME NEW r \in Replicas, Disconnect(r)
        PROVE  Believes(s) \/ holder = s \/ holder' = s
    BY <2>4 DEF Disconnect, WatchInv, local
  <2>5. CASE ~\E r \in Replicas : Lease(r) \/ ReadRecord(r) \/ StreamLease(r) \/ Disconnect(r)
    BY <1>1, <1>4, <2>5 DEF Gateway, local, stream, Scan, Recover, RecoverSkips, Publish,
       DeclareDead
  <2> QED BY <2>1, <2>2, <2>3, <2>4, <2>5
<1>5. ASSUME NEW r \in Replicas, Replica(r)
      PROVE  Believes(s) \/ holder = s \/ holder' = s
  <2>1. CASE Crash(r) \/ DrainFlush(r) \/ DrainFails(r)
    BY <1>2, <2>1 DEF Crash, DrainFlush, DrainFails, stream
  <2>2. CASE StartRun(r) \/ EndInvocation(r) \/ FencedTick(r)
    BY <2>2 DEF StartRun, Begin, EndInvocation, FencedTick, NoWork, WorkInv, stream
  <2>3. CASE ExecuteCommand(r)
    BY <2>3 DEF ExecuteCommand, Owns, WorkInv, stream
  <2>4. CASE Evict(r) \/ Drain(r)
    <3>1. \A q \in Replicas \ {r} : thread'[q] = thread[q] /\ work'[q] = work[q]
      BY <2>4 DEF Evict, Drain, ThreadInv, WorkInv
    <3>2. UNCHANGED <<load, watch>>
      BY <2>4 DEF Evict, Drain, stream
    <3>3. thread'[r].holds => thread[r].holds
      <4>1. CASE Evict(r)
        BY <4>1 DEF Evict, NotCached, ThreadInv
      <4>2. CASE Drain(r)
        BY <4>2 DEF Drain, ThreadInv
      <4> QED BY <2>4, <4>1, <4>2
    <3>4. work'[r].phase = "running" => work[r].phase = "running"
      BY <2>4 DEF Evict, Drain, NoWork, WorkInv
    <3> QED BY <3>1, <3>2, <3>3, <3>4
  <2>5. CASE AskToLoad(r) \/ LoadFails(r)
    <3>1. UNCHANGED <<thread, watch, work>>
      BY <2>5 DEF AskToLoad, LoadFails, local, stream
    <3>2. PICK l : /\ l.stage \notin {"leased", "read"}
                   /\ load' = [load EXCEPT ![r] = l]
      BY <2>5 DEF AskToLoad, Asked, LoadFails, NoLoad
    <3>3. /\ \A q \in Replicas \ {r} : load'[q] = load[q]
          /\ load'[r].stage \notin {"leased", "read"}
      BY <3>2 DEF LoadInv
    <3> QED BY <3>1, <3>3
  <2>6. CASE Loaded(r)
    <3>1. load[r].stage = "read" /\ UNCHANGED watch
      BY <2>6 DEF Loaded, stream
    <3>2. \A q \in Replicas \ {r} :
            thread'[q] = thread[q] /\ load'[q] = load[q] /\ work'[q] = work[q]
      BY <2>6 DEF Loaded, Begin, ThreadInv, LoadInv, WorkInv
    <3> QED BY <3>1, <3>2
  <2>7. CASE DeliverLease(r)
    <3>1. \A q \in Replicas \ {r} :
            /\ thread'[q] = thread[q] /\ load'[q] = load[q] /\ work'[q] = work[q]
            /\ watch'[q] = watch[q]
      BY <2>7 DEF DeliverLease, Asked, ThreadInv, LoadInv, WorkInv, WatchInv
    <3>2. thread'[r].holds => thread[r].holds \/ watch[r][1].holder = r
      BY <2>7 DEF DeliverLease, ApplyLease, ThreadInv
    <3>3. load'[r].stage \in {"leased", "read"} => load[r].stage \in {"leased", "read"}
      <4>1. CASE Asked(r)
        BY <4>1 DEF Asked, NoLoad, LoadInv
      <4>2. CASE UNCHANGED load
        BY <4>2
      <4> QED BY <2>7, <4>1, <4>2 DEF DeliverLease
    <3>4. watch'[r] = <<>> /\ watch[r] # <<>>
      BY <2>7 DEF DeliverLease, WatchInv
    <3>5. work'[r].phase = "running" => work[r].phase = "running"
      BY <2>7 DEF DeliverLease, WorkUnder, NoWork, WorkInv
    <3> QED BY <3>1, <3>2, <3>3, <3>4, <3>5
  <2>8. CASE Answered(r)
    <3>1. \A q \in Replicas \ {r} : thread'[q] = thread[q] /\ work'[q] = work[q]
      BY <2>8 DEF Answered, ThreadInv, WorkInv
    <3>2. UNCHANGED <<load, watch>>
      BY <2>8 DEF Answered, stream
    <3>3. ApplyLease(r, call[r].lost[1]).holds /\ call[r].lost # <<>> => thread[r].holds
      BY DEF ApplyLease, ThreadInv, LostInv
    <3>4. thread'[r].holds => thread[r].holds
      <4> DEFINE lost == call[r].lost
                 kept == IF lost = <<>> THEN thread[r] ELSE ApplyLease(r, lost[1])
      <4>1. kept.holds => thread[r].holds
        BY <3>3
      <4>2. PICK t : (t = kept \/ t = NotCached) /\ thread' = [thread EXCEPT ![r] = t]
        BY <2>8 DEF Answered
      <4>3. thread'[r] = t
        BY <4>2 DEF ThreadInv
      <4> HIDE DEF kept
      <4> QED BY <4>1, <4>2, <4>3 DEF NotCached
    <3>5. work'[r].phase = "running" => work[r].phase = "running"
      <4>1. PICK w : (w = work[r] \/ w = NoWork) /\ work' = [work EXCEPT ![r] = w]
        BY <2>8 DEF Answered, WorkUnder
      <4>2. work'[r] = w
        BY <4>1 DEF WorkInv
      <4> QED BY <4>1, <4>2 DEF NoWork
    <3> QED BY <3>1, <3>2, <3>4, <3>5
  <2>9. CASE ~(Crash(r) \/ DrainFlush(r) \/ DrainFails(r) \/ StartRun(r) \/ EndInvocation(r)
               \/ FencedTick(r) \/ ExecuteCommand(r) \/ Evict(r) \/ Drain(r) \/ AskToLoad(r)
               \/ LoadFails(r) \/ Loaded(r) \/ DeliverLease(r) \/ Answered(r))
    BY <1>1, <1>5, <2>9 DEF Replica, local, stream, OrphanEnds, Ship, PublishFails, Reconnect,
       Heartbeat, Fence, DrainBeat
  <2> QED BY <2>1, <2>2, <2>3, <2>4, <2>5, <2>6, <2>7, <2>8, <2>9
<1> QED BY <1>3, <1>4, <1>5 DEF Next

LEMMA ExecutionInit == Init => ExecutionInv
<1> SUFFICES ASSUME Init
             PROVE  ExecutionInv
  OBVIOUS
<1>1. VersionInv
  BY VersionInit
<1>2. UpInv /\ WorkInv /\ LostInv /\ HeldInv
  BY DEF Init, UpInv, WorkInv, LostInv, HeldInv, Believes, Executing, NotCached, NoLoad,
     NoCall, NoWork
<1>3. QueueInv
  <2>1. \A r \in Replicas : outbox[r] = <<>> /\ call[r].frames = <<>>
    BY DEF Init, NoCall
  <2>2. DOMAIN outbox = Replicas /\ DOMAIN call = Replicas
    BY DEF Init
  <2>3. <<>> \in Seq(Event)
    OBVIOUS
  <2> QED BY <2>1, <2>2, <2>3 DEF QueueInv
<1> QED BY <1>1, <1>2, <1>3 DEF ExecutionInv

LEMMA ExecutionStep ==
  ASSUME Calm, ExecutionInv, [Next]_vars
  PROVE  ExecutionInv'
<1> USE DEF ExecutionInv
<1>1. VersionInv'
  <2>1. Prompt
    BY DEF Calm, Prompt
  <2> QED BY <2>1, VersionStep
<1>2. UpInv' /\ QueueInv' /\ WorkInv' /\ LostInv'
  BY UpStep, QueueStep, WorkStep, LostStep DEF VersionInv
<1>3. ASSUME NEW s \in Replicas, Runs(s)', Believes(s)'
      PROVE  holder' = s
  <2>1. Runs(s)
    BY <1>3, UpStep
  <2>2. Believes(s) \/ holder = s \/ holder' = s
    BY <1>3, BelievesTheRow
  <2> QED BY <1>3, <2>1, <2>2, HolderStays DEF HeldInv, VersionInv
<1> QED BY <1>1, <1>2, <1>3 DEF HeldInv

\* Crashes, drains and the takeovers that follow never let a replica execute beside the
\* lease's holder (OnlyHolderExecutes), for any number of replicas, turns and takeovers.
\* What the theorem excludes is a live replica that gives its lease up, by an eviction,
\* a lost call or a cut connection.
THEOREM ExecutionIsExclusive ==
  ASSUME Calm
  PROVE  Spec => []OnlyHolderExecutes
<1>1. ExecutionInv => OnlyHolderExecutes
  BY DEF ExecutionInv, HeldInv, WorkInv, Believes, Executing, OnlyHolderExecutes
<1> QED BY <1>1, ExecutionInit, ExecutionStep, PTL DEF Spec

\* So no two replicas ever execute the conversation (OneExecutor) where replicas only crash
\* and drain.
COROLLARY ExecutorIsAlone ==
  ASSUME Calm
  PROVE  Spec => []OneExecutor
<1>1. OnlyHolderExecutes => OneExecutor
  BY DEF OnlyHolderExecutes, OneExecutor
<1> QED BY <1>1, ExecutionIsExclusive, PTL

-----------------------------------------------------------------------------
(* The lease keeps its promise *)

\* What a replica does, it does in a process that runs and under its lease.
Busy(r) == work[r] # NoWork => Runs(r) /\ thread[r].holds

\* What a replica that runs has been told of its lease is what the row says, and an answer
\* that would take the lease away is older.
Informed(r) ==
  /\ thread[r].cached = thread[r].holds
  /\ thread[r].holds => load[r].stage = "idle" /\ thread[r].version = version
  /\ load[r].stage \in {"leased", "read"} => load[r].version = version
  /\ call[r].lost # <<>> =>
       /\ call[r].lost[1].version <= Now
       /\ holder = r => call[r].lost[1].version < version

Current(r) ==
  /\ orphans[r] = {} /\ Busy(r)
  /\ watch[r] # <<>> => watch[r][1].holder # Nobody
  /\ Runs(r) => Informed(r)

CurrentInv == \A r \in Replicas : Current(r)

LeaseInv == TypeInv /\ ExecutionInv /\ CurrentInv

\* The holder's events are never refused.
LEMMA HolderIsHeard ==
  ASSUME TypeInv, NEW r \in Replicas, holder = r,
         NEW frames, frames \in Seq(Queued), frames \in Seq(Event)
  PROVE  ~Projection(r, frames).refused
<1> DEFINE F == {f \in Queued : f.kind # "release"}
           P == {done \in Projected : done.row = r /\ done.asked \in {r, Nobody} /\ ~done.refused}
<1>1. frames \in Seq(F)
  <2>1. \A k \in 1 .. Len(frames) : frames[k] \in Queued /\ frames[k] \in Event
    OBVIOUS
  <2>2. \A k \in 1 .. Len(frames) : frames[k] \in F
    BY <2>1 DEF Event
  <2>3. /\ Len(frames) \in Nat
        /\ frames = [k \in 1 .. Len(frames) |-> frames[k]]
    OBVIOUS
  <2> HIDE DEF F
  <2>4. frames \in [1 .. Len(frames) -> F]
    BY <2>2, <2>3
  <2> QED BY <2>3, <2>4, ListIsSequence
<1>2. Unprojected \in P
  BY DEF Unprojected, Projected, TypeInv, LeaseTypes, RecordTypes, Holders
<1>3. ASSUME NEW isolated \in BOOLEAN, NEW done \in P, NEW f \in F, NEW k \in Nat
      PROVE  Apply(r, isolated, done, f, k) \in P
  <2> DEFINE accepted == [done EXCEPT !.asked = IF isolated THEN r ELSE Nobody]
             recorded == [accepted EXCEPT !.active = (f.kind = "begin"), !.receipts = @ \cup {k}]
             after == Apply(r, isolated, done, f, k)
  <2>1. after \in Projected
    BY <1>3, ApplyTyped
  <2>2. IF done.asked # Nobody THEN done.asked = r ELSE done.row = r
    BY <1>3
  <2>3. /\ accepted.row = r /\ accepted.asked \in {r, Nobody} /\ ~accepted.refused
        /\ recorded.row = r /\ recorded.asked \in {r, Nobody} /\ ~recorded.refused
    BY <1>3 DEF Projected
  <2>4. accepted \in Projected /\ recorded \in Projected
    <3>1. accepted \in Projected
      BY <1>3 DEF Projected, Holders
    <3> HIDE DEF accepted
    <3> QED BY <3>1 DEF Projected
  <2>5. f.kind \in {"begin", "end"} /\ f.seen \in BOOLEAN
    BY <1>3 DEF Queued, Frames
  <2>6. \/ after = accepted
        \/ after = [recorded EXCEPT !.live = @ \ {f.inv}]
        \/ after = [recorded EXCEPT !.live = {f.inv}]
        \/ after = [accepted EXCEPT !.active = TRUE, !.rejected = TRUE]
    BY <2>2, <2>5 DEF Apply
  <2> HIDE DEF accepted, recorded, after
  <2>7. after.row = r /\ after.asked \in {r, Nobody} /\ ~after.refused
    BY <2>3, <2>4, <2>6 DEF Projected
  <2> QED BY <2>1, <2>7 DEF after
<1> HIDE DEF F, P
<1>4. \A isolated \in BOOLEAN : Project(r, frames, isolated) \in P
  BY <1>1, <1>2, <1>3, ProjectInto
<1>5. Projection(r, frames) \in P
  BY <1>4 DEF Projection
<1> QED BY <1>5 DEF P

\* What arrives at a replica that runs tells it nothing new, as far as it goes by it.
LEMMA NothingNew ==
  ASSUME LeaseInv, NEW r \in Replicas, Runs(r)
  PROVE  /\ call[r].lost # <<>> =>
              ApplyLease(r, call[r].lost[1]) = thread[r] /\ WorkUnder(r, call[r].lost[1]) = work[r]
         /\ watch[r] # <<>> =>
              ApplyLease(r, watch[r][1]) = thread[r] /\ WorkUnder(r, watch[r][1]) = work[r]
<1> USE DEF LeaseInv, ExecutionInv, VersionInv
<1>1. /\ thread[r] \in [cached : BOOLEAN, holds : BOOLEAN, version : Nat]
      /\ version \in Nat /\ Current(r) /\ Informed(r)
      /\ thread[r].holds => holder = r
  BY DEF ThreadInv, RowInv, CurrentInv, Current, HeldInv, Believes
<1>2. work[r] # NoWork => thread[r].holds
  BY <1>1 DEF Current, Busy
<1>3. ASSUME call[r].lost # <<>>
      PROVE  ~thread[r].cached \/ call[r].lost[1].version < thread[r].version
  BY <1>1, <1>3 DEF Informed
<1>4. ASSUME watch[r] # <<>>
      PROVE  \/ ~thread[r].cached \/ watch[r][1].version < thread[r].version
             \/ watch[r][1].holder = r /\ watch[r][1].version = thread[r].version
  <2>1. /\ watch[r][1].holder # Nobody /\ watch[r][1].version \in Nat
        /\ Claim(watch[r][1].holder, watch[r][1].version)
    BY <1>1, <1>4 DEF WatchInv, Told, Current
  <2> QED BY <1>1, <2>1, NobodyAssumption DEF Claim, Informed
<1>5. ASSUME call[r].lost # <<>>
      PROVE  ApplyLease(r, call[r].lost[1]) = thread[r] /\ WorkUnder(r, call[r].lost[1]) = work[r]
  <2>1. ApplyLease(r, call[r].lost[1]) = thread[r]
    BY <1>1, <1>3, <1>5 DEF ApplyLease
  <2> QED BY <1>2, <2>1 DEF WorkUnder
<1>6. ASSUME watch[r] # <<>>
      PROVE  ApplyLease(r, watch[r][1]) = thread[r] /\ WorkUnder(r, watch[r][1]) = work[r]
  <2>1. ApplyLease(r, watch[r][1]) = thread[r]
    BY <1>1, <1>4, <1>6 DEF ApplyLease, Informed
  <2> QED BY <1>2, <2>1 DEF WorkUnder
<1> QED BY <1>5, <1>6

\* A replica that keeps running keeps the row it believes in, and an old answer stays old.
LEMMA RowKept ==
  ASSUME Calm, LeaseInv, [Next]_vars, NEW s \in Replicas, Runs(s)'
  PROVE  /\ Runs(s)
         /\ Believes(s) => UNCHANGED <<holder, version>>
         /\ \A v \in Nat : v <= Now /\ (holder = s => v < version)
              => v <= Now' /\ (holder' = s => v < version')
<1> USE DEF LeaseInv, ExecutionInv, VersionInv
<1>1. Runs(s)
  BY UpStep
<1>2. Believes(s) => holder = s /\ UNCHANGED <<holder, version>>
  <2>1. Believes(s) => holder = s
    BY <1>1 DEF HeldInv
  <2> QED BY <1>1, <2>1, HolderStays
<1>3. RowMoves
  BY RowMoved
<1>4. ASSUME NEW v \in Nat, v <= Now, holder = s => v < version
      PROVE  v <= Now' /\ (holder' = s => v < version')
  <2>1. CASE UNCHANGED lease
    BY <1>4, <2>1 DEF lease, Now
  <2>2. CASE RowDeleted
    BY <1>4, <2>2, NobodyAssumption DEF RowDeleted, Now
  <2>3. CASE \E r \in Replicas : Give(r, Later)
    <3>1. version' = clock + 2 /\ clock' = clock + 2
      BY <2>3 DEF Give, Later, RowInv
    <3> QED BY <1>4, <3>1 DEF Now, RowInv
  <2> QED BY <1>3, <2>1, <2>2, <2>3 DEF RowMoves
<1> QED BY <1>1, <1>2, <1>4

\* A step that is not a replica's own leaves it informed.
LEMMA OthersCurrent ==
  ASSUME Calm, LeaseInv, [Next]_vars, NEW s \in Replicas,
         UNCHANGED <<thread[s], work[s], orphans[s], load[s], call[s], watch[s]>>,
         Runs(s) => Runs(s)' \/ work[s] = NoWork
  PROVE  Current(s)'
<1>1. Current(s)
  BY DEF LeaseInv, CurrentInv
<1>2. Busy(s)'
  BY <1>1 DEF Current, Busy
<1>3. ASSUME Runs(s)'
      PROVE  Informed(s)'
  <2>1. Runs(s) /\ Informed(s)
    BY <1>1, <1>3, RowKept DEF Current
  <2>2. thread[s].holds \/ load[s].stage \in {"leased", "read"} => UNCHANGED version
    BY <1>3, RowKept DEF Believes
  <2>3. ASSUME call[s].lost # <<>>
        PROVE  call[s].lost[1].version \in Nat
    BY <2>3 DEF LeaseInv, ExecutionInv, VersionInv, CallInv, Told
  <2>4. call[s].lost # <<>> =>
          call[s].lost[1].version <= Now' /\ (holder' = s => call[s].lost[1].version < version')
    BY <1>3, <2>1, <2>3, RowKept DEF Informed
  <2> QED BY <2>1, <2>2, <2>4 DEF Informed
<1> QED BY <1>1, <1>2, <1>3 DEF Current

\* The gateway's own steps leave what it has told the replicas true.
LEMMA GatewayCurrent ==
  ASSUME Calm, LeaseInv, [Next]_vars, Gateway
  PROVE  CurrentInv'
<1> USE DEF LeaseInv, ExecutionInv, VersionInv
<1>1. ASSUME UNCHANGED <<local, process, load, call, watch>>
      PROVE  CurrentInv'
  BY <1>1, OthersCurrent DEF CurrentInv, local, Runs
<1>2. ASSUME NEW r \in Replicas, UNCHANGED <<local, process>>,
             \A s \in Replicas \ {r} : UNCHANGED <<load[s], call[s], watch[s]>>, Current(r)'
      PROVE  CurrentInv'
  BY <1>2, OthersCurrent DEF CurrentInv, local, Runs
<1>3. \A r \in Replicas : Current(r)
  BY DEF CurrentInv
<1>4. CASE Scan \/ Recover \/ RecoverSkips
  BY <1>1, <1>4 DEF Scan, Recover, RecoverSkips, replica, stream
<1>5. ASSUME NEW r \in Replicas, DeclareDead(r)
      PROVE  CurrentInv'
  BY <1>1, <1>5 DEF DeclareDead, replica, stream
<1>6. ASSUME NEW r \in Replicas, StreamLease(r) \/ Disconnect(r)
      PROVE  CurrentInv'
  <2>1. UNCHANGED <<local, process, load, call, lease>>
    BY <1>6 DEF StreamLease, Disconnect, replica
  <2>2. \A s \in Replicas \ {r} : UNCHANGED watch[s]
    BY <1>6 DEF StreamLease, Disconnect, WatchInv
  <2>3. watch'[r] # <<>> => watch'[r][1].holder # Nobody
    <3>1. CASE StreamLease(r)
      BY <3>1 DEF StreamLease, WatchInv, LeaseFrame
    <3>2. CASE Disconnect(r)
      BY <3>2 DEF Disconnect, WatchInv
    <3> QED BY <1>6, <3>1, <3>2
  <2>4. Current(r)'
    BY <1>3, <2>1, <2>3 DEF Current, Busy, Informed, local, lease, Runs, Now
  <2> QED BY <1>2, <2>1, <2>2, <2>4
<1>7. ASSUME NEW r \in Replicas, Lease(r) \/ ReadRecord(r)
      PROVE  CurrentInv'
  <2>1. UNCHANGED <<local, process, call, watch>>
    BY <1>7 DEF Lease, LeaseRefused, LeaseConfirmed, LeaseInserted, LeaseTaken, ReadRecord,
       replica, stream
  <2>2. \A s \in Replicas \ {r} : UNCHANGED load[s]
    BY <1>7 DEF Lease, LeaseRefused, LeaseConfirmed, LeaseInserted, LeaseTaken, Granted,
       ReadRecord, LoadInv
  <2>3. load[r].stage # "idle"
    BY <1>7 DEF Lease, LeaseRefused, LeaseConfirmed, LeaseInserted, LeaseTaken, ReadRecord
  <2>4. load'[r].stage \in {"leased", "read"} =>
          \/ load'[r].version = version'
          \/ load[r].stage = "leased" /\ load'[r].version = load[r].version /\ UNCHANGED version
    <3>1. CASE ReadRecord(r)
      BY <3>1 DEF ReadRecord, LoadInv, lease
    <3>2. CASE LeaseRefused(r)
      BY <3>2 DEF LeaseRefused, NoLoad, LoadInv
    <3>3. CASE LeaseConfirmed(r)
      BY <3>3 DEF LeaseConfirmed, Granted, NoLoad, LoadInv, lease
    <3>4. CASE LeaseInserted(r) \/ LeaseTaken(r)
      <4>1. Granted(r, version')
        BY <3>4 DEF LeaseInserted, LeaseTaken
      <4> QED BY <4>1 DEF Granted, NoLoad, LoadInv
    <3> QED BY <1>7, <3>1, <3>2, <3>3, <3>4 DEF Lease
  <2>5. Busy(r)'
    BY <1>3, <2>1 DEF Current, Busy, local, Runs
  <2>6. ASSUME Runs(r)'
        PROVE  Informed(r)'
    <3>1. Runs(r) /\ Informed(r)
      BY <1>3, <2>1, <2>6 DEF Current, Runs
    <3>2. call[r].lost # <<>> => call[r].lost[1].version \in Nat
      BY DEF CallInv, Told
    <3>3. call[r].lost # <<>> =>
            call[r].lost[1].version <= Now' /\ (holder' = r => call[r].lost[1].version < version')
      BY <2>6, <3>1, <3>2, RowKept DEF Informed
    <3>4. ~thread[r].holds
      BY <2>3, <3>1 DEF Informed
    <3>5. load'[r].stage \in {"leased", "read"} => load'[r].version = version'
      BY <2>4, <3>1 DEF Informed
    <3> QED BY <2>1, <3>1, <3>3, <3>4, <3>5 DEF Informed, local
  <2>7. Current(r)'
    BY <1>3, <2>1, <2>5, <2>6 DEF Current, local
  <2> QED BY <1>2, <2>1, <2>2, <2>7
<1>8. ASSUME NEW r \in Replicas, Publish(r)
      PROVE  CurrentInv'
  <2> DEFINE done == Projection(r, call[r].frames)
  <2>1. UNCHANGED <<local, process, load, watch, version, clock>>
    BY <1>8 DEF Publish, replica, stream
  <2>2. \A s \in Replicas \ {r} : UNCHANGED call[s]
    BY <1>8 DEF Publish, CallInv
  <2>3. call'[r].lost = Lost(r, done)
    BY <1>8 DEF Publish, CallInv
  <2>4. UNCHANGED holder
    BY <1>8, EventsOnly DEF Publish, Projects, QueueInv
  <2>5. holder = r => ~done.refused
    BY HolderIsHeard DEF QueueInv, TypeInv, CallTypes, Calls
  <2> HIDE DEF done
  <2>6. Lost(r, done) # <<>> => Lost(r, done)[1].version <= Now /\ holder # r
    BY <2>5 DEF Lost, LeaseFrame, Now, RowInv
  <2>7. Current(r)'
    BY <1>3, <2>1, <2>3, <2>4, <2>6 DEF Current, Busy, Informed, local, Runs, Now
  <2> QED BY <1>2, <2>1, <2>2, <2>7
<1> QED BY <1>4, <1>5, <1>6, <1>7, <1>8 DEF Gateway

\* A replica's own step leaves it informed.
LEMMA ReplicaCurrent ==
  ASSUME Calm, LeaseInv, [Next]_vars, NEW r \in Replicas, Replica(r)
  PROVE  CurrentInv'
<1> USE DEF LeaseInv, ExecutionInv, VersionInv
<1>1. ASSUME UNCHANGED <<local, process, load, call, watch>>
      PROVE  CurrentInv'
  BY <1>1, OthersCurrent DEF CurrentInv, local, Runs
<1>2. ASSUME \A s \in Replicas \ {r} :
               /\ UNCHANGED <<thread[s], work[s], orphans[s], load[s], call[s], watch[s]>>
               /\ UNCHANGED process[s],
             Current(r)'
      PROVE  CurrentInv'
  BY <1>2, OthersCurrent DEF CurrentInv, Runs
<1>3. /\ \A q \in Replicas : Current(q) /\ orphans[q] = {}
      /\ orphans \in [Replicas -> SUBSET Invocations] /\ cut = {}
  BY DEF CurrentInv, Current, TypeInv, WorkTypes, UpInv
<1>4. CASE StartRun(r) \/ ExecuteCommand(r) \/ EndInvocation(r) \/ FencedTick(r)
  <2>1. /\ UNCHANGED <<lease, thread, process, orphans, load, call, watch>> /\ Runs(r)
        /\ \A s \in Replicas \ {r} : UNCHANGED work[s]
    BY <1>4 DEF StartRun, Begin, ExecuteCommand, EndInvocation, FencedTick, replica, stream, WorkInv
  <2>2. Busy(r)'
    <3>1. Busy(r)
      BY <1>3 DEF Current
    <3>2. work'[r] # NoWork => work[r] # NoWork \/ thread[r].holds
      BY <1>4 DEF StartRun, Owns, ExecuteCommand, EndInvocation, FencedTick, WorkInv, NoWork
    <3> QED BY <2>1, <3>1, <3>2 DEF Busy, Runs
  <2>3. Current(r)'
    BY <1>3, <2>1, <2>2 DEF Current, Informed, lease, Runs, Now
  <2> QED BY <1>2, <2>1, <2>3
<1>5. CASE \E i \in Invocations : OrphanEnds(r, i)
  BY <1>3, <1>5 DEF OrphanEnds
<1>6. CASE PublishFails(r) \/ LoadFails(r) \/ Fence(r) \/ DrainFails(r) \/ Evict(r)
  BY <1>3, <1>6, CalmUpsets DEF PublishFails, LoadFails, Fence, DrainFails, Evict
<1>7. CASE Ship(r)
  <2>1. UNCHANGED <<local, lease, process, load, watch>>
    BY <1>7 DEF Ship, replica, stream
  <2>2. call'[r].lost = <<>> /\ \A s \in Replicas \ {r} : UNCHANGED call[s]
    BY <1>7 DEF Ship, NoCall, CallInv
  <2>3. Current(r)'
    BY <1>3, <2>1, <2>2 DEF Current, Busy, Informed, local, lease, Runs, Now
  <2> QED BY <1>2, <2>1, <2>2, <2>3 DEF local
<1>8. CASE Answered(r)
  <2>1. Runs(r) /\ UNCHANGED <<lease, process, orphans, load, watch>>
    BY <1>8 DEF Answered, Reaches, stream
  <2>2. call'[r].lost = <<>> /\ \A s \in Replicas \ {r} : UNCHANGED call[s]
    BY <1>8 DEF Answered, NoCall, CallInv
  <2>3. /\ UNCHANGED work
        /\ \/ UNCHANGED thread
           \/ work[r] = NoWork /\ thread' = [thread EXCEPT ![r] = NotCached]
    BY <1>8, <2>1, NothingNew DEF Answered, WorkInv, ThreadInv
  <2>4. \A s \in Replicas \ {r} : UNCHANGED thread[s]
    BY <2>3 DEF ThreadInv
  <2>5. \/ thread'[r] = thread[r]
        \/ work[r] = NoWork /\ thread'[r] = NotCached
    <3>1. DOMAIN thread = Replicas
      BY DEF ThreadInv
    <3> QED BY <2>3, <3>1
  <2>6. UNCHANGED <<orphans[r], watch[r], load[r], work[r], process[r], lease>> /\ Current(r)
    BY <1>3, <2>1, <2>3
  <2>7. ASSUME thread'[r] = thread[r]
        PROVE  Current(r)'
    BY <2>1, <2>2, <2>6, <2>7 DEF Current, Busy, Informed, lease, Runs
  <2>8. ASSUME work[r] = NoWork, thread'[r] = NotCached
        PROVE  Current(r)'
    BY <2>1, <2>2, <2>6, <2>8 DEF Current, Busy, Informed, lease, Runs, NotCached
  <2>9. Current(r)'
    BY <2>5, <2>7, <2>8
  <2> QED BY <1>2, <2>1, <2>2, <2>3, <2>4, <2>9
<1>9. CASE AskToLoad(r)
  <2>1. UNCHANGED <<local, lease, process, call, watch>>
    BY <1>9 DEF AskToLoad, replica, stream
  <2>2. /\ load'[r].stage = "asked" /\ \A s \in Replicas \ {r} : UNCHANGED load[s]
        /\ Runs(r) /\ ~(thread[r].cached /\ thread[r].holds)
    BY <1>9 DEF AskToLoad, Asked, NoLoad, LoadInv, Reaches
  <2>3. Current(r)'
    BY <1>3, <2>1, <2>2 DEF Current, Busy, Informed, local, lease, Runs, Now
  <2> QED BY <1>2, <2>1, <2>2, <2>3 DEF local
<1>10. CASE Loaded(r)
  <2>1. Runs(r) /\ load[r].stage = "read" /\ UNCHANGED <<lease, process, call, watch>>
    BY <1>10 DEF Loaded, Reaches, replica, stream
  <2>2. /\ thread'[r] = [cached |-> TRUE, holds |-> TRUE, version |-> load[r].version]
        /\ load'[r].stage = "idle"
        /\ \A s \in Replicas \ {r} : UNCHANGED <<thread[s], work[s], load[s]>>
    BY <1>10 DEF Loaded, Begin, NoLoad, LoadInv, ThreadInv, WorkInv
  <2>3. work[r] = NoWork
    BY <1>3, <2>1 DEF Current, Busy, Informed
  <2>4. UNCHANGED orphans
    BY <1>3, <1>10, <2>3 DEF Loaded, NoWork
  <2>5. Current(r)'
    BY <1>3, <2>1, <2>2, <2>4 DEF Current, Busy, Informed, lease, Runs, Now
  <2> QED BY <1>2, <2>1, <2>2, <2>4, <2>5
<1>11. CASE DeliverLease(r)
  <2>1. Runs(r) /\ UNCHANGED <<lease, process, call, orphans>> /\ watch[r] # <<>>
    BY <1>11 DEF DeliverLease, Reaches, replica
  <2>2. UNCHANGED <<thread, work>>
    BY <1>11, <2>1, NothingNew DEF DeliverLease, WorkInv, ThreadInv
  <2>3. /\ watch'[r] = <<>>
        /\ \/ load'[r] = load[r]
           \/ load'[r].stage = "asked" /\ ~thread[r].cached
        /\ \A s \in Replicas \ {r} : UNCHANGED <<load[s], watch[s]>>
    BY <1>11 DEF DeliverLease, Asked, NoLoad, LoadInv, WatchInv
  <2>4. Current(r)'
    BY <1>3, <2>1, <2>2, <2>3 DEF Current, Busy, Informed, lease, Runs, Now
  <2> QED BY <1>2, <2>1, <2>2, <2>3, <2>4
<1>12. CASE Reconnect(r) \/ Heartbeat(r)
  BY <1>1, <1>12 DEF Reconnect, Heartbeat, replica, stream
<1>13. CASE Drain(r) \/ DrainBeat(r) \/ DrainFlush(r) \/ Crash(r)
  <2>1. /\ \A s \in Replicas \ {r} :
             /\ UNCHANGED <<thread[s], work[s], orphans[s], load[s], call[s], watch[s]>>
             /\ UNCHANGED process[s]
        /\ UNCHANGED watch /\ ~Runs(r)'
    BY <1>13 DEF Drain, DrainBeat, DrainFlush, Crash, Gone, Runs, local, stream, UpInv, ThreadInv,
       WorkInv, LoadInv, CallInv, TypeInv, WorkTypes
  <2>2. work'[r] = NoWork /\ orphans'[r] = {}
    <3>1. CASE DrainBeat(r)
      <4>1. ~Runs(r) /\ UNCHANGED <<work, orphans>>
        BY <3>1 DEF DrainBeat, Runs, local
      <4> QED BY <1>3, <4>1 DEF Current, Busy
    <3>2. CASE Drain(r)
      BY <1>3, <3>2 DEF Drain, WorkInv
    <3>3. CASE DrainFlush(r) \/ Crash(r)
      BY <1>3, <3>3 DEF DrainFlush, Crash, Gone, WorkInv
    <3> QED BY <1>13, <3>1, <3>2, <3>3
  <2>3. Current(r)'
    BY <1>3, <2>1, <2>2 DEF Current, Busy
  <2> QED BY <1>2, <2>1, <2>3
<1> QED
  BY <1>4, <1>5, <1>6, <1>7, <1>8, <1>9, <1>10, <1>11, <1>12, <1>13 DEF Replica

LEMMA LeaseInit == Init => LeaseInv
<1> SUFFICES ASSUME Init
             PROVE  LeaseInv
  OBVIOUS
<1>1. ASSUME NEW r \in Replicas
      PROVE  Current(r)
  BY DEF Init, Current, Busy, Informed, NotCached, NoLoad, NoCall
<1> QED BY <1>1, InitTypes, ExecutionInit DEF LeaseInv, CurrentInv

LEMMA LeaseStep ==
  ASSUME Calm, LeaseInv, [Next]_vars
  PROVE  LeaseInv'
<1>1. TypeInv' /\ ExecutionInv'
  BY TypesStep, ExecutionStep DEF LeaseInv
<1>2. CASE Gateway \/ \E r \in Replicas : Replica(r)
  BY <1>1, <1>2, GatewayCurrent, ReplicaCurrent DEF LeaseInv
<1>3. CASE Network \/ UNCHANGED vars
  <2>1. UNCHANGED <<local, process, load, call, watch>>
    BY <1>3 DEF Network, Cut, Heal, vars, replica, stream
  <2> QED BY <1>1, <2>1, OthersCurrent DEF LeaseInv, CurrentInv, local, Runs
<1> QED BY <1>2, <1>3 DEF Next

\* Each step of the replicas and of the gateway is a step of the promise, or none.
LEMMA StepKeepsExclusion ==
  ASSUME Calm, LeaseInv, [Next]_vars
  PROVE  [Exclusive!Next]_(Exclusive!vars)
<1> DEFINE holding == {q \in Replicas : Runs(q) /\ thread[q].holds}
           doing == [q \in Replicas |-> Doing(q)]
           stopped == {q \in Replicas : ~Runs(q)}
<1> USE DEF LeaseInv, ExecutionInv, VersionInv
<1>1. /\ \A q \in Replicas : Current(q) /\ orphans[q] = {} /\ Busy(q)
      /\ \A q \in Replicas : Runs(q) => Informed(q) /\ (thread[q].holds => holder = q)
      /\ orphans \in [Replicas -> SUBSET Invocations] /\ cut = {}
      /\ holder \in Holders /\ holder' \in Holders
  <2>1. holder' \in Holders
    BY LeaseStep DEF RowInv
  <2> QED BY <2>1 DEF CurrentInv, Current, TypeInv, WorkTypes, UpInv, HeldInv, Believes, RowInv
<1>2. \A q \in Replicas : Doing(q) = IF work[q] = NoWork THEN {} ELSE {work[q].inv}
  BY <1>1 DEF Doing
<1>3. ASSUME UNCHANGED <<holder, holding, doing, stopped, began>>
      PROVE  [Exclusive!Next]_(Exclusive!vars)
  BY <1>3 DEF Exclusive!vars
<1>4. ASSUME UNCHANGED <<holder, process, local>>
      PROVE  [Exclusive!Next]_(Exclusive!vars)
  BY <1>3, <1>4 DEF local, Doing, Runs
<1>5. ASSUME UNCHANGED <<holding, doing, stopped, began>>,
             \A q \in Replicas : holder = q /\ Runs(q) => holder' = holder
      PROVE  [Exclusive!Next]_(Exclusive!vars)
  <2>1. CASE holder \in stopped \cup {Nobody}
    BY <1>1, <1>5, <2>1 DEF Exclusive!Next, Exclusive!Give, Holders
  <2>2. CASE holder \notin stopped \cup {Nobody}
    BY <1>1, <1>3, <1>5, <2>2 DEF Holders
  <2> QED BY <2>1, <2>2
<1>6. CASE Gateway
  <2>1. UNCHANGED <<process, local>>
    BY <1>6 DEF Gateway, Scan, Recover, RecoverSkips, Publish, StreamLease, Disconnect, Lease,
       LeaseRefused, LeaseConfirmed, LeaseInserted, LeaseTaken, ReadRecord, DeclareDead, replica
  <2>2. \A q \in Replicas : holder = q /\ Runs(q) => holder' = holder
    BY <2>1, HolderStays DEF Runs
  <2> QED BY <1>5, <2>1, <2>2 DEF local, Doing, Runs
<1>7. CASE Network \/ UNCHANGED vars
  BY <1>4, <1>7 DEF Network, Cut, Heal, vars, lease, replica
<1>8. ASSUME NEW r \in Replicas, Replica(r)
      PROVE  [Exclusive!Next]_(Exclusive!vars)
  <2> USE DEF Exclusive!Next
  <2>1. ASSUME Begin(r), holder = r, Runs(r), work[r] = NoWork,
               UNCHANGED <<holder, process, orphans>>,
               thread'[r].holds, \A q \in Replicas \ {r} : UNCHANGED thread[q]
        PROVE  [Exclusive!Next]_(Exclusive!vars)
    <3> DEFINE i == began + 1
    <3>1. began \in Nat /\ began' = i /\ i \in Invocations
      BY <2>1, BoundsAssumption DEF Begin, WorkInv, Invocations
    <3>2. i \notin 1 .. began /\ 1 .. began' = (1 .. began) \cup {i}
      BY <3>1
    <3>3. /\ work'[r].inv = i /\ work'[r] # NoWork
          /\ \A q \in Replicas \ {r} : work'[q] = work[q]
      BY <2>1 DEF Begin, WorkInv, NoWork
    <3>4. Doing(r) = {} /\ Doing(r)' = {i} /\ \A q \in Replicas \ {r} : Doing(q)' = Doing(q)
      BY <1>1, <2>1, <3>3 DEF Doing
    <3>5. doing' = [doing EXCEPT ![r] = {i}] /\ doing[r] = {}
      BY <3>4
    <3>6. holding' = holding \cup {r} /\ r \notin stopped /\ UNCHANGED stopped
      BY <2>1 DEF Runs
    <3> HIDE DEF i, holding, doing, stopped
    <3>7. Exclusive!Begin(r, i)
      BY <2>1, <3>1, <3>2, <3>5, <3>6 DEF Exclusive!Begin, Exclusive!Learns, holding, doing, stopped
    <3> QED BY <3>1, <3>7
  <2>2. CASE StartRun(r)
    <3>1. Runs(r) /\ thread[r].holds /\ work[r] = NoWork /\ Begin(r)
          /\ UNCHANGED <<holder, process, thread, orphans>>
      BY <2>2 DEF StartRun, Owns, lease, replica
    <3> QED BY <1>1, <2>1, <3>1
  <2>3. CASE Loaded(r)
    <3>1. Runs(r) /\ load[r].stage = "read" /\ UNCHANGED <<holder, process>>
      BY <2>3 DEF Loaded, Reaches, lease, replica
    <3>2. work[r] = NoWork /\ holder = r
      BY <1>1, <3>1 DEF Busy, Informed, HeldInv, Believes
    <3>3. UNCHANGED orphans
      BY <1>1, <2>3, <3>2 DEF Loaded, NoWork
    <3>4. thread'[r].holds /\ \A q \in Replicas \ {r} : UNCHANGED thread[q]
      BY <2>3 DEF Loaded, ThreadInv
    <3>5. CASE Begin(r)
      BY <2>1, <3>1, <3>2, <3>3, <3>4, <3>5
    <3>6. CASE work' = [work EXCEPT ![r] = NoWork] /\ UNCHANGED began
      <4>1. UNCHANGED work
        BY <3>2, <3>6 DEF WorkInv
      <4>2. holding' = holding \cup {r} /\ r \notin stopped /\ UNCHANGED <<stopped, doing>>
        BY <3>1, <3>3, <3>4, <4>1 DEF Runs, Doing
      <4>3. Exclusive!Learn(r)
        BY <3>1, <3>2, <3>6, <4>2 DEF Exclusive!Learn, Exclusive!Learns
      <4> QED BY <4>3
    <3> QED BY <2>3, <3>5, <3>6 DEF Loaded
  <2>4. CASE ExecuteCommand(r)
    <3>1. \A q \in Replicas : work'[q].inv = work[q].inv /\ (work'[q] = NoWork <=> work[q] = NoWork)
      BY <2>4 DEF ExecuteCommand, WorkInv, NoWork
    <3>2. UNCHANGED <<holder, process, thread, orphans, began>>
      BY <2>4 DEF ExecuteCommand, lease, replica
    <3> QED BY <1>3, <3>1, <3>2 DEF Doing, Runs
  <2>5. CASE EndInvocation(r) \/ FencedTick(r)
    <3>1. UNCHANGED <<holder, process, thread, orphans, began>> /\ work' = [work EXCEPT ![r] = NoWork]
      BY <2>5 DEF EndInvocation, FencedTick, lease, replica
    <3>2. Doing(r)' = {} /\ \A q \in Replicas \ {r} : Doing(q)' = Doing(q)
      BY <1>1, <3>1 DEF Doing, WorkInv
    <3>3. doing' = [doing EXCEPT ![r] = {}]
      BY <3>2
    <3>4. Exclusive!Finish(r)
      BY <3>1, <3>3 DEF Exclusive!Finish, Runs
    <3> QED BY <3>4
  <2>6. CASE Answered(r)
    <3>1. Runs(r) /\ UNCHANGED <<holder, process, orphans, began>>
      BY <2>6 DEF Answered, Reaches, lease
    <3>2. /\ UNCHANGED work
          /\ \/ UNCHANGED thread
             \/ work[r] = NoWork /\ thread' = [thread EXCEPT ![r] = NotCached]
      BY <2>6, <3>1, NothingNew DEF Answered, WorkInv, ThreadInv
    <3>3. CASE UNCHANGED thread
      BY <1>4, <3>1, <3>2, <3>3 DEF local
    <3>4. CASE work[r] = NoWork /\ thread' = [thread EXCEPT ![r] = NotCached]
      <4>1. holding' = holding \ {r} /\ UNCHANGED <<stopped, doing>> /\ doing[r] = {}
        BY <1>1, <3>1, <3>2, <3>4 DEF Runs, Doing, NotCached, ThreadInv
      <4>2. Exclusive!Forget(r)
        BY <3>1, <4>1 DEF Exclusive!Forget
      <4> QED BY <4>2
    <3> QED BY <3>2, <3>3, <3>4
  <2>7. CASE DeliverLease(r)
    <3>1. UNCHANGED <<holder, process, orphans, began>> /\ Runs(r) /\ watch[r] # <<>>
      BY <2>7 DEF DeliverLease, Reaches, lease, replica
    <3>2. UNCHANGED <<thread, work>>
      BY <2>7, <3>1, NothingNew DEF DeliverLease, WorkInv, ThreadInv
    <3> QED BY <1>4, <3>1, <3>2 DEF local
  <2>8. CASE Drain(r) \/ Crash(r)
    <3>1. UNCHANGED <<holder, began>> /\ ~Runs(r)' /\ \A q \in Replicas \ {r} : UNCHANGED process[q]
      BY <2>8 DEF Drain, Crash, Gone, lease, Runs, UpInv
    <3>2. /\ work' = [work EXCEPT ![r] = NoWork] /\ \A q \in Replicas \ {r} : UNCHANGED thread[q]
          /\ UNCHANGED orphans
      BY <1>1, <2>8 DEF Drain, Crash, Gone, ThreadInv
    <3>3. Doing(r)' = {} /\ \A q \in Replicas \ {r} : Doing(q)' = Doing(q)
      BY <1>1, <3>2 DEF Doing, WorkInv
    <3>4. doing' = [doing EXCEPT ![r] = {}]
      BY <3>3
    <3>5. stopped' = stopped \cup {r} /\ holding' = holding \ {r}
      BY <3>1, <3>2 DEF Runs
    <3>6. Exclusive!Stop(r)
      BY <3>1, <3>4, <3>5 DEF Exclusive!Stop
    <3> QED BY <3>6
  <2>9. CASE DrainBeat(r) \/ DrainFlush(r)
    <3>1. ~Runs(r) /\ ~Runs(r)' /\ \A q \in Replicas \ {r} : UNCHANGED process[q]
      BY <2>9 DEF DrainBeat, DrainFlush, Gone, Runs, UpInv
    <3>2. UNCHANGED <<work, orphans, began>> /\ \A q \in Replicas \ {r} : UNCHANGED thread[q]
      <4>1. CASE DrainBeat(r)
        BY <4>1 DEF DrainBeat, local
      <4>2. CASE DrainFlush(r)
        <5>1. work[r] = NoWork /\ orphans[r] = {}
          BY <1>1, <3>1 DEF Busy
        <5>2. Gone(r)
          BY <4>2 DEF DrainFlush
        <5> QED BY <1>1, <5>1, <5>2 DEF Gone, ThreadInv, WorkInv
      <4> QED BY <2>9, <4>1, <4>2
    <3>3. UNCHANGED <<holding, doing, stopped>>
      BY <3>1, <3>2 DEF Runs, Doing
    <3>4. \A q \in Replicas : holder = q /\ Runs(q) => holder' = holder
      BY <3>1, <3>2, HolderStays DEF Runs
    <3> QED BY <1>5, <3>2, <3>3, <3>4
  <2>10. CASE Ship(r) \/ AskToLoad(r) \/ Reconnect(r) \/ Heartbeat(r)
    BY <1>4, <2>10 DEF Ship, AskToLoad, Reconnect, Heartbeat, lease, replica
  <2>11. ~(\/ PublishFails(r) \/ LoadFails(r) \/ Fence(r) \/ DrainFails(r) \/ Evict(r)
           \/ \E i \in Invocations : OrphanEnds(r, i))
    BY <1>1, CalmUpsets DEF PublishFails, LoadFails, Fence, DrainFails, Evict, OrphanEnds
  <2> QED
    BY <1>8, <2>2, <2>3, <2>4, <2>5, <2>6, <2>7, <2>8, <2>9, <2>10, <2>11 DEF Replica
<1> QED BY <1>6, <1>7, <1>8 DEF Next

\* The lease implements ExclusiveExecution where replicas only crash and drain, for any
\* number of replicas, conversations' turns and takeovers: no replica that runs loses it,
\* none takes itself for its holder wrongly or is told wrongly that it is not, and only the
\* holder begins an invocation, a new one, when it does nothing.
THEOREM LeaseKeepsItsPromise ==
  ASSUME Calm
  PROVE  Spec => KeepsExclusion
<1>1. Init => Exclusive!Init
  <2> SUFFICES ASSUME Init
               PROVE  Exclusive!Init
    OBVIOUS
  <2> QED BY DEF Init, Exclusive!Init, Runs, Doing, NotCached
<1> QED BY <1>1, LeaseInit, LeaseStep, StepKeepsExclusion, PTL DEF Spec, KeepsExclusion, Exclusive!Spec
=============================================================================
