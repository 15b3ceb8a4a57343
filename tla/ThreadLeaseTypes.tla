-------------------------- MODULE ThreadLeaseTypes --------------------------
(***************************************************************************)
(* The types of ThreadLease, for every value of its constants.  What a     *)
(* batch does to the record is computed frame by frame; that the result    *)
(* has its type is shown of the first frame after which it would not.      *)
(***************************************************************************)
EXTENDS ThreadLease, WellFoundedInduction, TLAPS

-----------------------------------------------------------------------------
(* Induction, by the least counterexample *)

LEMMA LeastNatural ==
  ASSUME NEW S \in SUBSET Nat, S # {}
  PROVE  \E s \in S : \A u \in S : s <= u
<1> DEFINE Less == {p \in Nat \X Nat : p[1] < p[2]}
<1>1. IsWellFoundedOn(Less, Nat)
  BY NatLessThanWellFounded DEF OpToRel
<1> HIDE DEF Less
<1>2. \E s \in S : \A u \in S : ~(<<u, s>> \in Less)
  BY <1>1, WFMin
<1>3. \E s \in S : \A u \in S : ~(u < s)
  BY <1>2 DEF Less
<1> QED
  BY <1>3

\* A set that has 0, and with every number below n the next one, has all of 0 .. n.
LEMMA Upwards ==
  ASSUME NEW n \in Nat, NEW S, 0 \in S, \A k \in 1 .. n : k - 1 \in S => k \in S
  PROVE  0 .. n \subseteq S
<1> SUFFICES ASSUME (0 .. n) \ S # {}
             PROVE  FALSE
  OBVIOUS
<1>1. (0 .. n) \ S \in SUBSET Nat
  OBVIOUS
<1>2. PICK k \in (0 .. n) \ S : \A u \in (0 .. n) \ S : k <= u
  BY <1>1, LeastNatural
<1>3. k \in 1 .. n /\ k - 1 \in 0 .. n
  BY <1>2
<1>4. k - 1 \in S
  BY <1>2, <1>3
<1> QED
  BY <1>2, <1>3, <1>4

-----------------------------------------------------------------------------
(* What a batch leaves *)

\* Frames a replica queues: what begins is an invocation.
Queued == {f \in Frames : f.kind = "begin" => f.inv \in Invocations}

Projected ==
  [row : Holders, asked : Holders, active : BOOLEAN, live : SUBSET Invocations,
   receipts : SUBSET Nat, refused : BOOLEAN, rejected : BOOLEAN]

LEMMA ApplyTyped ==
  ASSUME NEW r \in Replicas, NEW isolated \in BOOLEAN, NEW done \in Projected,
         NEW f \in Queued, NEW k \in Nat
  PROVE  Apply(r, isolated, done, f, k) \in Projected
<1> DEFINE holds == IF done.asked # Nobody THEN done.asked = r ELSE done.row = r
           accepted == [done EXCEPT !.asked = IF isolated THEN r ELSE Nobody]
           recorded == [accepted EXCEPT !.active = (f.kind = "begin"), !.receipts = @ \cup {k}]
<1>1. accepted \in Projected
  BY DEF Projected, Holders
<1>2. recorded \in Projected
  BY <1>1 DEF Projected
<1>3. CASE f.kind = "release"
  BY <1>3 DEF Apply, Projected, Holders
<1>4. CASE f.kind # "release" /\ ~holds
  BY <1>4 DEF Apply, Projected, Queued, Frames
<1>5. CASE f.kind # "release" /\ holds /\ f.seen
  BY <1>1, <1>5 DEF Apply, Queued, Frames
<1>6. CASE f.kind = "end" /\ holds /\ ~f.seen
  <2>1. Apply(r, isolated, done, f, k) = [recorded EXCEPT !.live = @ \ {f.inv}]
    BY <1>6 DEF Apply
  <2> HIDE DEF recorded
  <2>2. [recorded EXCEPT !.live = @ \ {f.inv}] \in Projected
    BY <1>2 DEF Projected
  <2> QED
    BY <2>1, <2>2
<1>7. CASE f.kind = "begin" /\ holds /\ ~f.seen
  <2>1. Apply(r, isolated, done, f, k) =
          IF done.live \subseteq {f.inv} THEN [recorded EXCEPT !.live = {f.inv}]
          ELSE [accepted EXCEPT !.active = TRUE, !.rejected = TRUE]
    BY <1>7 DEF Apply
  <2>2. [recorded EXCEPT !.live = {f.inv}] \in Projected
    BY <1>2, <1>7 DEF Projected, Queued
  <2>3. [accepted EXCEPT !.active = TRUE, !.rejected = TRUE] \in Projected
    BY <1>1 DEF Projected
  <2> QED
    BY <2>1, <2>2, <2>3
<1> QED
  BY <1>3, <1>4, <1>5, <1>6, <1>7 DEF Queued, Frames

\* What every frame of a batch keeps is so when the batch is done.
LEMMA ProjectInto ==
  ASSUME NEW r, NEW isolated \in BOOLEAN, NEW F, NEW frames \in Seq(F), NEW P,
         Unprojected \in P,
         \A done \in P, f \in F, k \in Nat : Apply(r, isolated, done, f, k) \in P
  PROVE  Project(r, frames, isolated) \in P
<1> DEFINE Step(g, k) ==
             IF k = 0 THEN Unprojected ELSE Apply(r, isolated, g[k - 1], frames[k], k)
           Steps(g, n) == [k \in 0 .. n |-> Step(g, k)]
           Found == {n \in 0 .. Len(frames) : \E g : g = Steps(g, n)}
           after == CHOOSE g : g = Steps(g, Len(frames))
           Typed == {k \in 0 .. Len(frames) : after[k] \in P}
<1>1. 0 \in Found
  <2> DEFINE g == [k \in 0 .. 0 |-> Unprojected]
  <2>1. g = Steps(g, 0)
    OBVIOUS
  <2>2. 0 \in 0 .. Len(frames)
    OBVIOUS
  <2> HIDE DEF g, Steps
  <2> QED
    BY <2>1, <2>2
<1>2. ASSUME NEW n \in 1 .. Len(frames), n - 1 \in Found
      PROVE  n \in Found
  <2>1. PICK g : g = Steps(g, n - 1)
    BY <1>2
  <2> DEFINE h == [k \in 0 .. n |-> Step(g, k)]
  <2>2. \A k \in 0 .. n : k # 0 => k - 1 \in 0 .. n /\ k - 1 \in 0 .. n - 1
    OBVIOUS
  <2>3. \A k \in 0 .. n - 1 : g[k] = h[k]
    BY <2>1
  <2> HIDE DEF h
  <2>4. \A k \in 0 .. n : Step(g, k) = Step(h, k)
    BY <2>2, <2>3
  <2>5. h = [k \in 0 .. n |-> Step(h, k)]
    BY <2>4 DEF h
  <2>6. n \in 0 .. Len(frames)
    OBVIOUS
  <2> HIDE DEF Step
  <2> QED
    BY <2>5, <2>6
<1>3. Len(frames) \in Found
  <2> HIDE DEF Found
  <2>1. Len(frames) \in Nat
    OBVIOUS
  <2>2. 0 .. Len(frames) \subseteq Found
    BY <1>1, <1>2, <2>1, Upwards
  <2> QED
    BY <2>1, <2>2
<1>4. after = Steps(after, Len(frames))
  <2>1. \E g : g = Steps(g, Len(frames))
    BY <1>3
  <2> QED
    BY <2>1
<1>5. Project(r, frames, isolated) = after[Len(frames)]
  BY DEF Project
<1> HIDE DEF after
<1>6. \A k \in 0 .. Len(frames) : after[k] = Step(after, k)
  BY <1>4
<1>7. 0 \in Typed
  BY <1>6
<1>8. ASSUME NEW k \in 1 .. Len(frames), k - 1 \in Typed
      PROVE  k \in Typed
  <2>1. frames[k] \in F /\ k \in Nat /\ k \in 0 .. Len(frames) /\ k # 0
    OBVIOUS
  <2>2. Apply(r, isolated, after[k - 1], frames[k], k) \in P
    BY <1>8, <2>1
  <2> QED
    BY <1>6, <2>1, <2>2
<1>9. Len(frames) \in Typed
  <2> HIDE DEF Typed
  <2>1. Len(frames) \in Nat
    OBVIOUS
  <2>2. 0 .. Len(frames) \subseteq Typed
    BY <1>7, <1>8, <2>1, Upwards
  <2> QED
    BY <2>1, <2>2
<1> QED
  BY <1>5, <1>9

LEMMA ProjectTyped ==
  ASSUME NEW r \in Replicas, NEW isolated \in BOOLEAN, NEW frames \in Seq(Queued),
         Unprojected \in Projected
  PROVE  Project(r, frames, isolated) \in Projected
<1>1. \A done \in Projected, f \in Queued, k \in Nat :
        Apply(r, isolated, done, f, k) \in Projected
  BY ApplyTyped
<1> QED
  BY <1>1, ProjectInto

-----------------------------------------------------------------------------
(* The invariant: TypeOK in parts, with what a frame that begins carries *)

LeaseTypes == holder \in Holders /\ version \in Versions /\ clock \in 0 .. MaxVersion
RecordTypes == runActive \in BOOLEAN /\ live \subseteq Invocations
ScanTypes == scan \in [holder : Holders, idle : BOOLEAN]
InstanceTypes == ready \subseteq connected /\ connected \subseteq Replicas
ReplicaTypes ==
  /\ process \in [Replicas -> {"up", "draining", "flushing", "down"}]
  /\ cut \subseteq Replicas /\ healthy \subseteq Replicas
ThreadTypes == thread \in [Replicas -> [cached : BOOLEAN, holds : BOOLEAN, version : Versions]]
WorkTypes ==
  /\ work \in [Replicas -> [phase : {"none", "queued", "skipped", "running"},
                             inv : 0 .. MaxInvocations]]
  /\ \A r \in Replicas : work[r].phase # "none" => work[r].inv \in Invocations
  /\ orphans \in [Replicas -> SUBSET Invocations] /\ began \in 0 .. MaxInvocations
OutboxTypes == outbox \in [Replicas -> Seq(Queued)]
Calls ==
  [stage : {"idle", "sent", "handled"}, frames : Seq(Queued), lost : AtMostOne(LeaseFrames),
   rejected : BOOLEAN]
CallTypes == call \in [Replicas -> Calls]
LoadAnswers == [stage : {"idle", "asked", "leased", "read"}, version : Versions, interrupted : BOOLEAN]
LoadTypes == load \in [Replicas -> LoadAnswers]
WatchTypes == watch \in [Replicas -> AtMostOne(LeaseFrames)] /\ news \in [Replicas -> BOOLEAN]

TypeInv ==
  /\ LeaseTypes /\ RecordTypes /\ ScanTypes /\ InstanceTypes /\ ReplicaTypes /\ ThreadTypes
  /\ WorkTypes /\ OutboxTypes /\ CallTypes /\ LoadTypes /\ WatchTypes

LEMMA ClockFits == ASSUME LeaseTypes PROVE clock \in Versions /\ Now \in Versions /\ 0 \in Versions
  BY BoundsAssumption DEF LeaseTypes, Versions, Now

LEMMA ListIsSequence ==
  ASSUME NEW S, NEW n \in Nat, NEW g \in [1 .. n -> S]
  PROVE  g \in Seq(S)
  OBVIOUS

LEMMA QueuedAreFrames == Seq(Queued) \subseteq Seq(Frames)
<1> SUFFICES ASSUME NEW s \in Seq(Queued)
             PROVE  s \in Seq(Frames)
  OBVIOUS
<1>1. Queued \subseteq Frames
  BY DEF Queued
<1> QED
  BY <1>1

LEMMA InvImpliesTypes == TypeInv => TypeOK
<1> SUFFICES ASSUME TypeInv PROVE TypeOK
  OBVIOUS
<1>1. clock \in Versions
  BY ClockFits DEF TypeInv
<1>2. \A r \in Replicas : outbox[r] \in Seq(Frames) /\ call[r].frames \in Seq(Frames)
  BY QueuedAreFrames DEF TypeInv, OutboxTypes, CallTypes, Calls
<1>3. \A r \in Replicas :
       /\ call[r].stage \in {"idle", "sent", "handled"}
       /\ call[r].lost \in AtMostOne(LeaseFrames) /\ call[r].rejected \in BOOLEAN
  BY DEF TypeInv, CallTypes, Calls
<1> QED
  BY <1>1, <1>2, <1>3 DEF TypeInv, TypeOK, LeaseTypes, RecordTypes, ScanTypes, InstanceTypes,
     ReplicaTypes, ThreadTypes, WorkTypes, LoadTypes, LoadAnswers, WatchTypes

-----------------------------------------------------------------------------
(* The values *)

LEMMA ReleaseIsQueued == Release \in Queued
  BY BoundsAssumption DEF Release, Frame, Queued, Frames

LEMMA FramesAreQueued ==
  ASSUME NEW i \in Invocations
  PROVE  Frame("begin", i) \in Queued /\ Frame("end", i) \in Queued
BY DEF Frame, Queued, Frames, Invocations

LEMMA LeaseFrameTyped ==
  ASSUME NEW h \in Holders, NEW v \in Versions
  PROVE  LeaseFrame(h, v) \in LeaseFrames /\ <<LeaseFrame(h, v)>> \in AtMostOne(LeaseFrames)
BY DEF LeaseFrame, LeaseFrames, AtMostOne

LEMMA FirstTyped ==
  ASSUME NEW f \in AtMostOne(LeaseFrames), f # <<>>
  PROVE  f[1] \in LeaseFrames
BY DEF AtMostOne

LEMMA ApplyLeaseTyped ==
  ASSUME ThreadTypes, NEW r \in Replicas, NEW f \in LeaseFrames
  PROVE  ApplyLease(r, f) \in [cached : BOOLEAN, holds : BOOLEAN, version : Versions]
BY DEF ThreadTypes, ApplyLease, LeaseFrames

LEMMA ProjectionTyped ==
  ASSUME TypeInv, NEW r \in Replicas, NEW frames \in Seq(Queued)
  PROVE  Projection(r, frames) \in Projected
<1>1. Unprojected \in Projected
  BY DEF Unprojected, Projected, TypeInv, LeaseTypes, RecordTypes, Holders
<1> QED
  BY <1>1, ProjectTyped DEF Projection

LEMMA ProjectsTyped ==
  ASSUME TypeInv, NEW r \in Replicas, NEW frames \in Seq(Queued), Projects(r, frames)
  PROVE  RecordTypes' /\ holder' \in Holders
BY ProjectionTyped DEF Projects, Projected, RecordTypes, TypeInv, LeaseTypes, Holders

LEMMA GiveTyped ==
  ASSUME TypeInv, NEW r \in Replicas, NEW time \in Nat, Give(r, time)
  PROVE  LeaseTypes' /\ news' \in [Replicas -> BOOLEAN]
<1>1. LeaseTypes'
  BY BoundsAssumption DEF Give, TypeInv, LeaseTypes, Holders, Versions
<1>2. news' \in [Replicas -> BOOLEAN]
  BY Zenon DEF Give, TypeInv, WatchTypes
<1> QED
  BY <1>1, <1>2

LEMMA TakeOverTyped ==
  ASSUME TypeInv, NEW h \in Holders, NEW stop \in BOOLEAN, TakeOver(h, stop)
  PROVE  LeaseTypes' /\ RecordTypes' /\ news' \in [Replicas -> BOOLEAN]
<1>1. RecordTypes'
  BY DEF TakeOver, TypeInv, RecordTypes
<1>2. CASE h = Nobody
  BY <1>1, <1>2 DEF TakeOver, TypeInv, LeaseTypes, WatchTypes, Holders
<1>3. CASE h # Nobody
  <2>1. Later \in Nat
    BY BoundsAssumption DEF Later, TypeInv, LeaseTypes
  <2>2. h \in Replicas /\ Give(h, Later)
    BY <1>3 DEF TakeOver, Holders
  <2> QED
    BY <1>1, <2>1, <2>2, GiveTyped
<1> QED
  BY <1>2, <1>3

-----------------------------------------------------------------------------
(* Every action keeps them *)

LEMMA InitTypes == Init => TypeInv
<1> SUFFICES ASSUME Init PROVE TypeInv
  OBVIOUS
<1> USE BoundsAssumption DEF Init
<1>1. LeaseTypes /\ RecordTypes /\ InstanceTypes
  <2>1. 0 \in Versions /\ 0 \in 0 .. MaxVersion
    BY DEF Versions
  <2> QED
    BY <2>1 DEF LeaseTypes, RecordTypes, InstanceTypes, Holders
<1>5. ScanTypes
  BY DEF ScanTypes, Holders, NoScan
<1>2. ReplicaTypes /\ ThreadTypes /\ WorkTypes
  BY DEF ReplicaTypes, ThreadTypes, WorkTypes, NotCached, NoWork, Versions
<1>3. OutboxTypes /\ CallTypes
  BY DEF OutboxTypes, CallTypes, Calls, NoCall, AtMostOne
<1>4. LoadTypes /\ WatchTypes
  BY DEF LoadTypes, LoadAnswers, NoLoad, WatchTypes, AtMostOne, Versions
<1> QED
  BY <1>1, <1>2, <1>3, <1>4, <1>5 DEF TypeInv

\* The row, the record and the news of it change together.
LEMMA RowTyped ==
  ASSUME TypeInv, [Next]_vars
  PROVE  LeaseTypes' /\ RecordTypes' /\ news' \in [Replicas -> BOOLEAN]
<1> USE DEF lease, record, stream
<1>1. ASSUME UNCHANGED <<lease, record, news>>
      PROVE  LeaseTypes' /\ RecordTypes' /\ news' \in [Replicas -> BOOLEAN]
  BY <1>1 DEF TypeInv, LeaseTypes, RecordTypes, WatchTypes
<1>2. ASSUME UNCHANGED <<lease, record>>,
             \E r \in Replicas, b \in BOOLEAN : news' = [news EXCEPT ![r] = b]
      PROVE  LeaseTypes' /\ RecordTypes' /\ news' \in [Replicas -> BOOLEAN]
  BY <1>2 DEF TypeInv, LeaseTypes, RecordTypes, WatchTypes
<1>3. ASSUME NEW r \in Replicas, NEW frames \in Seq(Queued), Projects(r, frames),
             UNCHANGED <<version, clock, news>>
      PROVE  LeaseTypes' /\ RecordTypes' /\ news' \in [Replicas -> BOOLEAN]
  BY <1>3, ProjectsTyped DEF TypeInv, LeaseTypes, WatchTypes
<1>4. CASE Gateway
  <2>1. CASE Scan \/ RecoverSkips
    BY <1>1, <2>1 DEF Scan, RecoverSkips
  <2>2. CASE Recover
    <3>1. PICK mode \in Modes, next \in Holders : Recovers(next, mode = "stop")
      BY <2>2 DEF Recover
    <3>2. CASE scan.idle
      BY <3>1, <3>2 DEF Recovers, TypeInv, LeaseTypes, RecordTypes, WatchTypes, Holders
    <3>3. CASE ~scan.idle
      BY <3>1, <3>3, TakeOverTyped DEF Recovers
    <3> QED
      BY <3>2, <3>3
  <2>3. ASSUME NEW r \in Replicas, Publish(r)
        PROVE  LeaseTypes' /\ RecordTypes' /\ news' \in [Replicas -> BOOLEAN]
    <3>1. call[r].frames \in Seq(Queued)
      BY DEF TypeInv, CallTypes, Calls
    <3> QED
      BY <1>3, <2>3, <3>1 DEF Publish
  <2>4. ASSUME NEW r \in Replicas, ReadRecord(r) \/ DeclareDead(r)
        PROVE  LeaseTypes' /\ RecordTypes' /\ news' \in [Replicas -> BOOLEAN]
    BY <1>1, <2>4 DEF ReadRecord, DeclareDead
  <2>5. ASSUME NEW r \in Replicas, StreamLease(r) \/ Disconnect(r)
        PROVE  LeaseTypes' /\ RecordTypes' /\ news' \in [Replicas -> BOOLEAN]
    BY <1>2, <2>5 DEF StreamLease, Disconnect
  <2>6. ASSUME NEW r \in Replicas, Lease(r)
        PROVE  LeaseTypes' /\ RecordTypes' /\ news' \in [Replicas -> BOOLEAN]
    <3>1. CASE LeaseRefused(r) \/ LeaseConfirmed(r)
      BY <1>1, <3>1 DEF LeaseRefused, LeaseConfirmed
    <3>2. CASE LeaseInserted(r)
      <4>1. PICK time \in {Later} \cup ({load[r].version} \cap 1 .. clock) : Give(r, time)
        BY <3>2 DEF LeaseInserted
      <4>2. time \in Nat
        BY BoundsAssumption DEF TypeInv, LeaseTypes, Later
      <4>3. LeaseTypes' /\ news' \in [Replicas -> BOOLEAN]
        BY <4>1, <4>2, GiveTyped
      <4> QED
        BY <3>2, <4>3 DEF LeaseInserted, TypeInv, RecordTypes
    <3>3. CASE LeaseTaken(r)
      <4>1. PICK mode \in Modes : TakeOver(r, mode = "stop")
        BY <3>3 DEF LeaseTaken
      <4> QED
        BY <4>1, TakeOverTyped DEF Holders
    <3> QED
      BY <2>6, <3>1, <3>2, <3>3 DEF Lease
  <2> QED
    BY <1>4, <2>1, <2>2, <2>3, <2>4, <2>5, <2>6 DEF Gateway
<1>5. ASSUME NEW r \in Replicas, Replica(r)
      PROVE  LeaseTypes' /\ RecordTypes' /\ news' \in [Replicas -> BOOLEAN]
  <2>1. CASE DrainFlush(r)
    <3>1. outbox[r] \in Seq(Queued)
      BY DEF TypeInv, OutboxTypes
    <3> QED
      BY <1>3, <2>1, <3>1 DEF DrainFlush
  <2>2. CASE Reconnect(r)
    <3>1. \E b \in BOOLEAN : news' = [news EXCEPT ![r] = b]
      BY <2>2 DEF Reconnect
    <3> QED
      BY <1>2, <2>2, <3>1 DEF Reconnect
  <2>3. CASE \/ StartRun(r) \/ ExecuteCommand(r) \/ EndInvocation(r) \/ FencedTick(r)
             \/ \E i \in Invocations : OrphanEnds(r, i)
             \/ Ship(r) \/ Answered(r) \/ PublishFails(r)
             \/ AskToLoad(r) \/ Loaded(r) \/ LoadFails(r)
             \/ DeliverLease(r) \/ Heartbeat(r) \/ Fence(r)
             \/ Evict(r) \/ Drain(r) \/ DrainBeat(r) \/ DrainFails(r) \/ Crash(r)
    BY <1>1, <2>3 DEF StartRun, ExecuteCommand, EndInvocation, FencedTick, OrphanEnds, Ship,
       Answered, PublishFails, AskToLoad, Loaded, LoadFails, DeliverLease, Heartbeat, Fence,
       Evict, Drain, DrainBeat, DrainFails, Crash
  <2> QED
    BY <1>5, <2>1, <2>2, <2>3 DEF Replica
<1>6. CASE Network
  BY <1>1, <1>6 DEF Network, Cut, Heal
<1>7. CASE UNCHANGED vars
  BY <1>1, <1>7 DEF vars
<1> QED
  BY <1>4, <1>5, <1>6, <1>7 DEF Next

LEMMA ScanTyped ==
  ASSUME TypeInv, [Next]_vars
  PROVE  ScanTypes'
<1>1. ASSUME UNCHANGED scan \/ scan' = NoScan
      PROVE  ScanTypes'
  <2>1. NoScan \in [holder : Holders, idle : BOOLEAN]
    BY DEF NoScan, Holders
  <2>2. scan \in [holder : Holders, idle : BOOLEAN]
    BY DEF TypeInv, ScanTypes
  <2> QED
    BY <1>1, <2>1, <2>2 DEF ScanTypes
<1>2. CASE Scan
  <2>1. scan' = [holder |-> holder, idle |-> live = {}] /\ (live = {}) \in BOOLEAN
    BY <1>2 DEF Scan
  <2> QED
    BY <2>1 DEF TypeInv, ScanTypes, LeaseTypes
<1>3. CASE Recover \/ RecoverSkips
  BY <1>1, <1>3 DEF Recover, RecoverSkips
<1>4. ASSUME NEW r \in Replicas,
             Publish(r) \/ ReadRecord(r) \/ StreamLease(r) \/ DeclareDead(r) \/ Disconnect(r)
               \/ Lease(r)
      PROVE  ScanTypes'
  BY <1>1, <1>4 DEF Publish, ReadRecord, StreamLease, DeclareDead, Disconnect, Lease, LeaseRefused,
     LeaseConfirmed, LeaseInserted, LeaseTaken
<1>5. ASSUME NEW r \in Replicas, Replica(r)
      PROVE  ScanTypes'
  BY <1>1, <1>5 DEF Replica, StartRun, ExecuteCommand, EndInvocation, FencedTick, OrphanEnds, Ship,
     Answered, PublishFails, AskToLoad, Loaded, LoadFails, DeliverLease, Reconnect, Heartbeat,
     Fence, Evict, Drain, DrainBeat, DrainFlush, DrainFails, Crash
<1>6. CASE Network \/ UNCHANGED vars
  BY <1>1, <1>6 DEF Network, Cut, Heal, vars
<1> QED
  BY <1>2, <1>3, <1>4, <1>5, <1>6 DEF Next, Gateway

LEMMA InstanceTyped ==
  ASSUME TypeInv, [Next]_vars
  PROVE  InstanceTypes' /\ ReplicaTypes'
<1> USE DEF instances, replica
<1>1. ASSUME UNCHANGED <<instances, replica>>
      PROVE  InstanceTypes' /\ ReplicaTypes'
  BY <1>1 DEF TypeInv, InstanceTypes, ReplicaTypes
<1>2. CASE Scan \/ Recover \/ RecoverSkips
  BY <1>1, <1>2 DEF Scan, Recover, RecoverSkips
<1>3. ASSUME NEW r \in Replicas, Publish(r) \/ ReadRecord(r) \/ StreamLease(r) \/ Lease(r)
      PROVE  InstanceTypes' /\ ReplicaTypes'
  BY <1>1, <1>3 DEF Publish, ReadRecord, StreamLease, Lease, LeaseRefused, LeaseConfirmed,
     LeaseInserted, LeaseTaken
<1>4. ASSUME NEW r \in Replicas, DeclareDead(r) \/ Disconnect(r) \/ Reconnect(r)
      PROVE  InstanceTypes' /\ ReplicaTypes'
  BY <1>4 DEF DeclareDead, Disconnect, Reconnect, TypeInv, InstanceTypes, ReplicaTypes
<1>5. ASSUME NEW r \in Replicas, Heartbeat(r)
      PROVE  InstanceTypes' /\ ReplicaTypes'
  BY <1>5 DEF Heartbeat, Beats, TypeInv, InstanceTypes, ReplicaTypes
<1>6. ASSUME NEW r \in Replicas,
             UNCHANGED connected, ready' \subseteq ready, cut' \subseteq Replicas,
             healthy' \subseteq Replicas,
             \/ UNCHANGED process
             \/ \E p \in {"up", "draining", "flushing", "down"} :
                  process' = [process EXCEPT ![r] = p]
      PROVE  InstanceTypes' /\ ReplicaTypes'
  BY <1>6 DEF TypeInv, InstanceTypes, ReplicaTypes
<1>7. ASSUME NEW r \in Replicas, Answered(r) \/ Fence(r)
      PROVE  InstanceTypes' /\ ReplicaTypes'
  BY <1>6, <1>7 DEF Answered, Fence, TypeInv, ReplicaTypes
<1>8. ASSUME NEW r \in Replicas,
             Drain(r) \/ DrainBeat(r) \/ DrainFlush(r) \/ DrainFails(r) \/ Crash(r)
      PROVE  InstanceTypes' /\ ReplicaTypes'
  BY <1>6, <1>8 DEF Drain, DrainBeat, DrainFlush, DrainFails, Crash, Gone, TypeInv, ReplicaTypes
<1>9. ASSUME NEW r \in Replicas, Cut(r) \/ Heal(r)
      PROVE  InstanceTypes' /\ ReplicaTypes'
  BY <1>6, <1>9 DEF Cut, Heal, TypeInv, ReplicaTypes
<1>10. ASSUME NEW r \in Replicas,
              \/ StartRun(r) \/ ExecuteCommand(r) \/ EndInvocation(r) \/ FencedTick(r)
              \/ \E i \in Invocations : OrphanEnds(r, i)
              \/ Ship(r) \/ PublishFails(r) \/ AskToLoad(r) \/ Loaded(r) \/ LoadFails(r)
              \/ DeliverLease(r) \/ Evict(r)
       PROVE  InstanceTypes' /\ ReplicaTypes'
  BY <1>1, <1>10 DEF StartRun, ExecuteCommand, EndInvocation, FencedTick, OrphanEnds, Ship,
     PublishFails, AskToLoad, Loaded, LoadFails, DeliverLease, Evict
<1>11. CASE UNCHANGED vars
  BY <1>1, <1>11 DEF vars
<1> QED
  BY <1>2, <1>3, <1>4, <1>5, <1>7, <1>8, <1>9, <1>10, <1>11 DEF Next, Gateway, Replica, Network

LEMMA ThreadTyped ==
  ASSUME TypeInv, [Next]_vars
  PROVE  ThreadTypes'
<1> DEFINE Threads == [cached : BOOLEAN, holds : BOOLEAN, version : Versions]
<1>1. ASSUME UNCHANGED thread
      PROVE  ThreadTypes'
  BY <1>1 DEF TypeInv, ThreadTypes
<1>2. ASSUME NEW r \in Replicas, NEW t \in Threads, thread' = [thread EXCEPT ![r] = t]
      PROVE  ThreadTypes'
  BY <1>2 DEF TypeInv, ThreadTypes
<1>3. NotCached \in Threads
  BY ClockFits DEF NotCached, TypeInv
<1>4. CASE UNCHANGED vars \/ Gateway \/ Network
  BY <1>1, <1>4 DEF vars, local, Gateway, Network, Scan, Recover, RecoverSkips, Publish, Lease,
     LeaseRefused, LeaseConfirmed, LeaseInserted, LeaseTaken, ReadRecord, StreamLease,
     DeclareDead, Disconnect, Cut, Heal
<1>5. ASSUME NEW r \in Replicas, Gone(r) \/ Evict(r)
      PROVE  ThreadTypes'
  BY <1>2, <1>3, <1>5 DEF Gone, Evict
<1>6. ASSUME NEW r \in Replicas, DrainFlush(r) \/ DrainFails(r) \/ Crash(r)
      PROVE  ThreadTypes'
  BY <1>5, <1>6 DEF DrainFlush, DrainFails, Crash
<1>7. ASSUME NEW r \in Replicas, Answered(r)
      PROVE  ThreadTypes'
  <2>1. call[r].lost \in AtMostOne(LeaseFrames)
    BY DEF TypeInv, CallTypes, Calls
  <2>2. call[r].lost # <<>> => ApplyLease(r, call[r].lost[1]) \in Threads
    BY <2>1, FirstTyped, ApplyLeaseTyped DEF TypeInv
  <2>3. thread[r] \in Threads
    BY DEF TypeInv, ThreadTypes
  <2>4. \E t \in Threads : thread' = [thread EXCEPT ![r] = t]
    BY <1>3, <1>7, <2>2, <2>3 DEF Answered
  <2> QED
    BY <1>2, <2>4
<1>8. ASSUME NEW r \in Replicas, DeliverLease(r)
      PROVE  ThreadTypes'
  <2>1. watch[r] \in AtMostOne(LeaseFrames) /\ watch[r] # <<>>
    BY <1>8 DEF DeliverLease, TypeInv, WatchTypes
  <2>2. ApplyLease(r, watch[r][1]) \in Threads
    BY <2>1, FirstTyped, ApplyLeaseTyped DEF TypeInv
  <2> QED
    BY <1>2, <1>8, <2>2 DEF DeliverLease
<1>9. ASSUME NEW r \in Replicas, Loaded(r)
      PROVE  ThreadTypes'
  <2>1. [cached |-> TRUE, holds |-> TRUE, version |-> load[r].version] \in Threads
    BY DEF TypeInv, LoadTypes, LoadAnswers
  <2> QED
    BY <1>2, <1>9, <2>1 DEF Loaded
<1>10. ASSUME NEW r \in Replicas, Drain(r)
       PROVE  ThreadTypes'
  <2>1. \A b \in BOOLEAN : [thread[r] EXCEPT !.holds = b] \in Threads
    BY DEF TypeInv, ThreadTypes
  <2>3. thread' = [thread EXCEPT ![r] = [thread[r] EXCEPT !.holds = (@ /\ work[r] # NoWork)]]
    BY <1>10 DEF Drain
  <2> QED
    BY <1>2, <2>1, <2>3
<1>11. ASSUME NEW r \in Replicas,
              \/ StartRun(r) \/ ExecuteCommand(r) \/ EndInvocation(r) \/ FencedTick(r)
              \/ \E i \in Invocations : OrphanEnds(r, i)
              \/ Ship(r) \/ PublishFails(r) \/ AskToLoad(r) \/ LoadFails(r)
              \/ Reconnect(r) \/ Heartbeat(r) \/ Fence(r) \/ DrainBeat(r)
       PROVE  ThreadTypes'
  BY <1>1, <1>11 DEF StartRun, ExecuteCommand, EndInvocation, FencedTick, OrphanEnds, Ship,
     PublishFails, AskToLoad, LoadFails, Reconnect, Heartbeat, Fence, DrainBeat, local
<1> QED
  BY <1>4, <1>5, <1>6, <1>7, <1>8, <1>9, <1>10, <1>11 DEF Next, Replica

\* A turn begins with a new invocation and queues its frame.
LEMMA BeginTyped ==
  ASSUME TypeInv, NEW r \in Replicas, Begin(r)
  PROVE  /\ began' \in 0 .. MaxInvocations
         /\ \E i \in Invocations :
              /\ work' = [work EXCEPT ![r] = [phase |-> "queued", inv |-> i]]
              /\ outbox' = [outbox EXCEPT ![r] = Append(@, Frame("begin", i))]
<1>1. began + 1 \in Invocations /\ began' = began + 1
  BY BoundsAssumption DEF Begin, TypeInv, WorkTypes, Invocations
<1>2. /\ work' = [work EXCEPT ![r] = [phase |-> "queued", inv |-> began + 1]]
      /\ outbox' = [outbox EXCEPT ![r] = Append(@, Frame("begin", began + 1))]
  BY DEF Begin
<1>3. began' \in 0 .. MaxInvocations
  BY <1>1 DEF Invocations
<1> QED
  BY <1>1, <1>2, <1>3

LEMMA WorkTyped ==
  ASSUME TypeInv, [Next]_vars
  PROVE  WorkTypes'
<1> DEFINE Works == [phase : {"none", "queued", "skipped", "running"}, inv : 0 .. MaxInvocations]
           Fits(w) == w \in Works /\ (w.phase # "none" => w.inv \in Invocations)
<1>1. ASSUME UNCHANGED <<work, orphans, began>>
      PROVE  WorkTypes'
  BY <1>1 DEF TypeInv, WorkTypes
<1>2. ASSUME NEW r \in Replicas, NEW w, Fits(w), work' = [work EXCEPT ![r] = w],
             began' \in 0 .. MaxInvocations,
             \/ UNCHANGED orphans
             \/ \E S \in SUBSET Invocations : orphans' = [orphans EXCEPT ![r] = S]
      PROVE  WorkTypes'
  BY <1>2 DEF TypeInv, WorkTypes
<1>3. Fits(NoWork)
  BY BoundsAssumption DEF NoWork
<1>4. \A r \in Replicas : Fits(work[r])
  BY DEF TypeInv, WorkTypes
<1>5. began \in 0 .. MaxInvocations
  BY DEF TypeInv, WorkTypes
<1>6. \A i \in Invocations : Fits([phase |-> "queued", inv |-> i])
  BY BoundsAssumption DEF Invocations
<1>7. CASE UNCHANGED vars \/ Gateway \/ Network
  BY <1>1, <1>7 DEF vars, local, Gateway, Network, Scan, Recover, RecoverSkips, Publish, Lease,
     LeaseRefused, LeaseConfirmed, LeaseInserted, LeaseTaken, ReadRecord, StreamLease,
     DeclareDead, Disconnect, Cut, Heal
<1>8. ASSUME NEW r \in Replicas, StartRun(r)
      PROVE  WorkTypes'
  <2>1. Begin(r) /\ UNCHANGED orphans
    BY <1>8 DEF StartRun
  <2> QED
    BY <1>2, <1>6, <2>1, BeginTyped
<1>9. ASSUME NEW r \in Replicas, ExecuteCommand(r)
      PROVE  WorkTypes'
  <2>1. PICK p \in {"running", "skipped"} : work' = [work EXCEPT ![r] = [work[r] EXCEPT !.phase = p]]
    BY <1>9 DEF ExecuteCommand
  <2>2. Fits([work[r] EXCEPT !.phase = p])
    BY <1>4, <1>9 DEF ExecuteCommand
  <2> QED
    BY <1>2, <1>5, <1>9, <2>1, <2>2 DEF ExecuteCommand
<1>10. ASSUME NEW r \in Replicas, EndInvocation(r) \/ FencedTick(r) \/ Drain(r)
       PROVE  WorkTypes'
  BY <1>2, <1>3, <1>5, <1>10 DEF EndInvocation, FencedTick, Drain
<1>11. ASSUME NEW r \in Replicas, \E i \in Invocations : OrphanEnds(r, i)
       PROVE  WorkTypes'
  <2>1. PICK i \in Invocations : OrphanEnds(r, i)
    BY <1>11
  <2>2. orphans' = [orphans EXCEPT ![r] = @ \ {i}] /\ UNCHANGED <<work, began>>
    BY <2>1 DEF OrphanEnds
  <2> QED
    BY <2>2 DEF TypeInv, WorkTypes
<1>12. ASSUME NEW r \in Replicas, Gone(r)
       PROVE  WorkTypes'
  <2>1. work' = [work EXCEPT ![r] = NoWork] /\ orphans' = [orphans EXCEPT ![r] = {}]
        /\ UNCHANGED began
    BY <1>12 DEF Gone
  <2> QED
    BY <1>2, <1>3, <1>5, <2>1
<1>13. ASSUME NEW r \in Replicas, DrainFlush(r) \/ DrainFails(r) \/ Crash(r)
       PROVE  WorkTypes'
  BY <1>12, <1>13 DEF DrainFlush, DrainFails, Crash
<1>14. ASSUME NEW r \in Replicas, NEW f \in LeaseFrames
       PROVE  Fits(WorkUnder(r, f))
  BY <1>3, <1>4 DEF WorkUnder
<1>15. ASSUME NEW r \in Replicas, Answered(r)
       PROVE  WorkTypes'
  <2>1. call[r].lost \in AtMostOne(LeaseFrames)
    BY DEF TypeInv, CallTypes, Calls
  <2>2. call[r].lost # <<>> => Fits(WorkUnder(r, call[r].lost[1]))
    BY <1>14, <2>1, FirstTyped
  <2>3. PICK w : Fits(w) /\ work' = [work EXCEPT ![r] = w]
    BY <1>4, <1>15, <2>2 DEF Answered
  <2> QED
    BY <1>2, <1>5, <1>15, <2>3 DEF Answered
<1>16. ASSUME NEW r \in Replicas, DeliverLease(r)
       PROVE  WorkTypes'
  <2>1. watch[r] \in AtMostOne(LeaseFrames) /\ watch[r] # <<>>
    BY <1>16 DEF DeliverLease, TypeInv, WatchTypes
  <2>2. Fits(WorkUnder(r, watch[r][1]))
    BY <1>14, <2>1, FirstTyped
  <2> QED
    BY <1>2, <1>5, <1>16, <2>2 DEF DeliverLease
<1>17. ASSUME NEW r \in Replicas, Loaded(r)
       PROVE  WorkTypes'
  <2>1. PICK S \in SUBSET Invocations : orphans' = [orphans EXCEPT ![r] = S]
    <3>1. orphans[r] \in SUBSET Invocations
      BY DEF TypeInv, WorkTypes
    <3>2. work[r].phase = "running" => orphans[r] \cup {work[r].inv} \in SUBSET Invocations
      BY <1>4, <3>1
    <3> QED
      BY <1>17, <3>1, <3>2 DEF Loaded
  <2>2. CASE Begin(r)
    BY <1>2, <1>6, <2>1, <2>2, BeginTyped
  <2>3. CASE work' = [work EXCEPT ![r] = NoWork] /\ UNCHANGED <<began, outbox>>
    BY <1>2, <1>3, <1>5, <2>1, <2>3
  <2> QED
    BY <1>17, <2>2, <2>3 DEF Loaded
<1>18. ASSUME NEW r \in Replicas,
              \/ Ship(r) \/ PublishFails(r) \/ AskToLoad(r) \/ LoadFails(r)
              \/ Reconnect(r) \/ Heartbeat(r) \/ Fence(r) \/ DrainBeat(r) \/ Evict(r)
       PROVE  WorkTypes'
  BY <1>1, <1>18 DEF Ship, PublishFails, AskToLoad, LoadFails, Reconnect, Heartbeat, Fence,
     DrainBeat, Evict, local
<1> QED
  BY <1>7, <1>8, <1>9, <1>10, <1>11, <1>13, <1>15, <1>16, <1>17, <1>18 DEF Next, Replica

LEMMA OutboxTyped ==
  ASSUME TypeInv, [Next]_vars
  PROVE  OutboxTypes'
<1>1. ASSUME UNCHANGED outbox
      PROVE  OutboxTypes'
  BY <1>1 DEF TypeInv, OutboxTypes
<1>2. ASSUME NEW r \in Replicas, NEW s \in Seq(Queued), outbox' = [outbox EXCEPT ![r] = s]
      PROVE  OutboxTypes'
  BY <1>2 DEF TypeInv, OutboxTypes
<1>3. \A r \in Replicas : outbox[r] \in Seq(Queued)
  BY DEF TypeInv, OutboxTypes
<1>4. ASSUME NEW r \in Replicas, NEW f \in Queued, outbox' = [outbox EXCEPT ![r] = Append(@, f)]
      PROVE  OutboxTypes'
  <2>1. Append(outbox[r], f) \in Seq(Queued)
    BY <1>3
  <2> QED
    BY <1>2, <1>4, <2>1
<1>5. ASSUME NEW r \in Replicas, Begin(r)
      PROVE  OutboxTypes'
  BY <1>4, <1>5, BeginTyped, FramesAreQueued
<1>6. \A r \in Replicas : Released(r) \in Seq(Queued)
  BY <1>3, ReleaseIsQueued DEF Released
<1>7. CASE UNCHANGED vars \/ Gateway \/ Network
  BY <1>1, <1>7 DEF vars, Gateway, Network, Scan, Recover, RecoverSkips, Publish, Lease,
     LeaseRefused, LeaseConfirmed, LeaseInserted, LeaseTaken, ReadRecord, StreamLease,
     DeclareDead, Disconnect, Cut, Heal
<1>8. ASSUME NEW r \in Replicas, StartRun(r) \/ Loaded(r)
      PROVE  OutboxTypes'
  BY <1>1, <1>5, <1>8 DEF StartRun, Loaded
<1>9. ASSUME NEW r \in Replicas, EndInvocation(r)
      PROVE  OutboxTypes'
  <2>1. Frame("end", work[r].inv) \in Queued
    BY <1>9, FramesAreQueued DEF EndInvocation, TypeInv, WorkTypes
  <2> QED
    BY <1>2, <1>3, <1>4, <1>9, <2>1 DEF EndInvocation
<1>10. ASSUME NEW r \in Replicas, NEW i \in Invocations, OrphanEnds(r, i)
       PROVE  OutboxTypes'
  BY <1>2, <1>3, <1>4, <1>10, FramesAreQueued DEF OrphanEnds
<1>11. ASSUME NEW r \in Replicas, Evict(r) \/ Drain(r)
       PROVE  OutboxTypes'
  BY <1>2, <1>3, <1>6, <1>11 DEF Evict, Drain
<1>12. ASSUME NEW r \in Replicas, Ship(r) \/ Gone(r)
       PROVE  OutboxTypes'
  <2>1. <<>> \in Seq(Queued)
    OBVIOUS
  <2> QED
    BY <1>2, <1>12, <2>1 DEF Ship, Gone
<1>13. ASSUME NEW r \in Replicas, DrainFlush(r) \/ DrainFails(r) \/ Crash(r)
       PROVE  OutboxTypes'
  BY <1>12, <1>13 DEF DrainFlush, DrainFails, Crash
<1>14. ASSUME NEW r \in Replicas, PublishFails(r)
       PROVE  OutboxTypes'
  <2>1. call[r].frames \o outbox[r] \in Seq(Queued)
    BY <1>3 DEF TypeInv, CallTypes, Calls
  <2> QED
    BY <1>2, <1>14, <2>1 DEF PublishFails
<1>15. ASSUME NEW r \in Replicas,
              \/ ExecuteCommand(r) \/ FencedTick(r) \/ Answered(r) \/ AskToLoad(r) \/ LoadFails(r)
              \/ DeliverLease(r) \/ Reconnect(r) \/ Heartbeat(r) \/ Fence(r) \/ DrainBeat(r)
       PROVE  OutboxTypes'
  BY <1>1, <1>15 DEF ExecuteCommand, FencedTick, Answered, AskToLoad, LoadFails, DeliverLease,
     Reconnect, Heartbeat, Fence, DrainBeat
<1> QED
  BY <1>7, <1>8, <1>9, <1>10, <1>11, <1>12, <1>13, <1>14, <1>15 DEF Next, Replica

LEMMA CallTyped ==
  ASSUME TypeInv, [Next]_vars
  PROVE  CallTypes'
<1>1. ASSUME UNCHANGED call
      PROVE  CallTypes'
  BY <1>1 DEF TypeInv, CallTypes
<1>2. ASSUME NEW r \in Replicas, NEW c \in Calls, call' = [call EXCEPT ![r] = c]
      PROVE  CallTypes'
  BY <1>2 DEF TypeInv, CallTypes
<1>3. NoCall \in Calls
  BY DEF NoCall, Calls, AtMostOne
<1>4. CASE Scan \/ Recover \/ RecoverSkips \/ Network \/ UNCHANGED vars
  BY <1>1, <1>4 DEF Scan, Recover, RecoverSkips, Network, Cut, Heal, vars
<1>5. ASSUME NEW r \in Replicas,
             ReadRecord(r) \/ StreamLease(r) \/ DeclareDead(r) \/ Disconnect(r) \/ Lease(r)
      PROVE  CallTypes'
  BY <1>1, <1>5 DEF ReadRecord, StreamLease, DeclareDead, Disconnect, Lease, LeaseRefused,
     LeaseConfirmed, LeaseInserted, LeaseTaken
<1>6. ASSUME NEW r \in Replicas, Ship(r)
      PROVE  CallTypes'
  <2>1. outbox[r] \in Seq(Queued)
    BY DEF TypeInv, OutboxTypes
  <2>2. [NoCall EXCEPT !.stage = "sent", !.frames = outbox[r]] \in Calls
    BY <2>1, <1>3 DEF Calls
  <2> QED
    BY <1>2, <1>6, <2>2 DEF Ship
<1>7. ASSUME NEW r \in Replicas, Publish(r)
      PROVE  CallTypes'
  <2> DEFINE frames == call[r].frames
             done == Projection(r, frames)
             after == [k \in DOMAIN frames |-> [frames[k] EXCEPT !.seen = @ \/ k \in done.receipts]]
             answer == [stage |-> "handled", lost |-> Lost(r, done), rejected |-> done.rejected,
                        frames |-> after]
  <2>1. frames \in Seq(Queued)
    BY DEF TypeInv, CallTypes, Calls
  <2>2. done \in Projected
    BY <2>1, ProjectionTyped
  <2>3. ASSUME NEW k \in DOMAIN frames
        PROVE  [frames[k] EXCEPT !.seen = @ \/ k \in done.receipts] \in Queued
    <3>1. frames[k] \in Queued
      BY <2>1
    <3>2. \A f \in Queued, b \in BOOLEAN : [f EXCEPT !.seen = b] \in Queued
      BY DEF Queued, Frames
    <3>3. (frames[k].seen \/ k \in done.receipts) \in BOOLEAN
      OBVIOUS
    <3> HIDE DEF frames, done
    <3> QED
      BY <3>1, <3>2, <3>3
  <2>4. after \in Seq(Queued)
    <3>1. Len(frames) \in Nat /\ DOMAIN frames = 1 .. Len(frames)
      BY <2>1
    <3> DEFINE marked(k) == [frames[k] EXCEPT !.seen = @ \/ k \in done.receipts]
    <3>2. \A k \in 1 .. Len(frames) : marked(k) \in Queued
      BY <2>3, <3>1
    <3>3. after = [k \in 1 .. Len(frames) |-> marked(k)]
      BY <3>1
    <3> HIDE DEF marked, after, done, frames
    <3>4. after \in [1 .. Len(frames) -> Queued]
      BY <3>2, <3>3
    <3> QED
      BY <3>1, <3>4, ListIsSequence
  <2>5. Lost(r, done) \in AtMostOne(LeaseFrames)
    <3>1. Now \in Versions /\ version \in Versions /\ holder \in Holders /\ Nobody \in Holders
      BY ClockFits DEF TypeInv, LeaseTypes, Holders
    <3>2. <<LeaseFrame(Nobody, Now)>> \in AtMostOne(LeaseFrames)
          /\ <<LeaseFrame(holder, version)>> \in AtMostOne(LeaseFrames)
      BY <3>1, LeaseFrameTyped
    <3>3. <<>> \in AtMostOne(LeaseFrames)
      BY DEF AtMostOne
    <3> QED
      BY <3>2, <3>3 DEF Lost
  <2>6. answer \in Calls
    <3> HIDE DEF after, done
    <3>1. done.rejected \in BOOLEAN
      BY <2>2 DEF Projected
    <3> QED
      BY <2>4, <2>5, <3>1 DEF Calls
  <2>7. call' = [call EXCEPT ![r] = answer]
    BY <1>7 DEF Publish
  <2> HIDE DEF answer
  <2> QED
    BY <1>2, <2>6, <2>7
<1>8. ASSUME NEW r \in Replicas, PublishFails(r) \/ Answered(r) \/ Crash(r)
      PROVE  CallTypes'
  BY <1>1, <1>2, <1>3, <1>8 DEF PublishFails, Answered, Crash
<1>9. ASSUME NEW r \in Replicas,
             \/ StartRun(r) \/ ExecuteCommand(r) \/ EndInvocation(r) \/ FencedTick(r)
             \/ \E i \in Invocations : OrphanEnds(r, i)
             \/ AskToLoad(r) \/ Loaded(r) \/ LoadFails(r) \/ DeliverLease(r) \/ Reconnect(r)
             \/ Heartbeat(r) \/ Fence(r) \/ Evict(r) \/ Drain(r) \/ DrainBeat(r)
             \/ DrainFlush(r) \/ DrainFails(r)
      PROVE  CallTypes'
  BY <1>1, <1>9 DEF StartRun, ExecuteCommand, EndInvocation, FencedTick, OrphanEnds, AskToLoad,
     Loaded, LoadFails, DeliverLease, Reconnect, Heartbeat, Fence, Evict, Drain, DrainBeat,
     DrainFlush, DrainFails
<1> QED
  BY <1>4, <1>5, <1>6, <1>7, <1>8, <1>9 DEF Next, Gateway, Replica

LEMMA LoadTyped ==
  ASSUME TypeInv, [Next]_vars
  PROVE  LoadTypes'
<1>1. ASSUME UNCHANGED load
      PROVE  LoadTypes'
  BY <1>1 DEF TypeInv, LoadTypes
<1>2. ASSUME NEW r \in Replicas, NEW l \in LoadAnswers, load' = [load EXCEPT ![r] = l]
      PROVE  LoadTypes'
  BY <1>2 DEF TypeInv, LoadTypes
<1>3. \A v \in Versions, stage \in {"idle", "asked", "leased", "read"}, b \in BOOLEAN :
        [stage |-> stage, version |-> v, interrupted |-> b] \in LoadAnswers
  BY DEF LoadAnswers
<1>4. NoLoad \in LoadAnswers
  BY <1>3, ClockFits DEF NoLoad, TypeInv
<1>5. ASSUME NEW r \in Replicas, Asked(r)
      PROVE  LoadTypes'
  <2>1. IF "stall" \in Upsets THEN Now \in Versions ELSE 0 \in Versions
    BY ClockFits DEF TypeInv
  <2>2. [NoLoad EXCEPT !.stage = "asked", !.version = IF "stall" \in Upsets THEN Now ELSE 0]
          \in LoadAnswers
    BY <1>4, <2>1 DEF LoadAnswers
  <2> QED
    BY <1>2, <1>5, <2>2 DEF Asked
<1>6. ASSUME NEW r \in Replicas, NEW v \in Versions, Granted(r, v)
      PROVE  LoadTypes'
  <2>1. [NoLoad EXCEPT !.stage = "leased", !.version = v] \in LoadAnswers
    BY <1>4 DEF LoadAnswers
  <2> QED
    BY <1>2, <1>6, <2>1 DEF Granted
<1>7. version \in Versions /\ version' \in Versions
  BY RowTyped DEF TypeInv, LeaseTypes
<1>8. ASSUME NEW r \in Replicas, Lease(r)
      PROVE  LoadTypes'
  BY <1>2, <1>4, <1>6, <1>7, <1>8 DEF Lease, LeaseRefused, LeaseConfirmed, LeaseInserted, LeaseTaken
<1>9. ASSUME NEW r \in Replicas, ReadRecord(r)
      PROVE  LoadTypes'
  <2>1. load[r].version \in Versions /\ (runActive /\ live = {}) \in BOOLEAN
    BY DEF TypeInv, LoadTypes, LoadAnswers
  <2>2. [stage |-> "read", version |-> load[r].version, interrupted |-> runActive /\ live = {}]
          \in LoadAnswers
    BY <1>3, <2>1
  <2> QED
    BY <1>2, <1>9, <2>2 DEF ReadRecord
<1>10. ASSUME NEW r \in Replicas, Gone(r) \/ Loaded(r) \/ LoadFails(r)
       PROVE  LoadTypes'
  BY <1>2, <1>4, <1>10 DEF Gone, Loaded, LoadFails
<1>11. ASSUME NEW r \in Replicas, DrainFlush(r) \/ DrainFails(r) \/ Crash(r)
       PROVE  LoadTypes'
  BY <1>10, <1>11 DEF DrainFlush, DrainFails, Crash
<1>12. ASSUME NEW r \in Replicas, AskToLoad(r) \/ DeliverLease(r)
       PROVE  LoadTypes'
  BY <1>1, <1>5, <1>12 DEF AskToLoad, DeliverLease
<1>13. CASE Scan \/ Recover \/ RecoverSkips \/ Network \/ UNCHANGED vars
  BY <1>1, <1>13 DEF Scan, Recover, RecoverSkips, Network, Cut, Heal, vars
<1>14. ASSUME NEW r \in Replicas, Publish(r) \/ StreamLease(r) \/ DeclareDead(r) \/ Disconnect(r)
       PROVE  LoadTypes'
  BY <1>1, <1>14 DEF Publish, StreamLease, DeclareDead, Disconnect
<1>15. ASSUME NEW r \in Replicas,
              \/ StartRun(r) \/ ExecuteCommand(r) \/ EndInvocation(r) \/ FencedTick(r)
              \/ \E i \in Invocations : OrphanEnds(r, i)
              \/ Ship(r) \/ Answered(r) \/ PublishFails(r) \/ Reconnect(r)
              \/ Heartbeat(r) \/ Fence(r) \/ Evict(r) \/ Drain(r) \/ DrainBeat(r)
       PROVE  LoadTypes'
  BY <1>1, <1>15 DEF StartRun, ExecuteCommand, EndInvocation, FencedTick, OrphanEnds, Ship,
     Answered, PublishFails, Reconnect, Heartbeat, Fence, Evict, Drain, DrainBeat
<1> QED
  BY <1>8, <1>9, <1>11, <1>10, <1>12, <1>13, <1>14, <1>15 DEF Next, Gateway, Replica

LEMMA WatchTyped ==
  ASSUME TypeInv, [Next]_vars
  PROVE  WatchTypes'
<1>1. news' \in [Replicas -> BOOLEAN]
  BY RowTyped
<1>2. ASSUME UNCHANGED watch
      PROVE  WatchTypes'
  BY <1>1, <1>2 DEF TypeInv, WatchTypes
<1>3. ASSUME NEW r \in Replicas, NEW w \in AtMostOne(LeaseFrames), watch' = [watch EXCEPT ![r] = w]
      PROVE  WatchTypes'
  BY <1>1, <1>3 DEF TypeInv, WatchTypes
<1>4. <<>> \in AtMostOne(LeaseFrames)
  BY DEF AtMostOne
<1>5. ASSUME NEW r \in Replicas, StreamLease(r)
      PROVE  WatchTypes'
  <2>1. <<LeaseFrame(holder, version)>> \in AtMostOne(LeaseFrames)
    BY LeaseFrameTyped DEF TypeInv, LeaseTypes
  <2> QED
    BY <1>3, <1>5, <2>1 DEF StreamLease
<1>6. ASSUME NEW r \in Replicas, DeliverLease(r) \/ Disconnect(r)
      PROVE  WatchTypes'
  BY <1>3, <1>4, <1>6 DEF DeliverLease, Disconnect
<1>7. CASE Scan \/ Recover \/ RecoverSkips \/ Network \/ UNCHANGED vars
  BY <1>2, <1>7 DEF Scan, Recover, RecoverSkips, Network, Cut, Heal, vars, stream
<1>8. ASSUME NEW r \in Replicas, Publish(r) \/ ReadRecord(r) \/ DeclareDead(r) \/ Lease(r)
      PROVE  WatchTypes'
  BY <1>2, <1>8 DEF Publish, ReadRecord, DeclareDead, Lease, LeaseRefused, LeaseConfirmed,
     LeaseInserted, LeaseTaken, stream
<1>9. ASSUME NEW r \in Replicas,
             \/ StartRun(r) \/ ExecuteCommand(r) \/ EndInvocation(r) \/ FencedTick(r)
             \/ \E i \in Invocations : OrphanEnds(r, i)
             \/ Ship(r) \/ Answered(r) \/ PublishFails(r) \/ AskToLoad(r) \/ Loaded(r)
             \/ LoadFails(r) \/ Reconnect(r) \/ Heartbeat(r) \/ Fence(r) \/ Evict(r)
             \/ Drain(r) \/ DrainBeat(r) \/ DrainFlush(r) \/ DrainFails(r) \/ Crash(r)
      PROVE  WatchTypes'
  BY <1>2, <1>9 DEF StartRun, ExecuteCommand, EndInvocation, FencedTick, OrphanEnds, Ship,
     Answered, PublishFails, AskToLoad, Loaded, LoadFails, Reconnect, Heartbeat, Fence, Evict,
     Drain, DrainBeat, DrainFlush, DrainFails, Crash, stream
<1> QED
  BY <1>5, <1>6, <1>7, <1>8, <1>9 DEF Next, Gateway, Replica

LEMMA TypesStep ==
  ASSUME TypeInv, [Next]_vars
  PROVE  TypeInv'
BY RowTyped, ScanTyped, InstanceTyped, ThreadTyped, WorkTyped, OutboxTyped, CallTyped, LoadTyped,
   WatchTyped DEF TypeInv

\* Every variable of the lease, the replicas and the calls between them keeps its type: the
\* versions stay below their bound, every frame is one a replica may queue, and a batch
\* leaves a record of its type however often it is projected.
THEOREM TypesAreCorrect == Spec => []TypeOK
BY InitTypes, TypesStep, InvImpliesTypes, PTL DEF Spec
=============================================================================
