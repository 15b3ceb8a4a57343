--------------------------- MODULE SelfFenceProofs ---------------------------
(***************************************************************************)
(* The window of the gateway and the fence of a replica, for every choice  *)
(* of the periods that meets FenceAssumption.  The invariant follows the   *)
(* heartbeat: where the worker, the call and last_seen_at stand to each    *)
(* other bounds the age of last_seen_at as long as the network carries,    *)
(* and with it the time of the last answer the replica can count on.       *)
(***************************************************************************)
EXTENDS SelfFence, TLAPS

\* the time of the last answer that can still arrive, and of its arrival
LastAnswer == seen + Every + Delay
LastAck == LastAnswer + Delay

\* The heartbeat worker and its call
BeatIsTimely ==
  /\ beat.at <= now
  /\ beat.stage = "asked" => due = beat.at + Every /\ beat.at <= seen + Every
  /\ beat.stage # "asked" => due <= seen + Every
  /\ beat.stage = "answered" => beat.at + Every <= due + Delay
  /\ beat.stage \in {"asked", "answered"} /\ ~cut => now <= beat.at + Delay
  /\ beat.stage = "idle" /\ ~cut => now <= due

\* What has been answered was answered while the network carried
AnswersAreTimely ==
  /\ beat.stage = "answered" => beat.at <= LastAnswer
  /\ events.stage = "answered" => events.at <= LastAnswer
  /\ acked <= LastAck

ReplacedIsLate == replaced => now > seen + Window

\* The execution has looked at the fence within the tick
LooksInTime == executing => now <= look /\ look < acked + Fence + Look

IInv == TypeOK /\ BeatIsTimely /\ AnswersAreTimely /\ ReplacedIsLate /\ LooksInTime

-----------------------------------------------------------------------------
\* As long as the network carries, last_seen_at is at most a period and a way old.
LEMMA SeenIsRecent == IInv /\ ~cut => now <= LastAnswer
  BY DurationsAssumption, FenceAssumption DEF IInv, TypeOK, BeatIsTimely, Calls, Times, LastAnswer

\* The constants are natural numbers.
LEMMA Durations == Every \in Nat /\ Fence \in Nat /\ Look \in Nat /\ Window \in Nat
                   /\ Delay \in Nat /\ Horizon \in Nat
  BY DurationsAssumption

\* The invariant holds at the start.
LEMMA InitIInv == Init => IInv
<1> SUFFICES ASSUME Init PROVE IInv
  OBVIOUS
<1> USE Durations DEF Init, NoCall
<1>1. TypeOK
  <2>1. cut \in BOOLEAN /\ replaced \in BOOLEAN /\ executing \in BOOLEAN
    OBVIOUS
  <2>2. now \in Times /\ seen \in 0 .. now /\ acked \in 0 .. now /\ due \in Nat /\ look \in Nat
    BY DEF Times
  <2>3. beat \in Calls /\ events \in Calls
    BY DEF Calls, Times
  <2> QED
    BY <2>1, <2>2, <2>3 DEF TypeOK
<1>2. BeatIsTimely
  BY DEF BeatIsTimely
<1>3. AnswersAreTimely
  BY DEF AnswersAreTimely, LastAnswer, LastAck
<1>4. ReplacedIsLate /\ LooksInTime
  BY DEF ReplacedIsLate, LooksInTime
<1> QED
  BY <1>1, <1>2, <1>3, <1>4 DEF IInv

\* A step keeps every variable's type.
LEMMA TypeStep == TypeOK /\ [Next]_vars => TypeOK'
<1> SUFFICES ASSUME TypeOK, [Next]_vars PROVE TypeOK'
  OBVIOUS
<1> USE Durations DEF TypeOK, Calls, Times
<1>1. CASE Beat
  BY <1>1 DEF Beat, Call, execution
<1>2. CASE Ship
  BY <1>2 DEF Ship, Call, execution
<1>3. CASE BeatAnswered \/ EventsAnswered
  BY <1>3 DEF BeatAnswered, EventsAnswered, Acked, NoCall, execution
<1>4. CASE Execute \/ Looks \/ Ends
  <2>1. executing' \in BOOLEAN
    <3>1. Healthy \in BOOLEAN
      BY DEF Healthy
    <3> HIDE DEF TypeOK
    <3> QED
      BY <1>4, <3>1 DEF Execute, Looks, Ends, Goes
  <2>2. look' \in Nat /\ UNCHANGED <<now, cut, seen, replaced, calls>>
    BY <1>4 DEF Execute, Looks, Ends
  <2> QED
    BY <2>1, <2>2 DEF calls
<1>5. CASE Heartbeat \/ Publish
  BY <1>5 DEF Heartbeat, Publish, Seen, Answer, Call, NoCall, execution
<1>6. CASE TakeOver \/ Cut
  BY <1>6 DEF TakeOver, Cut, calls, execution
<1>7. CASE Tick
  BY <1>7 DEF Tick, calls, execution
<1>8. CASE UNCHANGED vars
  BY <1>8 DEF vars, calls, execution
<1> QED
  BY <1>1, <1>2, <1>3, <1>4, <1>5, <1>6, <1>7, <1>8 DEF Next, Replica, Gateway

\* A step keeps the rest of the invariant: the heartbeat moves last_seen_at on, an answer
\* arrives in time, and nothing is seen any more once the lease may be given away.
LEMMA StepIInv == IInv /\ [Next]_vars => IInv'
<1> SUFFICES ASSUME IInv, [Next]_vars PROVE IInv'
  OBVIOUS
<1>0. TypeOK /\ TypeOK'
  BY TypeStep DEF IInv
<1>a. ~cut => now <= LastAnswer
  BY SeenIsRecent
<1>b. BeatIsTimely /\ AnswersAreTimely /\ ReplacedIsLate /\ LooksInTime
  BY DEF IInv
<1> SUFFICES BeatIsTimely' /\ AnswersAreTimely' /\ ReplacedIsLate' /\ LooksInTime'
  BY <1>0 DEF IInv
<1>c. /\ now \in Nat /\ seen \in Nat /\ acked \in Nat /\ due \in Nat /\ look \in Nat
      /\ seen <= now /\ acked <= now
      /\ beat.at \in Nat /\ events.at \in Nat
  BY <1>0 DEF TypeOK, Calls, Times
<1>d. /\ now' \in Nat /\ seen' \in Nat /\ acked' \in Nat /\ due' \in Nat /\ look' \in Nat
      /\ beat'.at \in Nat /\ events'.at \in Nat
  BY <1>0 DEF TypeOK, Calls, Times
<1> USE Durations, DurationsAssumption, FenceAssumption, <1>a, <1>b, <1>c, <1>d
    DEF LastAnswer, LastAck
<1>1. CASE Beat
  BY <1>1 DEF Beat, Call, execution, BeatIsTimely, AnswersAreTimely, ReplacedIsLate, LooksInTime
<1>2. CASE Ship
  BY <1>2 DEF Ship, Call, execution, BeatIsTimely, AnswersAreTimely, ReplacedIsLate, LooksInTime
<1>3. CASE BeatAnswered
  BY <1>3 DEF BeatAnswered, Arrives, Acked, NoCall, execution, BeatIsTimely, AnswersAreTimely,
              ReplacedIsLate, LooksInTime
<1>4. CASE EventsAnswered
  BY <1>4 DEF EventsAnswered, Arrives, Acked, NoCall, execution, BeatIsTimely, AnswersAreTimely,
              ReplacedIsLate, LooksInTime
<1>5. CASE Execute \/ Looks \/ Ends
  <2>1. UNCHANGED <<now, cut, seen, replaced, calls>>
    BY <1>5 DEF Execute, Looks, Ends
  <2>2. BeatIsTimely' /\ AnswersAreTimely' /\ ReplacedIsLate'
    BY <2>1 DEF calls, BeatIsTimely, AnswersAreTimely, ReplacedIsLate
  <2>3. executing' => Healthy /\ look' \in {now, now + Look}
    BY <1>5, Zenon DEF Execute, Looks, Ends, Goes
  <2>4. LooksInTime'
    BY <2>1, <2>3 DEF calls, Healthy, LooksInTime
  <2> QED
    BY <2>2, <2>4
<1>7. CASE Heartbeat
  <2>1. ~replaced /\ seen <= now
    BY <1>7 DEF Heartbeat, Arrives, BeatIsTimely, ReplacedIsLate
  <2>2. seen' = now /\ UNCHANGED <<now, cut, replaced, due, events, acked, execution>>
    BY <1>7 DEF Heartbeat, Seen
  <2>3. beat.stage = "asked" /\ now <= beat.at + Delay /\ beat' = Answer
    BY <1>7 DEF Heartbeat, Arrives
  <2>4. BeatIsTimely'
    <3>1. due = beat.at + Every /\ due' = due /\ now' = now /\ seen' = now
      BY <2>2, <2>3 DEF BeatIsTimely
    <3>2. CASE cut
      BY <2>2, <2>3, <3>1, <3>2 DEF Answer, NoCall, BeatIsTimely
    <3>3. CASE ~cut
      <4>1. beat'.stage = "answered" /\ beat'.at = now
        BY <2>3, <3>3 DEF Answer, Call
      <4> QED
        BY <2>3, <3>1, <4>1 DEF BeatIsTimely
    <3> QED
      BY <3>2, <3>3
  <2>5. AnswersAreTimely'
    BY <2>1, <2>2, <2>3 DEF Answer, Call, NoCall, AnswersAreTimely
  <2>6. ReplacedIsLate' /\ LooksInTime'
    BY <2>1, <2>2 DEF execution, ReplacedIsLate, LooksInTime
  <2> QED
    BY <2>4, <2>5, <2>6
<1>8. CASE Publish
  BY <1>8 DEF Publish, Arrives, Answer, Call, NoCall, execution, BeatIsTimely,
              AnswersAreTimely, ReplacedIsLate, LooksInTime
<1>9. CASE TakeOver \/ Cut
  <2>1. UNCHANGED <<now, seen, calls, execution>> /\ (cut => cut')
    BY <1>9 DEF TakeOver, Cut
  <2>2. BeatIsTimely' /\ AnswersAreTimely' /\ LooksInTime'
    BY <2>1 DEF calls, execution, BeatIsTimely, AnswersAreTimely, LooksInTime
  <2>3. CASE TakeOver
    <3>1. now' > seen' + Window
      BY <2>3 DEF TakeOver
    <3> QED
      BY <2>2, <3>1 DEF ReplacedIsLate
  <2>4. CASE Cut
    BY <2>1, <2>2, <2>4 DEF Cut, ReplacedIsLate
  <2> QED
    BY <1>9, <2>3, <2>4
<1>10. CASE Tick
  BY <1>10 DEF Tick, Waits, calls, execution, BeatIsTimely, AnswersAreTimely, ReplacedIsLate,
               LooksInTime
<1>11. CASE UNCHANGED vars
  BY <1>11 DEF vars, calls, execution, BeatIsTimely, AnswersAreTimely, ReplacedIsLate,
               LooksInTime
<1> QED
  BY <1>1, <1>2, <1>3, <1>4, <1>5, <1>7, <1>8, <1>9, <1>10, <1>11
  DEF Next, Replica, Gateway

\* The invariant always holds.
LEMMA Invariant == Spec => []IInv
  BY InitIInv, StepIInv, PTL DEF Spec

-----------------------------------------------------------------------------
\* Every variable always holds a value of its type (SelfFence.TypeOK).
THEOREM TypesAreCorrect == Spec => []TypeOK
<1>1. IInv => TypeOK
  BY DEF IInv
<1> QED
  BY Invariant, <1>1, PTL

\* A replica the network reaches is never taken for dead, whatever the periods, if a
\* period with its delays fits into the window (heartbeat_worker, dead_leases.sql).
THEOREM ReachableIsNotReplaced == Spec => []ReachableIsAlive
<1>1. IInv => ReachableIsAlive
  BY SeenIsRecent, DurationsAssumption, FenceAssumption
  DEF IInv, TypeOK, Times, ReplacedIsLate, ReachableIsAlive, LastAnswer
<1> QED
  BY Invariant, <1>1, PTL

\* A partitioned holder does not own its conversations when they may have been given to
\* another replica (gateway_healthy, owns).
THEOREM OwnersAreNotReplaced == Spec => []NeverOwnsBeside
<1>1. IInv => NeverOwnsBeside
  BY DurationsAssumption, FenceAssumption
  DEF IInv, TypeOK, Times, AnswersAreTimely, ReplacedIsLate, NeverOwnsBeside, Healthy,
      LastAnswer, LastAck
<1> QED
  BY Invariant, <1>1, PTL

\* Its invocations go on beside the replacement's for less than Overlap
\* (execute_invocation's tick).
THEOREM OverlapAlwaysBounded == Spec => []OverlapIsBounded
<1>1. IInv => OverlapIsBounded
  BY DurationsAssumption, FenceAssumption
  DEF IInv, TypeOK, Times, AnswersAreTimely, LooksInTime, OverlapIsBounded, Overlap,
      LastAnswer, LastAck
<1> QED
  BY Invariant, <1>1, PTL
=============================================================================
