------------------------------ MODULE SelfFence ------------------------------
(***************************************************************************)
(* The clocks behind a sidecar replica's lease: the replica beats, ships   *)
(* events and stops when nothing has been acknowledged for a while; the    *)
(* gateway takes it for dead when no heartbeat has come for a longer while *)
(* (deployment/runtime.rs, runtime/outbox.rs, runtime/execution.rs;        *)
(* heartbeat.sql, dead_leases.sql).  ThreadLease has what the lease is     *)
(* for; here it is one replica, which holds it, and time.  The replica's   *)
(* Watch stream stays open until the network separates the two for good:   *)
(* a stream that breaks, and a network that heals, are in ThreadLease.     *)
(* A message takes Delay at most or is lost, the two clocks run at the     *)
(* same speed, and the replica's timers fire when they are due.            *)
(***************************************************************************)
EXTENDS Integers

CONSTANTS
  Every,    \* HEARTBEAT
  Fence,    \* SELF_FENCE_MS
  Look,     \* the tick of execute_invocation
  Window,   \* LIVENESS
  Delay,    \* bound: the way of a message, with what its receiver does to handle it
  Horizon   \* bound: the time looked at

ASSUME DurationsAssumption ==
  /\ Every \in Nat \ {0} /\ Fence \in Nat \ {0} /\ Look \in Nat \ {0}
  /\ Window \in Nat /\ Delay \in Nat /\ Horizon \in Nat
\* An answer is back before the next heartbeat, and the fence with what delays it is
\* inside the window
ASSUME FenceAssumption == 2 * Delay <= Every /\ Every + 2 * Delay + Fence <= Window

VARIABLES
  now,        \* the time
  cut,        \* the network separates the replica from the gateway
  seen,       \* agent_instances.last_seen_at
  replaced,   \* the lease has been given to another replica
  due,        \* when the heartbeat worker ticks next
  beat,       \* its Publish call
  events,     \* the shipper's Publish call
  acked,      \* gateway_ok: when an answer to a Publish last arrived
  executing,  \* an invocation is executing
  look        \* when it is next looked at

calls == <<due, beat, events, acked>>
execution == <<executing, look>>
vars == <<now, cut, seen, replaced, calls, execution>>

NoCall == [stage |-> "idle", at |-> 0]
Call(stage) == [stage |-> stage, at |-> now]

\* Mutant: the fence is the gateway's own window.
HealthyUntilDead == now - acked < Window

\* gateway_healthy
Healthy == now - acked < Fence

\* A message is on its way: lost after Delay, if it has not arrived
Arrives(c, stage) == c.stage = stage /\ now <= c.at + Delay

\* What the gateway answers once the network is cut never arrives
Answer == IF cut THEN NoCall ELSE Call("answered")

-----------------------------------------------------------------------------
\* heartbeat_worker: the next tick is a period after this one
Beat ==
  /\ ~cut /\ beat.stage = "idle" /\ now >= due
  /\ beat' = Call("asked") /\ due' = now + Every
  /\ UNCHANGED <<now, cut, seen, replaced, events, acked, execution>>

\* shipper: whenever there are events
Ship ==
  /\ ~cut /\ events.stage = "idle"
  /\ events' = Call("asked")
  /\ UNCHANGED <<now, cut, seen, replaced, due, beat, acked, execution>>

\* Mutant: a heartbeat does not touch last_seen_at.
SeenBefore == seen

\* heartbeat.sql
Seen == now

Heartbeat ==
  /\ Arrives(beat, "asked")
  /\ seen' = Seen /\ beat' = Answer
  /\ UNCHANGED <<now, cut, replaced, due, events, acked, execution>>

\* publish: events alone leave last_seen_at as it is
Publish ==
  /\ Arrives(events, "asked")
  /\ events' = Answer
  /\ UNCHANGED <<now, cut, seen, replaced, due, beat, acked, execution>>

\* both workers store the time at which the answer arrives
Acked == now

BeatAnswered ==
  /\ Arrives(beat, "answered")
  /\ acked' = Acked /\ beat' = NoCall
  /\ UNCHANGED <<now, cut, seen, replaced, due, events, execution>>

EventsAnswered ==
  /\ Arrives(events, "answered")
  /\ acked' = Acked /\ events' = NoCall
  /\ UNCHANGED <<now, cut, seen, replaced, due, beat, execution>>

\* dead_leases and instance_live: recover, or another replica's Hydrate
TakeOver ==
  /\ ~replaced /\ now - seen > Window
  /\ replaced' = TRUE
  /\ UNCHANGED <<now, cut, seen, calls, execution>>

\* execute_invocation: the first tick comes at once
Execute ==
  /\ ~executing /\ Healthy
  /\ executing' = TRUE /\ look' = now
  /\ UNCHANGED <<now, cut, seen, replaced, calls>>

\* Mutant: an invocation that has begun is not stopped.
LooksAway == executing

\* The tick ends an invocation of a fenced replica
Goes == Healthy

Looks ==
  /\ executing /\ now >= look
  /\ executing' = Goes /\ look' = now + Look
  /\ UNCHANGED <<now, cut, seen, replaced, calls>>

\* The agent's process reports the end
Ends ==
  /\ executing
  /\ executing' = FALSE
  /\ UNCHANGED <<now, cut, seen, replaced, calls, look>>

Cut ==
  /\ ~cut /\ cut' = TRUE
  /\ UNCHANGED <<now, seen, replaced, calls, execution>>

\* What is under way arrives, and a timer fires, before more time passes
Waits(c) == c.stage = "idle" \/ now < c.at + Delay

Tick ==
  /\ now < Horizon
  /\ ~cut => Waits(beat) /\ Waits(events)
  /\ ~cut /\ beat.stage = "idle" => now < due
  /\ executing => now < look
  /\ now' = now + 1
  /\ UNCHANGED <<cut, seen, replaced, calls, execution>>

-----------------------------------------------------------------------------
\* watch_open and the first heartbeat have just been
Init ==
  /\ now = 0 /\ cut = FALSE /\ seen = 0 /\ replaced = FALSE
  /\ due = 0 /\ beat = NoCall /\ events = NoCall /\ acked = 0
  /\ executing = FALSE /\ look = 0

Replica == Beat \/ Ship \/ BeatAnswered \/ EventsAnswered \/ Execute \/ Looks \/ Ends
Gateway == Heartbeat \/ Publish \/ TakeOver
Next == Replica \/ Gateway \/ Cut \/ Tick

Spec == Init /\ [][Next]_vars

-----------------------------------------------------------------------------
(* Properties *)

Times == 0 .. Horizon
Calls == [stage : {"idle", "asked", "answered"}, at : Times]

\* Every variable holds a value of its type, and nothing was seen in the future.
TypeOK ==
  /\ now \in Times /\ cut \in BOOLEAN /\ replaced \in BOOLEAN /\ executing \in BOOLEAN
  /\ seen \in 0 .. now /\ acked \in 0 .. now
  /\ due \in Nat /\ look \in Nat
  /\ beat \in Calls /\ events \in Calls

\* While the network carries, the gateway never takes the replica for dead: the
\* heartbeat fits into the window with its delays.
ReachableIsAlive == replaced => cut

\* The fence is strictly inside the window: a partitioned holder does not take itself for
\* the holder (owns) when its replacement may.
NeverOwnsBeside == replaced => ~Healthy

\* How long an invocation may go on beside the replacement: answers to events count for
\* the fence and not for the gateway, and the execution looks at the fence now and then
Overlap == Every + 2 * Delay + Fence + Look - Window

\* A partitioned holder's invocation goes on beside the replacement's for a bounded time.
\* The comment of SELF_FENCE_MS says that it never does.
OverlapIsBounded == replaced /\ executing => now - (seen + Window) < Overlap
=============================================================================
