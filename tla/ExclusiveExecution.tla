-------------------------- MODULE ExclusiveExecution --------------------------
(***************************************************************************)
(* What a conversation's lease promises of its execution while replicas    *)
(* stop, drain and are replaced: "Execution exclusivity is one lease"      *)
(* (CONTEXT.md, line 1646), and "a live holder keeps it; a dead holder     *)
(* loses it" (deployment/mod.rs, lines 929 and 930).  A replica that has   *)
(* begun something need not doubt that it is the holder until it stops.    *)
(* Only the holder begins invocations, one at a time, and none is begun    *)
(* twice.                                                                  *)
(***************************************************************************)
EXTENDS Naturals

CONSTANTS
  Replicas,     \* who can execute
  Nobody,       \* the lease's holder when there is none
  Invocations   \* what can be executed

VARIABLES
  holder,   \* whom the lease names
  holding,  \* the replicas that take themselves for its holder
  doing,    \* what each replica has begun and not finished
  begun,    \* what has ever been begun
  stopped   \* the replicas that take no more work

vars == <<holder, holding, doing, begun, stopped>>

Init ==
  /\ holder = Nobody
  /\ holding = {} /\ begun = {} /\ stopped = {}
  /\ doing = [r \in Replicas |-> {}]

\* Only a lease that nobody has, or a replica that stopped, is given to another.
Give(next) ==
  /\ holder \in stopped \cup {Nobody}
  /\ holder' = next
  /\ UNCHANGED <<holding, doing, begun, stopped>>

Learns(r) == holder = r /\ r \notin stopped /\ holding' = holding \cup {r}

Learn(r) == Learns(r) /\ UNCHANGED <<holder, doing, begun, stopped>>

Begin(r, i) ==
  /\ Learns(r)
  /\ doing[r] = {} /\ i \notin begun
  /\ doing' = [doing EXCEPT ![r] = {i}]
  /\ begun' = begun \cup {i}
  /\ UNCHANGED <<holder, stopped>>

Finish(r) ==
  /\ doing' = [doing EXCEPT ![r] = {}]
  /\ UNCHANGED <<holder, holding, begun, stopped>>

\* A replica forgets the lease only while it does nothing.
Forget(r) ==
  /\ doing[r] = {}
  /\ holding' = holding \ {r}
  /\ UNCHANGED <<holder, doing, begun, stopped>>

\* A replica that stops drops what it does.
Stop(r) ==
  /\ stopped' = stopped \cup {r}
  /\ holding' = holding \ {r} /\ doing' = [doing EXCEPT ![r] = {}]
  /\ UNCHANGED <<holder, begun>>

Next ==
  \/ \E next \in Replicas \cup {Nobody} : Give(next)
  \/ \E r \in Replicas :
       \/ Learn(r) \/ Forget(r) \/ Finish(r) \/ Stop(r)
       \/ \E i \in Invocations : Begin(r, i)

Spec == Init /\ [][Next]_vars
=============================================================================
