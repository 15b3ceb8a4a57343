---------------------------- MODULE Conversation ----------------------------
(***************************************************************************)
(* What the chat runtime promises of a conversation with an agent: one run *)
(* is executed at a time; what is posted is given to one run, once, unless *)
(* it is removed first ("scheduled into a fresh invocation according to    *)
(* the agent's concurrency policy", CONTEXT.md, line 888); what waits when *)
(* a run ends is taken over by the next, unless the run was suspended:     *)
(* then it is held until a run is resumed ("ResumeRun starts a new         *)
(* invocation and carries unconsumed input forward", line 1003) or a user  *)
(* moves an input to the front.  A run that is completed or canceled is    *)
(* never executed again, and nothing is executed for a deleted agent.  The *)
(* senders of a channel can lose the access to the agent: what they post   *)
(* then is not taken in, what they posted is not given to a run, and only  *)
(* that may be left behind by a run that ends.                             *)
(***************************************************************************)
CONSTANTS
  Runs,    \* what can be begun
  Inputs,  \* what can wait
  Events   \* what a run can be given: inputs, and requests to start one

VARIABLES
  given,       \* what each run has been given
  executed,    \* the run that is executed, if any
  waiting,     \* the inputs that wait for it to end
  held,        \* the inputs that wait for a run to be resumed
  seen,        \* all that was ever posted
  suspending,  \* the run that is executed and asked to stop, if it is
  over,        \* the runs that are completed or canceled
  barred,      \* the inputs whose sender has no access
  deleted      \* whether the agent is

vars == <<given, executed, waiting, held, seen, suspending, over, barred, deleted>>

Init ==
  /\ given = [r \in Runs |-> {}]
  /\ executed = {} /\ waiting = {} /\ held = {} /\ seen = {} /\ suspending = {} /\ over = {}
  /\ barred \subseteq Inputs /\ deleted = FALSE

Posted(events) == events \cap (seen \cup barred) = {} /\ seen' = seen \cup events

\* An input that waits
Queue(x) ==
  /\ executed # {}
  /\ Posted({x}) /\ waiting' = waiting \cup {x}
  /\ UNCHANGED <<given, executed, held, suspending, over, barred, deleted>>

\* An input the run that is executed is given at once
Join(r, x) ==
  /\ executed = {r}
  /\ Posted({x}) /\ given' = [given EXCEPT ![r] = @ \cup {x}]
  /\ UNCHANGED <<executed, waiting, held, suspending, over, barred, deleted>>

\* A new run is given some of what was posted just now and of the queue, in place of the run
\* that is executed, if there is one.  The queue has what waits, or all there is.
Begin(r, posted, queue, taken) ==
  /\ given[r] = {} /\ taken # {} /\ taken \subseteq (posted \cup queue) \ barred
  /\ executed' = {r} /\ given' = [given EXCEPT ![r] = taken]
  /\ Posted(posted)
  /\ waiting' = (posted \cup queue) \ taken /\ held' = held \ queue
  /\ suspending' = {}
  /\ over' \in {over, over \cup executed}
  /\ ~deleted /\ UNCHANGED <<barred, deleted>>

\* Nothing but what is barred may be left waiting when a run ends, unless it was suspended.
Stop ==
  /\ executed # {} /\ executed' = {}
  /\ waiting \subseteq barred \/ suspending # {}
  /\ waiting' = {} /\ held' = held \cup waiting
  /\ suspending' = {}
  /\ over' \in {over, over \cup executed}
  /\ UNCHANGED <<given, seen, barred, deleted>>

Suspend ==
  /\ executed # {} /\ suspending' = executed
  /\ UNCHANGED <<given, executed, waiting, held, seen, over, barred, deleted>>

\* A run says that it is completed, or that it will not stop after all.
Tell(r) ==
  /\ given[r] # {}
  /\ over' \in {over, over \cup {r}} /\ suspending' \subseteq suspending
  /\ UNCHANGED <<given, executed, waiting, held, seen, barred, deleted>>

\* A run is executed again, with some of what is held.
Resume(r, back) ==
  /\ ~deleted
  /\ executed = {} /\ given[r] # {} /\ r \notin over
  /\ executed' = {r}
  /\ waiting' = back /\ held' = held \ back /\ suspending' = {}
  /\ UNCHANGED <<given, seen, over, barred, deleted>>

Remove(x) ==
  /\ waiting' = waiting \ {x} /\ held' = held \ {x}
  /\ UNCHANGED <<given, executed, seen, suspending, over, barred, deleted>>

Delete ==
  /\ deleted' = TRUE /\ executed' = {}
  /\ waiting' = {} /\ held' = held \cup waiting
  /\ suspending' = {}
  /\ over' \in {over, over \cup executed}
  /\ UNCHANGED <<given, seen, barred>>

\* Who has access changes.
Admit ==
  /\ barred' \subseteq Inputs
  /\ UNCHANGED <<given, executed, waiting, held, seen, suspending, over, deleted>>

Next ==
  \/ \E x \in Inputs : Remove(x) \/ Queue(x)
  \/ Suspend \/ Stop \/ Delete \/ Admit
  \/ \E r \in Runs :
       \/ Tell(r)
       \/ \E x \in Inputs : Join(r, x)
       \/ \E back \in SUBSET held : Resume(r, back)
       \/ \E e \in Events : Begin(r, {e}, waiting, {e})
       \/ \E posted \in {{}} \cup {{x} : x \in Inputs}, queue \in {waiting, waiting \cup held} :
            \E taken \in SUBSET (posted \cup queue) : Begin(r, posted, queue, taken)

Spec == Init /\ [][Next]_vars
=============================================================================
