--------------------------- MODULE ActivityHistory ---------------------------
(***************************************************************************)
(* What the activity history of a conversation promises to its readers and *)
(* to the callers of flush (CONTEXT.md, lines 1390 to 1399; audit_flush.sql, *)
(* lines 3 to 5): what happened, and nothing else, is appended in the order *)
(* of its numbers, above all that is there; and what is left out, or not   *)
(* there when flush returns, has something before it that was lost, or is  *)
(* lost itself.                                                            *)
(***************************************************************************)
EXTENDS Naturals

CONSTANTS
  Callers,  \* who may call flush
  Last      \* the last number given to an event

VARIABLES
  happened,  \* the number of the last event that happened
  unsafe,    \* the events that may be lost
  history,   \* the events in the history
  call,      \* the call of flush of each caller
  owed       \* the events it was called for

vars == <<happened, unsafe, history, call, owed>>

Init ==
  /\ happened = 0 /\ unsafe = {} /\ history = {}
  /\ call = [c \in Callers |-> "none"] /\ owed = [c \in Callers |-> {}]

\* Where something is lost before an event, nothing is promised of the event.
Unpromised(n) == \E m \in unsafe : m <= n

\* Events happen, in the order of their numbers; it is known at once which may be lost.
Happen(n, risky) ==
  /\ happened' = n /\ unsafe' = unsafe \cup risky
  /\ UNCHANGED <<history, call, owed>>

\* The history only grows, at its end, and leaves out nothing that is promised.
Write(events) ==
  /\ \A n \in events, m \in history : m < n
  /\ history' = history \cup events
  /\ \A n \in events : \A m \in 1 .. n : m \in history' \/ Unpromised(m)
  /\ UNCHANGED <<happened, unsafe>>

Ask(c, events) ==
  /\ call[c] = "none"
  /\ call' = [call EXCEPT ![c] = "asked"] /\ owed' = [owed EXCEPT ![c] = events]
  /\ UNCHANGED <<happened, unsafe, history>>

\* flush returns when the history has all it was called for.
Answer(c) ==
  /\ call[c] = "asked"
  /\ \A n \in owed[c] : n \in history' \/ Unpromised(n)
  /\ call' = [call EXCEPT ![c] = "done"] /\ UNCHANGED owed

\* The process of the caller ends.
Forget(c) ==
  /\ call' = [call EXCEPT ![c] = "none"] /\ owed' = [owed EXCEPT ![c] = {}]

Next ==
  \/ \E n \in happened .. Last : \E risky \in SUBSET (happened + 1 .. n) : Happen(n, risky)
  \/ \E events \in SUBSET (1 .. happened) :
       /\ Write(events)
       /\ \/ UNCHANGED <<call, owed>>
          \/ \E c \in Callers : Answer(c) \/ Forget(c)
  \/ \E c \in Callers, events \in SUBSET (1 .. happened) : Ask(c, events)

Spec == Init /\ [][Next]_vars
=============================================================================
