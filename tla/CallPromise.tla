---------------------------- MODULE CallPromise ----------------------------
(***************************************************************************)
(* What Tilde promises of an effect that is recorded under a key: of a     *)
(* tool call (chat/tools/audit.rs, lines 1 to 3) that a claimed call is    *)
(* never executed twice, and an interrupted one is marked aborted instead  *)
(* of being tried again; of a routine's firing (routines/mod.rs, lines 4   *)
(* to 10) that it is recorded once per fire key and happens at most once.  *)
(* The effect may still come after the call was given up, or after its     *)
(* record was removed together with what it belongs to: then too once, and *)
(* only if it was claimed, and the key is never claimed again.             *)
(***************************************************************************)
EXTENDS Naturals

CONSTANTS
  Calls,     \* the call ids
  Removable  \* those whose record belongs to something that can be deleted

VARIABLES
  record,  \* what the agent and the users are shown of each call
  ran      \* how often its effect was started

vars == <<record, ran>>

Open == "running"
Closed == {"completed", "failed", "aborted"}

Init ==
  /\ record = [c \in Calls |-> "none"]
  /\ ran = [c \in Calls |-> 0]

Claim(c) ==
  /\ record[c] = "none"
  /\ record' = [record EXCEPT ![c] = Open]
  /\ UNCHANGED ran

\* Nothing runs that was not claimed, and nothing runs again.
Execute(c) ==
  /\ record[c] # "none" /\ ran[c] = 0
  /\ ran' = [ran EXCEPT ![c] = 1]
  /\ UNCHANGED record

\* A call is closed once, and as completed only after it ran.
Close(c, status) ==
  /\ record[c] = Open
  /\ status = "completed" => ran[c] = 1
  /\ record' = [record EXCEPT ![c] = status]
  /\ UNCHANGED ran

\* What the records belong to is deleted; that they were there still counts.
Remove ==
  /\ record' = [c \in Calls |->
       IF c \in Removable /\ record[c] # "none" THEN "removed" ELSE record[c]]
  /\ UNCHANGED ran

Next ==
  \/ Remove
  \/ \E c \in Calls :
       \/ Claim(c) \/ Execute(c)
       \/ \E status \in Closed : Close(c, status)

Spec == Init /\ [][Next]_vars
=============================================================================
