------------------------------ MODULE Routines ------------------------------
(***************************************************************************)
(* One routine (routines/mod.rs): a cron routine is claimed and            *)
(* rescheduled by any replica's tick and then fired, a signal routine is   *)
(* fired by every delivery that matches it; routine_runs records each      *)
(* firing once.  Due times are judged by the database's clock, the next    *)
(* time and the times of an edit are computed by a process's own clock.    *)
(* An action is one statement or transaction, or one call of the chat      *)
(* component, whose outcome is left open.                                  *)
(***************************************************************************)
EXTENDS Naturals

CONSTANTS
  Replicas,    \* processes that tick
  Deliveries,  \* webhook deliveries handled at once
  Events,      \* event ids of the signals delivered
  Schedules,   \* the cron schedules an edit may set, as sets of times
  Horizon,     \* bound: the last time of a schedule
  Skew,        \* how far a process's clock is from the database's
  MaxEdits     \* bound: how often the routine is created or edited

ASSUME TimesAssumption ==
  /\ Horizon \in Nat /\ Skew \in Nat /\ MaxEdits \in Nat
  /\ \A S \in Schedules : S \subseteq 1 .. Horizon
ASSUME KeysAssumption == Events \cap Nat = {}

VARIABLES
  clock,     \* the database's clock
  state,     \* the row of routines is "new", "stored" or "deleted"
  enabled,
  schedule,  \* the times of the cron schedule; {} when the trigger is a signal
  next,      \* next_run_at
  agent,     \* the agent is not deleted
  edit,      \* the edit that was validated and not stored yet
  edits,     \* how many were stored
  firing,    \* what each replica or delivery is firing
  runs,      \* routine_runs: "none", "claimed", the outcome recorded, or "removed" of a row
             \* that was there and is not any more
  started,   \* how many runs of the agent were started for each fire key
  lost       \* fire keys a process dropped before it claimed them

routine == <<state, enabled, schedule, next>>
editing == <<edit, edits>>
chat == <<runs, started>>
vars == <<clock, routine, agent, editing, firing, chat, lost>>

-----------------------------------------------------------------------------
(* Values *)

Never == 0
Times == 1 .. Horizon
Keys == Times \cup Events
Firers == Replicas \cup Deliveries

NoEdit == [schedule |-> {}, enabled |-> FALSE, next |-> Never, pending |-> FALSE]
Resting == [phase |-> "resting", key |-> Never]

\* Any process's own clock
Clocks == {now \in 0 .. Horizon + Skew : now <= clock + Skew /\ clock <= now + Skew}

\* next_run: strictly after
NextRun(S, after) ==
  IF \E s \in S : s > after
  THEN CHOOSE s \in S : s > after /\ \A u \in S : u > after => s <= u
  ELSE Never

Fires(f, phase) == firing' = [firing EXCEPT ![f].phase = phase]
Takes(f, key) == firing' = [firing EXCEPT ![f] = [phase |-> "due", key |-> key]]
Rests(f) == firing' = [firing EXCEPT ![f] = Resting]
Key(f) == firing[f].key

-----------------------------------------------------------------------------
(* Editing *)

\* Mutant: a routine that is disabled keeps its next time.
NextWhileDisabled(S, on, now) == NextRun(S, now)

\* validate: the next time is computed from now, if the routine is enabled.
NextIf(S, on, now) == IF on THEN NextRun(S, now) ELSE Never

Validate ==
  /\ ~edit.pending /\ edits < MaxEdits /\ state # "deleted"
  /\ \E S \in Schedules, on \in BOOLEAN, now \in Clocks :
       edit' = [schedule |-> S, enabled |-> on, pending |-> TRUE,
                next |-> NextIf(S, on, now)]
  /\ UNCHANGED <<clock, routine, agent, edits, firing, chat, lost>>

\* create and update: every field is replaced, whatever happened to the row meanwhile.
Store ==
  /\ edit.pending
  /\ edit' = NoEdit
  /\ IF state = "deleted" THEN UNCHANGED <<routine, edits>>
     ELSE /\ state' = "stored" /\ edits' = edits + 1
          /\ schedule' = edit.schedule /\ enabled' = edit.enabled /\ next' = edit.next
  /\ UNCHANGED <<clock, agent, firing, chat, lost>>

\* ON DELETE CASCADE
Removed == [k \in Keys |-> IF runs[k] = "none" THEN "none" ELSE "removed"]

\* delete, which takes the row's runs along; a firing that was claimed goes on without one
Delete ==
  /\ state = "stored" /\ state' = "deleted"
  /\ next' = Never
  /\ runs' = Removed
  /\ UNCHANGED <<clock, enabled, schedule, agent, editing, firing, started, lost>>

DeleteAgent ==
  /\ agent /\ agent' = FALSE
  /\ UNCHANGED <<clock, routine, editing, firing, chat, lost>>

-----------------------------------------------------------------------------
(* Firing *)

\* routine_due
Due == state = "stored" /\ agent /\ next # Never /\ next <= clock

\* Mutant: the routine is rescheduled and the firing forgotten.
TickAndForget(f) ==
  /\ f \in Replicas /\ firing[f] = Resting /\ Due
  /\ \E now \in Clocks : next' = NextRun(schedule, now)
  /\ UNCHANGED <<clock, state, enabled, schedule, agent, editing, firing, chat, lost>>

\* tick: claimed and rescheduled in one transaction.  A replica ticks again only when it has
\* fired what it took.
Tick(f) ==
  /\ f \in Replicas /\ firing[f] = Resting /\ Due
  /\ \E now \in Clocks : next' = NextRun(schedule, now)
  /\ Takes(f, next)
  /\ UNCHANGED <<clock, state, enabled, schedule, agent, editing, chat, lost>>

\* signal: a delivery, or the same one again
Signal(f, e) ==
  /\ f \in Deliveries /\ firing[f] = Resting
  /\ state = "stored" /\ agent /\ enabled /\ schedule = {}
  /\ Takes(f, e)
  /\ UNCHANGED <<clock, routine, agent, editing, chat, lost>>

\* Mutant: a repeated fire key is claimed again.
ClaimAgain(f) ==
  /\ firing[f].phase = "due"
  /\ IF state = "stored"
     THEN runs' = [runs EXCEPT ![Key(f)] = "claimed"] /\ Fires(f, "claimed")
     ELSE Rests(f) /\ UNCHANGED runs
  /\ UNCHANGED <<clock, routine, agent, editing, started, lost>>

\* run_claim: once per fire key, and not without the routine
Claim(f) ==
  /\ firing[f].phase = "due"
  /\ IF state = "stored" /\ runs[Key(f)] = "none"
     THEN runs' = [runs EXCEPT ![Key(f)] = "claimed"] /\ Fires(f, "claimed")
     ELSE Rests(f) /\ UNCHANGED runs
  /\ UNCHANGED <<clock, routine, agent, editing, started, lost>>

\* create_thread and start_run, which may have started the run when its commit reports a
\* failure
StartRun(f) ==
  /\ firing[f].phase = "claimed"
  /\ \/ Fires(f, "failed") /\ UNCHANGED started
     \/ /\ Fires(f, "started") \/ Fires(f, "failed")
        /\ started' = [started EXCEPT ![Key(f)] = @ + 1]
  /\ UNCHANGED <<clock, routine, agent, editing, runs, lost>>

\* Mutant: the error is not recorded.
RecordsNoError(f) == "started"

\* The outcome recorded: an error, or none
Records(f) == firing[f].phase

\* run_finish, which finds no row when the routine was deleted
Finish(f) ==
  /\ firing[f].phase \in {"started", "failed"}
  /\ runs' = [runs EXCEPT ![Key(f)] = IF @ = "removed" THEN @ ELSE Records(f)]
  /\ Rests(f)
  /\ UNCHANGED <<clock, routine, agent, editing, started, lost>>

\* The process ends, or the database cannot be reached.
Crash(f) ==
  /\ firing[f] # Resting
  /\ lost' = IF firing[f].phase = "due" THEN lost \cup {Key(f)} ELSE lost
  /\ Rests(f)
  /\ UNCHANGED <<clock, routine, agent, editing, chat>>

Advance ==
  /\ clock < Horizon /\ clock' = clock + 1
  /\ UNCHANGED <<routine, agent, editing, firing, chat, lost>>

-----------------------------------------------------------------------------
(* The specification *)

Init ==
  /\ clock = 0
  /\ state = "new" /\ enabled = FALSE /\ schedule = {} /\ next = Never
  /\ agent = TRUE
  /\ edit = NoEdit /\ edits = 0
  /\ firing = [f \in Firers |-> Resting]
  /\ runs = [k \in Keys |-> "none"] /\ started = [k \in Keys |-> 0]
  /\ lost = {}

Fire(f) == Claim(f) \/ StartRun(f) \/ Finish(f)

Next ==
  \/ Validate \/ Store \/ Delete \/ DeleteAgent \/ Advance
  \/ \E f \in Firers : Tick(f) \/ (\E e \in Events : Signal(f, e)) \/ Fire(f) \/ Crash(f)

Spec == Init /\ [][Next]_vars

\* Some replica ticks every fifteen seconds, and a firing goes on.
FairSpec == Spec /\ \A f \in Firers : WF_vars(Tick(f)) /\ WF_vars(Fire(f))

-----------------------------------------------------------------------------
(* Properties *)

\* Every variable holds a value of its kind.
TypeOK ==
  /\ clock \in 0 .. Horizon
  /\ state \in {"new", "stored", "deleted"} /\ enabled \in BOOLEAN
  /\ schedule \in SUBSET Times /\ next \in 0 .. Horizon
  /\ agent \in BOOLEAN
  /\ edit \in [schedule : SUBSET Times, enabled : BOOLEAN, next : 0 .. Horizon, pending : BOOLEAN]
  /\ edits \in 0 .. MaxEdits
  /\ firing \in [Firers -> [phase : {"resting", "due", "claimed", "started", "failed"},
                            key : Keys \cup {Never}]]
  /\ runs \in [Keys -> {"none", "claimed", "started", "failed", "removed"}]
  /\ started \in [Keys -> Nat]
  /\ lost \subseteq Keys

\* A fire key starts at most one run, however clocks differ, deliveries repeat, replicas
\* overlap, edits bring a time back or processes fail between the steps of a firing.
StartedOnce == \A k \in Keys : started[k] <= 1

\* The record of a firing, read as that of a call
RunStatus(k) ==
  CASE runs[k] = "claimed" -> "running"
    [] runs[k] = "started" -> "completed"
    [] OTHER -> runs[k]

Promise == INSTANCE CallPromise WITH
  Calls <- Keys, Removable <- Keys, record <- [k \in Keys |-> RunStatus(k)], ran <- started

\* A firing keeps what is promised of every effect recorded by a key: claimed before it
\* starts, started at most once, recorded as started only if it was.  When the routine is
\* deleted its records go, a firing that was claimed may still start, and nothing else does.
KeepsPromise == Promise!Spec

\* A due time is fired, unless the process that took it failed before it claimed it, or the
\* routine or its agent was deleted; here of a routine that is not edited any more.
DueFires ==
  \A k \in Times :
    (Due /\ next = k /\ edits = MaxEdits)
      ~> (runs[k] # "none" \/ k \in lost \/ state = "deleted" \/ ~agent)

\* A routine that is disabled or fires on a signal has no due time (routine_next_run).
NextOnlyForCron == next # Never => enabled /\ schedule # {} /\ state = "stored"

=============================================================================
