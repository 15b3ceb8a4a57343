--------------------------- MODULE RoutinesProofs ---------------------------
(***************************************************************************)
(* Theorems about Routines, for every number of processes, every schedule  *)
(* and every skew.  The claim of a fire key divides the processes that     *)
(* hold the key: at most one of them is past it, and what that one has     *)
(* done is all that was ever started for the key.                          *)
(***************************************************************************)
EXTENDS Routines, WellFoundedInduction, TLAPS

LEMMA LeastNatural ==
  ASSUME NEW S \in SUBSET Nat, S # {}
  PROVE  \E s \in S : \A u \in S : s <= u
<1> DEFINE R == {p \in Nat \X Nat : p[1] < p[2]}
<1>1. IsWellFoundedOn(R, Nat)
  BY NatLessThanWellFounded DEF OpToRel
<1> HIDE DEF R
<1>2. \E s \in S : \A u \in S : ~(<<u, s>> \in R)
  BY <1>1, WFMin
<1>3. \E s \in S : \A u \in S : ~(u < s)
  BY <1>2 DEF R
<1> QED
  BY <1>3

LEMMA NaturalTimes == Times \subseteq Nat /\ Never \notin Times /\ Times \subseteq 0 .. Horizon
  BY TimesAssumption DEF Times, Never

\* next_run: the first time of the schedule that is strictly after the one given.
LEMMA NextRunIsFirst ==
  ASSUME NEW S \in SUBSET Times, NEW after \in Nat, \E s \in S : s > after
  PROVE  /\ NextRun(S, after) \in S /\ NextRun(S, after) > after
         /\ \A u \in S : u > after => NextRun(S, after) <= u
<1> DEFINE A == {s \in S : s > after}
<1>1. \E s \in A : \A u \in A : s <= u
  BY NaturalTimes, LeastNatural
<1>2. \E s \in S : s > after /\ \A u \in S : u > after => s <= u
  BY <1>1
<1> QED
  BY <1>2 DEF NextRun

LEMMA NextRunType ==
  ASSUME NEW S \in SUBSET Times, NEW after \in Nat
  PROVE  NextRun(S, after) \in 0 .. Horizon /\ (NextRun(S, after) # Never => S # {})
<1>1. CASE \E s \in S : s > after
  BY <1>1, NextRunIsFirst, NaturalTimes
<1>2. CASE ~ \E s \in S : s > after
  BY <1>2, TimesAssumption DEF NextRun, Never
<1> QED
  BY <1>1, <1>2

-----------------------------------------------------------------------------
(* Types *)

Phases == {"resting", "due", "claimed", "started", "failed"}
RowTypes ==
  /\ clock \in 0 .. Horizon
  /\ state \in {"new", "stored", "deleted"} /\ enabled \in BOOLEAN
  /\ schedule \in SUBSET Times /\ next \in 0 .. Horizon
  /\ agent \in BOOLEAN
EditTypes ==
  /\ edit \in [schedule : SUBSET Times, enabled : BOOLEAN, next : 0 .. Horizon, pending : BOOLEAN]
  /\ edits \in 0 .. MaxEdits
FiringTypes == firing \in [Firers -> [phase : Phases, key : Keys \cup {Never}]]
RunTypes ==
  /\ runs \in [Keys -> {"none", "claimed", "started", "failed", "removed"}]
  /\ started \in [Keys -> Nat]
  /\ lost \subseteq Keys

LEMMA TypesTogether == TypeOK <=> RowTypes /\ EditTypes /\ FiringTypes /\ RunTypes
  BY DEF TypeOK, RowTypes, EditTypes, FiringTypes, RunTypes, Phases

\* A process that holds something holds a key.
HoldsKey == \A f \in Firers : firing[f].phase # "resting" => firing[f].key \in Keys

\* The process past the claim of a key is the only one, and the key is claimed, or was until
\* the routine was deleted.
PastClaim(f) == firing[f].phase \in {"claimed", "started", "failed"}
ClaimInv ==
  /\ \A f, g \in Firers : PastClaim(f) /\ PastClaim(g) /\ Key(f) = Key(g) => f = g
  /\ \A f \in Firers : PastClaim(f) => runs[Key(f)] \in {"claimed", "removed"}

\* What was started for a key, by what the process that claimed it has done
StartInv ==
  /\ \A k \in Keys : started[k] \in {0, 1} /\ (runs[k] = "none" => started[k] = 0)
  /\ \A f \in Firers : firing[f].phase = "claimed" => started[Key(f)] = 0
  /\ \A f \in Firers : firing[f].phase = "started" => started[Key(f)] = 1

EditInv ==
  /\ edit.next # Never => edit.enabled /\ edit.schedule # {}
  /\ edit.pending => edits < MaxEdits

Inv == TypeOK /\ HoldsKey /\ ClaimInv /\ StartInv /\ NextOnlyForCron /\ EditInv

-----------------------------------------------------------------------------
LEMMA InitInv == Init => Inv
<1> SUFFICES ASSUME Init PROVE Inv
  OBVIOUS
<1> USE DEF Init
<1>1. RowTypes
  <2>1. state = "new" /\ enabled \in BOOLEAN /\ agent \in BOOLEAN
    OBVIOUS
  <2>2. clock \in 0 .. Horizon /\ next \in 0 .. Horizon /\ schedule \in SUBSET Times
    BY TimesAssumption DEF Never
  <2> QED
    BY <2>1, <2>2 DEF RowTypes
<1>2. EditTypes
  BY TimesAssumption DEF EditTypes, NoEdit, Never
<1>3. FiringTypes
  BY DEF FiringTypes, Phases, Resting
<1>4. RunTypes
  BY DEF RunTypes
<1>5. HoldsKey /\ ClaimInv /\ StartInv
  BY DEF HoldsKey, ClaimInv, StartInv, PastClaim, Resting
<1>6. NextOnlyForCron /\ EditInv
  BY DEF NextOnlyForCron, EditInv, NoEdit
<1> QED
  BY <1>1, <1>2, <1>3, <1>4, <1>5, <1>6, TypesTogether DEF Inv

LEMMA RowTypesKept ==
  ASSUME Inv, [Next]_vars
  PROVE  RowTypes'
<1> RowTypes /\ EditTypes
  BY TypesTogether DEF Inv
<1>0. Clocks \subseteq Nat
  BY TimesAssumption DEF Clocks
<1>1. CASE Store
  BY <1>1 DEF Store, RowTypes, EditTypes, routine
<1>2. CASE Delete
  BY <1>2, TimesAssumption DEF Delete, RowTypes, Never
<1>3. CASE \E f \in Firers : Tick(f)
  <2>1. PICK f \in Firers, now \in Clocks : next' = NextRun(schedule, now)
    BY <1>3 DEF Tick
  <2>2. next' \in 0 .. Horizon
    BY <2>1, <1>0, NextRunType DEF RowTypes
  <2> QED
    BY <1>3, <2>2 DEF Tick, RowTypes
<1>4. CASE Advance
  BY <1>4, TimesAssumption DEF Advance, RowTypes, routine
<1>5. CASE DeleteAgent
  BY <1>5 DEF DeleteAgent, RowTypes, routine
<1>6. CASE ~(\/ Store \/ Delete \/ Advance \/ DeleteAgent \/ \E f \in Firers : Tick(f))
  <2> UNCHANGED <<clock, routine, agent>>
    BY <1>6 DEF Next, vars, Validate, Signal, Fire, Claim, StartRun, Finish, Crash
  <2> QED
    BY DEF RowTypes, routine
<1> QED
  BY <1>1, <1>2, <1>3, <1>4, <1>5, <1>6

LEMMA EditKept ==
  ASSUME Inv, [Next]_vars
  PROVE  EditTypes' /\ EditInv'
<1> EditTypes /\ EditInv
  BY TypesTogether DEF Inv
<1>0. Clocks \subseteq Nat
  BY TimesAssumption DEF Clocks
<1>1. CASE Validate
  <2>1. PICK S \in Schedules, on \in BOOLEAN, now \in Clocks :
          edit' = [schedule |-> S, enabled |-> on, pending |-> TRUE, next |-> NextIf(S, on, now)]
    BY <1>1 DEF Validate
  <2>2. S \in SUBSET Times
    BY TimesAssumption DEF Times
  <2>3. NextIf(S, on, now) \in 0 .. Horizon
    BY <2>2, <1>0, NextRunType, TimesAssumption DEF NextIf, Never
  <2>4. NextIf(S, on, now) # Never => on /\ S # {}
    BY <2>2, <1>0, NextRunType DEF NextIf
  <2>5. EditTypes'
    BY <1>1, <2>1, <2>2, <2>3 DEF Validate, EditTypes
  <2>6. EditInv'
    BY <1>1, <2>1, <2>4 DEF Validate, EditInv
  <2> QED
    BY <2>5, <2>6
<1>2. CASE Store
  <2>1. EditInv'
    BY <1>2 DEF Store, NoEdit, EditInv
  <2>2. edit' \in [schedule : SUBSET Times, enabled : BOOLEAN, next : 0 .. Horizon,
                   pending : BOOLEAN]
    BY <1>2, TimesAssumption DEF Store, NoEdit, Never
  <2>3. edit.pending /\ edits < MaxEdits /\ edits \in Nat
    BY <1>2 DEF Store, EditInv, EditTypes
  <2>4. edits' \in {edits, edits + 1}
    BY <1>2 DEF Store
  <2>5. edits' \in 0 .. MaxEdits
    BY <2>3, <2>4, TimesAssumption
  <2> QED
    BY <2>1, <2>2, <2>5 DEF EditTypes
<1>3. CASE ~(Validate \/ Store)
  <2> UNCHANGED editing
    BY <1>3 DEF Next, vars, Delete, DeleteAgent, Advance, Tick, Signal, Fire, Claim, StartRun,
                Finish, Crash
  <2> QED
    BY DEF editing, EditTypes, EditInv
<1> QED
  BY <1>1, <1>2, <1>3

LEMMA NextKept ==
  ASSUME Inv, [Next]_vars
  PROVE  NextOnlyForCron'
<1> NextOnlyForCron /\ EditInv /\ RowTypes
  BY TypesTogether DEF Inv
<1> USE DEF NextOnlyForCron
<1>1. CASE Store
  BY <1>1 DEF Store, EditInv, routine
<1>2. CASE Delete
  BY <1>2 DEF Delete
<1>3. CASE \E f \in Firers : Tick(f)
  BY <1>3 DEF Tick, Due
<1>4. CASE ~(Store \/ Delete \/ \E f \in Firers : Tick(f))
  <2> UNCHANGED routine
    BY <1>4 DEF Next, vars, Validate, DeleteAgent, Advance, Signal, Fire, Claim, StartRun,
                Finish, Crash
  <2> QED
    BY DEF routine
<1> QED
  BY <1>1, <1>2, <1>3, <1>4

-----------------------------------------------------------------------------
(* Firing *)

FiringInv == FiringTypes /\ RunTypes /\ HoldsKey /\ ClaimInv /\ StartInv

LEMMA FiringKept ==
  ASSUME Inv, [Next]_vars
  PROVE  FiringInv'
<1>0. FiringTypes /\ RunTypes /\ RowTypes /\ HoldsKey /\ ClaimInv /\ StartInv
  BY TypesTogether DEF Inv
<1> USE <1>0 DEF FiringInv, FiringTypes, RunTypes, HoldsKey, ClaimInv, StartInv, PastClaim, Key,
             Phases
<1>1. ASSUME NEW f \in Firers, NEW k \in Keys, Takes(f, k), firing[f] = Resting, UNCHANGED <<chat, lost>>
      PROVE  FiringInv'
  BY <1>1 DEF Takes, chat
<1>2. ASSUME NEW f \in Firers, Tick(f)
      PROVE  FiringInv'
  <2>1. next \in Keys
    BY <1>2, TimesAssumption DEF Tick, Due, RowTypes, Keys, Times, Never
  <2> QED
    BY <1>1, <1>2, <2>1 DEF Tick
<1>3. ASSUME NEW f \in Firers, NEW e \in Events, Signal(f, e)
      PROVE  FiringInv'
  BY <1>1, <1>3 DEF Signal, Keys
<1>4. ASSUME NEW f \in Firers, Claim(f)
      PROVE  FiringInv'
  <2>1. Key(f) \in Keys
    BY <1>4 DEF Claim
  <2>2. CASE state = "stored" /\ runs[Key(f)] = "none"
    <3>1. /\ runs' = [runs EXCEPT ![Key(f)] = "claimed"]
          /\ firing' = [firing EXCEPT ![f].phase = "claimed"]
          /\ UNCHANGED <<started, lost>>
      BY <1>4, <2>2 DEF Claim, Fires
    <3>2. FiringTypes' /\ RunTypes' /\ HoldsKey'
      BY <2>1, <3>1
    <3>3. \A g \in Firers : PastClaim(g) => Key(g) # Key(f)
      BY <2>2
    <3>4. ClaimInv'
      BY <2>1, <3>1, <3>3
    <3>5. StartInv'
      BY <2>1, <2>2, <3>1
    <3> QED
      BY <3>2, <3>4, <3>5
  <2>3. CASE ~(state = "stored" /\ runs[Key(f)] = "none")
    <3>1. /\ firing' = [firing EXCEPT ![f] = [phase |-> "resting", key |-> Never]]
          /\ UNCHANGED <<runs, started, lost>>
      BY <1>4, <2>3 DEF Claim, Rests, Resting
    <3>2. FiringTypes' /\ RunTypes' /\ HoldsKey'
      BY <3>1
    <3>3. ClaimInv' /\ StartInv'
      BY <3>1
    <3> QED
      BY <3>2, <3>3
  <2> QED
    BY <2>2, <2>3
<1>5. ASSUME NEW f \in Firers, StartRun(f)
      PROVE  FiringInv'
  <2>1. Key(f) \in Keys /\ started[Key(f)] = 0
    BY <1>5 DEF StartRun
  <2>2. CASE Fires(f, "failed") /\ UNCHANGED started
    BY <1>5, <2>1, <2>2 DEF StartRun, Fires
  <2>3. CASE /\ Fires(f, "started") \/ Fires(f, "failed")
             /\ started' = [started EXCEPT ![Key(f)] = @ + 1]
    <3>1. started' = [started EXCEPT ![Key(f)] = 1]
      BY <2>1, <2>3
    <3>2. PICK phase \in {"started", "failed"} : firing' = [firing EXCEPT ![f].phase = phase]
      BY <2>3 DEF Fires
    <3>3. UNCHANGED <<runs, lost>> /\ PastClaim(f) /\ runs[Key(f)] \in {"claimed", "removed"}
      BY <1>5 DEF StartRun
    <3>4. FiringTypes' /\ RunTypes' /\ HoldsKey'
      BY <2>1, <3>1, <3>2, <3>3
    <3>5. ClaimInv'
      BY <3>2, <3>3
    <3>6. StartInv'
      BY <2>1, <3>1, <3>2, <3>3
    <3> QED
      BY <3>4, <3>5, <3>6
  <2> QED
    BY <1>5, <2>2, <2>3 DEF StartRun
<1>6. ASSUME NEW f \in Firers, Finish(f)
      PROVE  FiringInv'
  BY <1>6 DEF Finish, Records, Rests, Resting
<1>7. ASSUME NEW f \in Firers, Crash(f)
      PROVE  FiringInv'
  BY <1>7 DEF Crash, Rests, Resting, chat
<1>8. CASE Delete
  <2>1. UNCHANGED <<firing, started, lost>>
    BY <1>8 DEF Delete
  <2>2. \A k \in Keys : runs'[k] = IF runs[k] = "none" THEN "none" ELSE "removed"
    BY <1>8 DEF Delete, Removed
  <2>3. FiringTypes' /\ RunTypes' /\ HoldsKey'
    BY <1>8, <2>1 DEF Delete, Removed
  <2>4. ClaimInv' /\ StartInv'
    BY <2>1, <2>2
  <2> QED
    BY <2>3, <2>4
<1>9. CASE ~(Delete \/ \E f \in Firers :
               Tick(f) \/ (\E e \in Events : Signal(f, e)) \/ Fire(f) \/ Crash(f))
  <2> UNCHANGED <<firing, chat, lost>>
    BY <1>9 DEF Next, vars, Validate, Store, DeleteAgent, Advance
  <2> QED
    BY DEF chat
<1> QED
  BY <1>2, <1>3, <1>4, <1>5, <1>6, <1>7, <1>8, <1>9 DEF Fire

LEMMA Invariance == Spec => []Inv
<1>1. ASSUME Inv, [Next]_vars
      PROVE  Inv'
  <2>1. RowTypes' /\ EditTypes' /\ EditInv' /\ NextOnlyForCron' /\ FiringInv'
    BY <1>1, RowTypesKept, EditKept, NextKept, FiringKept
  <2>2. TypeOK'
    BY <2>1 DEF FiringInv, TypeOK, RowTypes, EditTypes, FiringTypes, RunTypes, Phases
  <2> QED
    BY <2>1, <2>2 DEF Inv, FiringInv
<1> QED
  BY InitInv, <1>1, PTL DEF Spec

-----------------------------------------------------------------------------
(* What follows *)

\* Every variable always holds a value of its kind (Routines.TypeOK).
THEOREM TypeCorrect == Spec => []TypeOK
<1>1. Inv => TypeOK
  BY DEF Inv
<1> QED
  BY Invariance, <1>1, PTL

\* No fire key ever starts two runs, whatever the clocks say (run_claim, fire).
THEOREM StartedAtMostOnce == Spec => []StartedOnce
<1>1. Inv => StartedOnce
  BY DEF Inv, StartInv, StartedOnce
<1> QED
  BY Invariance, <1>1, PTL

\* A routine without a cron schedule, or disabled, never has a due time: the constraint
\* routine_next_run is met by every edit and every tick.
THEOREM NextIsForCron == Spec => []NextOnlyForCron
<1>1. Inv => NextOnlyForCron
  BY DEF Inv
<1> QED
  BY Invariance, <1>1, PTL

LEMMA StepKeepsPromise ==
  ASSUME Inv, [Next]_vars
  PROVE  [Promise!Next]_(Promise!vars)
<1>0. FiringTypes /\ RunTypes /\ HoldsKey /\ ClaimInv /\ StartInv
  BY TypesTogether DEF Inv
<1> USE <1>0 DEF FiringTypes, RunTypes, HoldsKey, ClaimInv, StartInv, PastClaim, Key, Phases,
             Promise!vars, Promise!Next
<1>1. ASSUME UNCHANGED chat
      PROVE  [Promise!Next]_(Promise!vars)
  BY <1>1 DEF chat, RunStatus
<1>2. ASSUME NEW f \in Firers, Claim(f)
      PROVE  [Promise!Next]_(Promise!vars)
  <2>1. CASE state = "stored" /\ runs[Key(f)] = "none"
    <3>1. Key(f) \in Keys
      BY <1>2 DEF Claim
    <3>2. Promise!Claim(Key(f))
      BY <1>2, <2>1, <3>1 DEF Claim, RunStatus, Promise!Claim, Promise!Open
    <3> QED
      BY <3>1, <3>2
  <2>2. CASE ~(state = "stored" /\ runs[Key(f)] = "none")
    BY <1>1, <1>2, <2>2 DEF Claim, chat
  <2> QED
    BY <2>1, <2>2
<1>3. ASSUME NEW f \in Firers, StartRun(f)
      PROVE  [Promise!Next]_(Promise!vars)
  <2>1. /\ Key(f) \in Keys /\ started[Key(f)] = 0 /\ runs[Key(f)] \in {"claimed", "removed"}
        /\ UNCHANGED runs
    BY <1>3 DEF StartRun
  <2>2. CASE UNCHANGED started
    BY <1>1, <2>1, <2>2 DEF chat
  <2>3. CASE started' = [started EXCEPT ![Key(f)] = @ + 1]
    <3>1. started' = [started EXCEPT ![Key(f)] = 1]
      BY <2>1, <2>3
    <3>2. Promise!Execute(Key(f))
      BY <2>1, <3>1 DEF RunStatus, Promise!Execute
    <3> QED
      BY <2>1, <3>2
  <2> QED
    BY <1>3, <2>2, <2>3 DEF StartRun
<1>4. ASSUME NEW f \in Firers, Finish(f)
      PROVE  [Promise!Next]_(Promise!vars)
  <2>1. Key(f) \in Keys /\ runs[Key(f)] \in {"claimed", "removed"} /\ UNCHANGED started
    BY <1>4 DEF Finish
  <2>4. CASE runs[Key(f)] = "removed"
    BY <1>1, <1>4, <2>1, <2>4 DEF Finish, chat
  <2>2. CASE runs[Key(f)] = "claimed" /\ firing[f].phase = "started"
    <3>1. Promise!Close(Key(f), "completed")
      BY <1>4, <2>1, <2>2 DEF Finish, Records, RunStatus, Promise!Close, Promise!Open
    <3> QED
      BY <2>1, <3>1 DEF Promise!Closed
  <2>3. CASE runs[Key(f)] = "claimed" /\ firing[f].phase = "failed"
    <3>1. Promise!Close(Key(f), "failed")
      BY <1>4, <2>1, <2>3 DEF Finish, Records, RunStatus, Promise!Close, Promise!Open
    <3> QED
      BY <2>1, <3>1 DEF Promise!Closed
  <2> QED
    BY <1>4, <2>1, <2>2, <2>3, <2>4 DEF Finish
<1>5. CASE Delete
  <2>1. Promise!Remove
    BY <1>5 DEF Delete, Removed, RunStatus, Promise!Remove
  <2> QED
    BY <2>1
<1>6. CASE ~(Delete \/ \E f \in Firers : Fire(f))
  BY <1>1, <1>6 DEF Next, vars, Validate, Store, DeleteAgent, Advance, Tick, Signal, Crash, chat
<1> QED
  BY <1>2, <1>3, <1>4, <1>5, <1>6 DEF Fire

\* Firings keep the promise of CallPromise, for any number of replicas and deliveries: a
\* key is claimed before anything starts, starts once, is recorded as started only if it was,
\* and when the routine's deletion has removed its record it is never claimed again, while
\* what was claimed may still start, once (delete, run_claim, fire, run_finish).
THEOREM PromiseKept == Spec => KeepsPromise
<1>1. Init => Promise!Init
  BY DEF Init, RunStatus, Promise!Init
<1>2. Inv /\ [Next]_vars => [Promise!Next]_(Promise!vars)
  BY StepKeepsPromise
<1> QED
  BY Invariance, <1>1, <1>2, PTL DEF Spec, KeepsPromise, Promise!Spec
=============================================================================
