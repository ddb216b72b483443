--------------------------- MODULE JobRunnerProofs ---------------------------
(***************************************************************************)
(* JobRunner, for every set of jobs, size of the pools, threshold and      *)
(* multiplier: types; that backoff, restoration and revival agree; and     *)
(* that jobs that lost their trigger get it back, that no job with a       *)
(* budget falls silent, and that hung threads cost only their own pool.    *)
(***************************************************************************)
EXTENDS JobRunner, TLAPS, FiniteSetTheorems

LEMMA DoubledType ==
  ASSUME NEW multiple \in 1..MaxMultiplier
  PROVE  Doubled(multiple) \in 1..MaxMultiplier
BY BackoffAssumption DEF Doubled

LEMMA CountedType ==
  ASSUME NEW n \in 0..Threshold
  PROVE  Counted(n) \in 0..Threshold /\ (n >= Threshold => Counted(n) >= Threshold)
BY BackoffAssumption DEF Counted

(* What the end of a run does to trigger and interval of its job.          *)
LEMMA RestoreType ==
  ASSUME TypeOK, NEW j \in Jobs, Restore(j)
  PROVE  /\ trigger' \in [Jobs -> {"set", "paused"}]
         /\ interval' \in [Jobs -> 1..MaxMultiplier]
BY BackoffAssumption DEF TypeOK, Restore, Reschedule

LEMMA BackOffType ==
  ASSUME TypeOK, NEW j \in Jobs, BackOff(j)
  PROVE  /\ trigger' \in [Jobs -> {"set", "paused"}]
         /\ interval' \in [Jobs -> 1..MaxMultiplier]
<1>1. Doubled(interval[j]) \in 1..MaxMultiplier
  BY DoubledType DEF TypeOK
<1> QED
  BY <1>1 DEF TypeOK, BackOff, Reschedule

LEMMA FailureCountedType ==
  ASSUME TypeOK, NEW j \in Jobs, FailureCounted(j)
  PROVE  /\ trigger' \in [Jobs -> {"set", "paused"}]
         /\ interval' \in [Jobs -> 1..MaxMultiplier]
         /\ failures' \in [Jobs -> 0..Threshold]
<1>1. Counted(failures[j]) \in 0..Threshold
  BY CountedType DEF TypeOK
<1>2. failures' \in [Jobs -> 0..Threshold]
  BY <1>1 DEF TypeOK, FailureCounted
<1>3. CASE holder[j] = "tick"
  BY <1>2, <1>3, BackOffType DEF FailureCounted
<1>4. CASE holder[j] # "tick"
  BY <1>2, <1>4 DEF FailureCounted, TypeOK
<1> QED
  BY <1>3, <1>4

LEMMA AbandonsType ==
  ASSUME TypeOK, NEW j \in Jobs, Abandons(j)
  PROVE  abandoned' \in [Jobs -> Nat]
BY DEF TypeOK, Abandons

LEMMA ReleasesType ==
  ASSUME TypeOK, NEW j \in Jobs, Releases(j)
  PROVE  holder' \in [Jobs -> Holders] /\ work' \in [Jobs -> Works]
BY DEF TypeOK, Releases, Holders, Works

LEMMA TakesType ==
  ASSUME TypeOK, NEW j \in Jobs, NEW who \in Holders, Takes(j, who)
  PROVE  holder' \in [Jobs -> Holders] /\ work' \in [Jobs -> Works]
BY DEF TypeOK, Takes, Works

-----------------------------------------------------------------------------
LEMMA TypeInit == Init => TypeOK
BY BackoffAssumption, PausesAssumption DEF Init, TypeOK, Holders, Works

LEMMA TypeNext == TypeOK /\ [Next]_vars => TypeOK'
<1> SUFFICES ASSUME TypeOK, [Next]_vars PROVE TypeOK'
  OBVIOUS
<1>1. ASSUME NEW j \in Jobs, TickRuns(j) PROVE TypeOK'
  <2>1. holder' \in [Jobs -> Holders] /\ work' \in [Jobs -> Works]
    BY <1>1, TakesType DEF TickRuns, Holders
  <2>2. /\ trigger' \in [Jobs -> {"set", "paused"}]
        /\ interval' \in [Jobs -> 1..MaxMultiplier]
    BY <1>1, BackoffAssumption DEF TickRuns, TypeOK
  <2> QED
    BY <1>1, <2>1, <2>2 DEF TickRuns, TypeOK
<1>2. ASSUME NEW j \in Jobs, HookRuns(j) \/ FillRuns(j) PROVE TypeOK'
  <2>1. holder' \in [Jobs -> Holders] /\ work' \in [Jobs -> Works]
    BY <1>2, TakesType DEF HookRuns, FillRuns, Holders
  <2> QED
    BY <1>2, <2>1 DEF HookRuns, FillRuns, TypeOK
<1>3. ASSUME NEW j \in Jobs, WorkBegins(j) PROVE TypeOK'
  BY <1>3 DEF WorkBegins, TypeOK, Works
<1>4. ASSUME NEW j \in Jobs, Succeeds(j) PROVE TypeOK'
  <2>1. holder' \in [Jobs -> Holders] /\ work' \in [Jobs -> Works]
    BY <1>4, ReleasesType DEF Succeeds
  <2>2. failures' \in [Jobs -> 0..Threshold]
    BY <1>4, BackoffAssumption DEF Succeeds, TypeOK
  <2>3. /\ trigger' \in [Jobs -> {"set", "paused"}]
        /\ interval' \in [Jobs -> 1..MaxMultiplier]
    BY <1>4, RestoreType DEF Succeeds, TypeOK
  <2> QED
    BY <1>4, <2>1, <2>2, <2>3 DEF Succeeds, TypeOK
<1>5. ASSUME NEW j \in Jobs, Fails(j) \/ TimesOut(j) PROVE TypeOK'
  <2>1. holder' \in [Jobs -> Holders] /\ work' \in [Jobs -> Works]
    BY <1>5, ReleasesType DEF Fails, TimesOut
  <2>2. /\ trigger' \in [Jobs -> {"set", "paused"}]
        /\ interval' \in [Jobs -> 1..MaxMultiplier]
        /\ failures' \in [Jobs -> 0..Threshold]
    BY <1>5, FailureCountedType DEF Fails, TimesOut
  <2>3. abandoned' \in [Jobs -> Nat]
    BY <1>5, AbandonsType DEF Fails, TimesOut, TypeOK
  <2> QED
    BY <1>5, <2>1, <2>2, <2>3 DEF Fails, TimesOut, TypeOK
<1>6. ASSUME NEW j \in Jobs, HookCancelled(j) PROVE TypeOK'
  <2>1. /\ holder' \in [Jobs -> Holders] /\ work' \in [Jobs -> Works]
        /\ abandoned' \in [Jobs -> Nat]
    BY <1>6, ReleasesType, AbandonsType DEF HookCancelled
  <2> QED
    BY <1>6, <2>1 DEF HookCancelled, TypeOK
<1>7. ASSUME NEW j \in Jobs, AbandonedEnds(j) PROVE TypeOK'
  BY <1>7 DEF AbandonedEnds, TypeOK
<1>8. ASSUME NEW j \in Jobs, Pause(j) PROVE TypeOK'
  BY <1>8, PausesAssumption DEF Pause, TypeOK
<1>9. CASE UNCHANGED vars
  BY <1>9 DEF vars, TypeOK
<1> QED
  BY <1>1, <1>2, <1>3, <1>4, <1>5, <1>6, <1>7, <1>8, <1>9 DEF Next

(* Every variable of the scheduler keeps its type; in particular no        *)
(* interval outgrows worker_backoff_max_multiplier.                        *)
THEOREM TypeCorrect == Spec => []TypeOK
BY TypeInit, TypeNext, PTL DEF Spec

-----------------------------------------------------------------------------
(* Only a job that is a hook is run as one, and work is somebody's.        *)
HolderInv ==
  \A j \in Jobs : /\ holder[j] = "hook" => j \in Hooked
                  /\ work[j] # "none" => holder[j] # "nobody"

BackoffInv == TypeOK /\ HolderInv /\ BackedOffOnlyWhileFailing

LEMMA BackoffInit == Init => BackoffInv
BY TypeInit DEF Init, BackoffInv, HolderInv, BackedOffOnlyWhileFailing

LEMMA HolderNext == TypeOK /\ HolderInv /\ [Next]_vars => HolderInv'
<1> SUFFICES ASSUME TypeOK, HolderInv, [Next]_vars PROVE HolderInv'
  OBVIOUS
<1> USE DEF HolderInv, TypeOK
<1>1. ASSUME NEW j \in Jobs, TickRuns(j) \/ HookRuns(j) \/ FillRuns(j)
      PROVE  HolderInv'
  BY <1>1 DEF TickRuns, HookRuns, FillRuns, Takes
<1>2. ASSUME NEW j \in Jobs,
             Succeeds(j) \/ Fails(j) \/ TimesOut(j) \/ HookCancelled(j)
      PROVE  HolderInv'
  BY <1>2 DEF Succeeds, Fails, TimesOut, HookCancelled, Releases
<1>3. ASSUME NEW j \in Jobs, WorkBegins(j) \/ AbandonedEnds(j) \/ Pause(j)
      PROVE  HolderInv'
  BY <1>3 DEF WorkBegins, AbandonedEnds, Pause
<1>4. CASE UNCHANGED vars
  BY <1>4 DEF vars
<1> QED
  BY <1>1, <1>2, <1>3, <1>4 DEF Next

(* A counted failure never leaves a longer interval without its failures.  *)
LEMMA FailureKeepsBackoff ==
  ASSUME TypeOK, BackedOffOnlyWhileFailing, NEW j \in Jobs, FailureCounted(j)
  PROVE  BackedOffOnlyWhileFailing'
<1>1. /\ Counted(failures[j]) \in 0..Threshold
      /\ failures[j] >= Threshold => Counted(failures[j]) >= Threshold
  BY CountedType DEF TypeOK
<1>2. \A i \in Jobs : i # j => /\ failures'[i] = failures[i]
                               /\ interval'[i] = interval[i]
  BY DEF FailureCounted, BackOff, Reschedule, TypeOK
<1>3. failures[j] >= Threshold => failures'[j] >= Threshold
  BY <1>1 DEF FailureCounted, TypeOK
<1>4. interval'[j] = interval[j] \/ failures'[j] >= Threshold
  BY DEF FailureCounted, BackOff, Reschedule, TypeOK
<1> QED
  BY <1>2, <1>3, <1>4 DEF BackedOffOnlyWhileFailing

LEMMA BackoffNext == BackoffInv /\ [Next]_vars => BackoffInv'
<1> SUFFICES ASSUME BackoffInv, [Next]_vars PROVE BackedOffOnlyWhileFailing'
  BY TypeNext, HolderNext DEF BackoffInv
<1> USE DEF BackoffInv
<1>1. ASSUME NEW j \in Jobs, TickRuns(j) PROVE BackedOffOnlyWhileFailing'
  (* A revived job starts anew at its base interval.                       *)
  BY <1>1 DEF TickRuns, BackedOffOnlyWhileFailing, TypeOK
<1>2. ASSUME NEW j \in Jobs, Succeeds(j) PROVE BackedOffOnlyWhileFailing'
  <2>1. CASE holder[j] = "tick"
    <3>1. interval'[j] = 1
      BY <1>2, <2>1 DEF Succeeds, Restore, Reschedule, TypeOK
    <3>2. \A i \in Jobs : i # j => /\ failures'[i] = failures[i]
                                   /\ interval'[i] = interval[i]
      BY <1>2, <2>1 DEF Succeeds, Restore, Reschedule, TypeOK
    <3> QED
      BY <3>1, <3>2 DEF BackedOffOnlyWhileFailing
  <2>2. CASE holder[j] = "hook"
    (* Its job is left out.                                                *)
    <3>1. j \in Hooked
      BY <2>2 DEF HolderInv
    <3> QED
      BY <1>2, <2>2, <3>1 DEF Succeeds, BackedOffOnlyWhileFailing, TypeOK
  <2>3. CASE holder[j] = "fill"
    BY <1>2, <2>3 DEF Succeeds, BackedOffOnlyWhileFailing, TypeOK
  <2>4. CASE holder[j] = "nobody"
    BY <1>2, <2>4 DEF Succeeds, HolderInv
  <2> QED
    BY <2>1, <2>2, <2>3, <2>4 DEF TypeOK, Holders
<1>3. ASSUME NEW j \in Jobs, Fails(j) \/ TimesOut(j)
      PROVE  BackedOffOnlyWhileFailing'
  BY <1>3, FailureKeepsBackoff DEF Fails, TimesOut
<1>4. ASSUME NEW j \in Jobs,
             HookRuns(j) \/ FillRuns(j) \/ WorkBegins(j) \/ HookCancelled(j)
             \/ AbandonedEnds(j) \/ Pause(j)
      PROVE  BackedOffOnlyWhileFailing'
  BY <1>4 DEF HookRuns, FillRuns, WorkBegins, HookCancelled, AbandonedEnds,
              Pause, BackedOffOnlyWhileFailing
<1>5. CASE UNCHANGED vars
  BY <1>5 DEF vars, BackedOffOnlyWhileFailing
<1> QED
  BY <1>1, <1>2, <1>3, <1>4, <1>5 DEF Next

(* A job that is no hook runs at a longer interval only while it keeps     *)
(* failing.                                                                *)
THEOREM BackoffIsJustified == Spec => []BackedOffOnlyWhileFailing
<1>1. BackoffInv => BackedOffOnlyWhileFailing
  BY DEF BackoffInv
<1> QED
  BY <1>1, BackoffInit, BackoffNext, PTL DEF Spec

-----------------------------------------------------------------------------
(* Liveness.  What an action needs to be enabled is its guard; TLAPS takes *)
(* that as a hypothesis, since it does not look into ENABLED.              *)
TickReady(j) == trigger[j] = "set" /\ holder[j] = "nobody"
Budgeted(j)  == holder[j] \in {"tick", "hook"}
ThreadReady(j) == work[j] = "queued" /\ Taken(PoolOf(j)) < Slots(PoolOf(j))

GuardsEnable ==
  \A j \in Jobs : /\ [](TickReady(j) => ENABLED <<TickRuns(j)>>_vars)
                  /\ [](Budgeted(j) => ENABLED <<TimesOut(j)>>_vars)
                  /\ [](ThreadReady(j) => ENABLED <<WorkBegins(j)>>_vars)

(* A job outside FillDriven has a budget whenever it runs, and a job that  *)
(* is not Pausable has its trigger.                                        *)
TriggerInv ==
  \A j \in Jobs : /\ holder[j] = "fill" => j \in FillDriven
                  /\ trigger[j] = "paused" => j \in Pausable

LEMMA TriggerInit == Init => TriggerInv
BY DEF Init, TriggerInv

LEMMA TriggersKept ==
  ASSUME TypeOK, NEW i \in Jobs, NEW j \in Jobs, trigger[j] = "set",
         \/ TickRuns(i) \/ HookRuns(i) \/ FillRuns(i) \/ WorkBegins(i)
         \/ Succeeds(i) \/ Fails(i) \/ TimesOut(i) \/ HookCancelled(i) \/ AbandonedEnds(i)
  PROVE  trigger'[j] = "set"
<1>1. CASE TickRuns(i)
  BY <1>1 DEF TickRuns
<1>2. CASE Succeeds(i) \/ Fails(i) \/ TimesOut(i)
  BY <1>2 DEF Succeeds, Fails, TimesOut, FailureCounted, Restore, BackOff, Reschedule, TypeOK
<1> QED
  BY <1>1, <1>2 DEF HookRuns, FillRuns, WorkBegins, HookCancelled, AbandonedEnds

LEMMA TriggerNext == TypeOK /\ TriggerInv /\ [Next]_vars => TriggerInv'
<1> SUFFICES ASSUME TypeOK, TriggerInv, [Next]_vars, NEW j \in Jobs
             PROVE  /\ holder'[j] = "fill" => j \in FillDriven
                    /\ trigger'[j] = "paused" => j \in Pausable
  BY DEF TriggerInv
<1>1. CASE UNCHANGED vars
  BY <1>1 DEF vars, TriggerInv
<1>2. ASSUME NEW i \in Jobs, Pause(i)
      PROVE  /\ holder'[j] = "fill" => j \in FillDriven
             /\ trigger'[j] = "paused" => j \in Pausable
  BY <1>2 DEF Pause, TriggerInv, TypeOK
<1>3. ASSUME NEW i \in Jobs,
             \/ TickRuns(i) \/ HookRuns(i) \/ FillRuns(i) \/ WorkBegins(i)
             \/ Succeeds(i) \/ Fails(i) \/ TimesOut(i) \/ HookCancelled(i) \/ AbandonedEnds(i)
      PROVE  /\ holder'[j] = "fill" => j \in FillDriven
             /\ trigger'[j] = "paused" => j \in Pausable
  <2>1. trigger[j] = "paused" => j \in Pausable
    BY DEF TriggerInv
  <2>2. trigger'[j] = "paused" => trigger[j] = "paused"
    BY <1>3, TriggersKept DEF TypeOK
  <2>3. holder'[j] = "fill" => holder[j] = "fill" \/ j \in FillDriven
    BY <1>3 DEF TickRuns, HookRuns, FillRuns, WorkBegins, Succeeds, Fails, TimesOut,
                HookCancelled, AbandonedEnds, Takes, Releases, TypeOK
  <2> QED
    BY <2>1, <2>2, <2>3 DEF TriggerInv
<1> QED
  BY <1>1, <1>2, <1>3 DEF Next

LEMMA Triggers == Spec => []TriggerInv
<1>1. TypeOK /\ TriggerInv /\ [Next]_vars => TriggerInv'
  BY TriggerNext
<1> QED
  BY <1>1, TriggerInit, TypeCorrect, PTL DEF Spec

StaysSet(j) == <>[](trigger[j] = "set")
Ticks(j)    == []<><<TickRuns(j)>>_vars

(* A job whose trigger stays is run by it again and again: its budget      *)
(* frees the lock, and the tick that finds it free takes it.               *)
LEMMA SetTriggerTicks ==
  ASSUME NEW j \in Jobs \ FillDriven
  PROVE  FairSpec /\ GuardsEnable /\ StaysSet(j) => Ticks(j)
<1> DEFINE free == holder[j] = "nobody"
           set  == trigger[j] = "set"
<1>1. TypeOK /\ TriggerInv => free \/ Budgeted(j)
  BY DEF TypeOK, TriggerInv, Holders, Budgeted
<1>2. TypeOK /\ <<TimesOut(j)>>_vars => free'
  BY DEF TimesOut, Releases, TypeOK
<1>3. set /\ free => TickReady(j)
  BY DEF TickReady
<1>4. FairSpec => SF_vars(TickRuns(j)) /\ WF_vars(TimesOut(j))
  <2>1. FairSpec => RunsFairly(j)
    BY DEF FairSpec
  <2> QED
    BY <2>1, PTL DEF RunsFairly
<1>5. GuardsEnable => /\ [](TickReady(j) => ENABLED <<TickRuns(j)>>_vars)
                      /\ [](Budgeted(j) => ENABLED <<TimesOut(j)>>_vars)
  BY DEF GuardsEnable
<1>6. FairSpec => []TypeOK /\ []TriggerInv
  BY TypeCorrect, Triggers, PTL DEF FairSpec
<1> HIDE DEF free, set
<1>7. FairSpec /\ GuardsEnable => []<>free
  BY <1>1, <1>2, <1>4, <1>5, <1>6, PTL
<1>8. FairSpec /\ GuardsEnable /\ <>[]set => []<><<TickRuns(j)>>_vars
  BY <1>3, <1>4, <1>5, <1>7, PTL
<1> QED
  BY <1>8 DEF set, StaysSet, Ticks

(* The reviver never loses its trigger, so it ticks again and again; a     *)
(* tick of its restores every trigger (_revive_paused_jobs).  Worker runs  *)
(* of the reviver have a budget, since no trade of a whale starts it.      *)
THEOREM PausedJobsAreRevived ==
  ASSUME Reviver \notin FillDriven
  PROVE  FairSpec /\ GuardsEnable => PausedIsRevived
<1>. PICK r \in Jobs \ FillDriven : r = Reviver
  BY JobsAssumption
<1>1. r \notin Pausable
  BY JobsAssumption
<1>2. TypeOK /\ TriggerInv => trigger[r] = "set"
  BY <1>1 DEF TypeOK, TriggerInv
<1>3. FairSpec => []TypeOK /\ []TriggerInv
  BY TypeCorrect, Triggers, PTL DEF FairSpec
<1>4. FairSpec /\ GuardsEnable /\ StaysSet(r) => Ticks(r)
  BY SetTriggerTicks
<1>5. FairSpec /\ GuardsEnable => []<><<TickRuns(r)>>_vars
  BY <1>2, <1>3, <1>4, PTL DEF StaysSet, Ticks
<1>6. ASSUME NEW j \in Jobs
      PROVE  FairSpec /\ GuardsEnable => (trigger[j] = "paused" ~> trigger[j] = "set")
  <2> DEFINE set    == trigger[j] = "set"
             paused == trigger[j] = "paused"
  <2>1. TypeOK => set \/ paused
    BY DEF TypeOK
  <2>2. TypeOK /\ paused /\ <<TickRuns(r)>>_vars => set'
    BY DEF TickRuns, Revived, TypeOK
  <2> HIDE DEF set, paused
  <2>3. FairSpec /\ GuardsEnable => (paused ~> set)
    BY <1>3, <1>5, <2>1, <2>2, PTL
  <2> QED
    BY <2>3 DEF set, paused
<1> QED
  BY <1>6 DEF PausedIsRevived

(* No job loses its trigger over and over.                                 *)
PausesEnd == <>[][\A i \in Jobs : ~Pause(i)]_vars

(* Then each trigger, once revived, stays, for nothing but Pause takes it. *)
LEMMA JobsTick ==
  ASSUME Reviver \notin FillDriven, NEW j \in Jobs \ FillDriven
  PROVE  FairSpec /\ GuardsEnable /\ PausesEnd => Ticks(j)
<1> DEFINE set    == trigger[j] = "set"
           paused == trigger[j] = "paused"
           calm   == \A i \in Jobs : ~Pause(i)
<1>1. TypeOK => set \/ paused
  BY DEF TypeOK
<1>2. TypeOK /\ set /\ [Next]_vars /\ [calm]_vars => set'
  <2>1. CASE UNCHANGED vars
    BY <2>1 DEF vars
  <2>2. CASE Next /\ calm
    BY <2>2, TriggersKept DEF Next
  <2> QED
    BY <2>1, <2>2
<1>3. FairSpec /\ GuardsEnable => (paused ~> set)
  <2>1. FairSpec /\ GuardsEnable => PausedIsRevived
    BY PausedJobsAreRevived
  <2>2. PausedIsRevived => (paused ~> set)
    BY DEF PausedIsRevived
  <2> QED
    BY <2>1, <2>2
<1>4. FairSpec /\ GuardsEnable /\ <>[]set => Ticks(j)
  BY SetTriggerTicks DEF StaysSet
<1>5. PausesEnd => <>[][calm]_vars
  BY DEF PausesEnd
<1>6. FairSpec => []TypeOK /\ [][Next]_vars
  BY TypeCorrect, PTL DEF FairSpec, Spec
<1> HIDE DEF set, paused, calm
<1>7. FairSpec /\ GuardsEnable /\ PausesEnd => <>[]set
  BY <1>1, <1>2, <1>3, <1>5, <1>6, PTL
<1> QED
  BY <1>4, <1>7, PTL

(* No job falls silent, whatever fails, hangs, is cut or loses its trigger *)
(* (a finite number of times): its budget frees the lock, the reviver      *)
(* restores the trigger, and nothing but Pause takes that away again.      *)
(* Jobs started by trades are left out: their fills have no budget.        *)
THEOREM JobsRunAgain ==
  ASSUME Reviver \notin FillDriven
  PROVE  FairSpec /\ GuardsEnable /\ PausesEnd => RunsAgain
<1>1. ASSUME NEW j \in Jobs \ FillDriven
      PROVE  FairSpec /\ GuardsEnable /\ PausesEnd => []<>(holder[j] = "tick")
  <2> DEFINE ticked == holder[j] = "tick"
  <2>1. FairSpec /\ GuardsEnable /\ PausesEnd => []<><<TickRuns(j)>>_vars
    BY JobsTick DEF Ticks
  <2>2. TypeOK /\ <<TickRuns(j)>>_vars => ticked'
    BY DEF TickRuns, Takes, TypeOK
  <2>3. FairSpec => []TypeOK
    BY TypeCorrect, PTL DEF FairSpec
  <2> HIDE DEF ticked
  <2>4. FairSpec /\ GuardsEnable /\ PausesEnd => []<>ticked
    BY <2>1, <2>2, <2>3, PTL
  <2> QED
    BY <2>4 DEF ticked
<1> QED
  BY <1>1 DEF RunsAgain

-----------------------------------------------------------------------------
(* Work of a job that needs no thread never waits for one.                 *)
LoopInv == \A j \in Jobs : j \in OnLoop => work[j] # "queued"

LEMMA LoopWork == Spec => []LoopInv
<1>1. Init => LoopInv
  BY DEF Init, LoopInv
<1>2. TypeOK /\ LoopInv /\ [Next]_vars => LoopInv'
  <2> SUFFICES ASSUME TypeOK, LoopInv, [Next]_vars, NEW j \in Jobs \cap OnLoop
               PROVE  work'[j] # "queued"
    BY DEF LoopInv
  <2>1. work[j] # "queued"
    BY DEF LoopInv
  <2>2. ASSUME NEW i \in Jobs, TickRuns(i) \/ HookRuns(i) \/ FillRuns(i)
        PROVE  work'[j] # "queued"
    BY <2>1, <2>2 DEF TickRuns, HookRuns, FillRuns, Takes, TypeOK
  <2>3. ASSUME NEW i \in Jobs,
               Succeeds(i) \/ Fails(i) \/ TimesOut(i) \/ HookCancelled(i)
        PROVE  work'[j] # "queued"
    BY <2>1, <2>3 DEF Succeeds, Fails, TimesOut, HookCancelled, Releases, TypeOK
  <2>4. ASSUME NEW i \in Jobs, WorkBegins(i) \/ AbandonedEnds(i) \/ Pause(i)
        PROVE  work'[j] # "queued"
    BY <2>1, <2>4 DEF WorkBegins, AbandonedEnds, Pause, TypeOK
  <2>5. CASE UNCHANGED vars
    BY <2>1, <2>5 DEF vars
  <2> QED
    BY <2>2, <2>3, <2>4, <2>5 DEF Next
<1> QED
  BY <1>1, <1>2, TypeCorrect, PTL DEF Spec

(* The jobs of the default executor, and its threads that outlived a run.  *)
Light  == (Jobs \ Heavy) \ OnLoop
Leaked == {t \in Jobs \X (1..DefaultSlots) :
             PoolOf(t[1]) = "default" /\ t[2] <= abandoned[t[1]]}

(* Beyond those the executor has a thread for each of its jobs.            *)
ThreadForEach == Cardinality(Leaked) + Cardinality(Light) <= DefaultSlots

(* Then a job that waits for a thread finds one, whatever the heavy jobs   *)
(* hold: it is not among those that run.                                   *)
LEMMA WaitingFindsThread ==
  ASSUME TypeOK, ThreadForEach, NEW j \in Light, work[j] = "queued"
  PROVE  ThreadReady(j)
<1> DEFINE running == {i \in Jobs \ OnLoop : PoolOf(i) = "default" /\ work[i] = "running"}
<1>1. PoolOf(j) = "default" /\ Slots("default") = DefaultSlots
  BY DEF Light, PoolOf, Slots
<1>2. IsFiniteSet(Light)
  BY JobsAssumption, FS_Subset DEF Light
<1>3. /\ IsFiniteSet(Light \ {j})
      /\ Cardinality(Light \ {j}) = Cardinality(Light) - 1
  BY <1>2, FS_RemoveElement
<1>4. running \subseteq Light \ {j}
  BY DEF Light, PoolOf
<1>5. IsFiniteSet(running) /\ Cardinality(running) <= Cardinality(Light) - 1
  BY <1>3, <1>4, FS_Subset
<1>6. IsFiniteSet(Leaked)
  <2>1. IsFiniteSet(1..DefaultSlots)
    BY SlotsAssumption, FS_Interval
  <2>2. IsFiniteSet(Jobs \X (1..DefaultSlots))
    BY <2>1, JobsAssumption, FS_Product
  <2>3. Leaked \subseteq Jobs \X (1..DefaultSlots)
    BY DEF Leaked
  <2> QED
    BY <2>2, <2>3, FS_Subset
<1>7. /\ Cardinality(running) \in Nat /\ Cardinality(Leaked) \in Nat
      /\ Cardinality(Light) \in Nat
  BY <1>2, <1>5, <1>6, FS_CardinalityType
<1>8. Taken("default") = Cardinality(running) + Cardinality(Leaked)
  BY <1>1 DEF Taken, Leaked
<1>9. Taken("default") < DefaultSlots
  <2> HIDE DEF running
  <2> QED
    BY <1>5, <1>7, <1>8, SlotsAssumption DEF ThreadForEach
<1> QED
  BY <1>1, <1>9 DEF ThreadReady

(* Heavy threads that never return cost the others nothing: as long as the *)
(* threads of the others leave each of them one of the default executor,   *)
(* the work of every other job is begun again and again, whatever number   *)
(* of heavy threads hangs.  Jobs started by trades are heavy.              *)
THEOREM OthersWorkOn ==
  ASSUME Reviver \notin FillDriven, FillDriven \subseteq Heavy
  PROVE  FairSpec /\ GuardsEnable /\ PausesEnd /\ []ThreadForEach => OthersWork
<1>1. ASSUME NEW j \in Jobs \ Heavy
      PROVE  FairSpec /\ GuardsEnable /\ PausesEnd /\ []ThreadForEach
               => []<>(work[j] = "running")
  <2> DEFINE queued  == work[j] = "queued"
             running == work[j] = "running"
  <2>1. FairSpec /\ GuardsEnable /\ PausesEnd => []<><<TickRuns(j)>>_vars
    BY JobsTick DEF Ticks
  <2>2. FairSpec => SF_vars(WorkBegins(j))
    <3>1. FairSpec => ThreadsFairly(j)
      BY DEF FairSpec
    <3> QED
      BY <3>1, PTL DEF ThreadsFairly
  <2>3. GuardsEnable => [](ThreadReady(j) => ENABLED <<WorkBegins(j)>>_vars)
    BY DEF GuardsEnable
  <2>4. TypeOK /\ <<TickRuns(j)>>_vars => queued' \/ running'
    BY DEF TickRuns, Takes, TypeOK
  <2>5. TypeOK /\ <<WorkBegins(j)>>_vars => running'
    BY DEF WorkBegins, TypeOK
  <2>6. FairSpec => []TypeOK /\ []LoopInv
    BY TypeCorrect, LoopWork, PTL DEF FairSpec
  <2>7. TypeOK /\ LoopInv /\ ThreadForEach /\ queued => ThreadReady(j)
    <3> SUFFICES ASSUME TypeOK, LoopInv, ThreadForEach, queued PROVE ThreadReady(j)
      OBVIOUS
    <3>1. j \in Light
      BY DEF Light, LoopInv
    <3> QED
      BY <3>1, WaitingFindsThread
  <2> HIDE DEF queued, running
  <2>8. FairSpec /\ GuardsEnable /\ PausesEnd /\ []ThreadForEach => []<>running
    BY <2>1, <2>2, <2>3, <2>4, <2>5, <2>6, <2>7, PTL
  <2> QED
    BY <2>8 DEF running
<1> QED
  BY <1>1 DEF OthersWork
=============================================================================
