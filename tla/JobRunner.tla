------------------------------ MODULE JobRunner ------------------------------
(***************************************************************************)
(* The scheduler of the worker.  Each job has a trigger of APScheduler and *)
(* a lock; a run holds the lock, awaits its work and is given up when its  *)
(* budget is spent.  Work runs in a thread of one of two pools.  A run     *)
(* that is given up releases its lock, but nothing stops its thread, which *)
(* keeps its slot of the pool for as long as it hangs.                     *)
(*                                                                         *)
(* A job that fails again and again is rescheduled at longer intervals; a  *)
(* success restores the interval.  worker_liveness revives jobs that have  *)
(* lost their trigger.                                                     *)
(*                                                                         *)
(* Intervals are counted in multiples of the job's base interval.  Time is *)
(* left out: a tick may come, and a budget may be spent, at any moment.    *)
(***************************************************************************)
EXTENDS Naturals, FiniteSets

CONSTANTS
  Jobs,           \* the scheduled, enabled jobs
  Reviver,        \* worker_liveness
  OnLoop,         \* jobs that need no thread
  Heavy,          \* _HEAVY_JOBS
  Hooked,         \* jobs that are also a hook of another job (daily_summary)
  FillDriven,     \* jobs also run when a whale trades (whale_follow_engine)
  Pausable,       \* jobs that lose their trigger by means not in this code
  HeavySlots,     \* _HEAVY_EXECUTOR_WORKERS
  DefaultSlots,   \* threads of the event loop's default executor
  Threshold,      \* worker_backoff_failure_threshold
  MaxMultiplier,  \* worker_backoff_max_multiplier
  MaxPauses       \* bound: how often a job loses its trigger

ASSUME JobsAssumption == /\ IsFiniteSet(Jobs)
                         /\ Reviver \in Jobs
                         /\ Pausable \subseteq Jobs \ {Reviver}
ASSUME SlotsAssumption == HeavySlots \in Nat /\ DefaultSlots \in Nat
ASSUME BackoffAssumption == /\ Threshold \in Nat \ {0}
                            /\ MaxMultiplier \in Nat \ {0}
ASSUME PausesAssumption == MaxPauses \in Nat

VARIABLES
  trigger,    \* whether the scheduler has a next run of the job
  interval,   \* current_interval_seconds, in base intervals
  failures,   \* consecutive_failures
  holder,     \* which run holds the job's lock
  work,       \* what that run awaits
  abandoned,  \* threads of the job whose run was given up
  pauses      \* history: lost triggers so far

vars == <<trigger, interval, failures, holder, work, abandoned, pauses>>

Holders == {"nobody", "tick", "hook", "fill"}
Works   == {"none", "queued", "running"}

(* Counting past Threshold makes no difference to anything.                *)
Counted(n) == IF n < Threshold THEN n + 1 ELSE Threshold

(* Mutant: every job runs in the default executor.                         *)
PoolOfShared(j) == "default"

PoolOf(j)   == IF j \in Heavy THEN "heavy" ELSE "default"
Slots(pool) == IF pool = "heavy" THEN HeavySlots ELSE DefaultSlots

(* The slots of a pool are taken by threads somebody awaits and by threads *)
(* nobody awaits any more.                                                 *)
Taken(pool) ==
  Cardinality({j \in Jobs \ OnLoop : PoolOf(j) = pool /\ work[j] = "running"})
  + Cardinality({t \in Jobs \X (1..Slots(pool)) :
                   PoolOf(t[1]) = pool /\ t[2] <= abandoned[t[1]]})

Init ==
  /\ trigger = [j \in Jobs |-> "set"]
  /\ interval = [j \in Jobs |-> 1]
  /\ failures = [j \in Jobs |-> 0]
  /\ holder = [j \in Jobs |-> "nobody"]
  /\ work = [j \in Jobs |-> "none"]
  /\ abandoned = [j \in Jobs |-> 0]
  /\ pauses = 0

-----------------------------------------------------------------------------
(* A run starts.  A run that finds the lock taken is skipped, which leaves *)
(* nothing but a count.                                                    *)
Takes(j, who) ==
  /\ holder[j] = "nobody"
  /\ holder' = [holder EXCEPT ![j] = who]
  /\ work' = [work EXCEPT ![j] = IF j \in OnLoop THEN "running" ELSE "queued"]

(* Mutant: only jobs the scheduler does not know at all are revived.       *)
RevivedUnregistered == {}

(* _revive_paused_jobs, before the run of worker_liveness awaits anything. *)
Revived == {j \in Jobs : trigger[j] = "paused"}

TickRuns(j) ==
  /\ trigger[j] = "set"
  /\ Takes(j, "tick")
  /\ LET back == IF j = Reviver THEN Revived ELSE {}
     IN /\ trigger' = [i \in Jobs |-> IF i \in back THEN "set" ELSE trigger[i]]
        /\ interval' = [i \in Jobs |-> IF i \in back THEN 1 ELSE interval[i]]
  /\ UNCHANGED <<failures, abandoned, pauses>>

HookRuns(j) ==
  /\ j \in Hooked
  /\ Takes(j, "hook")
  /\ UNCHANGED <<trigger, interval, failures, abandoned, pauses>>

(* _run_whale_follow_on_fill, which takes the lock without _run_job.       *)
FillRuns(j) ==
  /\ j \in FillDriven
  /\ Takes(j, "fill")
  /\ UNCHANGED <<trigger, interval, failures, abandoned, pauses>>

WorkBegins(j) ==
  /\ work[j] = "queued"
  /\ Taken(PoolOf(j)) < Slots(PoolOf(j))
  /\ work' = [work EXCEPT ![j] = "running"]
  /\ UNCHANGED <<trigger, interval, failures, holder, abandoned, pauses>>

-----------------------------------------------------------------------------
(* A run ends.                                                             *)
Releases(j) ==
  /\ holder' = [holder EXCEPT ![j] = "nobody"]
  /\ work' = [work EXCEPT ![j] = "none"]

(* Mutant: next_run_time=None is handed to add_job, which pauses the job.  *)
ReschedulePaused(j, multiple) ==
  /\ interval' = [interval EXCEPT ![j] = multiple]
  /\ trigger' = [trigger EXCEPT ![j] = "paused"]

(* _schedule_job replaces the job; the new trigger computes its next run.  *)
Reschedule(j, multiple) ==
  /\ interval' = [interval EXCEPT ![j] = multiple]
  /\ trigger' = [trigger EXCEPT ![j] = "set"]

(* Mutant: the longest interval is not looked at.                          *)
DoubledUncapped(multiple) == multiple * 2

Doubled(multiple) ==
  IF multiple * 2 < MaxMultiplier THEN multiple * 2 ELSE MaxMultiplier

(* Mutant: a success leaves the interval as it is.                         *)
RestoreNothing(j) == UNCHANGED <<trigger, interval>>

(* _restore_interval_if_needed.                                            *)
Restore(j) ==
  IF interval[j] # 1 THEN Reschedule(j, 1) ELSE UNCHANGED <<trigger, interval>>

(* _apply_backoff_if_needed.                                               *)
BackOff(j) ==
  IF failures'[j] >= Threshold /\ Doubled(interval[j]) # interval[j]
  THEN Reschedule(j, Doubled(interval[j]))
  ELSE UNCHANGED <<trigger, interval>>

(* Ticks and hooks share failures; only ticks touch the interval.  A run   *)
(* started by a fill keeps no heartbeat.                                   *)
Succeeds(j) ==
  /\ work[j] = "running"
  /\ failures' = [failures EXCEPT ![j] = IF holder[j] = "fill" THEN @ ELSE 0]
  /\ IF holder[j] = "tick" THEN Restore(j) ELSE UNCHANGED <<trigger, interval>>
  /\ Releases(j)
  /\ UNCHANGED <<abandoned, pauses>>

FailureCounted(j) ==
  /\ failures' = [failures EXCEPT
                    ![j] = IF holder[j] = "fill" THEN @ ELSE Counted(@)]
  /\ IF holder[j] = "tick" THEN BackOff(j) ELSE UNCHANGED <<trigger, interval>>

Fails(j) ==
  /\ work[j] = "running"
  /\ FailureCounted(j)
  /\ Releases(j)
  /\ UNCHANGED <<abandoned, pauses>>

(* A cancelled future leaves the pool's queue, if it is still there; a     *)
(* thread that has begun goes on.                                          *)
Abandons(j) ==
  abandoned' = [abandoned EXCEPT
                  ![j] = IF work[j] = "running" /\ j \notin OnLoop THEN @ + 1 ELSE @]

(* The budget of the run is spent.  Fills have none.                       *)
TimesOut(j) ==
  /\ holder[j] \in {"tick", "hook"}
  /\ FailureCounted(j)
  /\ Abandons(j)
  /\ Releases(j)
  /\ UNCHANGED pauses

(* The budget of the job whose hook this is: the cancellation is passed on *)
(* and counted there.                                                      *)
HookCancelled(j) ==
  /\ holder[j] = "hook"
  /\ Abandons(j)
  /\ Releases(j)
  /\ UNCHANGED <<trigger, interval, failures, pauses>>

AbandonedEnds(j) ==
  /\ abandoned[j] > 0
  /\ abandoned' = [abandoned EXCEPT ![j] = @ - 1]
  /\ UNCHANGED <<trigger, interval, failures, holder, work, pauses>>

(* A job loses its next run.  No code here does that any more; the reviver *)
(* does not take it for granted.                                           *)
Pause(j) ==
  /\ j \in Pausable
  /\ pauses < MaxPauses
  /\ pauses' = pauses + 1
  /\ trigger[j] = "set"
  /\ trigger' = [trigger EXCEPT ![j] = "paused"]
  /\ UNCHANGED <<interval, failures, holder, work, abandoned>>

Next ==
  \E j \in Jobs :
    \/ TickRuns(j) \/ HookRuns(j) \/ FillRuns(j) \/ WorkBegins(j)
    \/ Succeeds(j) \/ Fails(j) \/ TimesOut(j) \/ HookCancelled(j)
    \/ AbandonedEnds(j) \/ Pause(j)

Spec == Init /\ [][Next]_vars

(* Ticks come again and again, some of them while no hook holds the lock;  *)
(* a budget is spent in the end.  Nothing is assumed of the threads of     *)
(* heavy jobs, which may hang forever; the others return, and the budget   *)
(* of a run (two minutes at least) leaves the default executor the time to *)
(* begin work it has a thread for.                                         *)
RunsFairly(j)    == SF_vars(TickRuns(j)) /\ WF_vars(TimesOut(j))
ThreadsFairly(j) == SF_vars(WorkBegins(j)) /\ WF_vars(AbandonedEnds(j))

FairSpec ==
  /\ Spec
  /\ \A j \in Jobs : RunsFairly(j)
  /\ \A j \in Jobs \ Heavy : ThreadsFairly(j)

-----------------------------------------------------------------------------
TypeOK ==
  /\ trigger \in [Jobs -> {"set", "paused"}]
  /\ interval \in [Jobs -> 1..MaxMultiplier]
  /\ failures \in [Jobs -> 0..Threshold]
  /\ holder \in [Jobs -> Holders]
  /\ work \in [Jobs -> Works]
  /\ abandoned \in [Jobs -> Nat]
  /\ pauses \in 0..MaxPauses

(***************************************************************************)
(* A job runs at a longer interval only while it keeps failing: backoff,   *)
(* restoration and revival agree.  Jobs that are also hooks are left out:  *)
(* a hook's success resets the failures and does not restore the interval. *)
(***************************************************************************)
BackedOffOnlyWhileFailing ==
  \A j \in Jobs \ Hooked : interval[j] > 1 => failures[j] >= Threshold

(***************************************************************************)
(* No job falls silent: each that starts by its tick or as a hook is run   *)
(* again and again, whatever fails, hangs or loses its trigger.            *)
(***************************************************************************)
RunsAgain == \A j \in Jobs \ FillDriven : []<>(holder[j] = "tick")

(***************************************************************************)
(* The same of all jobs ("a run that exceeds its budget is cancelled and   *)
(* the next tick runs normally; no infinite wait", Settings).              *)
(***************************************************************************)
EveryJobRunsAgain == \A j \in Jobs : []<>(holder[j] = "tick")

(***************************************************************************)
(* Threads of heavy jobs that never return cost the others nothing: work   *)
(* of every other job is begun again and again (_HEAVY_JOBS: leaks tie up  *)
(* their own pool and leave the default pool intact), as long as that pool *)
(* has a thread for each of them.                                          *)
(***************************************************************************)
OthersWork == \A j \in Jobs \ Heavy : []<>(work[j] = "running")

(***************************************************************************)
(* A paused job is revived, at its base interval or a reschedule of its    *)
(* own (worker_liveness recovers before it judges).                        *)
(***************************************************************************)
PausedIsRevived == \A j \in Jobs : trigger[j] = "paused" ~> trigger[j] = "set"
=============================================================================
