--------------------------- MODULE LifecycleAlerts ---------------------------
(***************************************************************************)
(* The entry and exit alerts of the engine: how the worker learns that a   *)
(* position was opened or closed, how deliver_alerts turns that into one   *)
(* Telegram message, and how the alert ledger is used to collect the       *)
(* alerts nobody sent ("debts").                                           *)
(*                                                                         *)
(* Three stores take part.  The position ledger and the alert ledger are   *)
(* in SQLite and survive a restart.  The queues of WorkerManager, the      *)
(* batch deliver_alerts works on and the rule states of AlertEngine are    *)
(* memory.  The rule states are also written to notification_state.json,   *)
(* which a restart reads back.                                             *)
(*                                                                         *)
(* A rule key names an alert the way AlertCandidate.state_key does: the    *)
(* position and the identity its candidate chose.  An entry alert has one  *)
(* identity, opened_at.  A close alert is identified by its trade when the *)
(* event carries one and by closed_at otherwise.                           *)
(***************************************************************************)
EXTENDS Naturals, FiniteSets

CONSTANTS
  Positions,      \* ids of rows of the position ledger
  QueueMax,       \* _LIFECYCLE_QUEUE_MAX
  BackfillLimit,  \* alert_open_backfill_limit
  CutPoints,      \* stages of evaluate_lifecycle its hook budget may cut it at
  Environment,    \* what goes on around the job: some of "mute", "age",
                  \* "outage" (of Telegram), "save" (other alert jobs) and
                  \* "evict" (rule states missing from the saved file)
  MaxRestarts,    \* bound: restarts of the process
  MaxFaults       \* bound: restarts, and hooks that fail or run out of budget

ASSUME PositionsAssumption == IsFiniteSet(Positions)
ASSUME BoundsAssumption == /\ QueueMax \in Nat
                           /\ BackfillLimit \in Nat
                           /\ MaxRestarts \in Nat
                           /\ MaxFaults \in Nat

VARIABLES
  status,         \* position ledger: status of each row
  recent,         \* <<p, "open">>: opened_at inside the backfill window;
                  \* <<p, "closed">>: last_seen_at and closed_at inside it
  records,        \* alert ledger: number of records of each rule key
  sync,           \* the result the worker's own sync has gathered so far
  pendingCreated, \* WorkerManager._pending_created
  pendingClosed,  \* WorkerManager._pending_closed
  dropped,        \* WorkerManager._lifecycle_dropped
  stage,          \* where deliver_alerts stands
  batch,          \* what this delivery drained from the queues
  owed,           \* what this delivery collected as debt
  work,           \* rule keys evaluate_lifecycle still has to fire
  current,        \* the rule keys being sent: none or one
  cooling,        \* rule states that are no longer "armed"
  saved,          \* the same, in notification_state.json
  muted,          \* NotificationState.is_muted
  transmitted,    \* history: messages Telegram took, per rule key
  handled,        \* history: rule keys whose send returned to the engine
  jobCuts,        \* history: how often the whole job ran out of its budget
  restarts,       \* history: restarts so far
  faults          \* history: restarts and hook failures so far

ledgerVars == <<status, recent, records>>
queueVars  == <<pendingCreated, pendingClosed, dropped>>
jobVars    == <<stage, batch, owed, work, current>>
history    == <<transmitted, handled, jobCuts>>
vars == <<ledgerVars, sync, queueVars, jobVars, cooling, saved, muted,
          history, restarts, faults>>

OpenKey   == Positions \X {"opened_at"}
CloseKey  == Positions \X {"trade_id", "closed_at"}
RuleKey   == OpenKey \cup CloseKey
Opened(p) == <<p, "opened_at">>

Statuses  == {"none", "open", "closed"}
Stages    == {"idle", "owe_open", "owe_close", "ready", "context",
              "sending", "sent"}
NoEvents  == [created |-> {}, closed |-> {}]
Events    == [created : SUBSET OpenKey, closed : SUBSET CloseKey]

Init ==
  /\ status = [p \in Positions |-> "none"]
  /\ recent = {}
  /\ records = [k \in RuleKey |-> 0]
  /\ sync = NoEvents
  /\ pendingCreated = {} /\ pendingClosed = {} /\ dropped = 0
  /\ stage = "idle" /\ batch = NoEvents /\ owed = NoEvents
  /\ work = {} /\ current = {}
  /\ cooling = {} /\ saved = {}
  /\ muted = FALSE
  /\ transmitted = [k \in RuleKey |-> 0]
  /\ handled = {} /\ jobCuts = 0
  /\ restarts = 0 /\ faults = 0

-----------------------------------------------------------------------------
(* Opening and closing rows.  The worker's sync and the dashboard's sync   *)
(* run the same handler; only the worker's result ever reaches the queue.  *)

(* A row may be outside the window from the start: the exchange says when  *)
(* the position was opened, and a worker that was down for days sees late  *)
(* that it is gone.                                                        *)
Dated(p, kind) ==
  \/ recent' = recent \cup {<<p, kind>>}
  \/ "age" \in Environment /\ recent' = recent

Open(p) ==
  /\ status[p] = "none"
  /\ status' = [status EXCEPT ![p] = "open"]
  /\ Dated(p, "open")

Close(p) ==
  /\ status[p] = "open"
  /\ status' = [status EXCEPT ![p] = "closed"]
  /\ Dated(p, "closed")

(* sync_positions: the handler creates or closes a row, and remembers it   *)
(* for its return value.                                                   *)
WorkerOpens(p) ==
  /\ Open(p)
  /\ sync' = [sync EXCEPT !.created = @ \cup {Opened(p)}]
  /\ UNCHANGED <<records, queueVars, jobVars, cooling, saved, muted,
                 history, restarts, faults>>

WorkerCloses(p) ==
  /\ Close(p)
  /\ sync' = [sync EXCEPT !.closed = @ \cup {<<p, "trade_id">>}]
  /\ UNCHANGED <<records, queueVars, jobVars, cooling, saved, muted,
                 history, restarts, faults>>

(* The browser's sync, a manual exit, or a worker thread whose hook        *)
(* already timed out: the row changes and nobody queues the event.         *)
OthersOpen(p) ==
  /\ Open(p)
  /\ UNCHANGED <<records, sync, queueVars, jobVars, cooling, saved, muted,
                 history, restarts, faults>>

OthersClose(p) ==
  /\ Close(p)
  /\ UNCHANGED <<records, sync, queueVars, jobVars, cooling, saved, muted,
                 history, restarts, faults>>

(* Time passes: a position leaves the backfill window.                     *)
Age(p, kind) ==
  /\ "age" \in Environment
  /\ <<p, kind>> \in recent
  /\ recent' = recent \ {<<p, kind>>}
  /\ UNCHANGED <<status, records, sync, queueVars, jobVars, cooling, saved,
                 muted, history, restarts, faults>>

(* What _queue_lifecycle deletes from a queue that grew too long.  The     *)
(* code deletes the oldest entries; the order is not modelled.             *)
Overflow(q) == IF Cardinality(q) > QueueMax THEN Cardinality(q) - QueueMax ELSE 0
Trimmed(q)  == {q \ lost : lost \in {l \in SUBSET q : Cardinality(l) = Overflow(q)}}

(* _queue_lifecycle, called with the payload of a sync that returned.      *)
SyncReturns ==
  /\ sync # NoEvents
  /\ LET created == pendingCreated \cup sync.created
         closed  == pendingClosed \cup sync.closed
     IN /\ pendingCreated' \in Trimmed(created)
        /\ pendingClosed' \in Trimmed(closed)
        /\ dropped' = dropped + Overflow(created) + Overflow(closed)
  /\ sync' = NoEvents
  /\ UNCHANGED <<ledgerVars, jobVars, cooling, saved, muted, history,
                 restarts, faults>>

(* The sync_and_analyze hook failed or was cut: its events are gone.       *)
SyncFails ==
  /\ sync # NoEvents
  /\ faults < MaxFaults
  /\ faults' = faults + 1
  /\ sync' = NoEvents
  /\ UNCHANGED <<ledgerVars, queueVars, jobVars, cooling, saved, muted,
                 history, restarts>>

-----------------------------------------------------------------------------
(* deliver_alerts, one job run at a time.                                  *)

(* _drain_lifecycle: the queues are emptied before anything else.          *)
Drain ==
  /\ stage = "idle"
  /\ batch' = [created |-> pendingCreated, closed |-> pendingClosed]
  /\ pendingCreated' = {} /\ pendingClosed' = {}
  /\ stage' = "owe_open"
  /\ UNCHANGED <<ledgerVars, sync, dropped, owed, work, current, cooling,
                 saved, muted, history, restarts, faults>>

(* Mutant: a debt is owed whatever the alert ledger says.                  *)
OwesOpenWhateverRecorded(p) ==
  /\ status[p] = "open"
  /\ <<p, "open">> \in recent

(* positions_owing_open_alert and positions_owing_close_alert: rows whose  *)
(* alert is in no record of the ledger, whatever was queued for them.      *)
OwesOpen(p)  == /\ status[p] = "open"
                /\ <<p, "open">> \in recent
                /\ records[Opened(p)] = 0
OwesClose(p) == /\ status[p] = "closed"
                /\ <<p, "closed">> \in recent
                /\ records[<<p, "trade_id">>] + records[<<p, "closed_at">>] = 0

(* At most BackfillLimit of them in one cycle; which, is left open.        *)
Limited(S) ==
  {r \in SUBSET S : Cardinality(r) =
     IF Cardinality(S) > BackfillLimit THEN BackfillLimit ELSE Cardinality(S)}

(* Mutant: only what the worker's own sync created is collected.           *)
CollectOpenNothing ==
  /\ stage = "owe_open"
  /\ stage' = "owe_close"
  /\ UNCHANGED <<ledgerVars, sync, queueVars, batch, owed, work, current,
                 cooling, saved, muted, history, restarts, faults>>

(* Both lookups are hooks of their own: one that fails yields no debt.     *)
CollectOpen ==
  /\ stage = "owe_open"
  /\ \E debtors \in Limited({p \in Positions : OwesOpen(p)}) :
       owed' = [owed EXCEPT !.created = {Opened(p) : p \in debtors} \ batch.created]
  /\ stage' = "owe_close"
  /\ UNCHANGED <<ledgerVars, sync, queueVars, batch, work, current, cooling,
                 saved, muted, history, restarts, faults>>

QueuedIds == {k[1] : k \in batch.closed}

(* Mutant: the closed rows are looked up, and none is merged.              *)
CollectCloseUnmerged ==
  /\ stage = "owe_close"
  /\ stage' = "ready"
  /\ UNCHANGED <<ledgerVars, sync, queueVars, batch, owed, work, current,
                 cooling, saved, muted, history, restarts, faults>>

CollectClose ==
  /\ stage = "owe_close"
  /\ \E debtors \in Limited({p \in Positions : OwesClose(p)}) :
       owed' = [owed EXCEPT
                  !.closed = {<<p, "closed_at">> : p \in debtors \ QueuedIds}]
  /\ stage' = "ready"
  /\ UNCHANGED <<ledgerVars, sync, queueVars, batch, work, current, cooling,
                 saved, muted, history, restarts, faults>>

CollectFails ==
  /\ stage \in {"owe_open", "owe_close"}
  /\ faults < MaxFaults
  /\ faults' = faults + 1
  /\ stage' = IF stage = "owe_open" THEN "owe_close" ELSE "ready"
  /\ UNCHANGED <<ledgerVars, sync, queueVars, batch, owed, work, current,
                 cooling, saved, muted, history, restarts>>

(* evaluate_lifecycle returns 0 at once when alerts are muted.  0 is not   *)
(* None: the drained events are not put back.                              *)
EvaluateMuted ==
  /\ stage = "ready"
  /\ muted
  /\ stage' = "idle"
  /\ batch' = NoEvents /\ owed' = NoEvents
  /\ UNCHANGED <<ledgerVars, sync, queueVars, work, current, cooling, saved,
                 muted, history, restarts, faults>>

(* Mutant: the rule states are set before the contexts are fetched.        *)
EvaluateCoolsFirst ==
  /\ stage = "ready"
  /\ ~muted
  /\ work' = batch.created \cup owed.created \cup batch.closed \cup owed.closed
  /\ cooling' = cooling \cup work'
  /\ stage' = "context"
  /\ UNCHANGED <<ledgerVars, sync, queueVars, batch, owed, current, saved,
                 muted, history, restarts, faults>>

Evaluate ==
  /\ stage = "ready"
  /\ ~muted
  /\ work' = batch.created \cup owed.created \cup batch.closed \cup owed.closed
  /\ stage' = "context"
  /\ UNCHANGED <<ledgerVars, sync, queueVars, batch, owed, current, cooling,
                 saved, muted, history, restarts, faults>>

(* Entries are fired before exits.                                         *)
Turn(k) ==
  /\ stage = "context"
  /\ k \in work
  /\ k \in CloseKey => work \cap OpenKey = {}

(* _fire_if_allowed drops a candidate whose rule state is not armed.       *)
FireDropped(k) ==
  /\ Turn(k)
  /\ k \in cooling
  /\ work' = work \ {k}
  /\ UNCHANGED <<ledgerVars, sync, queueVars, stage, batch, owed, current,
                 cooling, saved, muted, history, restarts, faults>>

(* Mutant: the rule state is not looked at.                                *)
FireStartsUnchecked(k) ==
  /\ Turn(k)
  /\ cooling' = cooling \cup {k}
  /\ current' = {k}
  /\ work' = work \ {k}
  /\ stage' = "sending"
  /\ UNCHANGED <<ledgerVars, sync, queueVars, batch, owed, saved, muted,
                 history, restarts, faults>>

(* The rule state is set to "cooldown" before the message is awaited.      *)
FireStarts(k) ==
  /\ Turn(k)
  /\ k \notin cooling
  /\ cooling' = cooling \cup {k}
  /\ current' = {k}
  /\ work' = work \ {k}
  /\ stage' = "sending"
  /\ UNCHANGED <<ledgerVars, sync, queueVars, batch, owed, saved, muted,
                 history, restarts, faults>>

(* send_to_all.  Telegram takes the message or the three attempts fail.    *)
Transmit ==
  /\ stage = "sending"
  /\ \E took \in IF "outage" \in Environment THEN BOOLEAN ELSE {TRUE} :
       transmitted' = [k \in RuleKey |->
          IF took /\ k \in current THEN transmitted[k] + 1 ELSE transmitted[k]]
  /\ stage' = "sent"
  /\ UNCHANGED <<ledgerVars, sync, queueVars, batch, owed, work, current,
                 cooling, saved, muted, handled, jobCuts, restarts, faults>>

(* After the await: the ledger record (delivered or not), the redelivery   *)
(* list for a failed one, and the saved state.  No await in between.       *)
Record ==
  /\ stage = "sent"
  /\ records' = [k \in RuleKey |->
       IF k \in current THEN records[k] + 1 ELSE records[k]]
  /\ handled' = handled \cup current
  /\ saved' = cooling
  /\ current' = {}
  /\ stage' = "context"
  /\ UNCHANGED <<status, recent, sync, queueVars, batch, owed, work, cooling,
                 muted, transmitted, jobCuts, restarts, faults>>

EvaluateEnds ==
  /\ stage = "context"
  /\ work = {}
  /\ saved' = cooling
  /\ stage' = "idle"
  /\ batch' = NoEvents /\ owed' = NoEvents
  /\ UNCHANGED <<ledgerVars, sync, queueVars, work, current, cooling, muted,
                 history, restarts, faults>>

(* Between two candidates the coroutine only awaits the context of an      *)
(* entry alert, and after the last one those of all open positions.        *)
AwaitsContext == work \cap OpenKey # {} \/ work = {}

(* Mutant: a hook that died is not noticed, nothing is put back.           *)
HookCutForgets ==
  /\ stage \in CutPoints \cap {"context", "sending", "sent"}
  /\ stage = "context" => AwaitsContext
  /\ faults < MaxFaults
  /\ faults' = faults + 1
  /\ stage' = "idle"
  /\ batch' = NoEvents /\ owed' = NoEvents /\ work' = {} /\ current' = {}
  /\ UNCHANGED <<ledgerVars, sync, queueVars, cooling, saved, muted, history,
                 restarts>>

(* Mutant: the two queues are swapped on the way back.                     *)
HookCutSwaps ==
  /\ stage \in CutPoints \cap {"context", "sending", "sent"}
  /\ stage = "context" => AwaitsContext
  /\ faults < MaxFaults
  /\ faults' = faults + 1
  /\ pendingCreated' = batch.closed \cup pendingCreated
  /\ pendingClosed' = batch.created \cup pendingClosed
  /\ stage' = "idle"
  /\ batch' = NoEvents /\ owed' = NoEvents /\ work' = {} /\ current' = {}
  /\ UNCHANGED <<ledgerVars, sync, dropped, cooling, saved, muted, history,
                 restarts>>

(* The evaluate_lifecycle hook is cut by its budget, or dies of an         *)
(* exception: _run_hook yields None and the drained events go back to the  *)
(* queues.                                                                 *)
HookCut ==
  /\ stage \in CutPoints \cap {"context", "sending", "sent"}
  /\ stage = "context" => AwaitsContext
  /\ faults < MaxFaults
  /\ faults' = faults + 1
  /\ pendingCreated' = batch.created \cup pendingCreated
  /\ pendingClosed' = batch.closed \cup pendingClosed
  /\ stage' = "idle"
  /\ batch' = NoEvents /\ owed' = NoEvents /\ work' = {} /\ current' = {}
  /\ UNCHANGED <<ledgerVars, sync, dropped, cooling, saved, muted, history,
                 restarts>>

(* The budget of deliver_alerts itself runs out, in whichever hook it is.  *)
(* The cancellation passes through _run_hook: nothing is put back.         *)
JobCut ==
  /\ stage \in {"owe_open", "owe_close", "ready"} \cup CutPoints
  /\ stage # "idle"
  /\ faults < MaxFaults
  /\ faults' = faults + 1
  /\ jobCuts' = jobCuts + 1
  /\ stage' = "idle"
  /\ batch' = NoEvents /\ owed' = NoEvents /\ work' = {} /\ current' = {}
  /\ UNCHANGED <<ledgerVars, sync, queueVars, cooling, saved, muted, transmitted,
                 handled, restarts>>

-----------------------------------------------------------------------------
(* The rest of the process.                                                *)

(* Another alert job finishes a send of its own and saves the state that   *)
(* all jobs share.                                                         *)
OtherJobSaves ==
  /\ "save" \in Environment
  /\ saved # cooling
  /\ saved' = cooling
  /\ UNCHANGED <<ledgerVars, sync, queueVars, jobVars, cooling, muted,
                 history, restarts, faults>>

ToggleMute ==
  /\ "mute" \in Environment
  /\ muted' = ~muted
  /\ UNCHANGED <<ledgerVars, sync, queueVars, jobVars, cooling, saved,
                 history, restarts, faults>>

(* The process dies and is started again.  _retained_rule_states may have  *)
(* evicted any rule state from the file, and a file that cannot be read    *)
(* is an empty one.                                                        *)
Restart ==
  /\ restarts < MaxRestarts
  /\ faults < MaxFaults
  /\ restarts' = restarts + 1
  /\ faults' = faults + 1
  /\ sync' = NoEvents
  /\ pendingCreated' = {} /\ pendingClosed' = {} /\ dropped' = 0
  /\ stage' = "idle" /\ batch' = NoEvents /\ owed' = NoEvents
  /\ work' = {} /\ current' = {}
  /\ cooling' \in IF "evict" \in Environment THEN SUBSET saved ELSE {saved}
  /\ UNCHANGED <<ledgerVars, saved, muted, history>>

Deliver ==
  \/ Drain \/ CollectOpen \/ CollectClose
  \/ EvaluateMuted \/ Evaluate
  \/ \E k \in RuleKey : FireDropped(k) \/ FireStarts(k)
  \/ Transmit \/ Record \/ EvaluateEnds

Next ==
  \/ \E p \in Positions :
       \/ WorkerOpens(p) \/ WorkerCloses(p)
       \/ OthersOpen(p) \/ OthersClose(p)
       \/ \E kind \in {"open", "closed"} : Age(p, kind)
  \/ SyncReturns \/ SyncFails
  \/ Deliver
  \/ CollectFails \/ HookCut \/ JobCut
  \/ OtherJobSaves \/ ToggleMute \/ Restart

Spec == Init /\ [][Next]_vars

(* deliver_alerts is scheduled forever and each of its awaits ends.        *)
FairSpec == Spec /\ WF_vars(Deliver)

-----------------------------------------------------------------------------
TypeOK ==
  /\ status \in [Positions -> Statuses]
  /\ recent \subseteq Positions \X {"open", "closed"}
  /\ records \in [RuleKey -> Nat]
  /\ sync \in Events
  /\ pendingCreated \subseteq OpenKey
  /\ pendingClosed \subseteq CloseKey
  /\ dropped \in Nat
  /\ stage \in Stages
  /\ batch \in Events
  /\ owed \in Events
  /\ work \subseteq RuleKey
  /\ current \subseteq RuleKey
  /\ cooling \subseteq RuleKey
  /\ saved \subseteq RuleKey
  /\ muted \in BOOLEAN
  /\ transmitted \in [RuleKey -> Nat]
  /\ handled \subseteq RuleKey
  /\ jobCuts \in Nat
  /\ restarts \in 0..MaxRestarts
  /\ faults \in 0..MaxFaults

(***************************************************************************)
(* A message is never sent twice by one life of the process: the rule      *)
(* state is set before the message is awaited, requeued and collected      *)
(* duplicates meet it, and only a restart can forget it.                   *)
(***************************************************************************)
SentOncePerLife == \A k \in RuleKey : transmitted[k] <= 1 + restarts

(***************************************************************************)
(* The entry debt of a position is settled in the alert ledger at most     *)
(* once, over restarts, cuts, lost rule states and competing syncs: the    *)
(* queue, the debts and the rule states never disagree so far that         *)
(* positions_owing_open_alert settles it again.                            *)
(***************************************************************************)
OpenSettledOnce == \A p \in Positions : records[Opened(p)] <= 1

(***************************************************************************)
(* The alert pipeline implements OpenDebt: the debt of a position is owed  *)
(* while it has a row and no record, settled when it has its one record.   *)
(***************************************************************************)
DebtOf(p) ==
  CASE status[p] = "none"                                -> "none"
    [] status[p] # "none" /\ records[Opened(p)] = 0      -> "owed"
    [] status[p] # "none" /\ records[Opened(p)] = 1      -> "settled"
    [] OTHER                                             -> "settled twice"

DebtMap == [p \in Positions |-> DebtOf(p)]
Debt == INSTANCE OpenDebt WITH debt <- DebtMap

ImplementsOpenDebt == Debt!Spec

(***************************************************************************)
(* An alert whose rule state is no longer armed was sent, or put on the    *)
(* redelivery list, or is being sent.  Nothing ever re-arms a lifecycle    *)
(* rule, so an alert outside this invariant can never be sent again, while *)
(* positions_owing_open_alert promises that an alert not sent is a debt    *)
(* the next cycle pays.                                                    *)
(***************************************************************************)
SuppressedIsAccounted == cooling \subseteq handled \cup current

(***************************************************************************)
(* A close is announced to the user once (in a life of the process without *)
(* restarts): test_close_alert_backfill says that announcing the same      *)
(* close twice breaks trust.                                               *)
(***************************************************************************)
CloseAnnouncedOnce ==
  \A p \in Positions :
    transmitted[<<p, "trade_id">>] + transmitted[<<p, "closed_at">>] <= 1 + restarts

(***************************************************************************)
(* What deliver_alerts took from the queues is not forgotten: an event     *)
(* leaves queue and batch only once its rule was fired, except when alerts *)
(* are muted, the queue overflows (and counts it), the whole job is cut or *)
(* the process restarts.  This is what _requeue_lifecycle is for.          *)
(***************************************************************************)
Carried == pendingCreated \cup pendingClosed \cup batch.created \cup batch.closed

DrainedNotForgotten ==
  [][ \/ Carried \subseteq Carried' \cup cooling'
      \/ EvaluateMuted
      \/ dropped' > dropped \/ jobCuts' > jobCuts \/ restarts' > restarts ]_vars

(***************************************************************************)
(* Debts are paid: an open position inside the window whose entry alert is *)
(* in no record is eventually handled by a send that returned, unless      *)
(* alerts are muted, it leaves the window or it is closed first - whoever  *)
(* created its row, and whatever became of the event.                      *)
(***************************************************************************)
OpenDebtPaid ==
  \A p \in Positions :
    OwesOpen(p) ~> (Opened(p) \in handled \/ ~OwesOpen(p) \/ muted)

(***************************************************************************)
(* The same for the close alert of a closed position.                      *)
(***************************************************************************)
CloseDebtPaid ==
  \A p \in Positions :
    OwesClose(p) ~> (~OwesClose(p) \/ muted)
=============================================================================
