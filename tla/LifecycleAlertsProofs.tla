------------------------- MODULE LifecycleAlertsProofs -------------------------
(***************************************************************************)
(* Proofs about LifecycleAlerts, for every set of positions, queue length, *)
(* backfill limit, environment and number of faults.                       *)
(*                                                                         *)
(* Four invariants are proved one after the other, each by a lemma for     *)
(* Init, a lemma for [Next]_vars with a step per action, and the temporal  *)
(* theorem:                                                                *)
(*   TypeOK   the types;                                                   *)
(*   SentInv  what JobInv says of the message being sent makes             *)
(*            SentOncePerLife inductive;                                   *)
(*   OpenInv  what is carried towards the engine, and what the rule states *)
(*            say of it, makes OpenSettledOnce inductive, and gives the    *)
(*            refinement of OpenDebt;                                      *)
(*   BatchInv what became of the drained events, for DrainedNotForgotten.  *)
(* A fifth, AccountedInv, makes SuppressedIsAccounted inductive under two  *)
(* hypotheses about when cuts and saves come (SendsFinish, SavedAtRest).   *)
(* Under the same two the last section proves that debts are paid.         *)
(***************************************************************************)
EXTENDS LifecycleAlerts, TLAPS, FiniteSetTheorems

(* Where deliver_alerts is while a message is being sent.                  *)
JobInv ==
  /\ stage \in {"sending", "sent"} => \E k \in RuleKey : current = {k}
  /\ stage \notin {"sending", "sent"} => current = {}
  /\ current \subseteq cooling

(* A message whose rule is armed was sent by earlier lives of the process  *)
(* only, and so was the one about to be sent.                              *)
SentInv ==
  /\ SentOncePerLife
  /\ \A k \in RuleKey : k \notin cooling => transmitted[k] <= restarts
  /\ \A k \in RuleKey :
       stage = "sending" /\ k \in current => transmitted[k] <= restarts

(* The entry alerts on their way from a sync to the engine.                *)
Underway ==
  sync.created \cup pendingCreated \cup batch.created \cup owed.created \cup work

OpenInv ==
  /\ OpenSettledOnce
  /\ \A p \in Positions : status[p] = "none" => records[Opened(p)] = 0
  /\ \A p \in Positions : Opened(p) \in Underway \cup current => status[p] # "none"
  /\ \A p \in Positions :
       Opened(p) \in Underway /\ records[Opened(p)] > 0 => Opened(p) \in cooling
  /\ \A p \in Positions : Opened(p) \in current => records[Opened(p)] = 0

(* What evaluate_lifecycle was given is still to be fired, or its rule is  *)
(* not armed; between two deliveries there is no batch.                    *)
Evaluating == stage \in {"context", "sending", "sent"}

BatchInv ==
  /\ stage = "idle" => batch = NoEvents
  /\ Evaluating => batch.created \cup batch.closed \subseteq work \cup cooling

-----------------------------------------------------------------------------
(* Keys.                                                                   *)

LEMMA KeysFinite == IsFiniteSet(OpenKey) /\ IsFiniteSet(CloseKey)
<1>1. IsFiniteSet({"opened_at"}) /\ IsFiniteSet({"trade_id"} \cup {"closed_at"})
  BY FS_Singleton, FS_Union
<1>2. {"trade_id"} \cup {"closed_at"} = {"trade_id", "closed_at"}
  OBVIOUS
<1> QED
  BY <1>1, <1>2, FS_Product, PositionsAssumption DEF OpenKey, CloseKey

(* How much a queue of distinct keys overflows is a number.                *)
LEMMA OverflowType ==
  ASSUME NEW q, q \subseteq OpenKey \/ q \subseteq CloseKey
  PROVE  Overflow(q) \in Nat
<1>1. IsFiniteSet(q)
  BY KeysFinite, FS_Subset
<1>2. Cardinality(q) \in Nat
  BY <1>1, FS_CardinalityType
<1> QED
  BY <1>2, BoundsAssumption DEF Overflow

(* An entry alert has one key, and no close alert has it.                  *)
LEMMA OpenKeys ==
  /\ \A p \in Positions : Opened(p) \in OpenKey /\ Opened(p) \in RuleKey
  /\ \A k \in OpenKey : \E p \in Positions : k = Opened(p)
  /\ \A p, q \in Positions : Opened(p) = Opened(q) => p = q
  /\ OpenKey \subseteq RuleKey /\ CloseKey \subseteq RuleKey
  /\ \A p \in Positions : Opened(p) \notin CloseKey
BY DEF Opened, OpenKey, CloseKey, RuleKey

-----------------------------------------------------------------------------
(* Types.                                                                  *)

LEMMA TypeInit == Init => TypeOK
<1> SUFFICES ASSUME Init PROVE TypeOK
  OBVIOUS
<1>1. NoEvents \in Events
  BY DEF NoEvents, Events
<1>2. 0 \in 0..MaxRestarts /\ 0 \in 0..MaxFaults
  BY BoundsAssumption
<1>3. status \in [Positions -> Statuses] /\ stage \in Stages
  BY DEF Init, Statuses, Stages
<1>4. records \in [RuleKey -> Nat] /\ transmitted \in [RuleKey -> Nat]
  BY DEF Init
<1> QED
  BY <1>1, <1>2, <1>3, <1>4 DEF Init, TypeOK

LEMMA TypeNext == TypeOK /\ [Next]_vars => TypeOK'
<1> SUFFICES ASSUME TypeOK, [Next]_vars PROVE TypeOK'
  OBVIOUS
<1> USE DEF TypeOK, ledgerVars, queueVars, jobVars, history
<1>1. ASSUME NEW p \in Positions, WorkerOpens(p) PROVE TypeOK'
  BY <1>1, OpenKeys DEF WorkerOpens, Open, Dated, Statuses, Events
<1>2. ASSUME NEW p \in Positions, WorkerCloses(p) PROVE TypeOK'
  BY <1>2 DEF WorkerCloses, Close, Dated, Statuses, Events, CloseKey
<1>3. ASSUME NEW p \in Positions, OthersOpen(p) PROVE TypeOK'
  BY <1>3 DEF OthersOpen, Open, Dated, Statuses
<1>4. ASSUME NEW p \in Positions, OthersClose(p) PROVE TypeOK'
  BY <1>4 DEF OthersClose, Close, Dated, Statuses
<1>5. ASSUME NEW p \in Positions, NEW kind \in {"open", "closed"}, Age(p, kind)
      PROVE TypeOK'
  BY <1>5 DEF Age
<1>6. CASE SyncReturns
  <2> DEFINE created == pendingCreated \cup sync.created
             closed  == pendingClosed \cup sync.closed
  <2>1. created \subseteq OpenKey /\ closed \subseteq CloseKey
    BY DEF Events
  <2>2. Overflow(created) \in Nat /\ Overflow(closed) \in Nat
    BY <2>1, OverflowType
  <2>3. pendingCreated' \subseteq OpenKey /\ pendingClosed' \subseteq CloseKey
    BY <1>6, <2>1 DEF SyncReturns, Trimmed
  <2>4. dropped' = dropped + Overflow(created) + Overflow(closed)
    BY <1>6 DEF SyncReturns
  <2>5. dropped' \in Nat
    BY <2>2, <2>4
  <2>6. sync' \in Events
    BY <1>6 DEF SyncReturns, Events, NoEvents
  <2> QED
    BY <1>6, <2>3, <2>5, <2>6 DEF SyncReturns
<1>7. CASE SyncFails
  BY <1>7, BoundsAssumption DEF SyncFails, Events, NoEvents
<1>8. CASE Drain
  BY <1>8 DEF Drain, Events, Stages
<1>9. CASE CollectOpen
  <2>1. PICK debtors \in Limited({p \in Positions : OwesOpen(p)}) :
          owed' = [owed EXCEPT !.created = {Opened(p) : p \in debtors} \ batch.created]
    BY <1>9 DEF CollectOpen
  <2>2. debtors \subseteq Positions
    BY <2>1 DEF Limited
  <2>3. owed' \in Events
    BY <2>1, <2>2, OpenKeys DEF Events
  <2> QED
    BY <1>9, <2>3 DEF CollectOpen, Stages
<1>10. CASE CollectClose
  <2>1. PICK debtors \in Limited({p \in Positions : OwesClose(p)}) :
          owed' = [owed EXCEPT
                     !.closed = {<<p, "closed_at">> : p \in debtors \ QueuedIds}]
    BY <1>10 DEF CollectClose
  <2>2. debtors \subseteq Positions
    BY <2>1 DEF Limited
  <2>3. owed' \in Events
    BY <2>1, <2>2 DEF Events, CloseKey
  <2> QED
    BY <1>10, <2>3 DEF CollectClose, Stages
<1>11. CASE CollectFails
  BY <1>11, BoundsAssumption DEF CollectFails, Stages
<1>12. CASE EvaluateMuted
  BY <1>12 DEF EvaluateMuted, Events, NoEvents, Stages
<1>13. CASE Evaluate
  BY <1>13, OpenKeys DEF Evaluate, Events, Stages
<1>14. ASSUME NEW k \in RuleKey, FireDropped(k) PROVE TypeOK'
  BY <1>14 DEF FireDropped
<1>15. ASSUME NEW k \in RuleKey, FireStarts(k) PROVE TypeOK'
  BY <1>15 DEF FireStarts, Stages
<1>16. CASE Transmit
  BY <1>16 DEF Transmit, Stages
<1>17. CASE Record
  BY <1>17 DEF Record, Stages
<1>18. CASE EvaluateEnds
  BY <1>18 DEF EvaluateEnds, Events, NoEvents, Stages
<1>19. CASE HookCut
  BY <1>19, BoundsAssumption DEF HookCut, Events, NoEvents, Stages
<1>20. CASE JobCut
  BY <1>20, BoundsAssumption DEF JobCut, Events, NoEvents, Stages
<1>21. CASE OtherJobSaves
  BY <1>21 DEF OtherJobSaves
<1>22. CASE ToggleMute
  BY <1>22 DEF ToggleMute
<1>23. CASE Restart
  BY <1>23, BoundsAssumption DEF Restart, Events, NoEvents, Stages
<1>24. CASE UNCHANGED vars
  BY <1>24 DEF vars
<1> QED
  BY <1>1, <1>2, <1>3, <1>4, <1>5, <1>6, <1>7, <1>8, <1>9, <1>10, <1>11,
     <1>12, <1>13, <1>14, <1>15, <1>16, <1>17, <1>18, <1>19, <1>20, <1>21,
     <1>22, <1>23, <1>24 DEF Next, Deliver

(* The types hold of every behaviour, whatever the constants are.          *)
THEOREM TypeCorrect == Spec => []TypeOK
BY TypeInit, TypeNext, PTL DEF Spec

-----------------------------------------------------------------------------
(* Messages.                                                               *)

LEMMA JobInit == Init => JobInv
BY DEF Init, JobInv

LEMMA JobNext == TypeOK /\ JobInv /\ [Next]_vars => JobInv'
<1> SUFFICES ASSUME TypeOK, JobInv, [Next]_vars PROVE JobInv'
  OBVIOUS
<1> USE DEF JobInv, ledgerVars, queueVars, jobVars, history
<1>1. ASSUME UNCHANGED <<stage, current, cooling>> PROVE JobInv'
  BY <1>1
<1>2. ASSUME stage \notin {"sending", "sent"}, stage' \notin {"sending", "sent"},
             UNCHANGED <<current, cooling>>
      PROVE  JobInv'
  BY <1>2
<1>3. ASSUME stage' \notin {"sending", "sent"}, current' = {} PROVE JobInv'
  BY <1>3
<1>4. ASSUME NEW p \in Positions,
             \/ WorkerOpens(p) \/ WorkerCloses(p) \/ OthersOpen(p) \/ OthersClose(p)
             \/ \E kind \in {"open", "closed"} : Age(p, kind)
      PROVE  JobInv'
  BY <1>4, <1>1 DEF WorkerOpens, WorkerCloses, OthersOpen, OthersClose, Age
<1>5. ASSUME SyncReturns \/ SyncFails \/ OtherJobSaves \/ ToggleMute PROVE JobInv'
  BY <1>5, <1>1 DEF SyncReturns, SyncFails, OtherJobSaves, ToggleMute
<1>6. ASSUME Drain \/ CollectOpen \/ CollectClose \/ CollectFails
               \/ EvaluateMuted \/ Evaluate \/ EvaluateEnds
      PROVE  JobInv'
  BY <1>6, <1>2 DEF Drain, CollectOpen, CollectClose, CollectFails,
                    EvaluateMuted, Evaluate, EvaluateEnds
<1>7. ASSUME NEW k \in RuleKey, FireDropped(k) PROVE JobInv'
  BY <1>7, <1>1 DEF FireDropped
<1>8. ASSUME NEW k \in RuleKey, FireStarts(k) PROVE JobInv'
  BY <1>8 DEF FireStarts
<1>9. CASE Transmit
  BY <1>9 DEF Transmit
<1>10. ASSUME Record \/ HookCut \/ JobCut \/ Restart PROVE JobInv'
  BY <1>10, <1>3 DEF Record, HookCut, JobCut, Restart
<1>11. CASE UNCHANGED vars
  BY <1>11, <1>1 DEF vars
<1> QED
  BY <1>4, <1>5, <1>6, <1>7, <1>8, <1>9, <1>10, <1>11 DEF Next, Deliver

LEMMA SentInit == Init => SentInv
BY DEF Init, SentInv, SentOncePerLife

LEMMA SentNext == TypeOK /\ JobInv /\ SentInv /\ [Next]_vars => SentInv'
<1> SUFFICES ASSUME TypeOK, JobInv, SentInv, [Next]_vars PROVE SentInv'
  OBVIOUS
<1>0. restarts \in Nat /\ \A k \in RuleKey : transmitted[k] \in Nat
  BY BoundsAssumption DEF TypeOK
<1> USE DEF SentInv, SentOncePerLife, ledgerVars, queueVars, jobVars, history
<1>1. ASSUME UNCHANGED <<transmitted, restarts, cooling>>, stage' # "sending"
      PROVE  SentInv'
  BY <1>1
<1>2. ASSUME UNCHANGED <<transmitted, restarts, cooling, stage, current>>
      PROVE  SentInv'
  BY <1>2
<1>3. ASSUME NEW p \in Positions,
             \/ WorkerOpens(p) \/ WorkerCloses(p) \/ OthersOpen(p) \/ OthersClose(p)
             \/ \E kind \in {"open", "closed"} : Age(p, kind)
      PROVE  SentInv'
  BY <1>3, <1>2 DEF WorkerOpens, WorkerCloses, OthersOpen, OthersClose, Age
<1>4. ASSUME SyncReturns \/ SyncFails \/ OtherJobSaves \/ ToggleMute PROVE SentInv'
  BY <1>4, <1>2 DEF SyncReturns, SyncFails, OtherJobSaves, ToggleMute
<1>5. ASSUME Drain \/ CollectOpen \/ CollectClose \/ CollectFails
               \/ EvaluateMuted \/ Evaluate \/ EvaluateEnds
               \/ Record \/ HookCut \/ JobCut
      PROVE  SentInv'
  BY <1>5, <1>1 DEF Drain, CollectOpen, CollectClose, CollectFails,
                    EvaluateMuted, Evaluate, EvaluateEnds, Record, HookCut, JobCut
<1>6. ASSUME NEW k \in RuleKey, FireDropped(k) PROVE SentInv'
  BY <1>6, <1>2 DEF FireDropped
<1>7. ASSUME NEW k \in RuleKey, FireStarts(k) PROVE SentInv'
  BY <1>7 DEF FireStarts
<1>8. CASE Transmit
  (* Only the rule being sent gains a message, and it is not armed.        *)
  <2>1. PICK took \in BOOLEAN : transmitted' = [k \in RuleKey |->
          IF took /\ k \in current THEN transmitted[k] + 1 ELSE transmitted[k]]
    BY <1>8 DEF Transmit
  <2>2. stage = "sending" /\ stage' = "sent" /\ UNCHANGED <<cooling, restarts>>
    BY <1>8 DEF Transmit
  <2>3. \A k \in RuleKey : k \in current => transmitted'[k] <= 1 + restarts
    BY <1>0, <2>1, <2>2
  <2>4. \A k \in RuleKey : k \notin current => transmitted'[k] = transmitted[k]
    BY <2>1
  <2>5. current \subseteq cooling
    BY DEF JobInv
  <2> QED
    BY <2>2, <2>3, <2>4, <2>5
<1>9. CASE Restart
  (* Whatever the rule states forget, there is one more life to send in.   *)
  <2>1. transmitted' = transmitted /\ restarts' = restarts + 1 /\ stage' = "idle"
    BY <1>9 DEF Restart
  <2> QED
    BY <1>0, <2>1
<1>10. CASE UNCHANGED vars
  BY <1>10, <1>2 DEF vars
<1> QED
  BY <1>3, <1>4, <1>5, <1>6, <1>7, <1>8, <1>9, <1>10 DEF Next, Deliver

LEMMA SentCorrect == Spec => [](JobInv /\ SentInv)
<1>1. Init => JobInv /\ SentInv
  BY JobInit, SentInit
<1>2. TypeOK /\ JobInv /\ SentInv /\ [Next]_vars => (JobInv /\ SentInv)'
  BY JobNext, SentNext
<1> QED
  BY <1>1, <1>2, TypeCorrect, PTL DEF Spec

(* No life of the process sends one message twice, whatever is requeued,   *)
(* collected as a debt, cut, muted or evicted in between.                  *)
THEOREM MessageSentOncePerLife == Spec => []SentOncePerLife
<1>1. SentInv => SentOncePerLife
  BY DEF SentInv
<1> QED
  BY <1>1, SentCorrect, PTL

-----------------------------------------------------------------------------
(* Entry debts.                                                            *)

LEMMA OpenInit == Init => OpenInv
<1> SUFFICES ASSUME Init PROVE OpenInv
  OBVIOUS
<1>1. \A p \in Positions : records[Opened(p)] = 0
  BY OpenKeys DEF Init
<1>2. Underway = {} /\ current = {}
  BY DEF Init, Underway, NoEvents
<1> QED
  BY <1>1, <1>2 DEF OpenInv, OpenSettledOnce

(* Most actions record nothing, and carry only what was on its way or      *)
(* belongs to a position with a row and no record.                         *)
LEMMA OpenCarried ==
  ASSUME OpenInv,
         records' = records,
         cooling \subseteq cooling' \/ Underway' = {},
         \A p \in Positions : status[p] # "none" => status'[p] # "none",
         \A p \in Positions : Opened(p) \in Underway' =>
           \/ Opened(p) \in Underway
           \/ status'[p] # "none" /\ records[Opened(p)] = 0,
         \A p \in Positions : Opened(p) \in current' =>
           Opened(p) \in Underway \cup current /\ records[Opened(p)] = 0
  PROVE  OpenInv'
<1>1. \A p \in Positions : status'[p] = "none" => records'[Opened(p)] = 0
  BY DEF OpenInv
<1>2. \A p \in Positions : Opened(p) \in Underway' \cup current' => status'[p] # "none"
  BY DEF OpenInv
<1>3. \A p \in Positions :
        Opened(p) \in Underway' /\ records'[Opened(p)] > 0 => Opened(p) \in cooling'
  BY DEF OpenInv
<1>4. OpenSettledOnce'
  BY DEF OpenInv, OpenSettledOnce
<1> QED
  BY <1>1, <1>2, <1>3, <1>4 DEF OpenInv

LEMMA OpenNext == TypeOK /\ JobInv /\ OpenInv /\ [Next]_vars => OpenInv'
<1> SUFFICES ASSUME TypeOK, JobInv, OpenInv, [Next]_vars PROVE OpenInv'
  OBVIOUS
<1> USE DEF Underway, ledgerVars, queueVars, jobVars, history
<1>0. \A p \in Positions : records[Opened(p)] \in Nat
  BY OpenKeys DEF TypeOK
<1>1. \A p \in Positions : Opened(p) \in current => records[Opened(p)] = 0
  BY DEF OpenInv
<1>2. ASSUME NEW p \in Positions, WorkerOpens(p) PROVE OpenInv'
  (* The one alert that joins is that of a row that did not exist before.  *)
  <2>1. status[p] = "none" /\ status' = [status EXCEPT ![p] = "open"]
    BY <1>2 DEF WorkerOpens, Open
  <2>2. status'[p] = "open" /\ records[Opened(p)] = 0
    BY <2>1 DEF TypeOK, OpenInv
  <2>3. Underway' = Underway \cup {Opened(p)}
    BY <1>2 DEF WorkerOpens, TypeOK, Events
  <2>4. \A q \in Positions : Opened(q) \in Underway' => Opened(q) \in Underway \/ q = p
    BY <2>3, OpenKeys
  <2>5. \A q \in Positions : status[q] # "none" => status'[q] # "none"
    BY <2>1 DEF TypeOK
  <2>6. UNCHANGED <<records, cooling, current>>
    BY <1>2 DEF WorkerOpens
  <2> QED
    BY <1>1, <2>2, <2>4, <2>5, <2>6, OpenCarried
<1>3. ASSUME NEW p \in Positions, WorkerCloses(p) PROVE OpenInv'
  <2>1. \A q \in Positions : status[q] # "none" => status'[q] # "none"
    BY <1>3 DEF WorkerCloses, Close, TypeOK
  <2>2. UNCHANGED <<records, cooling, current>>
    BY <1>3 DEF WorkerCloses
  <2>3. Underway' = Underway
    BY <1>3 DEF WorkerCloses, TypeOK, Events
  <2> QED
    BY <1>1, <2>1, <2>2, <2>3, OpenCarried
<1>4. ASSUME NEW p \in Positions, OthersOpen(p) \/ OthersClose(p) PROVE OpenInv'
  <2>1. \A q \in Positions : status[q] # "none" => status'[q] # "none"
    BY <1>4 DEF OthersOpen, OthersClose, Open, Close, TypeOK
  <2>2. UNCHANGED <<records, cooling, current>> /\ Underway' = Underway
    BY <1>4 DEF OthersOpen, OthersClose
  <2> QED
    BY <1>1, <2>1, <2>2, OpenCarried
<1>5. ASSUME UNCHANGED <<records, cooling, status>>,
             Underway' \subseteq Underway, current' \subseteq current
      PROVE  OpenInv'
  BY <1>1, <1>5, OpenCarried
<1>6. ASSUME NEW p \in Positions, NEW kind \in {"open", "closed"}, Age(p, kind)
      PROVE  OpenInv'
  BY <1>6, <1>5 DEF Age
<1>7. CASE SyncReturns
  <2>1. pendingCreated' \subseteq pendingCreated \cup sync.created
    BY <1>7 DEF SyncReturns, Trimmed
  <2>2. sync'.created = {}
    BY <1>7 DEF SyncReturns, NoEvents
  <2> QED
    BY <1>5, <1>7, <2>1, <2>2 DEF SyncReturns
<1>8. CASE SyncFails
  BY <1>5, <1>8 DEF SyncFails, NoEvents
<1>9. CASE Drain
  <2>1. batch'.created = pendingCreated /\ pendingCreated' = {}
    BY <1>9 DEF Drain
  <2> QED
    BY <1>5, <1>9, <2>1 DEF Drain
<1>10. CASE CollectOpen
  (* The debts are positions that have a row and no record.                *)
  <2>1. PICK debtors \in Limited({p \in Positions : OwesOpen(p)}) :
          owed' = [owed EXCEPT !.created = {Opened(p) : p \in debtors} \ batch.created]
    BY <1>10 DEF CollectOpen
  <2>2. debtors \subseteq {p \in Positions : OwesOpen(p)}
    BY <2>1 DEF Limited
  <2>3. owed'.created \subseteq {Opened(p) : p \in debtors}
    BY <2>1 DEF TypeOK, Events
  <2>4. \A p \in Positions : Opened(p) \in owed'.created =>
          status[p] # "none" /\ records[Opened(p)] = 0
    BY <2>2, <2>3, OpenKeys DEF OwesOpen
  <2>5. UNCHANGED <<status, records, cooling, current, sync, pendingCreated,
                    batch, work>>
    BY <1>10 DEF CollectOpen
  <2> QED
    BY <1>1, <2>4, <2>5, OpenCarried
<1>11. CASE CollectClose
  <2>1. owed'.created = owed.created
    BY <1>11 DEF CollectClose, TypeOK, Events
  <2> QED
    BY <1>5, <1>11, <2>1 DEF CollectClose
<1>12. ASSUME CollectFails \/ OtherJobSaves \/ ToggleMute PROVE OpenInv'
  BY <1>5, <1>12 DEF CollectFails, OtherJobSaves, ToggleMute
<1>13. CASE EvaluateMuted
  BY <1>5, <1>13 DEF EvaluateMuted, NoEvents
<1>14. CASE Evaluate
  <2>1. work' = batch.created \cup owed.created \cup batch.closed \cup owed.closed
    BY <1>14 DEF Evaluate
  <2>2. batch.closed \cup owed.closed \subseteq CloseKey
    BY DEF TypeOK, Events
  <2>3. \A p \in Positions : Opened(p) \in Underway' => Opened(p) \in Underway
    BY <1>14, <2>1, <2>2, OpenKeys DEF Evaluate
  <2>4. UNCHANGED <<status, records, cooling, current>>
    BY <1>14 DEF Evaluate
  <2> QED
    BY <1>1, <2>3, <2>4, OpenCarried
<1>15. ASSUME NEW k \in RuleKey, FireDropped(k) PROVE OpenInv'
  BY <1>5, <1>15 DEF FireDropped
<1>16. ASSUME NEW k \in RuleKey, FireStarts(k) PROVE OpenInv'
  (* An armed rule on its way has no record.                               *)
  <2>1. k \in work /\ k \notin cooling /\ current' = {k} /\ work' = work \ {k}
    BY <1>16 DEF FireStarts, Turn
  <2>2. \A p \in Positions : Opened(p) = k => records[k] = 0
    BY <1>0, <2>1 DEF OpenInv
  <2>3. UNCHANGED <<status, records, sync, pendingCreated, batch, owed>>
    BY <1>16 DEF FireStarts
  <2>4. cooling \subseteq cooling'
    BY <1>16 DEF FireStarts
  <2> QED
    BY <2>1, <2>2, <2>3, <2>4, OpenCarried
<1>17. CASE Transmit
  BY <1>5, <1>17 DEF Transmit
<1>18. CASE Record
  (* The rule being sent had no record, has one now, and is not armed.     *)
  <2>1. records' = [k \in RuleKey |->
          IF k \in current THEN records[k] + 1 ELSE records[k]]
    BY <1>18 DEF Record
  <2>2. \A p \in Positions :
          /\ Opened(p) \in current => records'[Opened(p)] = 1
          /\ Opened(p) \notin current => records'[Opened(p)] = records[Opened(p)]
    BY <1>1, <2>1, OpenKeys
  <2>3. current \subseteq cooling /\ current' = {}
    BY <1>18 DEF Record, JobInv
  <2>4. UNCHANGED <<status, cooling, sync, pendingCreated, batch, owed, work>>
    BY <1>18 DEF Record
  <2>5. OpenSettledOnce'
    BY <2>2 DEF OpenInv, OpenSettledOnce
  <2> QED
    BY <2>2, <2>3, <2>4, <2>5 DEF OpenInv
<1>19. CASE EvaluateEnds
  BY <1>5, <1>19 DEF EvaluateEnds, NoEvents
<1>20. CASE HookCut
  BY <1>5, <1>20 DEF HookCut, NoEvents
<1>21. CASE JobCut
  BY <1>5, <1>21 DEF JobCut, NoEvents
<1>22. CASE Restart
  (* The rule states may be lost, but nothing is on its way any more.      *)
  <2>1. Underway' = {} /\ current' = {} /\ UNCHANGED <<status, records>>
    BY <1>22 DEF Restart, NoEvents
  <2> QED
    BY <2>1, OpenCarried
<1>23. CASE UNCHANGED vars
  BY <1>5, <1>23 DEF vars
<1> QED
  BY <1>2, <1>3, <1>4, <1>6, <1>7, <1>8, <1>9, <1>10, <1>11, <1>12, <1>13,
     <1>14, <1>15, <1>16, <1>17, <1>18, <1>19, <1>20, <1>21, <1>22, <1>23
     DEF Next, Deliver

LEMMA OpenCorrect == Spec => []OpenInv
<1>1. TypeOK /\ JobInv /\ OpenInv /\ [Next]_vars => OpenInv'
  BY OpenNext
<1> QED
  BY <1>1, OpenInit, TypeCorrect, SentCorrect, PTL DEF Spec

(* The alert ledger settles an entry debt at most once, over any number of *)
(* positions, cuts, restarts and lost rule states.                         *)
THEOREM OpenDebtSettledOnce == Spec => []OpenSettledOnce
<1>1. OpenInv => OpenSettledOnce
  BY DEF OpenInv
<1> QED
  BY <1>1, OpenCorrect, PTL

-----------------------------------------------------------------------------
(* What was drained.                                                       *)

LEMMA BatchInit == Init => BatchInv
BY DEF Init, BatchInv, Evaluating

LEMMA BatchNext == TypeOK /\ BatchInv /\ [Next]_vars => BatchInv'
<1> SUFFICES ASSUME TypeOK, BatchInv, [Next]_vars PROVE BatchInv'
  OBVIOUS
<1> USE DEF BatchInv, Evaluating, ledgerVars, queueVars, jobVars, history
<1>1. ASSUME UNCHANGED <<stage, batch, work, cooling>> PROVE BatchInv'
  BY <1>1
<1>2. ASSUME stage' = "idle", batch' = NoEvents PROVE BatchInv'
  BY <1>2
<1>3. ASSUME NEW p \in Positions,
             \/ WorkerOpens(p) \/ WorkerCloses(p) \/ OthersOpen(p) \/ OthersClose(p)
             \/ \E kind \in {"open", "closed"} : Age(p, kind)
      PROVE  BatchInv'
  BY <1>1, <1>3 DEF WorkerOpens, WorkerCloses, OthersOpen, OthersClose, Age
<1>4. ASSUME SyncReturns \/ SyncFails \/ OtherJobSaves \/ ToggleMute PROVE BatchInv'
  BY <1>1, <1>4 DEF SyncReturns, SyncFails, OtherJobSaves, ToggleMute
<1>5. ASSUME Drain \/ CollectOpen \/ CollectClose \/ CollectFails PROVE BatchInv'
  BY <1>5 DEF Drain, CollectOpen, CollectClose, CollectFails
<1>6. CASE Evaluate
  BY <1>6 DEF Evaluate
<1>7. ASSUME NEW k \in RuleKey, FireDropped(k) \/ FireStarts(k) PROVE BatchInv'
  BY <1>7 DEF FireDropped, FireStarts, Turn
<1>8. CASE Transmit
  BY <1>8 DEF Transmit
<1>9. CASE Record
  BY <1>9 DEF Record
<1>10. ASSUME EvaluateMuted \/ EvaluateEnds \/ HookCut \/ JobCut \/ Restart
       PROVE  BatchInv'
  BY <1>2, <1>10 DEF EvaluateMuted, EvaluateEnds, HookCut, JobCut, Restart
<1>11. CASE UNCHANGED vars
  BY <1>1, <1>11 DEF vars
<1> QED
  BY <1>3, <1>4, <1>5, <1>6, <1>7, <1>8, <1>9, <1>10, <1>11 DEF Next, Deliver

(* A queue that did not overflow lost nothing.                             *)
LEMMA TrimmedWhole ==
  ASSUME NEW q, q \subseteq OpenKey \/ q \subseteq CloseKey, Overflow(q) = 0,
         NEW kept \in Trimmed(q)
  PROVE  kept = q
<1>1. PICK lost \in SUBSET q : kept = q \ lost /\ Cardinality(lost) = 0
  BY DEF Trimmed
<1>2. IsFiniteSet(lost)
  BY KeysFinite, FS_Subset
<1>3. lost = {}
  BY <1>1, <1>2, FS_EmptySet
<1> QED
  BY <1>1, <1>3

LEMMA DrainedStep ==
  ASSUME TypeOK, BatchInv, [Next]_vars
  PROVE  \/ Carried \subseteq Carried' \cup cooling'
         \/ EvaluateMuted
         \/ dropped' > dropped \/ jobCuts' > jobCuts \/ restarts' > restarts
<1> USE DEF Carried, ledgerVars, queueVars, jobVars, history
<1>1. ASSUME UNCHANGED <<pendingCreated, pendingClosed, batch>>
      PROVE  Carried \subseteq Carried'
  BY <1>1
<1>2. ASSUME NEW p \in Positions,
             \/ WorkerOpens(p) \/ WorkerCloses(p) \/ OthersOpen(p) \/ OthersClose(p)
             \/ \E kind \in {"open", "closed"} : Age(p, kind)
      PROVE  Carried \subseteq Carried'
  BY <1>1, <1>2 DEF WorkerOpens, WorkerCloses, OthersOpen, OthersClose, Age
<1>3. ASSUME SyncReturns PROVE Carried \subseteq Carried' \/ dropped' > dropped
  <2> DEFINE created == pendingCreated \cup sync.created
             closed  == pendingClosed \cup sync.closed
  <2>1. created \subseteq OpenKey /\ closed \subseteq CloseKey
    BY DEF TypeOK, Events
  <2>2. Overflow(created) \in Nat /\ Overflow(closed) \in Nat
    BY <2>1, OverflowType
  <2>3. /\ pendingCreated' \in Trimmed(created) /\ pendingClosed' \in Trimmed(closed)
        /\ dropped' = dropped + Overflow(created) + Overflow(closed)
        /\ batch' = batch
    BY <1>3 DEF SyncReturns
  <2>4. CASE Overflow(created) = 0 /\ Overflow(closed) = 0
    <3>1. pendingCreated' = created /\ pendingClosed' = closed
      BY <2>1, <2>3, <2>4, TrimmedWhole
    <3> QED
      BY <2>3, <3>1
  <2>5. CASE ~(Overflow(created) = 0 /\ Overflow(closed) = 0)
    <3> HIDE DEF created, closed
    <3>1. dropped \in Nat
      BY DEF TypeOK
    <3> QED
      BY <2>2, <2>3, <2>5, <3>1
  <2> QED
    BY <2>4, <2>5
<1>4. ASSUME SyncFails \/ OtherJobSaves \/ ToggleMute \/ CollectOpen \/ CollectClose
               \/ CollectFails \/ Evaluate \/ Transmit \/ Record
      PROVE  Carried \subseteq Carried'
  BY <1>1, <1>4 DEF SyncFails, OtherJobSaves, ToggleMute, CollectOpen, CollectClose,
                    CollectFails, Evaluate, Transmit, Record
<1>5. ASSUME Drain PROVE Carried \subseteq Carried'
  (* The batch drained before has been dealt with.                         *)
  <2>1. batch = NoEvents
    BY <1>5 DEF Drain, BatchInv
  <2>2. batch'.created = pendingCreated /\ batch'.closed = pendingClosed
    BY <1>5 DEF Drain
  <2> QED
    BY <2>1, <2>2 DEF NoEvents
<1>6. ASSUME NEW k \in RuleKey, FireDropped(k) \/ FireStarts(k)
      PROVE  Carried \subseteq Carried'
  BY <1>1, <1>6 DEF FireDropped, FireStarts
<1>7. ASSUME EvaluateEnds PROVE Carried \subseteq Carried' \cup cooling'
  (* Nothing is left to fire, so all of the batch was fired.               *)
  <2>1. batch.created \cup batch.closed \subseteq cooling
    BY <1>7 DEF EvaluateEnds, BatchInv, Evaluating
  <2>2. UNCHANGED <<pendingCreated, pendingClosed, cooling>>
    BY <1>7 DEF EvaluateEnds
  <2> QED
    BY <2>1, <2>2
<1>8. ASSUME HookCut PROVE Carried \subseteq Carried'
  BY <1>8 DEF HookCut
<1>9. ASSUME UNCHANGED vars PROVE Carried \subseteq Carried'
  BY <1>1, <1>9 DEF vars
<1>10. JobCut => jobCuts' > jobCuts
  BY DEF JobCut, TypeOK
<1>11. Restart => restarts' > restarts
  BY BoundsAssumption DEF Restart, TypeOK
<1> QED
  BY <1>2, <1>3, <1>4, <1>5, <1>6, <1>7, <1>8, <1>9, <1>10, <1>11 DEF Next, Deliver

(* An event that was drained is fired or put back, unless alerts are       *)
(* muted, the queue overflows, the whole job is cut or the process dies.   *)
THEOREM DrainedEventsKept == Spec => DrainedNotForgotten
<1>1. TypeOK /\ BatchInv /\ [Next]_vars => BatchInv'
  BY BatchNext
<1>2. TypeOK /\ BatchInv /\ [Next]_vars =>
        [ \/ Carried \subseteq Carried' \cup cooling'
          \/ EvaluateMuted
          \/ dropped' > dropped \/ jobCuts' > jobCuts \/ restarts' > restarts ]_vars
  BY DrainedStep
<1> QED
  BY <1>1, <1>2, BatchInit, TypeCorrect, PTL DEF Spec, DrainedNotForgotten

-----------------------------------------------------------------------------
(* Suppressed alerts.                                                      *)

(* A budget runs out while a context is awaited, never during a send.      *)
SendsFinish == CutPoints \cap {"sending", "sent"} = {}

(* No life of the process begins with rule states that another alert job   *)
(* saved while deliver_alerts was sending.                                 *)
SavedAtRest == "save" \notin Environment \/ MaxRestarts = 0

AccountedInv ==
  /\ SuppressedIsAccounted
  /\ MaxRestarts = 0 \/ saved \subseteq handled

LEMMA AccountedInit == Init => AccountedInv
BY DEF Init, AccountedInv, SuppressedIsAccounted

LEMMA AccountedNext ==
  ASSUME SendsFinish, SavedAtRest, TypeOK, JobInv, AccountedInv, [Next]_vars
  PROVE  AccountedInv'
<1> USE DEF AccountedInv, SuppressedIsAccounted, ledgerVars, queueVars, jobVars, history
<1>1. ASSUME UNCHANGED <<cooling, handled, current, saved>> PROVE AccountedInv'
  BY <1>1
<1>2. ASSUME NEW p \in Positions,
             \/ WorkerOpens(p) \/ WorkerCloses(p) \/ OthersOpen(p) \/ OthersClose(p)
             \/ \E kind \in {"open", "closed"} : Age(p, kind)
      PROVE  AccountedInv'
  BY <1>1, <1>2 DEF WorkerOpens, WorkerCloses, OthersOpen, OthersClose, Age
<1>3. ASSUME SyncReturns \/ SyncFails \/ ToggleMute \/ Drain \/ CollectOpen
               \/ CollectClose \/ CollectFails \/ EvaluateMuted \/ Evaluate
               \/ Transmit
      PROVE  AccountedInv'
  BY <1>1, <1>3 DEF SyncReturns, SyncFails, ToggleMute, Drain, CollectOpen,
                    CollectClose, CollectFails, EvaluateMuted, Evaluate, Transmit
<1>4. ASSUME NEW k \in RuleKey, FireDropped(k) PROVE AccountedInv'
  BY <1>1, <1>4 DEF FireDropped
<1>5. ASSUME NEW k \in RuleKey, FireStarts(k) PROVE AccountedInv'
  (* Nothing else is being sent when a send starts.                        *)
  <2>1. stage = "context" /\ current = {}
    BY <1>5 DEF FireStarts, Turn, JobInv
  <2>2. /\ cooling' = cooling \cup {k} /\ current' = {k}
        /\ UNCHANGED <<handled, saved>>
    BY <1>5 DEF FireStarts
  <2> QED
    BY <2>1, <2>2
<1>6. CASE Record
  BY <1>6 DEF Record
<1>7. CASE EvaluateEnds
  <2>1. current = {}
    BY <1>7 DEF EvaluateEnds, JobInv
  <2> QED
    BY <1>7, <2>1 DEF EvaluateEnds
<1>8. ASSUME HookCut \/ JobCut PROVE AccountedInv'
  (* The cut comes outside of a send, so it loses no rule being sent.      *)
  <2>1. stage \notin {"sending", "sent"}
    BY <1>8 DEF HookCut, JobCut, SendsFinish
  <2>2. current = {}
    BY <2>1 DEF JobInv
  <2>3. current' = {} /\ UNCHANGED <<cooling, handled, saved>>
    BY <1>8 DEF HookCut, JobCut
  <2> QED
    BY <2>2, <2>3
<1>9. CASE OtherJobSaves
  <2>1. MaxRestarts = 0
    BY <1>9 DEF OtherJobSaves, SavedAtRest
  <2> QED
    BY <1>9, <2>1 DEF OtherJobSaves
<1>10. CASE Restart
  (* The file names only rules whose send had returned.                    *)
  <2>1. MaxRestarts # 0
    BY <1>10, BoundsAssumption DEF Restart, TypeOK
  <2>2. /\ cooling' \subseteq saved /\ current' = {}
        /\ UNCHANGED <<handled, saved>>
    BY <1>10 DEF Restart
  <2> QED
    BY <2>1, <2>2
<1>11. CASE UNCHANGED vars
  BY <1>1, <1>11 DEF vars
<1> QED
  BY <1>2, <1>3, <1>4, <1>5, <1>6, <1>7, <1>8, <1>9, <1>10, <1>11 DEF Next, Deliver

(* While no budget ends a send, and no restart reads what another job      *)
(* saved during one, a rule that is no longer armed was handled or is      *)
(* being sent: no alert is suppressed that nobody accounts for, whatever   *)
(* is cut at a context, requeued, collected, muted or restarted.           *)
THEOREM SuppressedAccounted ==
  ASSUME SendsFinish, SavedAtRest
  PROVE  Spec => []SuppressedIsAccounted
<1>1. TypeOK /\ JobInv /\ AccountedInv /\ [Next]_vars => AccountedInv'
  BY AccountedNext
<1>2. AccountedInv => SuppressedIsAccounted
  BY DEF AccountedInv
<1> QED
  BY <1>1, <1>2, AccountedInit, TypeCorrect, SentCorrect, PTL DEF Spec

-----------------------------------------------------------------------------
(* LifecycleAlerts implements OpenDebt.                                    *)

LEMMA DebtInit == Init => Debt!Init
<1> SUFFICES ASSUME Init PROVE DebtMap = [p \in Positions |-> "none"]
  BY DEF Debt!Init
<1>1. \A p \in Positions : DebtOf(p) = "none"
  BY DEF Init, DebtOf
<1> QED
  BY <1>1 DEF DebtMap

(* A position that keeps having a row, and keeps its records, keeps its    *)
(* debt.                                                                   *)
LEMMA DebtKept ==
  ASSUME NEW p \in Positions,
         records'[Opened(p)] = records[Opened(p)],
         status[p] = "none" <=> status'[p] = "none"
  PROVE  DebtOf(p)' = DebtOf(p)
BY DEF DebtOf

LEMMA DebtStep ==
  TypeOK /\ JobInv /\ OpenInv /\ [Next]_vars => [Debt!Next]_DebtMap
<1> SUFFICES ASSUME TypeOK, JobInv, OpenInv, [Next]_vars
             PROVE  Debt!Next \/ DebtMap' = DebtMap
  OBVIOUS
<1> USE DEF ledgerVars, queueVars, jobVars, history
<1>1. ASSUME UNCHANGED <<status, records>> PROVE DebtMap' = DebtMap
  BY <1>1 DEF DebtMap, DebtOf
<1>2. ASSUME NEW p \in Positions, WorkerOpens(p) \/ OthersOpen(p) PROVE Debt!Incur(p)
  <2>1. status[p] = "none" /\ status' = [status EXCEPT ![p] = "open"]
        /\ records' = records
    BY <1>2 DEF WorkerOpens, OthersOpen, Open
  <2>2. records[Opened(p)] = 0
    BY <2>1 DEF OpenInv
  <2>3. DebtOf(p) = "none" /\ DebtOf(p)' = "owed"
    BY <2>1, <2>2 DEF DebtOf, TypeOK
  <2>4. \A q \in Positions : q # p => DebtOf(q)' = DebtOf(q)
    BY <2>1, DebtKept DEF TypeOK
  <2> QED
    BY <2>3, <2>4 DEF Debt!Incur, DebtMap
<1>3. ASSUME NEW p \in Positions, WorkerCloses(p) \/ OthersClose(p)
      PROVE  DebtMap' = DebtMap
  <2>1. status[p] = "open" /\ status' = [status EXCEPT ![p] = "closed"]
        /\ records' = records
    BY <1>3 DEF WorkerCloses, OthersClose, Close
  <2>2. \A q \in Positions : DebtOf(q)' = DebtOf(q)
    BY <2>1, DebtKept DEF TypeOK
  <2> QED
    BY <2>2 DEF DebtMap
<1>4. ASSUME Record PROVE (\E p \in Positions : Debt!Settle(p)) \/ DebtMap' = DebtMap
  <2>1. PICK k \in RuleKey : current = {k}
    BY <1>4 DEF Record, JobInv
  <2>2. records' = [j \in RuleKey |-> IF j = k THEN records[j] + 1 ELSE records[j]]
        /\ status' = status
    BY <1>4, <2>1 DEF Record
  <2>3. CASE k \in OpenKey
    <3>1. PICK p \in Positions : k = Opened(p)
      BY <2>3, OpenKeys
    <3>2. status[p] # "none" /\ records[Opened(p)] = 0
      BY <2>1, <3>1 DEF OpenInv
    <3>3. records'[Opened(p)] = 1
      BY <2>2, <3>1, <3>2, OpenKeys
    <3>4. DebtOf(p) = "owed" /\ DebtOf(p)' = "settled"
      BY <2>2, <3>2, <3>3 DEF DebtOf
    <3>5. \A q \in Positions : q # p => DebtOf(q)' = DebtOf(q)
      BY <2>2, <3>1, OpenKeys, DebtKept
    <3>6. Debt!Settle(p)
      BY <3>4, <3>5 DEF Debt!Settle, DebtMap
    <3> QED
      BY <3>6
  <2>4. CASE k \notin OpenKey
    <3>1. \A q \in Positions : DebtOf(q)' = DebtOf(q)
      BY <2>2, <2>4, OpenKeys, DebtKept
    <3> QED
      BY <3>1 DEF DebtMap
  <2> QED
    BY <2>3, <2>4
<1>5. ASSUME NEW p \in Positions, NEW kind \in {"open", "closed"}, Age(p, kind)
      PROVE  DebtMap' = DebtMap
  BY <1>1, <1>5 DEF Age
<1>6. ASSUME SyncReturns \/ SyncFails \/ OtherJobSaves \/ ToggleMute \/ Restart
      PROVE  DebtMap' = DebtMap
  BY <1>1, <1>6 DEF SyncReturns, SyncFails, OtherJobSaves, ToggleMute, Restart
<1>7. ASSUME Drain \/ CollectOpen \/ CollectClose \/ CollectFails
               \/ EvaluateMuted \/ Evaluate \/ EvaluateEnds \/ Transmit
               \/ HookCut \/ JobCut
      PROVE  DebtMap' = DebtMap
  BY <1>1, <1>7 DEF Drain, CollectOpen, CollectClose, CollectFails, EvaluateMuted,
                    Evaluate, EvaluateEnds, Transmit, HookCut, JobCut
<1>8. ASSUME NEW k \in RuleKey, FireDropped(k) \/ FireStarts(k)
      PROVE  DebtMap' = DebtMap
  BY <1>1, <1>8 DEF FireDropped, FireStarts
<1>9. ASSUME UNCHANGED vars PROVE DebtMap' = DebtMap
  BY <1>1, <1>9 DEF vars
<1> QED
  BY <1>2, <1>3, <1>4, <1>5, <1>6, <1>7, <1>8, <1>9 DEF Next, Deliver, Debt!Next

(* Whatever the queues, the jobs and the rule states do, an entry alert is *)
(* a debt that is incurred once, settled once, and stays settled.          *)
THEOREM PipelineImplementsOpenDebt == Spec => ImplementsOpenDebt
<1>1. Init => Debt!Init
  BY DebtInit
<1>2. TypeOK /\ JobInv /\ OpenInv /\ [Next]_vars => [Debt!Next]_DebtMap
  BY DebtStep
<1>3. Spec => [](TypeOK /\ JobInv /\ OpenInv)
  BY TypeCorrect, SentCorrect, OpenCorrect, PTL
<1> QED
  BY <1>1, <1>2, <1>3, PTL DEF Spec, ImplementsOpenDebt, Debt!Spec
-----------------------------------------------------------------------------
(* Debts are paid.  Four facts are hypotheses here.  What Deliver needs to *)
(* be enabled is something to do: TLAPS does not look into ENABLED.  That  *)
(* a delivery ends and that faults do follows from the bounds of the model *)
(* by counting down, which is an induction over behaviours; in the code    *)
(* the budget of the job ends it.  And no more positions owe an alert at a *)
(* time than one cycle collects.                                           *)
DeliverReady  == [](stage = "idle" => ENABLED <<Deliver>>_vars)
DeliveriesEnd == []<>(stage = "idle")
FaultsEnd     == <>[][faults' = faults]_vars

OpenDebtsFit  == Cardinality({p \in Positions : OwesOpen(p)}) <= BackfillLimit
CloseDebtsFit == Cardinality({p \in Positions : OwesClose(p)}) <= BackfillLimit

(* The way of one of some rule keys through evaluate_lifecycle.            *)
Given     == batch.created \cup owed.created \cup batch.closed \cup owed.closed
Due(K)    == stage = "ready" /\ K \cap Given # {}
ToFire(K) == Evaluating /\ K \cap work # {}
InSend(K) == stage \in {"sending", "sent"} /\ K \cap current # {}
OnItsWay(K) == Due(K) \/ ToFire(K) \/ InSend(K)
Paid(K)   == K \cap handled # {}

(* Without a fault a key that was given to it stays on its way until it is *)
(* paid: a rule that is not armed has been.                                *)
LEMMA EvaluationPays ==
  ASSUME TypeOK, JobInv, AccountedInv, [Next]_vars, faults' = faults, ~muted,
         NEW K \in SUBSET RuleKey, OnItsWay(K), ~Paid(K)
  PROVE  OnItsWay(K)' \/ Paid(K)'
<1> USE DEF OnItsWay, Due, ToFire, InSend, Given, Evaluating, ledgerVars, queueVars,
            jobVars, history
<1>1. ASSUME UNCHANGED jobVars PROVE OnItsWay(K)'
  BY <1>1
<1>2. ASSUME NEW p \in Positions,
             \/ WorkerOpens(p) \/ WorkerCloses(p) \/ OthersOpen(p) \/ OthersClose(p)
             \/ \E kind \in {"open", "closed"} : Age(p, kind)
      PROVE  OnItsWay(K)'
  BY <1>1, <1>2 DEF WorkerOpens, WorkerCloses, OthersOpen, OthersClose, Age
<1>3. ASSUME SyncReturns \/ OtherJobSaves \/ ToggleMute PROVE OnItsWay(K)'
  BY <1>1, <1>3 DEF SyncReturns, OtherJobSaves, ToggleMute
<1>4. ~(SyncFails \/ CollectFails \/ HookCut \/ JobCut \/ Restart)
  <2>1. faults \in Nat
    BY BoundsAssumption DEF TypeOK
  <2>2. faults' # faults + 1
    BY <2>1
  <2> QED
    BY <2>2 DEF SyncFails, CollectFails, HookCut, JobCut, Restart
<1>5. ~(Drain \/ CollectOpen \/ CollectClose \/ EvaluateMuted)
  BY DEF Drain, CollectOpen, CollectClose, EvaluateMuted
<1>6. CASE Evaluate
  <2>1. Due(K)
    BY <1>6 DEF Evaluate
  <2> QED
    BY <1>6, <2>1 DEF Evaluate
<1>7. ASSUME NEW k \in RuleKey, FireDropped(k) PROVE OnItsWay(K)'
  <2>1. stage = "context" /\ k \in cooling /\ current = {}
    BY <1>7 DEF FireDropped, Turn, JobInv
  <2>2. k \in handled
    BY <2>1 DEF AccountedInv, SuppressedIsAccounted
  <2>3. k \notin K
    BY <2>2 DEF Paid
  <2> QED
    BY <1>7, <2>1, <2>3 DEF FireDropped
<1>8. ASSUME NEW k \in RuleKey, FireStarts(k) PROVE OnItsWay(K)'
  <2>1. /\ stage = "context" /\ stage' = "sending"
        /\ work' = work \ {k} /\ current' = {k}
    BY <1>8 DEF FireStarts, Turn
  <2>2. K \cap work # {}
    BY <2>1
  <2> QED
    BY <2>1, <2>2
<1>9. CASE Transmit
  BY <1>9 DEF Transmit
<1>10. CASE Record
  BY <1>10 DEF Record, Paid
<1>11. ~EvaluateEnds
  <2> SUFFICES ASSUME EvaluateEnds PROVE FALSE
    OBVIOUS
  <2>1. stage = "context" /\ work = {}
    BY DEF EvaluateEnds
  <2> QED
    BY <2>1
<1>12. CASE UNCHANGED vars
  BY <1>1, <1>12 DEF vars
<1> QED
  BY <1>2, <1>3, <1>4, <1>5, <1>6, <1>7, <1>8, <1>9, <1>10, <1>11, <1>12
     DEF Next, Deliver

(* Where a delivery stands before it evaluates, without a fault.           *)
LEMMA StageSteps ==
  ASSUME TypeOK, [Next]_vars, faults' = faults
  PROVE  /\ stage = "idle" => stage' \in {"idle", "owe_open"}
         /\ stage = "owe_open" => stage' = "owe_open" \/ CollectOpen
         /\ stage = "owe_close" =>
              \/ stage' = "owe_close" /\ UNCHANGED <<batch, owed>>
              \/ CollectClose
<1>1. faults' # faults + 1
  BY BoundsAssumption DEF TypeOK
<1> QED
  BY <1>1 DEF Next, Deliver, WorkerOpens, WorkerCloses, OthersOpen, OthersClose, Age,
     SyncReturns, SyncFails, Drain, CollectOpen, CollectClose, CollectFails,
     EvaluateMuted, Evaluate, FireDropped, FireStarts, Turn, Transmit, Record,
     EvaluateEnds, HookCut, JobCut, OtherJobSaves, ToggleMute, Restart, vars,
     ledgerVars, queueVars, jobVars, history

LEMMA LimitedWhole ==
  ASSUME NEW S \in SUBSET Positions, Cardinality(S) <= BackfillLimit,
         NEW r \in Limited(S)
  PROVE  r = S
<1>1. IsFiniteSet(S) /\ Cardinality(S) \in Nat
  BY PositionsAssumption, FS_Subset, FS_CardinalityType
<1>2. ~(Cardinality(S) > BackfillLimit)
  BY <1>1, BoundsAssumption
<1>3. r \subseteq S /\ Cardinality(r) = Cardinality(S)
  BY <1>2 DEF Limited
<1> QED
  BY <1>1, <1>3, FS_Subset

LEMMA DrainStarts == <<Deliver>>_vars /\ stage = "idle" => stage' = "owe_open"
BY DEF Deliver, Drain, CollectOpen, CollectClose, EvaluateMuted, Evaluate,
       FireDropped, FireStarts, Turn, Transmit, Record, EvaluateEnds

LEMMA AccountedCorrect ==
  ASSUME SendsFinish, SavedAtRest
  PROVE  Spec => []AccountedInv
<1>1. TypeOK /\ JobInv /\ AccountedInv /\ [Next]_vars => AccountedInv'
  BY AccountedNext
<1> QED
  BY <1>1, AccountedInit, TypeCorrect, SentCorrect, PTL DEF Spec

(* An open position inside the window whose entry alert is in no record is *)
(* handled by a send that returned, whoever created its row and whatever   *)
(* became of its event, unless alerts are muted, it leaves the window or   *)
(* is closed first.                                                        *)
THEOREM OpenDebtsPaid ==
  ASSUME SendsFinish, SavedAtRest
  PROVE  FairSpec /\ DeliverReady /\ DeliveriesEnd /\ FaultsEnd /\ []OpenDebtsFit
           => OpenDebtPaid
<1>1. ASSUME NEW p \in Positions
      PROVE  FairSpec /\ DeliverReady /\ DeliveriesEnd /\ FaultsEnd /\ []OpenDebtsFit
               => (OwesOpen(p) ~> (Opened(p) \in handled \/ ~OwesOpen(p) \/ muted))
  <2> DEFINE K         == {Opened(p)}
             idle      == stage = "idle"
             drained   == stage = "owe_open"
             collected == stage = "owe_close" /\ K \cap Given # {}
             way       == drained \/ collected \/ OnItsWay(K)
             owes      == OwesOpen(p)
             settled   == Opened(p) \in handled \/ ~OwesOpen(p) \/ muted
             calm      == faults' = faults
  <2>0. K \in SUBSET RuleKey
    BY OpenKeys
  <2>1. way => ~idle
    BY DEF OnItsWay, Due, ToFire, InSend, Evaluating
  <2>2. idle /\ <<Deliver>>_vars => way'
    BY DrainStarts
  <2>3. TypeOK /\ idle /\ [Next]_vars /\ [calm]_vars => idle' \/ way'
    <3>1. UNCHANGED vars => faults' = faults
      BY DEF vars
    <3> QED
      BY <3>1, StageSteps
  <2>4. /\ TypeOK /\ JobInv /\ AccountedInv /\ OpenDebtsFit
        /\ way /\ ~settled /\ [Next]_vars /\ [calm]_vars
        => way' \/ settled'
    <3> SUFFICES ASSUME TypeOK, JobInv, AccountedInv, OpenDebtsFit,
                        way, ~settled, [Next]_vars, [calm]_vars
                 PROVE  way' \/ settled'
      OBVIOUS
    <3>1. faults' = faults
      BY DEF vars
    <3>2. CASE drained
      <4>1. stage' = "owe_open" \/ CollectOpen
        BY <3>1, <3>2, StageSteps
      <4>2. CASE CollectOpen
        <5> DEFINE debtors == {q \in Positions : OwesOpen(q)}
        <5>1. PICK r \in Limited(debtors) :
                owed' = [owed EXCEPT !.created = {Opened(q) : q \in r} \ batch.created]
          BY <4>2 DEF CollectOpen
        <5>2. Cardinality(debtors) <= BackfillLimit
          BY DEF OpenDebtsFit
        <5>3. r = debtors
          <6>1. debtors \in SUBSET Positions
            OBVIOUS
          <6> HIDE DEF debtors
          <6> QED
            BY <5>1, <5>2, <6>1, LimitedWhole
        <5>4. p \in r
          BY <5>3
        <5>5. owed'.created = {Opened(q) : q \in r} \ batch.created
          BY <5>1 DEF TypeOK, Events
        <5>6. batch' = batch /\ stage' = "owe_close"
          BY <4>2 DEF CollectOpen
        <5>7. Opened(p) \in batch'.created \cup owed'.created
          BY <5>4, <5>5, <5>6
        <5> QED
          BY <5>6, <5>7 DEF Given
      <4> QED
        BY <4>1, <4>2
    <3>3. CASE collected
      <4>1. \/ stage' = "owe_close" /\ UNCHANGED <<batch, owed>>
            \/ CollectClose
        BY <3>1, <3>3, StageSteps
      <4>2. Opened(p) \in batch.created \cup owed.created
        <5>1. Opened(p) \notin CloseKey
          BY DEF Opened, CloseKey
        <5> QED
          BY <3>3, <5>1 DEF Given, TypeOK, Events
      <4>3. CASE CollectClose
        <5>1. batch' = batch /\ owed'.created = owed.created /\ stage' = "ready"
          BY <4>3 DEF CollectClose, TypeOK, Events
        <5> QED
          BY <4>2, <5>1 DEF OnItsWay, Due, Given
      <4> QED
        BY <3>3, <4>1, <4>3 DEF Given
    <3>4. CASE OnItsWay(K)
      <4>1. ~Paid(K) /\ ~muted
        BY DEF Paid
      <4>2. OnItsWay(K)' \/ Paid(K)'
        <5> HIDE DEF K
        <5> QED
          BY <2>0, <3>1, <3>4, <4>1, EvaluationPays
      <4> QED
        BY <4>2 DEF Paid
    <3> QED
      BY <3>2, <3>3, <3>4
  <2>5. FairSpec => /\ []TypeOK /\ []JobInv /\ []AccountedInv
                    /\ [][Next]_vars /\ WF_vars(Deliver)
    BY AccountedCorrect, TypeCorrect, SentCorrect, PTL DEF FairSpec, Spec
  <2>6. DeliverReady => [](idle => ENABLED <<Deliver>>_vars)
    BY DEF DeliverReady
  <2>7. DeliveriesEnd => []<>idle
    BY DEF DeliveriesEnd
  <2>8. FaultsEnd => <>[][calm]_vars
    BY DEF FaultsEnd
  <2> HIDE DEF idle, way, owes, settled, calm
  <2>9. FairSpec /\ DeliverReady /\ DeliveriesEnd /\ FaultsEnd /\ []OpenDebtsFit
          => (owes ~> settled)
    BY <2>1, <2>2, <2>3, <2>4, <2>5, <2>6, <2>7, <2>8, PTL
  <2> QED
    BY <2>9 DEF owes, settled
<1> QED
  BY <1>1 DEF OpenDebtPaid
(* A key that was handled has its record.                                  *)
HandledRecorded == \A k \in handled : records[k] > 0

LEMMA RecordedNext == TypeOK /\ HandledRecorded /\ [Next]_vars => HandledRecorded'
<1> SUFFICES ASSUME TypeOK, HandledRecorded, [Next]_vars PROVE HandledRecorded'
  OBVIOUS
<1>1. CASE Record
  <2>1. /\ records' = [k \in RuleKey |->
             IF k \in current THEN records[k] + 1 ELSE records[k]]
        /\ handled' = handled \cup current
    BY <1>1 DEF Record
  <2>2. \A k \in RuleKey : records[k] \in Nat
    BY DEF TypeOK
  <2> QED
    BY <2>1, <2>2 DEF HandledRecorded, TypeOK
<1>2. ~Record => UNCHANGED <<records, handled>>
  BY DEF Next, Deliver, WorkerOpens, WorkerCloses, OthersOpen, OthersClose, Age,
     SyncReturns, SyncFails, Drain, CollectOpen, CollectClose, CollectFails,
     EvaluateMuted, Evaluate, FireDropped, FireStarts, Transmit, EvaluateEnds,
     HookCut, JobCut, OtherJobSaves, ToggleMute, Restart, vars,
     ledgerVars, queueVars, jobVars, history
<1> QED
  BY <1>1, <1>2 DEF HandledRecorded

LEMMA RecordedCorrect == Spec => []HandledRecorded
<1>1. Init => HandledRecorded
  BY DEF Init, HandledRecorded
<1> QED
  BY <1>1, RecordedNext, TypeCorrect, PTL DEF Spec

(* The same of the close alert of a closed position, be it queued under    *)
(* its trade or collected as a debt under its closed_at.                   *)
THEOREM CloseDebtsPaid ==
  ASSUME SendsFinish, SavedAtRest
  PROVE  FairSpec /\ DeliverReady /\ DeliveriesEnd /\ FaultsEnd /\ []CloseDebtsFit
           => CloseDebtPaid
<1>1. ASSUME NEW p \in Positions
      PROVE  FairSpec /\ DeliverReady /\ DeliveriesEnd /\ FaultsEnd /\ []CloseDebtsFit
               => (OwesClose(p) ~> (~OwesClose(p) \/ muted))
  <2> DEFINE K       == {<<p, "trade_id">>, <<p, "closed_at">>}
             idle    == stage = "idle"
             drained == stage \in {"owe_open", "owe_close"}
             way     == drained \/ OnItsWay(K)
             owes    == OwesClose(p)
             settled == ~OwesClose(p) \/ muted
             calm    == faults' = faults
  <2>0. K \in SUBSET RuleKey
    BY DEF RuleKey, CloseKey
  <2>1. way => ~idle
    BY DEF OnItsWay, Due, ToFire, InSend, Evaluating
  <2>2. idle /\ <<Deliver>>_vars => way'
    BY DrainStarts
  <2>3. TypeOK /\ idle /\ [Next]_vars /\ [calm]_vars => idle' \/ way'
    <3>1. UNCHANGED vars => faults' = faults
      BY DEF vars
    <3> QED
      BY <3>1, StageSteps
  <2>4. TypeOK /\ HandledRecorded /\ Paid(K) => settled
    <3> SUFFICES ASSUME TypeOK, HandledRecorded, Paid(K), OwesClose(p) PROVE FALSE
      OBVIOUS
    <3>1. PICK k \in K : k \in handled
      BY DEF Paid
    <3>2. records[k] > 0
      BY <3>1 DEF HandledRecorded
    <3>3. /\ records[<<p, "trade_id">>] \in Nat /\ records[<<p, "closed_at">>] \in Nat
          /\ records[<<p, "trade_id">>] + records[<<p, "closed_at">>] = 0
      BY <2>0 DEF TypeOK, OwesClose
    <3> QED
      BY <3>1, <3>2, <3>3
  <2>5. /\ TypeOK /\ JobInv /\ AccountedInv /\ HandledRecorded /\ CloseDebtsFit
        /\ way /\ ~settled /\ [Next]_vars /\ [calm]_vars
        => way' \/ settled'
    <3> SUFFICES ASSUME TypeOK, JobInv, AccountedInv, HandledRecorded, CloseDebtsFit,
                        way, ~settled, [Next]_vars, [calm]_vars
                 PROVE  way' \/ settled'
      OBVIOUS
    <3>1. faults' = faults
      BY DEF vars
    <3>2. CASE stage = "owe_open"
      <4>1. stage' = "owe_open" \/ CollectOpen
        BY <3>1, <3>2, StageSteps
      <4> QED
        BY <4>1 DEF CollectOpen
    <3>3. CASE stage = "owe_close"
      <4>1. stage' = "owe_close" \/ CollectClose
        BY <3>1, <3>3, StageSteps
      <4>2. CASE CollectClose
        <5> DEFINE debtors == {q \in Positions : OwesClose(q)}
        <5>1. PICK r \in Limited(debtors) :
                owed' = [owed EXCEPT !.closed = {<<q, "closed_at">> : q \in r \ QueuedIds}]
          BY <4>2 DEF CollectClose
        <5>2. Cardinality(debtors) <= BackfillLimit
          BY DEF CloseDebtsFit
        <5>3. r = debtors
          <6>1. debtors \in SUBSET Positions
            OBVIOUS
          <6> HIDE DEF debtors
          <6> QED
            BY <5>1, <5>2, <6>1, LimitedWhole
        <5>4. p \in r
          BY <5>3
        <5>5. owed'.closed = {<<q, "closed_at">> : q \in r \ QueuedIds}
          BY <5>1 DEF TypeOK, Events
        <5>6. batch' = batch /\ stage' = "ready"
          BY <4>2 DEF CollectClose
        <5>7. CASE p \in QueuedIds
          <6>1. PICK k \in batch.closed : k[1] = p
            BY <5>7 DEF QueuedIds
          <6>2. k \in CloseKey
            BY <6>1 DEF TypeOK, Events
          <6>3. k \in K
            BY <6>1, <6>2 DEF CloseKey
          <6> QED
            BY <5>6, <6>1, <6>3 DEF OnItsWay, Due, Given
        <5>8. CASE p \notin QueuedIds
          <6>1. <<p, "closed_at">> \in owed'.closed
            BY <5>4, <5>5, <5>8
          <6> QED
            BY <5>6, <6>1 DEF OnItsWay, Due, Given
        <5> QED
          BY <5>7, <5>8
      <4> QED
        BY <4>1, <4>2
    <3>4. CASE OnItsWay(K)
      <4>1. ~Paid(K) /\ ~muted
        BY <2>4
      <4>2. TypeOK' /\ HandledRecorded'
        BY TypeNext, RecordedNext
      <4>3. TypeOK' /\ HandledRecorded' /\ Paid(K)' => settled'
        <5> HIDE DEF settled, K
        <5> QED
          BY <2>4, PTL
      <4>4. OnItsWay(K)' \/ Paid(K)'
        <5> HIDE DEF K
        <5> QED
          BY <2>0, <3>1, <3>4, <4>1, EvaluationPays
      <4> QED
        BY <4>2, <4>3, <4>4
    <3> QED
      BY <3>2, <3>3, <3>4
  <2>6. FairSpec => /\ []TypeOK /\ []JobInv /\ []AccountedInv /\ []HandledRecorded
                    /\ [][Next]_vars /\ WF_vars(Deliver)
    BY AccountedCorrect, RecordedCorrect, TypeCorrect, SentCorrect, PTL DEF FairSpec, Spec
  <2>7. DeliverReady => [](idle => ENABLED <<Deliver>>_vars)
    BY DEF DeliverReady
  <2>8. DeliveriesEnd => []<>idle
    BY DEF DeliveriesEnd
  <2>9. FaultsEnd => <>[][calm]_vars
    BY DEF FaultsEnd
  <2> HIDE DEF idle, way, owes, settled, calm
  <2>10. FairSpec /\ DeliverReady /\ DeliveriesEnd /\ FaultsEnd /\ []CloseDebtsFit
           => (owes ~> settled)
    BY <2>1, <2>2, <2>3, <2>5, <2>6, <2>7, <2>8, <2>9, PTL
  <2> QED
    BY <2>10 DEF owes, settled
<1> QED
  BY <1>1 DEF CloseDebtPaid
=============================================================================
