------------------------- MODULE PositionLedgerProofs -------------------------
(***************************************************************************)
(* PositionLedger, for every set of keys and callers and every bound: its  *)
(* types; what holds however handlers interleave; what holds if they run   *)
(* one at a time, where the copies a handler has yet to write back are the *)
(* rows they were taken from; and what the syncs of the worker bring about *)
(* in the end.                                                             *)
(***************************************************************************)
EXTENDS PositionLedger, TLAPS

(* A handler that records an exit, or takes one back, has a row.           *)
Exiting == {"exit", "report", "review", "failed", "undo"}

TargetsExist ==
  \A c \in Callers : caller[c].stage \in Exiting => caller[c].target \in Ids

TypeInv == TypeOK /\ TargetsExist

LEMMA CountedType ==
  ASSUME NEW n \in 0..ConfirmTicks
  PROVE  Counted(n) \in 0..ConfirmTicks
BY LedgerBoundsAssumption DEF Counted

LEMMA NoRowType == NoRow \in Row
BY KeysAssumption, LedgerBoundsAssumption DEF NoRow, Row, AnyKey, Statuses

LEMMA IdleType == Idle \in Caller
BY NoRowType, LedgerBoundsAssumption DEF Idle, Caller, Stages

LEMMA PutType ==
  ASSUME TypeOK, NEW i, NEW row, i \in Ids => row \in Row, Put(i, row)
  PROVE  rows' \in [Ids -> Row]
BY DEF TypeOK, Put

LEMMA MissedType ==
  ASSUME NEW rec \in Caller, NEW i \in Ids
  PROVE  /\ Missed(rec, i) \in Row
         /\ Missed(rec, i).status = rec.copies[i].status
         /\ Missed(rec, i).key = rec.copies[i].key
         /\ Missed(rec, i).miss = Counted(rec.copies[i].miss)
<1>1. rec.copies[i] \in Row
  BY DEF Caller
<1>2. Counted(rec.copies[i].miss) \in 0..ConfirmTicks
  BY <1>1, CountedType DEF Row
<1> QED
  BY <1>1, <1>2 DEF Missed, Row

(* What a handler that goes on becomes.                                    *)
LEMMA BecomesType ==
  ASSUME TypeInv, NEW c \in Callers, NEW rec \in Caller, Becomes(c, rec),
         rec.stage \in Exiting => rec.target \in Ids
  PROVE  caller' \in [Callers -> Caller] /\ TargetsExist'
BY DEF TypeInv, TypeOK, TargetsExist, Becomes, Ids

LEMMA RecordedType ==
  ASSUME NEW rec \in Caller
  PROVE  /\ Recorded(rec) \in Caller /\ Recorded(rec).stage \notin Exiting
         /\ Refused(rec) \in Caller
         /\ Refused(rec).stage \in Exiting => Refused(rec).target = rec.target
<1>2. CASE rec.auto
  BY <1>2, NoRowType DEF Recorded, Refused, Caller, Stages, Exiting
<1>3. CASE ~rec.auto
  BY <1>3, IdleType DEF Recorded, Refused, Idle, Exiting
<1> QED
  BY <1>2, <1>3

LEMMA TypeInit == Init => TypeInv
<1> SUFFICES ASSUME Init PROVE TypeInv
  OBVIOUS
<1>1. TypeOK
  BY NoRowType, IdleType, LedgerBoundsAssumption DEF Init, TypeOK
<1>2. TargetsExist
  BY DEF Init, TargetsExist, Exiting, Idle
<1> QED
  BY <1>1, <1>2 DEF TypeInv

LEMMA TypeNext == TypeInv /\ [Next]_vars => TypeInv'
<1> SUFFICES ASSUME TypeInv, [Next]_vars PROVE TypeInv'
  OBVIOUS
<1> USE DEF TypeInv
<1>a. ASSUME NEW c \in Callers
      PROVE  /\ caller[c] \in Caller
             /\ caller[c].stage \in Exiting => caller[c].target \in Ids
  BY <1>a DEF TypeOK, TargetsExist
<1>b. ASSUME Event PROVE events' \in 0..MaxEvents
  BY <1>b, LedgerBoundsAssumption DEF Event, TypeOK
<1>1. ASSUME UserTrades PROVE TypeInv'
  <2>1. held' \subseteq Keys
    BY <1>1 DEF UserTrades, TypeOK
  <2> QED
    BY <1>1, <1>b, <2>1 DEF UserTrades, TypeOK, TargetsExist
<1>2. ASSUME NEW c \in Callers, SyncFetch(c) PROVE TypeInv'
  <2>1. PICK listing \in {held} \cup {held \ {k} : k \in held} :
          /\ IF listing = held /\ c \in Scheduled THEN UNCHANGED events ELSE Event
          /\ unseen' = [k \in Keys |-> IF k \in listing THEN 0 ELSE Counted(unseen[k])]
          /\ Becomes(c, [Idle EXCEPT !.stage = "fetched", !.listing = listing,
                                     !.gap = unseen'])
    BY <1>2 DEF SyncFetch
  <2>2. listing \in SUBSET Keys
    BY <2>1 DEF TypeOK
  <2>3. unseen' \in [Keys -> 0..ConfirmTicks]
    BY <2>1, CountedType, LedgerBoundsAssumption DEF TypeOK
  <2>4. /\ [Idle EXCEPT !.stage = "fetched", !.listing = listing, !.gap = unseen'] \in Caller
        /\ [Idle EXCEPT !.stage = "fetched", !.listing = listing,
                         !.gap = unseen'].stage = "fetched"
    BY <2>2, <2>3, IdleType DEF Caller, Stages
  <2>5. caller' \in [Callers -> Caller] /\ TargetsExist'
    BY <2>1, <2>4, BecomesType DEF Exiting
  <2>6. events' \in 0..MaxEvents
    BY <2>1, <1>b DEF TypeOK
  <2> QED
    BY <1>2, <2>3, <2>5, <2>6 DEF SyncFetch, TypeOK
<1>3. ASSUME NEW c \in Callers, SyncRead(c) PROVE TypeInv'
  <2> DEFINE rec == [caller[c] EXCEPT !.copies = rows]
             new == [rec EXCEPT !.stage = "merge", !.todo = rec.listing,
                                !.rest = Unconfirmed(rec)]
  <2>1. Becomes(c, new)
    BY <1>3 DEF SyncRead
  <2>2. new \in Caller /\ new.stage = "merge"
    BY <1>a DEF TypeOK, Caller, Stages, Unconfirmed
  <2>3. caller' \in [Callers -> Caller] /\ TargetsExist'
    BY <2>1, <2>2, BecomesType DEF Exiting
  <2> QED
    BY <1>3, <2>3 DEF SyncRead, TypeOK
<1>4. ASSUME NEW c \in Callers, NEW k \in Keys, MergeListed(c, k) PROVE TypeInv'
  <2>1. rows' \in [Ids -> Row]
    BY <1>4, PutType, LedgerBoundsAssumption DEF MergeListed, Row, Statuses
  <2>2. [caller[c] EXCEPT !.todo = @ \ {k}] \in Caller
    BY <1>a DEF Caller
  <2>3. caller' \in [Callers -> Caller] /\ TargetsExist'
    BY <1>4, <1>a, <2>2, BecomesType DEF MergeListed, Exiting, Caller
  <2> QED
    BY <1>4, <2>1, <2>3 DEF MergeListed, TypeOK
<1>5. ASSUME NEW c \in Callers, NEW i \in Ids, MissCounted(c, i) \/ MissSettled(c, i)
      PROVE  TypeInv'
  <2>1. [Missed(caller[c], i) EXCEPT !.status = "closed"] \in Row
    BY <1>a, MissedType DEF Row, Statuses
  <2>2. rows' \in [Ids -> Row]
    BY <1>5, <1>a, <2>1, MissedType, PutType DEF MissCounted, MissSettled
  <2>3. [caller[c] EXCEPT !.rest = @ \ {i}] \in Caller
    BY <1>a DEF Caller
  <2>4. caller' \in [Callers -> Caller] /\ TargetsExist'
    BY <1>5, <1>a, <2>3, BecomesType DEF MissCounted, MissSettled, Caller
  <2> QED
    BY <1>5, <2>2, <2>4 DEF MissCounted, MissSettled, TypeOK
<1>6. ASSUME NEW c \in Callers, NEW i \in Ids, MissConfirmed(c, i) PROVE TypeInv'
  <2>1. /\ [caller[c] EXCEPT !.stage = "exit", !.target = i, !.auto = TRUE] \in Caller
        /\ [caller[c] EXCEPT !.stage = "exit", !.target = i, !.auto = TRUE].target = i
    BY <1>a DEF Caller, Stages
  <2>2. caller' \in [Callers -> Caller] /\ TargetsExist'
    BY <1>6, <2>1, BecomesType DEF MissConfirmed
  <2> QED
    BY <1>6, <2>2 DEF MissConfirmed, TypeOK
<1>7. ASSUME NEW c \in Callers, NEW i \in Ids, ManualExit(c, i) PROVE TypeInv'
  <2>1. /\ [Idle EXCEPT !.stage = "exit", !.target = i] \in Caller
        /\ [Idle EXCEPT !.stage = "exit", !.target = i].target = i
    BY IdleType DEF Caller, Stages
  <2>2. caller' \in [Callers -> Caller] /\ TargetsExist'
    BY <1>7, <2>1, BecomesType DEF ManualExit
  <2> QED
    BY <1>7, <1>b, <2>2 DEF ManualExit, TypeOK
<1>8. ASSUME NEW c \in Callers, ExitReads(c) PROVE TypeInv'
  <2> DEFINE new == [caller[c] EXCEPT !.stage = "report", !.copy = rows[caller[c].target]]
  <2>1. caller[c].target \in Ids
    BY <1>8, <1>a DEF ExitReads, Exiting
  <2>2. new \in Caller /\ new.target \in Ids
    BY <1>a, <2>1 DEF Caller, Stages, TypeOK
  <2>3. caller' \in [Callers -> Caller] /\ TargetsExist'
    BY <1>8, <2>2, BecomesType DEF ExitReads
  <2> QED
    BY <1>8, <2>3 DEF ExitReads, TypeOK
<1>9. ASSUME NEW c \in Callers, ExitRefused(c) \/ ReportFails(c) PROVE TypeInv'
  <2>1. caller[c].stage \in Exiting /\ Becomes(c, Refused(caller[c]))
    BY <1>9 DEF ExitRefused, ReportFails, Exiting
  <2>2. caller' \in [Callers -> Caller] /\ TargetsExist'
    BY <2>1, <1>a, RecordedType, BecomesType
  <2>3. events' \in 0..MaxEvents
    BY <1>9, <1>b DEF ExitRefused, ReportFails, TypeOK
  <2> QED
    BY <1>9, <2>2, <2>3 DEF ExitRefused, ReportFails, TypeOK
<1>10. ASSUME NEW c \in Callers, ExitCloses(c) PROVE TypeInv'
  <2>1. [caller[c].copy EXCEPT !.status = "closed"] \in Row
    BY <1>a DEF Caller, Row, Statuses
  <2>2. rows' \in [Ids -> Row]
    BY <1>10, <2>1, PutType DEF ExitCloses
  <2>3. /\ [caller[c] EXCEPT !.stage = "review"] \in Caller
        /\ [caller[c] EXCEPT !.stage = "review"].target = caller[c].target
    BY <1>a DEF Caller, Stages
  <2>4. caller' \in [Callers -> Caller] /\ TargetsExist'
    BY <1>10, <1>a, <2>3, BecomesType DEF ExitCloses, Exiting
  <2> QED
    BY <1>10, <2>2, <2>4 DEF ExitCloses, TypeOK
<1>11. ASSUME NEW c \in Callers, TradeAdded(c) PROVE TypeInv'
  <2>1. trades' \in [Ids -> Nat]
    BY <1>11, <1>a DEF TradeAdded, TypeOK, Exiting
  <2>2. caller' \in [Callers -> Caller] /\ TargetsExist'
    BY <1>11, <1>a, RecordedType, BecomesType DEF TradeAdded
  <2> QED
    BY <1>11, <2>1, <2>2 DEF TradeAdded, TypeOK
<1>12. ASSUME NEW c \in Callers, ExitFailed(c) PROVE TypeInv'
  <2>1. [rows[caller[c].target] EXCEPT !.status = "needs_exit_record"] \in Row
    BY <1>12, <1>a DEF ExitFailed, Exiting, TypeOK, Row, Statuses
  <2>2. rows' \in [Ids -> Row]
    BY <1>12, <2>1, PutType DEF ExitFailed
  <2>3. /\ [caller[c] EXCEPT !.stage = "undo"] \in Caller
        /\ [caller[c] EXCEPT !.stage = "undo"].target = caller[c].target
    BY <1>a DEF Caller, Stages
  <2>4. caller' \in [Callers -> Caller] /\ TargetsExist'
    BY <1>12, <1>a, <2>3, BecomesType DEF ExitFailed, Exiting
  <2> QED
    BY <1>12, <2>2, <2>4 DEF ExitFailed, TypeOK
<1>13. ASSUME NEW c \in Callers, CounterSaved(c) PROVE TypeInv'
  <2> DEFINE i == caller[c].target
             new == [caller[c] EXCEPT !.stage = "merge", !.rest = @ \ {i},
                                      !.target = 0, !.copy = NoRow, !.auto = FALSE]
  <2>1. rows' \in [Ids -> Row]
    BY <1>13, <1>a, MissedType, PutType DEF CounterSaved
  <2>2. new \in Caller /\ new.stage \notin Exiting
    BY <1>a, NoRowType DEF Caller, Stages, Exiting
  <2>3. caller' \in [Callers -> Caller] /\ TargetsExist'
    BY <1>13, <2>2, BecomesType DEF CounterSaved
  <2> QED
    BY <1>13, <2>1, <2>3 DEF CounterSaved, TypeOK
<1>14. ASSUME NEW c \in Callers, SyncEnds(c) \/ ViewStarts(c) PROVE TypeInv'
  <2>1. PICK seen \in SUBSET Ids :
          Becomes(c, [Idle EXCEPT !.stage = "views", !.copies = rows, !.rest = seen])
    <3>1. CASE SyncEnds(c)
      BY <3>1 DEF SyncEnds
    <3>2. CASE ViewStarts(c)
      BY <3>2 DEF ViewStarts
    <3> QED
      BY <1>14, <3>1, <3>2
  <2>2. /\ [Idle EXCEPT !.stage = "views", !.copies = rows, !.rest = seen] \in Caller
        /\ [Idle EXCEPT !.stage = "views", !.copies = rows, !.rest = seen].stage = "views"
    BY IdleType DEF Caller, Stages, TypeOK
  <2>3. caller' \in [Callers -> Caller] /\ TargetsExist'
    BY <2>1, <2>2, BecomesType DEF Exiting
  <2>4. events' \in 0..MaxEvents
    BY <1>14, <1>b DEF SyncEnds, ViewStarts, TypeOK
  <2> QED
    BY <1>14, <2>3, <2>4 DEF SyncEnds, ViewStarts, TypeOK
<1>15. ASSUME NEW c \in Callers, NEW i \in Ids, ViewWrites(c, i) \/ ViewFails(c, i)
       PROVE  TypeInv'
  <2>1. rows' \in [Ids -> Row]
    BY <1>15, <1>a, PutType DEF ViewWrites, ViewFails, Caller, TypeOK
  <2>2. /\ [caller[c] EXCEPT !.rest = @ \ {i}] \in Caller
        /\ [caller[c] EXCEPT !.rest = @ \ {i}].stage = caller[c].stage
    BY <1>a DEF Caller
  <2>3. caller' \in [Callers -> Caller] /\ TargetsExist'
    BY <1>15, <2>2, BecomesType DEF ViewWrites, ViewFails, Exiting
  <2> QED
    BY <1>15, <2>1, <2>3 DEF ViewWrites, ViewFails, TypeOK
<1>16. ASSUME NEW c \in Callers, ViewEnds(c) \/ Dies(c) PROVE TypeInv'
  <2>1. Becomes(c, Idle) /\ Idle.stage = "idle"
    BY <1>16 DEF ViewEnds, Dies, Idle
  <2>2. caller' \in [Callers -> Caller] /\ TargetsExist'
    BY <2>1, IdleType, BecomesType DEF Exiting
  <2>3. events' \in 0..MaxEvents
    BY <1>16, <1>b DEF ViewEnds, Dies, TypeOK
  <2> QED
    BY <1>16, <2>2, <2>3 DEF ViewEnds, Dies, TypeOK
<1>17. CASE UNCHANGED vars
  BY <1>17 DEF vars, TypeOK, TargetsExist
<1> QED
  BY <1>1, <1>2, <1>3, <1>4, <1>5, <1>6, <1>7, <1>8, <1>9, <1>10, <1>11, <1>12, <1>13,
     <1>14, <1>15, <1>16, <1>17 DEF Next, Step

LEMMA TypeInvariant == Spec => []TypeInv
BY TypeInit, TypeNext, PTL DEF Spec

(* The types of the ledger, and of the copies its handlers hold.           *)
THEOREM TypeCorrect == Spec => []TypeOK
<1>1. TypeInv => TypeOK
  BY DEF TypeInv
<1> QED
  BY <1>1, TypeInvariant, PTL

-----------------------------------------------------------------------------
(* However handlers interleave: whatever says that a row is closed, be it  *)
(* the row or a copy somebody may still write back, there is a trade for   *)
(* it or somebody about to add one.                                        *)
Accounted(i) ==
  \/ trades[i] > 0
  \/ \E c \in Callers : caller[c].stage = "review" /\ caller[c].target = i

ClosedIsAccounted ==
  \A i \in Ids :
    /\ rows[i].status = "closed" => Accounted(i)
    /\ \A c \in Callers : caller[c].copies[i].status = "closed" => Accounted(i)

(* Where a closed row and a closed copy come from, and how a review ends.  *)
ClosedComesFrom ==
  /\ \A i \in Ids : rows'[i].status = "closed" =>
       \/ rows[i].status = "closed" \/ trades[i] > 0
       \/ \E c \in Callers : caller[c].copies[i].status = "closed"
       \/ \E c \in Callers : caller'[c].stage = "review" /\ caller'[c].target = i
  /\ \A i \in Ids, c \in Callers : caller'[c].copies[i].status = "closed" =>
       rows[i].status = "closed" \/ caller[c].copies[i].status = "closed"
  /\ \A i \in Ids : trades'[i] >= trades[i]
  /\ \A c \in Callers : caller[c].stage = "review" =>
       caller'[c] = caller[c] \/ trades'[caller[c].target] > 0

LEMMA BecomesEffect ==
  ASSUME TypeInv, NEW c \in Callers, NEW rec, Becomes(c, rec)
  PROVE  caller'[c] = rec /\ \A d \in Callers \ {c} : caller'[d] = caller[d]
BY DEF TypeInv, TypeOK, Becomes

LEMMA PutEffect ==
  ASSUME TypeInv, NEW i \in Ids, NEW row, Put(i, row)
  PROVE  rows'[i] = row /\ \A j \in Ids \ {i} : rows'[j] = rows[j]
BY DEF TypeInv, TypeOK, Put

LEMMA CallerType ==
  ASSUME TypeInv, NEW c \in Callers
  PROVE  /\ caller[c] \in Caller
         /\ caller[c].stage \in Exiting => caller[c].target \in Ids
BY DEF TypeInv, TypeOK, TargetsExist

LEMMA IdleFields ==
  /\ Idle.stage = "idle" /\ Idle.rest = {} /\ Idle.todo = {}
  /\ Idle.target = 0 /\ Idle.auto = FALSE
BY DEF Idle

LEMMA IdleCopies == \A i \in Ids : Idle.copies[i].status = "none"
BY DEF Idle, NoRow

(* A handler that was in no review and takes no new copies.                *)
LEMMA KeepsCopies ==
  ASSUME TypeInv, NEW c \in Callers, caller[c].stage # "review",
         NEW rec, Becomes(c, rec), rec.copies \in {caller[c].copies, Idle.copies, rows},
         UNCHANGED trades,
         \A i \in Ids : rows'[i].status = "closed" =>
           \/ rows[i].status = "closed" \/ trades[i] > 0
           \/ caller[c].copies[i].status = "closed"
           \/ rec.stage = "review" /\ rec.target = i
  PROVE  ClosedComesFrom
<1>1. caller'[c] = rec /\ \A d \in Callers \ {c} : caller'[d] = caller[d]
  BY BecomesEffect
<1>2. \A i \in Ids : trades'[i] >= trades[i]
  BY DEF TypeInv, TypeOK
<1> QED
  BY <1>1, <1>2, IdleCopies DEF ClosedComesFrom

LEMMA ClosedSources == TypeInv /\ Next /\ "review" \notin DieAt => ClosedComesFrom
<1> SUFFICES ASSUME TypeInv, Next, "review" \notin DieAt PROVE ClosedComesFrom
  OBVIOUS
<1>1. ASSUME UserTrades PROVE ClosedComesFrom
  BY <1>1 DEF UserTrades, ClosedComesFrom, TypeInv, TypeOK
<1>2. ASSUME NEW c \in Callers, SyncFetch(c) PROVE ClosedComesFrom
  <2>1. PICK rec : /\ Becomes(c, rec) /\ rec.copies = Idle.copies
                   /\ caller[c].stage # "review" /\ UNCHANGED <<trades, rows>>
    BY <1>2 DEF SyncFetch, Free, Idle
  <2> QED
    BY <2>1, KeepsCopies
<1>3. ASSUME NEW c \in Callers, SyncRead(c) PROVE ClosedComesFrom
  <2>1. PICK rec : /\ Becomes(c, rec) /\ rec.copies = rows
                   /\ caller[c].stage # "review" /\ UNCHANGED <<trades, rows>>
    BY <1>3, CallerType DEF SyncRead, Caller
  <2> QED
    BY <2>1, KeepsCopies
<1>4. ASSUME NEW c \in Callers, NEW k \in Keys, MergeListed(c, k) PROVE ClosedComesFrom
  <2>1. PICK rec : /\ Becomes(c, rec) /\ rec.copies = caller[c].copies
                   /\ caller[c].stage # "review" /\ UNCHANGED trades
    BY <1>4, CallerType DEF MergeListed, Caller
  <2>2. PICK i \in Ids : Put(i, [key |-> k, status |-> "open", miss |-> 0])
    BY <1>4 DEF MergeListed, Found, FirstNew, Unused
  <2> QED
    BY <2>1, <2>2, PutEffect, KeepsCopies
<1>5. ASSUME NEW c \in Callers, NEW i \in Ids, MissCounted(c, i) \/ MissSettled(c, i)
      PROVE  ClosedComesFrom
  <2>1. PICK rec : /\ Becomes(c, rec) /\ rec.copies = caller[c].copies
                   /\ caller[c].stage # "review" /\ UNCHANGED trades
    BY <1>5, CallerType DEF MissCounted, MissSettled, Absent, Caller
  <2>2. PICK row : /\ Put(i, row)
                   /\ row.status = "closed" => trades[i] > 0
                                               \/ caller[c].copies[i].status = "closed"
    BY <1>5, CallerType, MissedType DEF MissCounted, MissSettled
  <2> QED
    BY <2>1, <2>2, PutEffect, KeepsCopies
<1>6. ASSUME NEW c \in Callers, NEW i \in Ids, MissConfirmed(c, i) \/ ManualExit(c, i)
      PROVE  ClosedComesFrom
  <2>1. PICK rec : /\ Becomes(c, rec) /\ rec.copies \in {caller[c].copies, Idle.copies}
                   /\ caller[c].stage # "review" /\ UNCHANGED <<trades, rows>>
    BY <1>6, CallerType DEF MissConfirmed, ManualExit, Absent, Free, Caller, Idle
  <2> QED
    BY <2>1, KeepsCopies
<1>7. ASSUME NEW c \in Callers, ExitReads(c) \/ ExitRefused(c) \/ ReportFails(c)
      PROVE  ClosedComesFrom
  <2>1. PICK rec : /\ Becomes(c, rec) /\ rec.copies \in {caller[c].copies, Idle.copies}
                   /\ caller[c].stage # "review" /\ UNCHANGED <<trades, rows>>
    BY <1>7, CallerType DEF ExitReads, ExitRefused, ReportFails, Refused, Caller
  <2> QED
    BY <2>1, KeepsCopies
<1>8. ASSUME NEW c \in Callers, ExitCloses(c) PROVE ClosedComesFrom
  <2>1. PICK rec : /\ Becomes(c, rec) /\ rec.copies = caller[c].copies
                   /\ rec.stage = "review" /\ rec.target = caller[c].target
                   /\ caller[c].stage # "review" /\ UNCHANGED trades
    BY <1>8, CallerType DEF ExitCloses, Caller
  <2>2. \A i \in Ids \ {caller[c].target} : rows'[i] = rows[i]
    BY <1>8, CallerType, PutEffect DEF ExitCloses, Exiting
  <2> QED
    BY <2>1, <2>2, KeepsCopies
<1>9. ASSUME NEW c \in Callers, TradeAdded(c) PROVE ClosedComesFrom
  <2>1. caller[c].stage = "review" /\ caller[c].target \in Ids /\ UNCHANGED rows
    BY <1>9, CallerType DEF TradeAdded, Exiting
  <2>2. \A i \in Ids : trades'[i] = IF i = caller[c].target THEN trades[i] + 1 ELSE trades[i]
    BY <1>9 DEF TradeAdded, TypeInv, TypeOK
  <2>3. /\ \A i \in Ids : trades'[i] >= trades[i]
        /\ trades'[caller[c].target] > 0
    BY <2>1, <2>2 DEF TypeInv, TypeOK
  <2>4. /\ caller'[c] = Recorded(caller[c])
        /\ \A d \in Callers \ {c} : caller'[d] = caller[d]
    BY <1>9, BecomesEffect DEF TradeAdded
  <2>5. caller'[c].copies \in {caller[c].copies, Idle.copies}
    BY <2>4, CallerType DEF Recorded, Caller
  <2> QED
    BY <2>1, <2>3, <2>4, <2>5, IdleCopies DEF ClosedComesFrom
<1>10. ASSUME NEW c \in Callers, ExitFailed(c) \/ CounterSaved(c) PROVE ClosedComesFrom
  <2>1. PICK rec : /\ Becomes(c, rec) /\ rec.copies = caller[c].copies
                   /\ caller[c].stage # "review" /\ UNCHANGED trades
    BY <1>10, CallerType DEF ExitFailed, CounterSaved, Caller
  <2>2. caller[c].target \in Ids
    BY <1>10, CallerType DEF ExitFailed, CounterSaved, Exiting
  <2>3. PICK row : /\ Put(caller[c].target, row)
                   /\ \/ row.status # "closed"
                      \/ row.status = caller[c].copies[caller[c].target].status
    <3>1. CASE ExitFailed(c)
      BY <3>1, <2>2 DEF ExitFailed, TypeInv, TypeOK, Row
    <3>2. CASE CounterSaved(c)
      BY <3>2, <2>2, CallerType, MissedType DEF CounterSaved
    <3> QED
      BY <1>10, <3>1, <3>2
  <2> QED
    BY <2>1, <2>2, <2>3, PutEffect, KeepsCopies
<1>11. ASSUME NEW c \in Callers, SyncEnds(c) \/ ViewStarts(c) PROVE ClosedComesFrom
  <2>1. PICK rec : /\ Becomes(c, rec) /\ rec.copies = rows
                   /\ caller[c].stage # "review" /\ UNCHANGED <<trades, rows>>
    BY <1>11 DEF SyncEnds, ViewStarts, Free, Idle
  <2> QED
    BY <2>1, KeepsCopies
<1>12. ASSUME NEW c \in Callers, NEW i \in Ids, ViewWrites(c, i) \/ ViewFails(c, i)
       PROVE  ClosedComesFrom
  <2>1. PICK rec : /\ Becomes(c, rec) /\ rec.copies = caller[c].copies
                   /\ caller[c].stage # "review" /\ UNCHANGED trades
    BY <1>12, CallerType DEF ViewWrites, ViewFails, Caller
  <2>2. Put(i, caller[c].copies[i]) \/ UNCHANGED rows
    BY <1>12 DEF ViewWrites, ViewFails
  <2> QED
    BY <2>1, <2>2, PutEffect, KeepsCopies
<1>13. ASSUME NEW c \in Callers, ViewEnds(c) \/ Dies(c) PROVE ClosedComesFrom
  <2>1. /\ Becomes(c, Idle) /\ caller[c].stage # "review" /\ UNCHANGED <<trades, rows>>
    BY <1>13 DEF ViewEnds, Dies
  <2> QED
    BY <2>1, KeepsCopies
<1> QED
  BY <1>1, <1>2, <1>3, <1>4, <1>5, <1>6, <1>7, <1>8, <1>9, <1>10, <1>11, <1>12, <1>13
     DEF Next, Step

LEMMA AccountedInit == Init => ClosedIsAccounted
BY DEF Init, ClosedIsAccounted, Idle, NoRow

LEMMA AccountedNext ==
  TypeInv /\ ClosedIsAccounted /\ [Next]_vars /\ "review" \notin DieAt => ClosedIsAccounted'
<1> SUFFICES ASSUME TypeInv, ClosedIsAccounted, [Next]_vars, "review" \notin DieAt
             PROVE  ClosedIsAccounted'
  OBVIOUS
<1>1. CASE UNCHANGED vars
  BY <1>1 DEF vars, ClosedIsAccounted, Accounted
<1>2. CASE Next
  <2>1. ClosedComesFrom
    BY <1>2, ClosedSources
  <2>2. ASSUME NEW i \in Ids, Accounted(i) PROVE Accounted(i)'
    <3>1. trades[i] \in Nat /\ trades'[i] \in Nat /\ trades'[i] >= trades[i]
      BY <2>1, TypeNext DEF TypeInv, TypeOK, ClosedComesFrom
    <3> QED
      BY <2>1, <2>2, <3>1 DEF Accounted, ClosedComesFrom
  <2>3. ASSUME NEW i \in Ids, rows'[i].status = "closed" PROVE Accounted(i)'
    BY <2>1, <2>2, <2>3 DEF ClosedIsAccounted, ClosedComesFrom, Accounted
  <2>4. ASSUME NEW i \in Ids, NEW c \in Callers, caller'[c].copies[i].status = "closed"
        PROVE  Accounted(i)'
    BY <2>1, <2>2, <2>4 DEF ClosedIsAccounted, ClosedComesFrom
  <2> QED
    BY <2>3, <2>4 DEF ClosedIsAccounted
<1> QED
  BY <1>1, <1>2

(* Unless a process may die between closing a row and adding its trade, a  *)
(* closed row has its trade or is about to get it, however handlers        *)
(* interleave and whatever stale copies they write back (_record_exit,     *)
(* _sync_bitget_positions).                                                *)
THEOREM ClosedRowsHaveTrades ==
  ASSUME "review" \notin DieAt PROVE Spec => []ClosedHasTrade
<1>1. Init /\ TypeInv => ClosedIsAccounted
  BY AccountedInit
<1>2. TypeInv /\ ClosedIsAccounted /\ [Next]_vars => ClosedIsAccounted'
  BY AccountedNext
<1>3. ClosedIsAccounted => ClosedHasTrade
  BY DEF ClosedIsAccounted, Accounted, ClosedHasTrade
<1> QED
  BY <1>1, <1>2, <1>3, TypeInvariant, PTL DEF Spec

-----------------------------------------------------------------------------
(* One at a time.                                                          *)
OneAtATime ==
  \A c, d \in Callers : caller[c].stage # "idle" /\ caller[d].stage # "idle" => c = d

(* The sync finds in its copies exactly the live rows of a key it has yet  *)
(* to merge, ...                                                           *)
ListedFound(c) ==
  caller[c].stage = "merge" =>
    /\ caller[c].todo \subseteq caller[c].listing
    /\ \A k \in caller[c].todo, i \in Ids :
         Live(rows[i]) /\ rows[i].key = k <=> i \in Found(caller[c], k)

(* ... a copy nobody has looked at is its row, ...                         *)
CopiesTrue(c) ==
  /\ \A i \in caller[c].rest \ {caller[c].target} : rows[i] = caller[c].copies[i]
  /\ caller[c].stage # "views" => caller[c].rest \subseteq Unconfirmed(caller[c])
  /\ caller[c].stage \notin Exiting => caller[c].target = 0 /\ ~caller[c].auto
  /\ caller[c].stage # "merge" => caller[c].todo = {}

(* ... and so is the copy of the row whose exit is being recorded, which   *)
(* has no trade.                                                           *)
TargetTrue(c) ==
  LET rec == caller[c]
      row == rows[rec.target]
  IN /\ rec.auto => rec.target \in rec.rest
     /\ rec.auto /\ rec.stage \in {"exit", "report", "failed"} =>
          row = rec.copies[rec.target]
     /\ rec.auto /\ rec.stage = "exit" => trades[rec.target] = 0
     /\ rec.stage = "report" => Live(row) /\ rec.copy = row /\ trades[rec.target] = 0
     /\ rec.stage = "review" => row.status = "closed" /\ trades[rec.target] = 0
     /\ rec.stage \in {"failed", "undo"} => rec.auto
     /\ rec.stage = "undo" => Live(row) /\ row.key = rec.copies[rec.target].key

TradedIsClosed == \A i \in Ids : trades[i] > 0 => rows[i].status = "closed"

IdleHoldsNothing == \A c \in Callers : caller[c].stage = "idle" => caller[c] = Idle

SerialInv ==
  /\ OneAtATime /\ IdleHoldsNothing
  /\ \A c \in Callers : ListedFound(c) /\ CopiesTrue(c) /\ TargetTrue(c)
  /\ OneLiveRowPerKey /\ TradedIsClosed /\ OneTradePerPosition

LEMMA SerialInit == Init => SerialInv
BY DEF Init, SerialInv, OneAtATime, IdleHoldsNothing, ListedFound, CopiesTrue, TargetTrue,
       OneLiveRowPerKey, TradedIsClosed, OneTradePerPosition, Idle, NoRow, Live, Exiting

(* Who runs, runs alone.                                                   *)
LEMMA OthersIdle ==
  ASSUME Serial, SerialInv, NEW c \in Callers, caller[c].stage # "idle" \/ Free(c)
  PROVE  \A d \in Callers \ {c} : caller[d] = Idle
BY DEF SerialInv, OneAtATime, IdleHoldsNothing, Free

LEMMA IdleIsTrue ==
  ASSUME NEW d \in Callers, caller'[d] = Idle
  PROVE  (ListedFound(d) /\ CopiesTrue(d) /\ TargetTrue(d))'
BY DEF Idle, ListedFound, CopiesTrue, TargetTrue, Exiting

(* What has to be shown of a step is what it leaves to its own handler.    *)
LEMMA SerialStep ==
  ASSUME TypeInv, Serial, SerialInv, NEW c \in Callers,
         caller[c].stage # "idle" \/ Free(c),
         NEW rec, Becomes(c, rec), rec.stage = "idle" => rec = Idle,
         rec # Idle => (ListedFound(c) /\ CopiesTrue(c) /\ TargetTrue(c))',
         OneLiveRowPerKey', TradedIsClosed', OneTradePerPosition'
  PROVE  SerialInv'
<1>1. caller'[c] = rec /\ \A d \in Callers \ {c} : caller'[d] = caller[d]
  BY BecomesEffect
<1>2. \A d \in Callers \ {c} : caller'[d] = Idle
  BY <1>1, OthersIdle
<1>3. OneAtATime' /\ IdleHoldsNothing'
  <2>1. \A d \in Callers : d # c => caller'[d] = Idle
    BY <1>2
  <2>2. Idle.stage = "idle"
    BY IdleFields
  <2> QED
    BY <1>1, <2>1, <2>2 DEF OneAtATime, IdleHoldsNothing
<1>4. ASSUME NEW d \in Callers PROVE (ListedFound(d) /\ CopiesTrue(d) /\ TargetTrue(d))'
  BY <1>1, <1>2, IdleIsTrue
<1> QED
  BY <1>3, <1>4 DEF SerialInv

(* A step that leaves rows and trades alone.                               *)
LEMMA TablesKept ==
  ASSUME SerialInv, UNCHANGED <<rows, trades>>
  PROVE  OneLiveRowPerKey' /\ TradedIsClosed' /\ OneTradePerPosition'
BY DEF SerialInv, OneLiveRowPerKey, TradedIsClosed, OneTradePerPosition

(* A step that replaces a row by one that is not live, or keeps it live    *)
(* under its key, and takes no row with a trade back.                      *)
LEMMA RowReplaced ==
  ASSUME TypeInv, SerialInv, NEW i \in Ids, NEW row, Put(i, row), UNCHANGED trades,
         Live(row) => Live(rows[i]) /\ row.key = rows[i].key,
         trades[i] > 0 => row.status = "closed"
  PROVE  OneLiveRowPerKey' /\ TradedIsClosed' /\ OneTradePerPosition'
<1>1. rows'[i] = row /\ \A j \in Ids \ {i} : rows'[j] = rows[j]
  BY PutEffect
<1>2. \A j \in Ids : Live(rows'[j]) => Live(rows[j]) /\ rows'[j].key = rows[j].key
  BY <1>1
<1>3. OneLiveRowPerKey'
  BY <1>2 DEF SerialInv, OneLiveRowPerKey
<1>4. TradedIsClosed' /\ OneTradePerPosition'
  BY <1>1 DEF SerialInv, TradedIsClosed, OneTradePerPosition
<1> QED
  BY <1>3, <1>4

(* A listed position becomes the one live row of its key.                  *)
LEMMA MergedRow ==
  ASSUME SerialInv, NEW c \in Callers, NEW k \in Keys, MergeListed(c, k)
  PROVE  \E i \in Ids :
           /\ i \in IF Found(caller[c], k) # {} THEN Found(caller[c], k) ELSE FirstNew
           /\ Put(i, [key |-> k, status |-> "open", miss |-> 0])
           /\ \A j \in Ids \ {i} : ~(Live(rows[j]) /\ rows[j].key = k)
<1>1. PICK i \in IF Found(caller[c], k) # {} THEN Found(caller[c], k) ELSE FirstNew :
        Put(i, [key |-> k, status |-> "open", miss |-> 0])
  BY DEF MergeListed
<1>2. i \in Ids
  BY <1>1 DEF Found, FirstNew, Unused
<1>3. \A j \in Ids : Live(rows[j]) /\ rows[j].key = k <=> j \in Found(caller[c], k)
  BY DEF MergeListed, SerialInv, ListedFound
<1>4. \A j \in Ids \ {i} : ~(Live(rows[j]) /\ rows[j].key = k)
  BY <1>1, <1>2, <1>3 DEF SerialInv, OneLiveRowPerKey
<1> QED
  BY <1>1, <1>2, <1>4

LEMMA SerialNext == TypeInv /\ Serial /\ SerialInv /\ [Next]_vars => SerialInv'
<1> SUFFICES ASSUME TypeInv, Serial, SerialInv, [Next]_vars PROVE SerialInv'
  OBVIOUS
<1>a. ASSUME NEW c \in Callers
      PROVE  /\ ListedFound(c) /\ CopiesTrue(c) /\ TargetTrue(c)
             /\ OneLiveRowPerKey /\ TradedIsClosed /\ OneTradePerPosition
             /\ \A i \in Ids : Live(rows[i]) => trades[i] = 0
  <2>1. \A i \in Ids : trades[i] \in Nat
    BY DEF TypeInv, TypeOK
  <2> QED
    BY <2>1 DEF SerialInv, TradedIsClosed, Live
<1>1. ASSUME NEW c \in Callers, SyncFetch(c) PROVE SerialInv'
  <2>1. PICK rec : /\ Becomes(c, rec) /\ UNCHANGED <<rows, trades>>
                   /\ rec.stage = "fetched" /\ rec.rest = {} /\ rec.todo = {}
                   /\ rec.target = 0 /\ ~rec.auto
    <3>1. PICK listing : Becomes(c, [Idle EXCEPT !.stage = "fetched", !.listing = listing,
                                                 !.gap = unseen'])
      BY <1>1 DEF SyncFetch
    <3> DEFINE new == [Idle EXCEPT !.stage = "fetched", !.listing = listing, !.gap = unseen']
    <3>2. /\ new.stage = "fetched" /\ new.rest = {} /\ new.todo = {}
          /\ new.target = 0 /\ ~new.auto
      BY IdleType, IdleFields DEF Caller
    <3> HIDE DEF new
    <3> QED
      BY <1>1, <3>1, <3>2 DEF SyncFetch, new
  <2>2. caller'[c] = rec
    BY <2>1, BecomesEffect
  <2>3. (ListedFound(c) /\ CopiesTrue(c) /\ TargetTrue(c))'
    BY <2>1, <2>2 DEF ListedFound, CopiesTrue, TargetTrue, Exiting
  <2> QED
    BY <1>1, <2>1, <2>3, TablesKept, SerialStep DEF SyncFetch
<1>2. ASSUME NEW c \in Callers, SyncRead(c) PROVE SerialInv'
  <2>1. PICK rec : /\ Becomes(c, rec) /\ UNCHANGED <<rows, trades>>
                   /\ rec.stage = "merge" /\ rec.copies = rows
                   /\ rec.rest = Unconfirmed(rec) /\ rec.todo = rec.listing
                   /\ rec.target = caller[c].target /\ rec.auto = caller[c].auto
    <3> DEFINE old == [caller[c] EXCEPT !.copies = rows]
               new == [old EXCEPT !.stage = "merge", !.todo = old.listing,
                                  !.rest = Unconfirmed(old)]
    <3>1. /\ new.stage = "merge" /\ new.copies = rows /\ new.listing = old.listing
          /\ new.rest = Unconfirmed(old) /\ new.todo = new.listing
          /\ new.target = caller[c].target /\ new.auto = caller[c].auto
          /\ old.copies = rows
      BY CallerType DEF Caller
    <3>2. Unconfirmed(new) = Unconfirmed(old)
      BY <3>1 DEF Unconfirmed
    <3>3. Becomes(c, new) /\ UNCHANGED <<rows, trades>>
      BY <1>2 DEF SyncRead
    <3> HIDE DEF old, new
    <3> QED
      BY <3>1, <3>2, <3>3
  <2>2. caller'[c] = rec
    BY <2>1, BecomesEffect
  <2>3. rec.target = 0 /\ ~rec.auto
    BY <1>2, <1>a, <2>1 DEF SyncRead, CopiesTrue, Exiting
  <2>4. CopiesTrue(c)' /\ TargetTrue(c)'
    BY <2>1, <2>2, <2>3 DEF CopiesTrue, TargetTrue, Exiting, Unconfirmed
  <2>5. ListedFound(c)'
    BY <2>1, <2>2 DEF ListedFound, Found
  <2> QED
    BY <1>2, <2>1, <2>4, <2>5, TablesKept, SerialStep DEF SyncRead
<1>3. ASSUME NEW c \in Callers, NEW k \in Keys, MergeListed(c, k) PROVE SerialInv'
  <2>1. PICK rec : /\ Becomes(c, rec) /\ UNCHANGED trades
                   /\ rec.stage = "merge" /\ rec.copies = caller[c].copies
                   /\ rec.listing = caller[c].listing
                   /\ rec.rest = caller[c].rest /\ rec.todo = caller[c].todo \ {k}
                   /\ rec.target = caller[c].target /\ rec.auto = caller[c].auto
    BY <1>3, CallerType DEF MergeListed, Caller
  <2>2. caller'[c] = rec
    BY <2>1, BecomesEffect
  <2>3. caller[c].stage = "merge" /\ k \in caller[c].todo /\ k \in caller[c].listing
    BY <1>3, <1>a DEF MergeListed, ListedFound
  <2>4. rec.target = 0 /\ ~rec.auto
    BY <2>1, <2>3, <1>a DEF CopiesTrue, Exiting
  <2>5. PICK i \in Ids :
          /\ i \in IF Found(caller[c], k) # {} THEN Found(caller[c], k) ELSE FirstNew
          /\ Put(i, [key |-> k, status |-> "open", miss |-> 0])
          /\ \A j \in Ids \ {i} : ~(Live(rows[j]) /\ rows[j].key = k)
    BY <1>3, MergedRow
  <2>6. i \in Ids
    OBVIOUS
  <2>7. /\ rows'[i] = [key |-> k, status |-> "open", miss |-> 0]
        /\ \A j \in Ids \ {i} : rows'[j] = rows[j]
    BY <2>5, PutEffect
  <2>8. \A j \in Ids : Live(rows[j]) /\ rows[j].key = k <=> j \in Found(caller[c], k)
    BY <2>3, <1>a DEF ListedFound
  <2>9. \A j \in Ids \ {i} : ~(Live(rows[j]) /\ rows[j].key = k)
    BY <2>5
  <2>10. (Live(rows[i]) /\ rows[i].key = k) \/ rows[i].status = "none"
    BY <2>5, <2>6, <2>8 DEF FirstNew, Unused
  <2>11. i \notin caller[c].rest
    <3>1. caller[c].rest \subseteq Unconfirmed(caller[c]) /\ caller[c].target = 0
      BY <2>3, <1>a DEF CopiesTrue, Exiting
    <3>2. CASE Found(caller[c], k) # {}
      BY <2>3, <2>5, <3>1, <3>2 DEF Found, Unconfirmed
    <3>3. CASE Found(caller[c], k) = {}
      <4>1. rows[i].status = "none"
        BY <2>5, <3>3 DEF FirstNew, Unused
      <4>2. i \in caller[c].rest => rows[i] = caller[c].copies[i]
        BY <2>6, <3>1, <1>a DEF CopiesTrue, Ids
      <4> QED
        BY <3>1, <4>1, <4>2 DEF Unconfirmed, Live
    <3> QED
      BY <3>2, <3>3
  <2>12. CopiesTrue(c)' /\ TargetTrue(c)'
    <3>1. \A j \in rec.rest \ {rec.target} : rows'[j] = rec.copies[j]
      BY <2>1, <2>6, <2>7, <2>11, <1>a, CallerType DEF CopiesTrue, Caller
    <3>2. rec.rest \subseteq Unconfirmed(rec)
      BY <2>1, <2>3, <1>a DEF CopiesTrue, Unconfirmed
    <3> QED
      BY <2>1, <2>2, <2>4, <3>1, <3>2 DEF CopiesTrue, TargetTrue, Exiting, Unconfirmed
  <2>13. ListedFound(c)'
    <3>1. ASSUME NEW l \in rec.todo, NEW j \in Ids
          PROVE  Live(rows'[j]) /\ rows'[j].key = l <=> j \in Found(rec, l)
      <4>1. l \in caller[c].todo /\ l # k
        BY <2>1
      <4>2. Live(rows[j]) /\ rows[j].key = l <=> j \in Found(caller[c], l)
        BY <2>3, <4>1, <1>a DEF ListedFound
      <4>3. Live(rows'[j]) /\ rows'[j].key = l <=> Live(rows[j]) /\ rows[j].key = l
        BY <2>7, <2>10, <4>1 DEF Live
      <4> QED
        BY <2>1, <4>2, <4>3 DEF Found
    <3>2. rec.todo \subseteq rec.listing
      BY <2>1, <2>3, <1>a DEF ListedFound
    <3> QED
      BY <2>2, <3>1, <3>2 DEF ListedFound
  <2>14. OneLiveRowPerKey'
    BY <2>7, <2>9, <1>a DEF OneLiveRowPerKey
  <2>15. TradedIsClosed' /\ OneTradePerPosition'
    <3>1. ~(trades[i] > 0)
      BY <2>6, <2>10, <1>a DEF TradedIsClosed, Live
    <3> QED
      BY <2>1, <2>7, <3>1, <1>a DEF TradedIsClosed, OneTradePerPosition
  <2> QED
    BY <2>1, <2>3, <2>12, <2>13, <2>14, <2>15, SerialStep
<1>4. ASSUME NEW c \in Callers, NEW i \in Ids, MissCounted(c, i) \/ MissSettled(c, i)
      PROVE  SerialInv'
  <2>1. PICK rec : /\ Becomes(c, rec) /\ UNCHANGED trades
                   /\ rec.stage = "merge" /\ rec.copies = caller[c].copies
                   /\ rec.listing = caller[c].listing
                   /\ rec.rest = caller[c].rest \ {i} /\ rec.todo = {}
                   /\ rec.target = caller[c].target /\ rec.auto = caller[c].auto
    BY <1>4, CallerType DEF MissCounted, MissSettled, Absent, Caller
  <2>2. caller'[c] = rec
    BY <2>1, BecomesEffect
  <2>3. caller[c].stage = "merge" /\ i \in caller[c].rest
    BY <1>4 DEF MissCounted, MissSettled, Absent
  <2>4. rec.target = 0 /\ ~rec.auto /\ caller[c].target = 0
    BY <2>1, <2>3, <1>a DEF CopiesTrue, Exiting
  <2>5. rows[i] = caller[c].copies[i] /\ Live(rows[i])
    BY <2>3, <2>4, <1>a DEF CopiesTrue, Unconfirmed, Ids
  <2>6. PICK row : /\ Put(i, row)
                   /\ \/ row.status = "closed"
                      \/ row.status = rows[i].status /\ row.key = rows[i].key
    BY <1>4, <2>5, CallerType, MissedType DEF MissCounted, MissSettled, Caller, Row
  <2>7. OneLiveRowPerKey' /\ TradedIsClosed' /\ OneTradePerPosition'
    BY <2>1, <2>5, <2>6, <1>a, RowReplaced DEF Live
  <2>8. \A j \in rec.rest \ {rec.target} : rows'[j] = rec.copies[j]
    BY <2>1, <2>4, <2>6, <1>a, CallerType, PutEffect DEF CopiesTrue, Caller
  <2>9. (ListedFound(c) /\ CopiesTrue(c) /\ TargetTrue(c))'
    BY <2>1, <2>2, <2>3, <2>4, <2>8, <1>a
       DEF ListedFound, CopiesTrue, TargetTrue, Exiting, Unconfirmed
  <2> QED
    BY <2>1, <2>3, <2>7, <2>9, SerialStep
<1>5. ASSUME NEW c \in Callers, NEW i \in Ids, MissConfirmed(c, i) PROVE SerialInv'
  <2>1. PICK rec : /\ Becomes(c, rec) /\ UNCHANGED <<rows, trades>>
                   /\ rec.stage = "exit" /\ rec.copies = caller[c].copies
                   /\ rec.listing = caller[c].listing
                   /\ rec.rest = caller[c].rest /\ rec.todo = {}
                   /\ rec.target = i /\ rec.auto
    <3> DEFINE new == [caller[c] EXCEPT !.stage = "exit", !.target = i, !.auto = TRUE]
    <3>1. /\ new.stage = "exit" /\ new.copies = caller[c].copies
          /\ new.listing = caller[c].listing
          /\ new.rest = caller[c].rest /\ new.todo = caller[c].todo
          /\ new.target = i /\ new.auto
      BY CallerType DEF Caller
    <3>2. Becomes(c, new) /\ UNCHANGED <<rows, trades>> /\ caller[c].todo = {}
      BY <1>5 DEF MissConfirmed, Absent
    <3> HIDE DEF new
    <3> QED
      BY <3>1, <3>2
  <2>2. caller'[c] = rec
    BY <2>1, BecomesEffect
  <2>3. caller[c].stage = "merge" /\ i \in caller[c].rest /\ trades[i] = 0
    BY <1>5 DEF MissConfirmed, Absent
  <2>4. caller[c].target = 0
    BY <2>3, <1>a DEF CopiesTrue, Exiting
  <2>5. \A j \in rec.rest : rows'[j] = rec.copies[j]
    BY <2>1, <2>4, <1>a, CallerType DEF CopiesTrue, Caller, Ids
  <2>6. (ListedFound(c) /\ CopiesTrue(c) /\ TargetTrue(c))'
    BY <2>1, <2>2, <2>3, <2>5, <1>a
       DEF ListedFound, CopiesTrue, TargetTrue, Exiting, Unconfirmed
  <2> QED
    BY <2>1, <2>3, <2>6, TablesKept, SerialStep
<1>6. ASSUME NEW c \in Callers, NEW i \in Ids, ManualExit(c, i) PROVE SerialInv'
  <2>1. PICK rec : /\ Becomes(c, rec) /\ UNCHANGED <<rows, trades>>
                   /\ rec.stage = "exit" /\ rec.rest = {} /\ rec.todo = {} /\ ~rec.auto
    <3> DEFINE new == [Idle EXCEPT !.stage = "exit", !.target = i]
    <3>1. new.stage = "exit" /\ new.rest = {} /\ new.todo = {} /\ ~new.auto
      BY IdleType, IdleFields DEF Caller
    <3>2. Becomes(c, new) /\ UNCHANGED <<rows, trades>>
      BY <1>6 DEF ManualExit
    <3> HIDE DEF new
    <3> QED
      BY <3>1, <3>2
  <2>2. caller'[c] = rec
    BY <2>1, BecomesEffect
  <2>3. (ListedFound(c) /\ CopiesTrue(c) /\ TargetTrue(c))'
    BY <2>1, <2>2 DEF ListedFound, CopiesTrue, TargetTrue, Exiting
  <2> QED
    BY <1>6, <2>1, <2>3, TablesKept, SerialStep DEF ManualExit
<1>7. ASSUME NEW c \in Callers, ExitReads(c) PROVE SerialInv'
  <2>1. PICK rec : /\ Becomes(c, rec) /\ UNCHANGED <<rows, trades>>
                   /\ rec.stage = "report" /\ rec.copies = caller[c].copies
                   /\ rec.listing = caller[c].listing
                   /\ rec.rest = caller[c].rest /\ rec.todo = caller[c].todo
                   /\ rec.target = caller[c].target /\ rec.auto = caller[c].auto
                   /\ rec.copy = rows[rec.target]
    <3> DEFINE new == [caller[c] EXCEPT !.stage = "report", !.copy = rows[caller[c].target]]
    <3>1. /\ new.stage = "report" /\ new.copies = caller[c].copies
          /\ new.listing = caller[c].listing
          /\ new.rest = caller[c].rest /\ new.todo = caller[c].todo
          /\ new.target = caller[c].target /\ new.auto = caller[c].auto
          /\ new.copy = rows[new.target]
      BY CallerType DEF Caller
    <3>2. Becomes(c, new) /\ UNCHANGED <<rows, trades>>
      BY <1>7 DEF ExitReads
    <3> HIDE DEF new
    <3> QED
      BY <3>1, <3>2
  <2>2. caller'[c] = rec
    BY <2>1, BecomesEffect
  <2>3. caller[c].stage = "exit" /\ Live(rows[rec.target]) /\ rec.target \in Ids
    BY <1>7, <2>1, CallerType DEF ExitReads, Exiting
  <2>4. trades[rec.target] = 0
    BY <2>3, <1>a
  <2>5. (ListedFound(c) /\ CopiesTrue(c))'
    BY <2>1, <2>2, <2>3, <1>a DEF ListedFound, CopiesTrue, Exiting, Unconfirmed
  <2>6. TargetTrue(c)'
    BY <2>1, <2>2, <2>3, <2>4, <1>a DEF TargetTrue
  <2> QED
    BY <2>1, <2>3, <2>5, <2>6, TablesKept, SerialStep
<1>8. ASSUME NEW c \in Callers, ExitRefused(c) \/ ReportFails(c) PROVE SerialInv'
  <2>1. /\ Becomes(c, Refused(caller[c])) /\ UNCHANGED <<rows, trades>>
        /\ caller[c].stage \in {"exit", "report"}
    BY <1>8 DEF ExitRefused, ReportFails
  <2>2. CASE ~caller[c].auto
    BY <2>1, <2>2, TablesKept, SerialStep DEF Refused
  <2>3. CASE caller[c].auto
    <3>1. PICK rec : /\ Becomes(c, rec)
                     /\ rec.stage = "failed" /\ rec.copies = caller[c].copies
                     /\ rec.listing = caller[c].listing
                     /\ rec.rest = caller[c].rest /\ rec.todo = caller[c].todo
                     /\ rec.target = caller[c].target /\ rec.auto = caller[c].auto
      <4> DEFINE new == [caller[c] EXCEPT !.stage = "failed"]
      <4>1. /\ new.stage = "failed" /\ new.copies = caller[c].copies
            /\ new.listing = caller[c].listing
            /\ new.rest = caller[c].rest /\ new.todo = caller[c].todo
            /\ new.target = caller[c].target /\ new.auto = caller[c].auto
        BY CallerType DEF Caller
      <4>2. Becomes(c, new)
        BY <2>1, <2>3 DEF Refused
      <4> HIDE DEF new
      <4> QED
        BY <4>1, <4>2
    <3>2. caller'[c] = rec
      BY <3>1, BecomesEffect
    <3>3. (ListedFound(c) /\ CopiesTrue(c))'
      BY <2>1, <3>1, <3>2, <1>a DEF ListedFound, CopiesTrue, Exiting, Unconfirmed
    <3>4. TargetTrue(c)'
      <4>1. /\ rec.target \in rec.rest
            /\ rows[rec.target] = rec.copies[rec.target]
        BY <2>1, <2>3, <3>1, <1>a DEF TargetTrue
      <4> QED
        BY <2>1, <2>3, <3>1, <3>2, <4>1 DEF TargetTrue
    <3> QED
      BY <2>1, <3>1, <3>3, <3>4, TablesKept, SerialStep
  <2> QED
    BY <2>2, <2>3
<1>9. ASSUME NEW c \in Callers, ExitCloses(c) PROVE SerialInv'
  <2>1. PICK rec : /\ Becomes(c, rec) /\ UNCHANGED trades
                   /\ rec.stage = "review" /\ rec.copies = caller[c].copies
                   /\ rec.listing = caller[c].listing
                   /\ rec.rest = caller[c].rest /\ rec.todo = caller[c].todo
                   /\ rec.target = caller[c].target /\ rec.auto = caller[c].auto
    BY <1>9, CallerType DEF ExitCloses, Caller
  <2>2. caller'[c] = rec
    BY <2>1, BecomesEffect
  <2>3. caller[c].stage = "report" /\ rec.target \in Ids
    BY <1>9, <2>1, CallerType DEF ExitCloses, Exiting
  <2>4. PICK row : Put(rec.target, row) /\ row.status = "closed"
    BY <1>9, <2>1, CallerType DEF ExitCloses, Caller, Row
  <2>5. OneLiveRowPerKey' /\ TradedIsClosed' /\ OneTradePerPosition'
    BY <2>1, <2>3, <2>4, RowReplaced DEF Live
  <2>6. /\ rows'[rec.target].status = "closed"
        /\ \A j \in Ids \ {rec.target} : rows'[j] = rows[j]
    BY <2>3, <2>4, PutEffect
  <2>7. \A j \in rec.rest \ {rec.target} : rows'[j] = rec.copies[j]
    BY <2>1, <2>6, <1>a, CallerType DEF CopiesTrue, Caller
  <2>8. (ListedFound(c) /\ CopiesTrue(c))'
    BY <2>1, <2>2, <2>3, <2>7, <1>a DEF ListedFound, CopiesTrue, Exiting, Unconfirmed
  <2>9. TargetTrue(c)'
    BY <2>1, <2>2, <2>3, <2>6, <1>a DEF TargetTrue
  <2> QED
    BY <2>1, <2>3, <2>5, <2>8, <2>9, SerialStep
<1>10. ASSUME NEW c \in Callers, TradeAdded(c) PROVE SerialInv'
  <2>1. /\ caller[c].stage = "review" /\ caller[c].target \in Ids /\ UNCHANGED rows
        /\ trades' = [trades EXCEPT ![caller[c].target] = @ + 1]
        /\ Becomes(c, Recorded(caller[c]))
    BY <1>10, CallerType DEF TradeAdded, Exiting
  <2>2. rows[caller[c].target].status = "closed" /\ trades[caller[c].target] = 0
    BY <2>1, <1>a DEF TargetTrue
  <2>3. \A j \in Ids : trades'[j] = IF j = caller[c].target THEN 1 ELSE trades[j]
    BY <2>1, <2>2 DEF TypeInv, TypeOK
  <2>4. OneLiveRowPerKey' /\ TradedIsClosed' /\ OneTradePerPosition'
    BY <2>1, <2>2, <2>3, <1>a DEF OneLiveRowPerKey, TradedIsClosed, OneTradePerPosition
  <2>5. CASE ~caller[c].auto
    BY <2>1, <2>4, <2>5, SerialStep DEF Recorded
  <2>6. CASE caller[c].auto
    <3>1. PICK rec : /\ Becomes(c, rec)
                     /\ rec.stage = "merge" /\ rec.copies = caller[c].copies
                     /\ rec.listing = caller[c].listing
                     /\ rec.rest = caller[c].rest \ {caller[c].target}
                     /\ rec.todo = caller[c].todo
                     /\ rec.target = 0 /\ ~rec.auto
      <4> DEFINE new == [caller[c] EXCEPT
                           !.stage = "merge", !.rest = @ \ {caller[c].target},
                           !.target = 0, !.copy = NoRow, !.auto = FALSE]
      <4>1. /\ new.stage = "merge" /\ new.copies = caller[c].copies
            /\ new.listing = caller[c].listing
            /\ new.rest = caller[c].rest \ {caller[c].target}
            /\ new.todo = caller[c].todo /\ new.target = 0 /\ ~new.auto
        BY CallerType DEF Caller
      <4>2. Becomes(c, new)
        BY <2>1, <2>6 DEF Recorded
      <4> HIDE DEF new
      <4> QED
        BY <4>1, <4>2
    <3>2. caller'[c] = rec
      BY <3>1, BecomesEffect
    <3>3. (ListedFound(c) /\ CopiesTrue(c) /\ TargetTrue(c))'
      BY <2>1, <3>1, <3>2, <1>a
         DEF ListedFound, CopiesTrue, TargetTrue, Exiting, Unconfirmed
    <3> QED
      BY <2>1, <2>4, <3>1, <3>3, SerialStep
  <2> QED
    BY <2>5, <2>6
<1>11. ASSUME NEW c \in Callers, ExitFailed(c) PROVE SerialInv'
  <2>1. PICK rec : /\ Becomes(c, rec) /\ UNCHANGED trades
                   /\ rec.stage = "undo" /\ rec.copies = caller[c].copies
                   /\ rec.listing = caller[c].listing
                   /\ rec.rest = caller[c].rest /\ rec.todo = caller[c].todo
                   /\ rec.target = caller[c].target /\ rec.auto = caller[c].auto
    BY <1>11, CallerType DEF ExitFailed, Caller
  <2>2. caller'[c] = rec
    BY <2>1, BecomesEffect
  <2>3. caller[c].stage = "failed" /\ rec.target \in Ids /\ rec.auto
    BY <1>11, <2>1, <1>a, CallerType DEF ExitFailed, Exiting, TargetTrue
  <2>4. /\ rec.target \in rec.rest /\ rows[rec.target] = rec.copies[rec.target]
        /\ Live(rows[rec.target])
    BY <2>1, <2>3, <1>a DEF TargetTrue, CopiesTrue, Unconfirmed
  <2>5. PICK row : /\ Put(rec.target, row) /\ Live(row)
                   /\ row.key = rows[rec.target].key
    BY <1>11, <2>1, <2>3 DEF ExitFailed, TypeInv, TypeOK, Row, Live
  <2>6. OneLiveRowPerKey' /\ TradedIsClosed' /\ OneTradePerPosition'
    BY <2>1, <2>3, <2>4, <2>5, <1>a, RowReplaced
  <2>7. /\ rows'[rec.target] = row
        /\ \A j \in Ids \ {rec.target} : rows'[j] = rows[j]
    BY <2>3, <2>5, PutEffect
  <2>8. \A j \in rec.rest \ {rec.target} : rows'[j] = rec.copies[j]
    BY <2>1, <2>7, <1>a, CallerType DEF CopiesTrue, Caller
  <2>9. (ListedFound(c) /\ CopiesTrue(c))'
    BY <2>1, <2>2, <2>3, <2>8, <1>a DEF ListedFound, CopiesTrue, Exiting, Unconfirmed
  <2>10. TargetTrue(c)'
    BY <2>1, <2>2, <2>3, <2>4, <2>5, <2>7 DEF TargetTrue
  <2> QED
    BY <2>1, <2>3, <2>6, <2>9, <2>10, SerialStep
<1>12. ASSUME NEW c \in Callers, CounterSaved(c) PROVE SerialInv'
  <2> DEFINE i == caller[c].target
  <2>1. PICK rec : /\ Becomes(c, rec) /\ UNCHANGED trades
                   /\ rec.stage = "merge" /\ rec.copies = caller[c].copies
                   /\ rec.listing = caller[c].listing
                   /\ rec.rest = caller[c].rest \ {i} /\ rec.todo = caller[c].todo
                   /\ rec.target = 0 /\ ~rec.auto
    <3> DEFINE new == [caller[c] EXCEPT !.stage = "merge", !.rest = @ \ {i},
                                        !.target = 0, !.copy = NoRow, !.auto = FALSE]
    <3>1. /\ new.stage = "merge" /\ new.copies = caller[c].copies
          /\ new.listing = caller[c].listing
          /\ new.rest = caller[c].rest \ {i} /\ new.todo = caller[c].todo
          /\ new.target = 0 /\ ~new.auto
      BY CallerType DEF Caller
    <3>2. Becomes(c, new) /\ UNCHANGED trades
      BY <1>12 DEF CounterSaved
    <3> HIDE DEF new
    <3> QED
      BY <3>1, <3>2
  <2>2. caller'[c] = rec
    BY <2>1, BecomesEffect
  <2>3. caller[c].stage = "undo" /\ i \in Ids /\ caller[c].auto
    BY <1>12, <1>a, CallerType DEF CounterSaved, Exiting, TargetTrue
  <2>4. /\ Live(rows[i]) /\ Live(caller[c].copies[i])
        /\ rows[i].key = caller[c].copies[i].key
    BY <2>3, <1>a DEF TargetTrue, CopiesTrue, Unconfirmed
  <2>5. PICK row : /\ Put(i, row) /\ Live(row) /\ row.key = rows[i].key
    BY <1>12, <2>3, <2>4, CallerType, MissedType DEF CounterSaved, Live
  <2>6. OneLiveRowPerKey' /\ TradedIsClosed' /\ OneTradePerPosition'
    BY <2>1, <2>3, <2>4, <2>5, <1>a, RowReplaced
  <2>7. \A j \in Ids \ {i} : rows'[j] = rows[j]
    BY <2>3, <2>5, PutEffect
  <2>8. \A j \in rec.rest \ {rec.target} : rows'[j] = rec.copies[j]
    BY <2>1, <2>7, <1>a, CallerType DEF CopiesTrue, Caller
  <2>9. (ListedFound(c) /\ CopiesTrue(c) /\ TargetTrue(c))'
    BY <2>1, <2>2, <2>3, <2>8, <1>a
       DEF ListedFound, CopiesTrue, TargetTrue, Exiting, Unconfirmed
  <2> QED
    BY <2>1, <2>3, <2>6, <2>9, SerialStep
<1>13. ASSUME NEW c \in Callers, SyncEnds(c) \/ ViewStarts(c) PROVE SerialInv'
  <2>1. PICK rec : /\ Becomes(c, rec) /\ UNCHANGED <<rows, trades>>
                   /\ rec.stage = "views" /\ rec.copies = rows /\ rec.todo = {}
                   /\ rec.rest \subseteq Ids /\ rec.target = 0 /\ ~rec.auto
    <3>1. PICK seen \in SUBSET Ids :
            Becomes(c, [Idle EXCEPT !.stage = "views", !.copies = rows, !.rest = seen])
      <4>1. CASE SyncEnds(c)
        BY <4>1 DEF SyncEnds
      <4>2. CASE ViewStarts(c)
        BY <4>2 DEF ViewStarts
      <4> QED
        BY <1>13, <4>1, <4>2
    <3> DEFINE new == [Idle EXCEPT !.stage = "views", !.copies = rows, !.rest = seen]
    <3>2. /\ new.stage = "views" /\ new.copies = rows /\ new.todo = {}
          /\ new.rest \subseteq Ids /\ new.target = 0 /\ ~new.auto
      BY IdleType, IdleFields DEF Caller
    <3>3. UNCHANGED <<rows, trades>>
      BY <1>13 DEF SyncEnds, ViewStarts
    <3> HIDE DEF new
    <3> QED
      BY <3>1, <3>2, <3>3 DEF new
  <2>2. caller'[c] = rec
    BY <2>1, BecomesEffect
  <2>3. (ListedFound(c) /\ CopiesTrue(c) /\ TargetTrue(c))'
    BY <2>1, <2>2 DEF ListedFound, CopiesTrue, TargetTrue, Exiting
  <2> QED
    BY <1>13, <2>1, <2>3, TablesKept, SerialStep DEF SyncEnds, ViewStarts
<1>14. ASSUME NEW c \in Callers, NEW i \in Ids, ViewWrites(c, i) \/ ViewFails(c, i)
       PROVE  SerialInv'
  <2>1. PICK rec : /\ Becomes(c, rec) /\ UNCHANGED trades
                   /\ rec.stage = "views" /\ rec.copies = caller[c].copies
                   /\ rec.rest = caller[c].rest \ {i} /\ rec.todo = caller[c].todo
                   /\ rec.target = caller[c].target /\ rec.auto = caller[c].auto
    BY <1>14, CallerType DEF ViewWrites, ViewFails, Caller
  <2>2. caller'[c] = rec
    BY <2>1, BecomesEffect
  <2>3. caller[c].stage = "views" /\ i \in caller[c].rest
    BY <1>14 DEF ViewWrites, ViewFails
  <2>4. rec.target = 0 /\ ~rec.auto /\ rec.todo = {}
    BY <2>1, <2>3, <1>a DEF CopiesTrue, Exiting
  <2>5. rows[i] = caller[c].copies[i]
    <3>1. caller[c].target = 0 /\ i # 0
      BY <2>1, <2>4 DEF Ids
    <3> QED
      BY <2>3, <3>1, <1>a DEF CopiesTrue
  <2>6. UNCHANGED rows
    BY <1>14, <2>5 DEF ViewWrites, ViewFails, Put, TypeInv, TypeOK
  <2>7. (ListedFound(c) /\ CopiesTrue(c) /\ TargetTrue(c))'
    BY <2>1, <2>2, <2>3, <2>4, <2>6, <1>a DEF ListedFound, CopiesTrue, TargetTrue, Exiting
  <2> QED
    BY <2>1, <2>3, <2>6, <2>7, TablesKept, SerialStep
<1>15. ASSUME NEW c \in Callers, ViewEnds(c) \/ Dies(c) PROVE SerialInv'
  <2>1. /\ Becomes(c, Idle) /\ caller[c].stage # "idle" /\ UNCHANGED <<rows, trades>>
    BY <1>15 DEF ViewEnds, Dies
  <2> QED
    BY <2>1, TablesKept, SerialStep
<1>16. CASE UserTrades \/ UNCHANGED vars
  <2>1. UNCHANGED <<rows, trades, caller>>
    BY <1>16 DEF UserTrades, vars
  <2> QED
    BY <2>1 DEF SerialInv, OneAtATime, IdleHoldsNothing, ListedFound, CopiesTrue, TargetTrue,
                OneLiveRowPerKey, TradedIsClosed, OneTradePerPosition, Found, Unconfirmed
<1> QED
  BY <1>1, <1>2, <1>3, <1>4, <1>5, <1>6, <1>7, <1>8, <1>9, <1>10, <1>11, <1>12, <1>13,
     <1>14, <1>15, <1>16 DEF Next, Step

LEMMA SerialInvariant == ASSUME Serial PROVE Spec => []SerialInv
<1>1. TypeInv /\ SerialInv /\ [Next]_vars => SerialInv'
  BY SerialNext
<1> QED
  BY <1>1, SerialInit, TypeInvariant, PTL DEF Spec

(* If handlers run one at a time the ledger believes in one row a position *)
(* at most, through every appearance, disappearance, failed exit and death *)
(* of a handler (_sync_bitget_positions).                                  *)
THEOREM OneRowPerPosition == ASSUME Serial PROVE Spec => []OneLiveRowPerKey
<1>1. SerialInv => OneLiveRowPerKey
  BY DEF SerialInv
<1> QED
  BY <1>1, SerialInvariant, PTL

(* ... and records at most one trade for a row, though a failed automatic  *)
(* exit is tried again and users record exits too (_record_exit).          *)
THEOREM OneTradePerRow == ASSUME Serial PROVE Spec => []OneTradePerPosition
<1>1. SerialInv => OneTradePerPosition
  BY DEF SerialInv
<1> QED
  BY <1>1, SerialInvariant, PTL

-----------------------------------------------------------------------------
(* A listing of the sync that runs has the key, and its row is not reset   *)
(* yet.                                                                    *)
Noticed(c, k) ==
  \/ caller[c].stage = "fetched" /\ k \in caller[c].listing
  \/ caller[c].stage = "merge" /\ k \in caller[c].todo

(* A row has been missed at most as often as its key was absent, unless    *)
(* the sync has seen the position and is about to reset its counter ...    *)
MissesCounted(c, i) ==
  Live(rows[i]) => rows[i].miss <= unseen[rows[i].key] \/ Noticed(c, rows[i].key)

MissedWhenAbsent ==
  \A i \in Ids : Live(rows[i]) =>
    rows[i].miss <= unseen[rows[i].key] \/ \E c \in Callers : Noticed(c, rows[i].key)

(* ... and one more miss is justified where the listing lacks the key.     *)
MissIsDue(c) ==
  /\ caller[c].stage = "fetched" =>
       /\ caller[c].gap = unseen
       /\ \A i \in Ids : Live(rows[i]) /\ rows[i].key \notin caller[c].listing =>
            Counted(rows[i].miss) <= caller[c].gap[rows[i].key]
  /\ caller[c].stage = "merge" \/ caller[c].auto =>
       /\ caller[c].gap = unseen
       /\ \A i \in caller[c].rest :
            Counted(caller[c].copies[i].miss) <= caller[c].gap[caller[c].copies[i].key]

AbsenceInv == SerialInv /\ MissedWhenAbsent /\ \A c \in Callers : MissIsDue(c)

LEMMA AbsenceInit == Init => AbsenceInv
<1> SUFFICES ASSUME Init PROVE AbsenceInv
  OBVIOUS
<1>1. MissedWhenAbsent
  BY DEF Init, MissedWhenAbsent, NoRow, Live
<1>2. \A c \in Callers : MissIsDue(c)
  BY IdleFields DEF Init, MissIsDue
<1> QED
  BY <1>1, <1>2, SerialInit DEF AbsenceInv

(* Where nothing is noticed the counters are what they should be.          *)
LEMMA NothingNoticed ==
  ASSUME Serial, AbsenceInv, NEW c \in Callers, caller[c].stage # "idle" \/ Free(c),
         caller[c].stage # "fetched", caller[c].stage = "merge" => caller[c].todo = {}
  PROVE  \A i \in Ids : Live(rows[i]) => rows[i].miss <= unseen[rows[i].key]
<1>1. \A d \in Callers \ {c} : caller[d].stage = "idle"
  BY OthersIdle, IdleFields DEF AbsenceInv
<1>2. \A d \in Callers : \A k : ~Noticed(d, k)
  BY <1>1 DEF Noticed
<1> QED
  BY <1>2 DEF AbsenceInv, MissedWhenAbsent

LEMMA AbsenceStep ==
  ASSUME TypeInv, Serial, AbsenceInv, SerialInv', NEW c \in Callers,
         caller[c].stage # "idle" \/ Free(c),
         NEW rec, Becomes(c, rec),
         rec = Idle \/ MissIsDue(c)',
         \A i \in Ids : MissesCounted(c, i)'
  PROVE  AbsenceInv'
<1>1. caller'[c] = rec /\ \A d \in Callers \ {c} : caller'[d] = Idle
  BY BecomesEffect, OthersIdle DEF AbsenceInv
<1>2. ASSUME NEW d \in Callers, caller'[d] = Idle PROVE MissIsDue(d)'
  BY <1>2, IdleFields DEF MissIsDue
<1>3. \A d \in Callers : MissIsDue(d)'
  BY <1>1, <1>2
<1>4. MissedWhenAbsent'
  BY DEF MissedWhenAbsent, MissesCounted
<1> QED
  BY <1>3, <1>4 DEF AbsenceInv

(* A handler that has noticed nothing and leaves the tables alone.         *)
LEMMA NothingCounted ==
  ASSUME TypeInv, Serial, AbsenceInv, SerialInv', NEW c \in Callers,
         caller[c].stage # "idle" \/ Free(c),
         caller[c].stage # "fetched", caller[c].stage = "merge" => caller[c].todo = {},
         UNCHANGED <<rows, unseen>>,
         NEW rec, Becomes(c, rec),
         \/ rec.stage \notin {"fetched", "merge"} /\ ~rec.auto
         \/ /\ rec.gap = caller[c].gap /\ rec.copies = caller[c].copies
            /\ rec.rest \subseteq caller[c].rest /\ rec.stage # "fetched"
            /\ caller[c].stage = "merge" \/ caller[c].auto
  PROVE  AbsenceInv'
<1>1. caller'[c] = rec
  BY BecomesEffect
<1>2. MissIsDue(c)'
  <2>1. CASE rec.stage \notin {"fetched", "merge"} /\ ~rec.auto
    BY <1>1, <2>1 DEF MissIsDue
  <2>2. CASE /\ rec.gap = caller[c].gap /\ rec.copies = caller[c].copies
             /\ rec.rest \subseteq caller[c].rest /\ rec.stage # "fetched"
             /\ caller[c].stage = "merge" \/ caller[c].auto
    BY <1>1, <2>2 DEF AbsenceInv, MissIsDue
  <2> QED
    BY <2>1, <2>2
<1>3. \A i \in Ids : Live(rows'[i]) => rows'[i].miss <= unseen'[rows'[i].key]
  BY NothingNoticed
<1> QED
  BY <1>2, <1>3, AbsenceStep DEF MissesCounted

LEMMA CountedGrows ==
  ASSUME NEW m \in 0..ConfirmTicks, NEW n \in 0..ConfirmTicks, m <= n
  PROVE  m <= Counted(n) /\ Counted(m) <= Counted(n)
BY LedgerBoundsAssumption DEF Counted

LEMMA AbsenceNext ==
  ASSUME TypeInv, Serial, AbsenceInv, SerialInv', [Next]_vars,
         "fetched" \notin DieAt, "merge" \notin DieAt
  PROVE  AbsenceInv'
<1>a. ASSUME NEW c \in Callers
      PROVE  /\ ListedFound(c) /\ CopiesTrue(c) /\ TargetTrue(c) /\ MissIsDue(c)
             /\ caller[c].auto => caller[c].stage \in Exiting
  BY DEF AbsenceInv, SerialInv, CopiesTrue
<1>b. \A i \in Ids : rows[i] \in Row /\ rows[i].key \in Keys /\ rows[i].miss \in 0..ConfirmTicks
  BY DEF TypeInv, TypeOK, Row
<1>1. ASSUME NEW c \in Callers, SyncFetch(c) PROVE AbsenceInv'
  <2>1. PICK listing \in {held} \cup {held \ {k} : k \in held} :
          /\ unseen' = [k \in Keys |-> IF k \in listing THEN 0 ELSE Counted(unseen[k])]
          /\ Becomes(c, [Idle EXCEPT !.stage = "fetched", !.listing = listing,
                                     !.gap = unseen'])
    BY <1>1 DEF SyncFetch
  <2> DEFINE rec == [Idle EXCEPT !.stage = "fetched", !.listing = listing, !.gap = unseen']
  <2>2. /\ rec.stage = "fetched" /\ rec.listing = listing /\ rec.gap = unseen' /\ ~rec.auto
    BY IdleType, IdleFields DEF Caller
  <2>3. Becomes(c, rec) /\ UNCHANGED rows /\ Free(c) /\ caller[c].stage = "idle"
    BY <1>1, <2>1 DEF SyncFetch, Free
  <2> HIDE DEF rec
  <2>4. caller'[c] = rec
    BY <2>3, BecomesEffect
  <2>5. ASSUME NEW i \in Ids, Live(rows[i]), rows[i].key \notin listing
        PROVE  /\ rows[i].miss <= unseen'[rows[i].key]
               /\ Counted(rows[i].miss) <= unseen'[rows[i].key]
    <3>1. rows[i].miss <= unseen[rows[i].key]
      BY <2>3, <2>5, NothingNoticed
    <3>2. unseen[rows[i].key] \in 0..ConfirmTicks
      BY <1>b DEF TypeInv, TypeOK
    <3>3. unseen'[rows[i].key] = Counted(unseen[rows[i].key])
      BY <1>b, <2>1, <2>5
    <3> QED
      BY <1>b, <3>1, <3>2, <3>3, CountedGrows
  <2>6. MissIsDue(c)'
    BY <2>2, <2>3, <2>4, <2>5 DEF MissIsDue
  <2>7. \A i \in Ids : MissesCounted(c, i)'
    BY <2>2, <2>3, <2>4, <2>5 DEF MissesCounted, Noticed
  <2> QED
    BY <2>3, <2>6, <2>7, AbsenceStep
<1>2. ASSUME NEW c \in Callers, SyncRead(c) PROVE AbsenceInv'
  <2> DEFINE old == [caller[c] EXCEPT !.copies = rows]
             rec == [old EXCEPT !.stage = "merge", !.todo = old.listing,
                                !.rest = Unconfirmed(old)]
  <2>1. /\ rec.stage = "merge" /\ rec.copies = rows /\ rec.listing = caller[c].listing
        /\ rec.rest = Unconfirmed(old) /\ rec.todo = rec.listing
        /\ rec.gap = caller[c].gap /\ old.copies = rows /\ old.listing = rec.listing
    BY CallerType DEF Caller
  <2>2. Becomes(c, rec) /\ UNCHANGED <<rows, unseen>> /\ caller[c].stage = "fetched"
    BY <1>2 DEF SyncRead
  <2> HIDE DEF old, rec
  <2>3. caller'[c] = rec
    BY <2>2, BecomesEffect
  <2>4. MissIsDue(c)'
    BY <2>1, <2>2, <2>3, <1>a DEF MissIsDue, Unconfirmed
  <2>5. \A d \in Callers \ {c} : \A k : ~Noticed(d, k)
    BY <2>2, OthersIdle, IdleFields DEF AbsenceInv, Noticed
  <2>6. \A i \in Ids : MissesCounted(c, i)'
    BY <2>1, <2>2, <2>3, <2>5 DEF AbsenceInv, MissedWhenAbsent, MissesCounted, Noticed
  <2> QED
    BY <2>2, <2>4, <2>6, AbsenceStep
<1>3. ASSUME NEW c \in Callers, NEW k \in Keys, MergeListed(c, k) PROVE AbsenceInv'
  <2>1. PICK rec : /\ Becomes(c, rec) /\ UNCHANGED unseen
                   /\ rec.stage = "merge" /\ rec.copies = caller[c].copies
                   /\ rec.rest = caller[c].rest /\ rec.todo = caller[c].todo \ {k}
                   /\ rec.gap = caller[c].gap
    BY <1>3, CallerType DEF MergeListed, Caller
  <2>2. caller'[c] = rec /\ caller[c].stage = "merge"
    BY <1>3, <2>1, BecomesEffect DEF MergeListed
  <2>3. PICK i \in Ids :
          /\ Put(i, [key |-> k, status |-> "open", miss |-> 0])
          /\ \A j \in Ids \ {i} : ~(Live(rows[j]) /\ rows[j].key = k)
    BY <1>3, MergedRow DEF AbsenceInv
  <2>4. /\ rows'[i].key = k /\ rows'[i].miss = 0
        /\ \A j \in Ids \ {i} : rows'[j] = rows[j]
    BY <2>3, PutEffect
  <2>5. MissIsDue(c)'
    BY <2>1, <2>2, <1>a DEF MissIsDue
  <2>6. \A d \in Callers \ {c} : \A l : ~Noticed(d, l)
    BY <2>2, OthersIdle, IdleFields DEF AbsenceInv, Noticed
  <2>7. ASSUME NEW j \in Ids PROVE MissesCounted(c, j)'
    <3>1. CASE j = i
      BY <2>1, <2>4, <3>1 DEF TypeInv, TypeOK, MissesCounted
    <3>2. CASE j # i
      <4>1. rows'[j] = rows[j] /\ (Live(rows[j]) => rows[j].key # k)
        BY <2>3, <2>4, <3>2
      <4>2. Live(rows[j]) => \/ rows[j].miss <= unseen[rows[j].key]
                             \/ rows[j].key \in caller[c].todo
        BY <2>2, <2>6 DEF AbsenceInv, MissedWhenAbsent, Noticed
      <4> QED
        BY <2>1, <2>2, <4>1, <4>2 DEF MissesCounted, Noticed
    <3> QED
      BY <3>1, <3>2
  <2> QED
    BY <2>1, <2>2, <2>5, <2>7, AbsenceStep
<1>4. ASSUME NEW c \in Callers, NEW i \in Ids, MissCounted(c, i) \/ MissSettled(c, i)
      PROVE  AbsenceInv'
  <2>1. PICK rec : /\ Becomes(c, rec) /\ UNCHANGED unseen
                   /\ rec.stage = "merge" /\ rec.copies = caller[c].copies
                   /\ rec.rest = caller[c].rest \ {i} /\ rec.gap = caller[c].gap
    BY <1>4, CallerType DEF MissCounted, MissSettled, Absent, Caller
  <2>2. /\ caller'[c] = rec /\ caller[c].stage = "merge" /\ i \in caller[c].rest
        /\ caller[c].todo = {}
    BY <1>4, <2>1, BecomesEffect DEF MissCounted, MissSettled, Absent
  <2>3. MissIsDue(c)'
    BY <2>1, <2>2, <1>a DEF MissIsDue
  <2>4. PICK row : /\ Put(i, row)
                   /\ Live(row) => row = Missed(caller[c], i)
    BY <1>4, CallerType, MissedType DEF MissCounted, MissSettled, Row, Live
  <2>5. /\ Missed(caller[c], i).miss = Counted(caller[c].copies[i].miss)
        /\ Missed(caller[c], i).key = caller[c].copies[i].key
    BY CallerType, MissedType
  <2>6. Counted(caller[c].copies[i].miss) <= unseen[caller[c].copies[i].key]
    BY <2>2, <1>a DEF MissIsDue
  <2>7. \A j \in Ids : Live(rows'[j]) => rows'[j].miss <= unseen'[rows'[j].key]
    BY <2>1, <2>2, <2>4, <2>5, <2>6, PutEffect, NothingNoticed
  <2> QED
    BY <2>1, <2>2, <2>3, <2>7, AbsenceStep DEF MissesCounted
<1>5. ASSUME NEW c \in Callers, NEW i \in Ids, MissConfirmed(c, i) PROVE AbsenceInv'
  <2>1. PICK rec : /\ Becomes(c, rec) /\ UNCHANGED <<rows, unseen>>
                   /\ rec.stage = "exit" /\ rec.copies = caller[c].copies
                   /\ rec.rest = caller[c].rest /\ rec.gap = caller[c].gap
    <3> DEFINE new == [caller[c] EXCEPT !.stage = "exit", !.target = i, !.auto = TRUE]
    <3>1. /\ new.stage = "exit" /\ new.copies = caller[c].copies
          /\ new.rest = caller[c].rest /\ new.gap = caller[c].gap
      BY CallerType DEF Caller
    <3>2. Becomes(c, new) /\ UNCHANGED <<rows, unseen>>
      BY <1>5 DEF MissConfirmed
    <3> HIDE DEF new
    <3> QED
      BY <3>1, <3>2
  <2>2. caller[c].stage = "merge" /\ caller[c].todo = {}
    BY <1>5 DEF MissConfirmed, Absent
  <2> QED
    BY <2>1, <2>2, NothingCounted
<1>6. ASSUME NEW c \in Callers, NEW i \in Ids, ManualExit(c, i) PROVE AbsenceInv'
  <2> DEFINE rec == [Idle EXCEPT !.stage = "exit", !.target = i]
  <2>1. rec.stage = "exit" /\ ~rec.auto
    BY IdleType, IdleFields DEF Caller
  <2>2. Becomes(c, rec) /\ UNCHANGED <<rows, unseen>> /\ Free(c) /\ caller[c].stage = "idle"
    BY <1>6 DEF ManualExit, Free
  <2> HIDE DEF rec
  <2> QED
    BY <2>1, <2>2, NothingCounted
<1>7. ASSUME NEW c \in Callers, ExitReads(c) PROVE AbsenceInv'
  <2>1. PICK rec : /\ Becomes(c, rec) /\ UNCHANGED <<rows, unseen>>
                   /\ rec.stage = "report" /\ rec.copies = caller[c].copies
                   /\ rec.rest = caller[c].rest /\ rec.gap = caller[c].gap
                   /\ rec.auto = caller[c].auto
    <3> DEFINE new == [caller[c] EXCEPT !.stage = "report", !.copy = rows[caller[c].target]]
    <3>1. /\ new.stage = "report" /\ new.copies = caller[c].copies
          /\ new.rest = caller[c].rest /\ new.gap = caller[c].gap
          /\ new.auto = caller[c].auto
      BY CallerType DEF Caller
    <3>2. Becomes(c, new) /\ UNCHANGED <<rows, unseen>>
      BY <1>7 DEF ExitReads
    <3> HIDE DEF new
    <3> QED
      BY <3>1, <3>2
  <2>2. caller[c].stage = "exit"
    BY <1>7 DEF ExitReads
  <2> QED
    BY <2>1, <2>2, CallerType, NothingCounted DEF Caller
<1>8. ASSUME NEW c \in Callers, ExitRefused(c) \/ ReportFails(c) PROVE AbsenceInv'
  <2>1. /\ Becomes(c, Refused(caller[c])) /\ UNCHANGED <<rows, unseen>>
        /\ caller[c].stage \in {"exit", "report"}
    BY <1>8 DEF ExitRefused, ReportFails
  <2>2. CASE ~caller[c].auto
    BY <2>1, <2>2, IdleFields, NothingCounted DEF Refused
  <2>3. CASE caller[c].auto
    <3>1. PICK rec : /\ Becomes(c, rec)
                     /\ rec.stage = "failed" /\ rec.copies = caller[c].copies
                     /\ rec.rest = caller[c].rest /\ rec.gap = caller[c].gap
      BY <2>1, <2>3, CallerType DEF Refused, Caller
    <3> QED
      BY <2>1, <2>3, <3>1, NothingCounted
  <2> QED
    BY <2>2, <2>3
<1>9. ASSUME NEW c \in Callers, ExitCloses(c) \/ ExitFailed(c) PROVE AbsenceInv'
  <2>1. PICK rec : /\ Becomes(c, rec) /\ UNCHANGED unseen
                   /\ rec.stage \in {"review", "undo"} /\ rec.copies = caller[c].copies
                   /\ rec.rest = caller[c].rest /\ rec.gap = caller[c].gap
                   /\ rec.auto = caller[c].auto
    BY <1>9, CallerType DEF ExitCloses, ExitFailed, Caller
  <2>2. caller'[c] = rec /\ caller[c].stage \in {"report", "failed"}
    BY <1>9, <2>1, BecomesEffect DEF ExitCloses, ExitFailed
  <2>3. caller[c].target \in Ids
    BY <2>2, CallerType DEF Exiting
  <2>4. MissIsDue(c)'
    BY <2>1, <2>2, <1>a DEF MissIsDue
  <2>5. PICK row : /\ Put(caller[c].target, row)
                   /\ Live(row) => /\ Live(rows[caller[c].target])
                                   /\ row.key = rows[caller[c].target].key
                                   /\ row.miss = rows[caller[c].target].miss
    <3>1. CASE ExitCloses(c)
      BY <3>1, CallerType DEF ExitCloses, Caller, Row, Live
    <3>2. CASE ExitFailed(c)
      <4>1. caller[c].stage = "failed" /\ caller[c].auto
        BY <3>2, <1>a DEF ExitFailed, TargetTrue
      <4>2. Live(rows[caller[c].target])
        BY <4>1, <1>a DEF TargetTrue, CopiesTrue, Unconfirmed
      <4> QED
        BY <3>2, <4>2, <2>3, <1>b DEF ExitFailed, Row
    <3> QED
      BY <1>9, <3>1, <3>2
  <2>6. \A j \in Ids : Live(rows'[j]) => rows'[j].miss <= unseen'[rows'[j].key]
    BY <2>1, <2>2, <2>3, <2>5, PutEffect, NothingNoticed
  <2> QED
    BY <2>1, <2>2, <2>4, <2>6, AbsenceStep DEF MissesCounted
<1>10. ASSUME NEW c \in Callers, TradeAdded(c) PROVE AbsenceInv'
  <2>1. /\ Becomes(c, Recorded(caller[c])) /\ UNCHANGED <<rows, unseen>>
        /\ caller[c].stage = "review"
    BY <1>10 DEF TradeAdded
  <2>2. CASE ~caller[c].auto
    BY <2>1, <2>2, IdleFields, NothingCounted DEF Recorded
  <2>3. CASE caller[c].auto
    <3>1. PICK rec : /\ Becomes(c, rec)
                     /\ rec.stage = "merge" /\ rec.copies = caller[c].copies
                     /\ rec.rest = caller[c].rest \ {caller[c].target}
                     /\ rec.gap = caller[c].gap
      <4> DEFINE new == [caller[c] EXCEPT
                           !.stage = "merge", !.rest = @ \ {caller[c].target},
                           !.target = 0, !.copy = NoRow, !.auto = FALSE]
      <4>1. /\ new.stage = "merge" /\ new.copies = caller[c].copies
            /\ new.rest = caller[c].rest \ {caller[c].target} /\ new.gap = caller[c].gap
        BY CallerType DEF Caller
      <4>2. Becomes(c, new)
        BY <2>1, <2>3 DEF Recorded
      <4> HIDE DEF new
      <4> QED
        BY <4>1, <4>2
    <3> QED
      BY <2>1, <2>3, <3>1, NothingCounted
  <2> QED
    BY <2>2, <2>3
<1>11. ASSUME NEW c \in Callers, CounterSaved(c) PROVE AbsenceInv'
  <2> DEFINE i   == caller[c].target
             rec == [caller[c] EXCEPT !.stage = "merge", !.rest = @ \ {i},
                                      !.target = 0, !.copy = NoRow, !.auto = FALSE]
  <2>1. /\ rec.stage = "merge" /\ rec.copies = caller[c].copies
        /\ rec.rest = caller[c].rest \ {i} /\ rec.gap = caller[c].gap
    BY CallerType DEF Caller
  <2>2. /\ Becomes(c, rec) /\ Put(i, Missed(caller[c], i)) /\ UNCHANGED unseen
        /\ caller[c].stage = "undo" /\ i \in Ids
    BY <1>11, CallerType DEF CounterSaved, Exiting
  <2> HIDE DEF rec
  <2>3. caller'[c] = rec
    BY <2>2, BecomesEffect
  <2>4. caller[c].auto /\ i \in caller[c].rest
    BY <2>2, <1>a DEF TargetTrue
  <2>5. MissIsDue(c)'
    BY <2>1, <2>2, <2>3, <2>4, <1>a DEF MissIsDue
  <2>6. /\ Missed(caller[c], i).miss = Counted(caller[c].copies[i].miss)
        /\ Missed(caller[c], i).key = caller[c].copies[i].key
    BY <2>2, CallerType, MissedType
  <2>7. Counted(caller[c].copies[i].miss) <= unseen[caller[c].copies[i].key]
    BY <2>4, <1>a DEF MissIsDue
  <2> HIDE DEF i
  <2>8. \A j \in Ids : Live(rows'[j]) => rows'[j].miss <= unseen'[rows'[j].key]
    BY <2>2, <2>6, <2>7, PutEffect, NothingNoticed
  <2> QED
    BY <2>2, <2>5, <2>8, AbsenceStep DEF MissesCounted
<1>12. ASSUME NEW c \in Callers, SyncEnds(c) \/ ViewStarts(c) PROVE AbsenceInv'
  <2>1. PICK seen : Becomes(c, [Idle EXCEPT !.stage = "views", !.copies = rows, !.rest = seen])
    <3>1. CASE SyncEnds(c)
      BY <3>1 DEF SyncEnds
    <3>2. CASE ViewStarts(c)
      BY <3>2 DEF ViewStarts
    <3> QED
      BY <1>12, <3>1, <3>2
  <2> DEFINE rec == [Idle EXCEPT !.stage = "views", !.copies = rows, !.rest = seen]
  <2>2. rec.stage = "views" /\ ~rec.auto
    BY IdleType, IdleFields DEF Caller
  <2>3. /\ Becomes(c, rec) /\ UNCHANGED <<rows, unseen>>
        /\ Free(c) \/ caller[c].stage # "idle"
        /\ caller[c].stage # "fetched" /\ (caller[c].stage = "merge" => caller[c].todo = {})
    BY <1>12, <2>1 DEF SyncEnds, ViewStarts, Free
  <2> HIDE DEF rec
  <2> QED
    BY <2>2, <2>3, NothingCounted
<1>13. ASSUME NEW c \in Callers, NEW i \in Ids, ViewWrites(c, i) \/ ViewFails(c, i)
       PROVE  AbsenceInv'
  <2>1. PICK rec : /\ Becomes(c, rec) /\ UNCHANGED unseen
                   /\ rec.stage = "views" /\ rec.auto = caller[c].auto
    BY <1>13, CallerType DEF ViewWrites, ViewFails, Caller
  <2>2. caller[c].stage = "views" /\ i \in caller[c].rest
    BY <1>13 DEF ViewWrites, ViewFails
  <2>3. caller[c].target = 0 /\ ~caller[c].auto
    BY <2>2, <1>a DEF CopiesTrue, Exiting
  <2>4. rows[i] = caller[c].copies[i]
    <3>1. i # 0
      BY DEF Ids
    <3> QED
      BY <2>2, <2>3, <3>1, <1>a DEF CopiesTrue
  <2>5. UNCHANGED rows
    BY <1>13, <2>4 DEF ViewWrites, ViewFails, Put, TypeInv, TypeOK
  <2> QED
    BY <2>1, <2>2, <2>3, <2>5, NothingCounted
<1>14. ASSUME NEW c \in Callers, ViewEnds(c) \/ Dies(c) PROVE AbsenceInv'
  <2>1. /\ Becomes(c, Idle) /\ UNCHANGED <<rows, unseen>>
        /\ caller[c].stage \notin {"idle", "fetched", "merge"}
    BY <1>14 DEF ViewEnds, Dies
  <2> QED
    BY <2>1, IdleFields, NothingCounted
<1>15. CASE UserTrades \/ UNCHANGED vars
  BY <1>15 DEF UserTrades, vars, AbsenceInv, MissedWhenAbsent, MissIsDue, Noticed
<1> QED
  BY <1>1, <1>2, <1>3, <1>4, <1>5, <1>6, <1>7, <1>8, <1>9, <1>10, <1>11, <1>12, <1>13,
     <1>14, <1>15 DEF Next, Step

(* If handlers run one at a time and none dies between the listing and the *)
(* end of the merge, the sync records an exit only when ConfirmTicks       *)
(* listings in a row lacked the position (PositionVisibility).             *)
THEOREM AbsencesAreConsecutive ==
  ASSUME Serial, "fetched" \notin DieAt, "merge" \notin DieAt
  PROVE  Spec => ExitOnlyAfterConsecutiveAbsence
<1>1. TypeInv /\ AbsenceInv /\ SerialInv' /\ [Next]_vars => AbsenceInv'
  BY AbsenceNext
<1>2. ASSUME TypeInv, AbsenceInv, NEW c \in Callers, NEW i \in Ids, MissConfirmed(c, i)
      PROVE  caller[c].gap[caller[c].copies[i].key] = ConfirmTicks
  <2>1. /\ caller[c].stage = "merge" /\ i \in caller[c].rest
        /\ Counted(caller[c].copies[i].miss) = ConfirmTicks
    BY <1>2, CallerType, MissedType DEF MissConfirmed, Absent
  <2>2. Counted(caller[c].copies[i].miss) <= caller[c].gap[caller[c].copies[i].key]
    BY <1>2, <2>1 DEF AbsenceInv, MissIsDue
  <2>3. caller[c].gap[caller[c].copies[i].key] \in 0..ConfirmTicks
    BY <1>2, CallerType DEF Caller, Row
  <2> QED
    BY <2>1, <2>2, <2>3, LedgerBoundsAssumption
<1>3. TypeInv /\ AbsenceInv =>
        [\A c \in Callers, i \in Ids :
           MissConfirmed(c, i) => caller[c].gap[caller[c].copies[i].key] = ConfirmTicks]_vars
  BY <1>2
<1> QED
  BY <1>1, <1>3, AbsenceInit, TypeInvariant, SerialInvariant, PTL
     DEF Spec, ExitOnlyAfterConsecutiveAbsence

-----------------------------------------------------------------------------
(* Liveness.  Three facts are hypotheses.  TLAPS does not look into        *)
(* ENABLED: a scheduled sync can start while nobody runs.  What users,     *)
(* browsers and faults do comes to an end.  And handlers return: there are *)
(* moments without one again and again.  The last two follow from bounds   *)
(* and fairness by counting down, an induction over behaviours.            *)
AllIdle == \A c \in Callers : caller[c].stage = "idle"

MaySync(c)     == [](AllIdle => ENABLED <<SyncFetch(c)>>_vars)
SyncReady      == \A c \in Scheduled : MaySync(c)
EventsEnd      == <>[][events' = events]_vars
HandlersReturn == []<>AllIdle

(* Without an event, handlers that run go on, and the sync of the worker   *)
(* starts with the listing of what is held.                                *)
FetchesHeld(c) ==
  /\ Free(c)
  /\ caller'[c].stage = "fetched" /\ caller'[c].listing = held
  /\ \A d \in Callers \ {c} : caller'[d] = caller[d]
  /\ UNCHANGED <<held, rows, trades>>

LEMMA CalmStep ==
  ASSUME TypeInv, [Next]_vars, events' = events
  PROVE  UNCHANGED vars \/ \E c \in Callers : Step(c) \/ FetchesHeld(c)
<1>1. events' # events + 1
  BY LedgerBoundsAssumption DEF TypeInv, TypeOK
<1>2. ~UserTrades
  BY <1>1 DEF UserTrades, Event
<1>3. ASSUME NEW c \in Callers PROVE ~(ReportFails(c) \/ ViewStarts(c) \/ Dies(c))
  BY <1>1 DEF ReportFails, ViewStarts, Dies, Event
<1>4. ASSUME NEW c \in Callers, NEW i \in Ids PROVE ~ManualExit(c, i)
  BY <1>1 DEF ManualExit, Event
<1>5. ASSUME NEW c \in Callers, SyncFetch(c) PROVE FetchesHeld(c)
  <2>1. PICK listing \in {held} \cup {held \ {k} : k \in held} :
          /\ IF listing = held /\ c \in Scheduled THEN UNCHANGED events ELSE Event
          /\ Becomes(c, [Idle EXCEPT !.stage = "fetched", !.listing = listing,
                                     !.gap = unseen'])
    BY <1>5 DEF SyncFetch
  <2>2. listing = held
    BY <1>1, <2>1 DEF Event
  <2> DEFINE rec == [Idle EXCEPT !.stage = "fetched", !.listing = listing, !.gap = unseen']
  <2>3. rec.stage = "fetched" /\ rec.listing = listing
    BY IdleType DEF Caller
  <2> HIDE DEF rec
  <2>4. caller'[c] = rec /\ \A d \in Callers \ {c} : caller'[d] = caller[d]
    BY <2>1, BecomesEffect DEF rec
  <2> QED
    BY <1>5, <2>2, <2>3, <2>4 DEF FetchesHeld, SyncFetch
<1> QED
  BY <1>2, <1>3, <1>4, <1>5 DEF Next

LEMMA StepsOwn ==
  ASSUME TypeInv, NEW c \in Callers, Step(c)
  PROVE  \A d \in Callers \ {c} : caller'[d] = caller[d]
<1>1. \E rec : Becomes(c, rec)
  BY DEF Step, SyncRead, MergeListed, MissCounted, MissSettled, MissConfirmed, ExitReads,
         ExitRefused, ExitCloses, TradeAdded, ExitFailed, CounterSaved, SyncEnds,
         ViewWrites, ViewFails, ViewEnds
<1> QED
  BY <1>1, BecomesEffect

LEMMA StepsRun ==
  ASSUME NEW c \in Callers, Step(c)
  PROVE  caller[c].stage # "idle"
BY DEF Step, SyncRead, MergeListed, MissCounted, MissSettled, MissConfirmed, Absent,
       ExitReads, ExitRefused, ExitCloses, TradeAdded, ExitFailed, CounterSaved,
       SyncEnds, ViewWrites, ViewFails, ViewEnds

LEMMA FetchRuns ==
  ASSUME TypeInv, NEW c \in Callers, SyncFetch(c)
  PROVE  caller'[c].stage = "fetched"
<1>1. PICK listing : Becomes(c, [Idle EXCEPT !.stage = "fetched", !.listing = listing,
                                             !.gap = unseen'])
  BY DEF SyncFetch
<1> DEFINE rec == [Idle EXCEPT !.stage = "fetched", !.listing = listing, !.gap = unseen']
<1>2. rec.stage = "fetched"
  BY IdleType DEF Caller
<1> HIDE DEF rec
<1>3. caller'[c] = rec
  BY <1>1, BecomesEffect DEF rec
<1> QED
  BY <1>2, <1>3

(* A sync that has yet to merge a listed position does so before it ends.  *)
OpenRow(k) == \E i \in Ids : rows[i].key = k /\ rows[i].status = "open"

LEMMA NoticedIsMerged ==
  ASSUME TypeInv, NEW c \in Callers, NEW k \in Keys, Noticed(c, k), Step(c)
  PROVE  Noticed(c, k)' \/ OpenRow(k)'
<1>1. CASE SyncRead(c)
  <2> DEFINE old == [caller[c] EXCEPT !.copies = rows]
             rec == [old EXCEPT !.stage = "merge", !.todo = old.listing,
                                !.rest = Unconfirmed(old)]
  <2>1. rec.stage = "merge" /\ rec.todo = caller[c].listing
    BY CallerType DEF Caller
  <2>2. Becomes(c, rec) /\ caller[c].stage = "fetched"
    BY <1>1 DEF SyncRead
  <2> HIDE DEF old, rec
  <2>3. caller'[c] = rec
    BY <2>2, BecomesEffect
  <2> QED
    BY <2>1, <2>2, <2>3 DEF Noticed
<1>2. ASSUME NEW m \in Keys, MergeListed(c, m), m = k PROVE OpenRow(k)'
  <2>1. PICK i \in IF Found(caller[c], k) # {} THEN Found(caller[c], k) ELSE FirstNew :
          Put(i, [key |-> k, status |-> "open", miss |-> 0])
    BY <1>2 DEF MergeListed
  <2>2. i \in Ids
    BY <2>1 DEF Found, FirstNew, Unused
  <2>3. rows'[i] = [key |-> k, status |-> "open", miss |-> 0]
    BY <2>1, <2>2, PutEffect
  <2> QED
    BY <2>2, <2>3 DEF OpenRow
<1>3. ASSUME NEW m \in Keys, MergeListed(c, m), m # k PROVE Noticed(c, k)'
  <2> DEFINE rec == [caller[c] EXCEPT !.todo = @ \ {m}]
  <2>1. rec.stage = "merge" /\ rec.todo = caller[c].todo \ {m}
    BY <1>3, CallerType DEF MergeListed, Caller
  <2>2. Becomes(c, rec) /\ caller[c].stage = "merge"
    BY <1>3 DEF MergeListed
  <2> HIDE DEF rec
  <2>3. caller'[c] = rec
    BY <2>2, BecomesEffect
  <2> QED
    BY <1>3, <2>1, <2>2, <2>3 DEF Noticed
<1>4. SyncRead(c) \/ \E m \in Keys : MergeListed(c, m)
  BY DEF Step, Noticed, MissCounted, MissSettled, MissConfirmed, Absent, ExitReads,
         ExitRefused, ExitCloses, TradeAdded, ExitFailed, CounterSaved, SyncEnds,
         ViewWrites, ViewFails, ViewEnds
<1> QED
  BY <1>1, <1>2, <1>3, <1>4

(* A position held on the exchange gets an open row: the next sync after   *)
(* the last event lists it and merges it before it returns.                *)
THEOREM HeldGetsTracked ==
  ASSUME Scheduled # {}
  PROVE  FairSpec /\ SyncReady /\ EventsEnd /\ HandlersReturn => HeldIsTracked
<1> PICK w \in Scheduled : TRUE
  OBVIOUS
<1>1. ASSUME NEW k \in Keys
      PROVE  FairSpec /\ SyncReady /\ EventsEnd /\ HandlersReturn
               => (k \in held
                     ~> (k \notin held \/ \E i \in Ids : rows[i].key = k /\ rows[i].status = "open"))
  <2> DEFINE isHeld  == k \in held
             settled == k \notin held \/ \E i \in Ids : rows[i].key = k /\ rows[i].status = "open"
             way     == \E c \in Callers : Noticed(c, k)
             idle    == AllIdle
             calm    == events' = events
  <2>1. way => ~idle
    BY DEF AllIdle, Noticed
  <2>2. TypeInv /\ way /\ [Next]_vars /\ [calm]_vars => way' \/ settled'
    <3> SUFFICES ASSUME TypeInv, NEW c \in Callers, Noticed(c, k), [Next]_vars, [calm]_vars
                 PROVE  way' \/ settled'
      OBVIOUS
    <3>1. events' = events
      BY DEF vars
    <3>2. CASE UNCHANGED vars
      BY <3>2 DEF vars, Noticed
    <3>3. ASSUME NEW d \in Callers, Step(d) \/ FetchesHeld(d), d # c PROVE Noticed(c, k)'
      <4>1. caller'[c] = caller[c]
        BY <3>3, StepsOwn DEF FetchesHeld
      <4> QED
        BY <4>1 DEF Noticed
    <3>4. ~FetchesHeld(c)
      BY DEF FetchesHeld, Free, Noticed
    <3>5. CASE Step(c)
      BY <3>5, NoticedIsMerged DEF OpenRow
    <3> QED
      BY <3>1, <3>2, <3>3, <3>4, <3>5, CalmStep
  <2>3. TypeInv /\ idle /\ ~settled /\ [Next]_vars /\ [calm]_vars => idle' \/ way'
    <3> SUFFICES ASSUME TypeInv, idle, k \in held, [Next]_vars, [calm]_vars
                 PROVE  idle' \/ way'
      OBVIOUS
    <3>1. events' = events
      BY DEF vars
    <3>2. CASE UNCHANGED vars
      BY <3>2 DEF vars, AllIdle
    <3>3. ASSUME NEW c \in Callers, FetchesHeld(c) PROVE way'
      BY <3>3 DEF FetchesHeld, Noticed
    <3>4. ASSUME NEW c \in Callers, Step(c) PROVE FALSE
      BY <3>4, StepsRun DEF AllIdle
    <3> QED
      BY <3>1, <3>2, <3>3, <3>4, CalmStep
  <2>4. TypeInv /\ <<SyncFetch(w)>>_vars => ~idle'
    BY CallersAssumption, FetchRuns DEF AllIdle
  <2>5. FairSpec => WF_vars(SyncFetch(w))
    <3>1. FairSpec => SyncsRun
      BY PTL DEF FairSpec
    <3>2. SyncsRun => SyncsFairly(w)
      BY DEF SyncsRun
    <3> QED
      BY <3>1, <3>2, PTL DEF SyncsFairly
  <2>6. SyncReady => [](idle => ENABLED <<SyncFetch(w)>>_vars)
    <3>1. SyncReady => MaySync(w)
      BY DEF SyncReady
    <3> QED
      BY <3>1, PTL DEF MaySync
  <2>7. FairSpec => []TypeInv /\ [][Next]_vars
    BY TypeInvariant, PTL DEF FairSpec, Spec
  <2>8. (EventsEnd => <>[][calm]_vars) /\ (HandlersReturn => []<>idle)
    BY DEF EventsEnd, HandlersReturn
  <2> HIDE DEF isHeld, settled, way, idle, calm
  <2>9. FairSpec /\ SyncReady /\ EventsEnd /\ HandlersReturn => (isHeld ~> settled)
    BY <2>1, <2>2, <2>3, <2>4, <2>5, <2>6, <2>7, <2>8, PTL
  <2> QED
    BY <2>9 DEF isHeld, settled
<1> QED
  BY <1>1 DEF HeldIsTracked

-----------------------------------------------------------------------------
(* Ghosts close.                                                           *)
Ghost(i) == Live(rows[i]) /\ rows[i].key \notin held
(* The next absence is the last one that is asked for.                     *)
Late(i)  == Counted(rows[i].miss) = ConfirmTicks

(* A row the ledger believes in stays one, under its key, until it closes. *)
LEMMA LiveRowStays ==
  ASSUME TypeInv, SerialInv, [Next]_vars, NEW i \in Ids, Live(rows[i])
  PROVE  \/ rows'[i].status = "closed"
         \/ Live(rows'[i]) /\ rows'[i].key = rows[i].key
<1>a. ASSUME NEW c \in Callers
      PROVE  ListedFound(c) /\ CopiesTrue(c) /\ TargetTrue(c)
  BY DEF SerialInv
<1>b. rows[i] \in Row
  BY DEF TypeInv, TypeOK
<1>1. ASSUME UNCHANGED rows PROVE Live(rows'[i]) /\ rows'[i].key = rows[i].key
  BY <1>1
<1>2. ASSUME NEW c \in Callers, NEW k \in Keys, MergeListed(c, k)
      PROVE  Live(rows'[i]) /\ rows'[i].key = rows[i].key
  <2>1. PICK j \in IF Found(caller[c], k) # {} THEN Found(caller[c], k) ELSE FirstNew :
          Put(j, [key |-> k, status |-> "open", miss |-> 0])
    BY <1>2 DEF MergeListed
  <2>2. j \in Ids
    BY <2>1 DEF Found, FirstNew, Unused
  <2>3. CASE j = i
    <3>1. i \in Found(caller[c], k)
      BY <2>1, <2>3 DEF FirstNew, Unused, Live
    <3>2. rows[i].key = k
      BY <1>2, <1>a, <3>1 DEF MergeListed, ListedFound
    <3>3. rows'[i] = [key |-> k, status |-> "open", miss |-> 0]
      BY <2>1, <2>2, <2>3, PutEffect
    <3> QED
      BY <3>2, <3>3 DEF Live
  <2>4. CASE j # i
    BY <2>1, <2>2, <2>4, PutEffect
  <2> QED
    BY <2>3, <2>4
<1>3. ASSUME NEW c \in Callers, NEW j \in Ids, MissCounted(c, j)
      PROVE  Live(rows'[i]) /\ rows'[i].key = rows[i].key
  <2>1. Put(j, Missed(caller[c], j)) /\ caller[c].stage = "merge" /\ j \in caller[c].rest
    BY <1>3 DEF MissCounted, Absent
  <2>2. caller[c].copies[j] = rows[j]
    BY <1>a, <2>1 DEF CopiesTrue, Exiting, Ids
  <2>3. Missed(caller[c], j).status = rows[j].status /\ Missed(caller[c], j).key = rows[j].key
    BY <2>2, MissedType, CallerType
  <2> QED
    BY <2>1, <2>3, PutEffect DEF Live
<1>4. ASSUME NEW c \in Callers, NEW j \in Ids, MissSettled(c, j)
      PROVE  \/ rows'[i].status = "closed"
             \/ Live(rows'[i]) /\ rows'[i].key = rows[i].key
  <2>1. Put(j, [Missed(caller[c], j) EXCEPT !.status = "closed"])
    BY <1>4 DEF MissSettled
  <2>2. [Missed(caller[c], j) EXCEPT !.status = "closed"].status = "closed"
    BY MissedType, CallerType DEF Row
  <2> QED
    BY <2>1, <2>2, PutEffect
<1>5. ASSUME NEW c \in Callers, ExitCloses(c)
      PROVE  \/ rows'[i].status = "closed"
             \/ Live(rows'[i]) /\ rows'[i].key = rows[i].key
  <2> DEFINE j   == caller[c].target
             row == [caller[c].copy EXCEPT !.status = "closed"]
  <2>1. Put(j, row) /\ j \in Ids
    BY <1>5, CallerType DEF ExitCloses, Exiting
  <2>2. row.status = "closed"
    BY CallerType DEF Caller, Row
  <2> HIDE DEF j, row
  <2> QED
    BY <2>1, <2>2, PutEffect
<1>6. ASSUME NEW c \in Callers, ExitFailed(c)
      PROVE  Live(rows'[i]) /\ rows'[i].key = rows[i].key
  <2> DEFINE j == caller[c].target
  <2>1. Put(j, [rows[j] EXCEPT !.status = "needs_exit_record"]) /\ j \in Ids
    BY <1>6, CallerType DEF ExitFailed, Exiting
  <2>2. rows[j] \in Row
    BY <2>1 DEF TypeInv, TypeOK
  <2> QED
    BY <1>b, <2>1, <2>2, PutEffect DEF Live, Row
<1>7. ASSUME NEW c \in Callers, CounterSaved(c)
      PROVE  Live(rows'[i]) /\ rows'[i].key = rows[i].key
  <2> DEFINE j == caller[c].target
  <2>1. Put(j, Missed(caller[c], j)) /\ j \in Ids /\ caller[c].stage = "undo"
    BY <1>7, CallerType DEF CounterSaved, Exiting
  <2>2. rows[j].key = caller[c].copies[j].key /\ j \in caller[c].rest
    BY <1>a, <2>1 DEF TargetTrue
  <2>3. Live(caller[c].copies[j])
    BY <1>a, <2>1, <2>2 DEF CopiesTrue, Unconfirmed
  <2>4. /\ Missed(caller[c], j).status = caller[c].copies[j].status
        /\ Missed(caller[c], j).key = rows[j].key
    BY <2>1, <2>2, MissedType, CallerType
  <2>5. Live(Missed(caller[c], j))
    BY <2>3, <2>4 DEF Live
  <2> HIDE DEF j
  <2> QED
    BY <2>1, <2>4, <2>5, PutEffect
<1>8. ASSUME NEW c \in Callers, NEW j \in Ids, ViewWrites(c, j)
      PROVE  Live(rows'[i]) /\ rows'[i].key = rows[i].key
  <2>1. Put(j, caller[c].copies[j]) /\ caller[c].stage = "views" /\ j \in caller[c].rest
    BY <1>8 DEF ViewWrites
  <2>2. caller[c].copies[j] = rows[j]
    BY <1>a, <2>1 DEF CopiesTrue, Exiting, Ids
  <2> QED
    BY <2>1, <2>2, PutEffect
<1>9. ASSUME NEW c \in Callers,
             \/ SyncFetch(c) \/ SyncRead(c) \/ ExitReads(c) \/ ExitRefused(c)
             \/ TradeAdded(c) \/ SyncEnds(c) \/ ViewEnds(c) \/ ReportFails(c)
             \/ ViewStarts(c) \/ Dies(c)
             \/ \E j \in Ids : MissConfirmed(c, j) \/ ViewFails(c, j) \/ ManualExit(c, j)
      PROVE  Live(rows'[i]) /\ rows'[i].key = rows[i].key
  BY <1>1, <1>9 DEF SyncFetch, SyncRead, ExitReads, ExitRefused, TradeAdded, SyncEnds,
                    ViewEnds, ReportFails, ViewStarts, Dies, MissConfirmed, ViewFails,
                    ManualExit
<1>10. CASE UserTrades \/ UNCHANGED vars
  BY <1>1, <1>10 DEF UserTrades, vars
<1> QED
  BY <1>2, <1>3, <1>4, <1>5, <1>6, <1>7, <1>8, <1>9, <1>10 DEF Next, Step

(* The sync has yet to look at the row, which its listing lacks, ...       *)
Merging(c) ==
  /\ caller[c].stage \in {"merge"} \cup Exiting
  /\ caller[c].stage \in Exiting => caller[c].auto

Coming(c, i) ==
  \/ caller[c].stage = "fetched" /\ rows[i].key \notin caller[c].listing
  \/ /\ Merging(c)
     /\ i \in caller[c].rest
     /\ caller[c].target = i => caller[c].stage \in {"exit", "report"}

(* ... or has done so, and merges nothing any more.                        *)
Passed(c, i) ==
  \/ caller[c].stage = "views"
  \/ Merging(c) /\ caller[c].todo = {} /\ i \notin caller[c].rest

(* A row a sync comes to is closed, or was not late and has its miss       *)
(* counted.                                                                *)
Raised(i) == rows'[i] = [rows[i] EXCEPT !.miss = Counted(@)]

LEMMA ComingStep ==
  ASSUME TypeInv, SerialInv, NEW i \in Ids, Live(rows[i]),
         NEW c \in Callers, Coming(c, i), Step(c)
  PROVE  \/ rows'[i] = rows[i] /\ Coming(c, i)'
         \/ rows'[i].status = "closed"
         \/ ~Late(i) /\ Raised(i) /\ Passed(c, i)'
<1> DEFINE Goal == \/ rows'[i] = rows[i] /\ Coming(c, i)'
                   \/ rows'[i].status = "closed"
                   \/ ~Late(i) /\ Raised(i) /\ Passed(c, i)'
<1>a. /\ ListedFound(c) /\ CopiesTrue(c) /\ TargetTrue(c)
      /\ caller[c] \in Caller /\ i # 0
      /\ caller[c].stage \in Exiting => caller[c].target \in Ids
  BY CallerType DEF SerialInv, Ids
<1>b. caller[c].stage = "merge" =>
        /\ i \in caller[c].rest /\ caller[c].target = 0
        /\ rows[i] = caller[c].copies[i] /\ rows[i].key \notin caller[c].listing
  BY <1>a DEF Coming, Merging, CopiesTrue, Exiting, Unconfirmed
<1>c. caller[c].stage \in Exiting =>
        /\ caller[c].auto /\ i \in caller[c].rest
        /\ caller[c].target = i => caller[c].stage \in {"exit", "report"}
  BY DEF Coming, Merging, Exiting
<1>1. CASE SyncRead(c)
  <2> DEFINE old == [caller[c] EXCEPT !.copies = rows]
             rec == [old EXCEPT !.stage = "merge", !.todo = old.listing,
                                !.rest = Unconfirmed(old)]
  <2>1. /\ rec.stage = "merge" /\ rec.rest = Unconfirmed(old) /\ rec.target = caller[c].target
        /\ old.copies = rows /\ old.listing = caller[c].listing
    BY <1>a DEF Caller
  <2>2. Becomes(c, rec) /\ caller[c].stage = "fetched" /\ rows' = rows
    BY <1>1 DEF SyncRead
  <2>3. caller[c].target = 0 /\ rows[i].key \notin caller[c].listing
    BY <1>a, <2>2 DEF CopiesTrue, Coming, Merging, Exiting
  <2> HIDE DEF old, rec
  <2>4. caller'[c] = rec
    BY <2>2, BecomesEffect
  <2>5. i \in rec.rest
    BY <2>1, <2>3 DEF Unconfirmed
  <2> QED
    BY <1>a, <2>1, <2>2, <2>3, <2>4, <2>5 DEF Coming, Merging, Exiting
<1>2. ASSUME NEW k \in Keys, MergeListed(c, k) PROVE Goal
  <2> DEFINE rec == [caller[c] EXCEPT !.todo = @ \ {k}]
  <2>1. rec.stage = "merge" /\ rec.rest = caller[c].rest /\ rec.target = caller[c].target
    BY <1>2, <1>a DEF MergeListed, Caller
  <2>2. Becomes(c, rec) /\ caller[c].stage = "merge" /\ k \in caller[c].todo
    BY <1>2 DEF MergeListed
  <2> HIDE DEF rec
  <2>3. caller'[c] = rec
    BY <2>2, BecomesEffect
  <2>4. PICK j \in IF Found(caller[c], k) # {} THEN Found(caller[c], k) ELSE FirstNew :
          Put(j, [key |-> k, status |-> "open", miss |-> 0])
    BY <1>2 DEF MergeListed
  <2>5. j \in Ids
    BY <2>4 DEF Found, FirstNew, Unused
  <2>6. j # i
    <3>1. i \notin Found(caller[c], k)
      BY <1>a, <1>b, <2>2 DEF ListedFound
    <3> QED
      BY <2>4, <3>1 DEF FirstNew, Unused, Live
  <2>7. rows'[i] = rows[i]
    BY <2>4, <2>5, <2>6, PutEffect
  <2> QED
    BY <1>a, <1>b, <2>1, <2>2, <2>3, <2>7 DEF Coming, Merging, Exiting
<1>3. ASSUME NEW j \in Ids, MissCounted(c, j) PROVE Goal
  <2> DEFINE rec == [caller[c] EXCEPT !.rest = @ \ {j}]
  <2>1. /\ rec.stage = "merge" /\ rec.rest = caller[c].rest \ {j}
        /\ rec.target = caller[c].target /\ rec.todo = {}
    BY <1>3, <1>a DEF MissCounted, Absent, Caller
  <2>2. /\ Becomes(c, rec) /\ caller[c].stage = "merge" /\ Put(j, Missed(caller[c], j))
        /\ Missed(caller[c], j).miss < ConfirmTicks
    BY <1>3 DEF MissCounted, Absent
  <2> HIDE DEF rec
  <2>3. caller'[c] = rec
    BY <2>2, BecomesEffect
  <2>4. CASE j = i
    <3>1. Missed(caller[c], i) = [rows[i] EXCEPT !.miss = Counted(@)]
      BY <1>b, <2>2 DEF Missed
    <3>2. Raised(i)
      BY <2>2, <2>4, <3>1, PutEffect DEF Raised
    <3>3. Counted(rows[i].miss) < ConfirmTicks
      BY <2>2, <2>4, <3>1 DEF TypeInv, TypeOK, Row
    <3>4. ~Late(i)
      BY <3>3, LedgerBoundsAssumption DEF Late
    <3>5. Passed(c, i)'
      BY <2>1, <2>3, <2>4 DEF Passed, Merging, Exiting
    <3> QED
      BY <3>2, <3>4, <3>5
  <2>5. CASE j # i
    <3>1. rows'[i] = rows[i]
      BY <2>2, <2>5, PutEffect
    <3> QED
      BY <1>a, <1>b, <2>1, <2>2, <2>3, <2>5, <3>1 DEF Coming, Merging, Exiting
  <2> QED
    BY <2>4, <2>5
<1>4. ASSUME NEW j \in Ids, MissSettled(c, j) PROVE Goal
  <2> DEFINE rec == [caller[c] EXCEPT !.rest = @ \ {j}]
             row == [Missed(caller[c], j) EXCEPT !.status = "closed"]
  <2>1. /\ rec.stage = "merge" /\ rec.rest = caller[c].rest \ {j}
        /\ rec.target = caller[c].target
    BY <1>4, <1>a DEF MissSettled, Absent, Caller
  <2>2. Becomes(c, rec) /\ caller[c].stage = "merge" /\ Put(j, row)
    BY <1>4 DEF MissSettled, Absent
  <2>3. row.status = "closed"
    BY <1>a, MissedType DEF Row
  <2> HIDE DEF rec, row
  <2>4. caller'[c] = rec
    BY <2>2, BecomesEffect
  <2>5. j # i => rows'[i] = rows[i]
    BY <2>2, PutEffect
  <2>6. j = i => rows'[i].status = "closed"
    BY <2>2, <2>3, PutEffect
  <2> QED
    BY <1>a, <1>b, <2>1, <2>2, <2>4, <2>5, <2>6 DEF Coming, Merging, Exiting
<1>5. ASSUME NEW j \in Ids, MissConfirmed(c, j) PROVE Goal
  <2> DEFINE rec == [caller[c] EXCEPT !.stage = "exit", !.target = j, !.auto = TRUE]
  <2>1. rec.stage = "exit" /\ rec.rest = caller[c].rest /\ rec.auto
    BY <1>a DEF Caller
  <2>2. Becomes(c, rec) /\ caller[c].stage = "merge" /\ rows' = rows
    BY <1>5 DEF MissConfirmed, Absent
  <2> HIDE DEF rec
  <2>3. caller'[c] = rec
    BY <2>2, BecomesEffect
  <2> QED
    BY <1>b, <2>1, <2>2, <2>3 DEF Coming, Merging, Exiting
<1>6. CASE ExitReads(c)
  <2> DEFINE rec == [caller[c] EXCEPT !.stage = "report", !.copy = rows[caller[c].target]]
  <2>1. /\ rec.stage = "report" /\ rec.rest = caller[c].rest /\ rec.auto = caller[c].auto
    BY <1>a DEF Caller
  <2>2. Becomes(c, rec) /\ caller[c].stage \in Exiting /\ rows' = rows
    BY <1>6 DEF ExitReads, Exiting
  <2> HIDE DEF rec
  <2>3. caller'[c] = rec
    BY <2>2, BecomesEffect
  <2> QED
    BY <1>c, <2>1, <2>2, <2>3 DEF Coming, Merging, Exiting
<1>7. CASE ExitRefused(c)
  <2>1. caller[c].auto /\ caller[c].stage \in Exiting
    BY <1>7, <1>c DEF ExitRefused, Exiting
  <2>2. rows[caller[c].target].status = "closed"
    BY <1>7, <2>1 DEF ExitRefused
  <2>3. caller[c].target # i
    BY <2>2 DEF Live
  <2> DEFINE rec == [caller[c] EXCEPT !.stage = "failed"]
  <2>4. /\ rec.stage = "failed" /\ rec.rest = caller[c].rest /\ rec.auto
        /\ rec.target = caller[c].target
    BY <1>a, <2>1 DEF Caller
  <2>5. Becomes(c, rec) /\ rows' = rows
    BY <1>7, <2>1 DEF ExitRefused, Refused
  <2> HIDE DEF rec
  <2>6. caller'[c] = rec
    BY <2>5, BecomesEffect
  <2> QED
    BY <1>c, <2>1, <2>3, <2>4, <2>5, <2>6 DEF Coming, Merging, Exiting
<1>8. CASE ExitCloses(c)
  <2> DEFINE rec == [caller[c] EXCEPT !.stage = "review"]
             row == [caller[c].copy EXCEPT !.status = "closed"]
             j   == caller[c].target
  <2>1. /\ rec.stage = "review" /\ rec.rest = caller[c].rest /\ rec.auto = caller[c].auto
        /\ rec.target = j /\ row.status = "closed"
    BY <1>a DEF Caller, Row
  <2>2. Becomes(c, rec) /\ caller[c].stage \in Exiting /\ Put(j, row) /\ j \in Ids
    BY <1>8, <1>a DEF ExitCloses, Exiting
  <2>3. caller[c].auto /\ i \in caller[c].rest
    BY <1>c, <2>2
  <2> HIDE DEF rec, row, j
  <2>4. caller'[c] = rec
    BY <2>2, BecomesEffect
  <2>5. (j # i => rows'[i] = rows[i]) /\ (j = i => rows'[i].status = "closed")
    BY <2>1, <2>2, PutEffect
  <2> QED
    BY <2>1, <2>3, <2>4, <2>5 DEF Coming, Merging, Exiting
<1>9. CASE TradeAdded(c)
  <2>1. caller[c].stage = "review" /\ caller[c].auto /\ caller[c].target # i
    BY <1>9, <1>c DEF TradeAdded, Exiting
  <2> DEFINE rec == [caller[c] EXCEPT !.stage = "merge", !.rest = @ \ {caller[c].target},
                                      !.target = 0, !.copy = NoRow, !.auto = FALSE]
  <2>2. /\ rec.stage = "merge" /\ rec.rest = caller[c].rest \ {caller[c].target}
        /\ rec.target = 0
    BY <1>a DEF Caller
  <2>3. Becomes(c, rec) /\ rows' = rows
    BY <1>9, <2>1 DEF TradeAdded, Recorded
  <2>4. i \in caller[c].rest
    BY <1>c, <2>1 DEF Exiting
  <2> HIDE DEF rec
  <2>5. caller'[c] = rec
    BY <2>3, BecomesEffect
  <2> QED
    BY <1>a, <2>1, <2>2, <2>3, <2>4, <2>5 DEF Coming, Merging, Exiting
<1>10. CASE ExitFailed(c)
  <2> DEFINE rec == [caller[c] EXCEPT !.stage = "undo"]
             j   == caller[c].target
             row == [rows[j] EXCEPT !.status = "needs_exit_record"]
  <2>1. /\ rec.stage = "undo" /\ rec.rest = caller[c].rest /\ rec.auto = caller[c].auto
        /\ rec.target = j
    BY <1>a DEF Caller
  <2>2. Becomes(c, rec) /\ caller[c].stage = "failed" /\ Put(j, row) /\ j \in Ids
    BY <1>10, <1>a DEF ExitFailed, Exiting
  <2>3. caller[c].auto /\ i \in caller[c].rest /\ j # i
    BY <1>c, <2>2 DEF Exiting
  <2> HIDE DEF rec, row, j
  <2>4. caller'[c] = rec /\ rows'[i] = rows[i]
    BY <2>2, <2>3, BecomesEffect, PutEffect
  <2> QED
    BY <2>1, <2>3, <2>4 DEF Coming, Merging, Exiting
<1>11. CASE CounterSaved(c)
  <2> DEFINE j   == caller[c].target
             rec == [caller[c] EXCEPT !.stage = "merge", !.rest = @ \ {j},
                                      !.target = 0, !.copy = NoRow, !.auto = FALSE]
             row == Missed(caller[c], j)
  <2>1. rec.stage = "merge" /\ rec.rest = caller[c].rest \ {j} /\ rec.target = 0
    BY <1>a DEF Caller
  <2>2. Becomes(c, rec) /\ caller[c].stage = "undo" /\ Put(j, row) /\ j \in Ids
    BY <1>11, <1>a DEF CounterSaved, Exiting
  <2>3. i \in caller[c].rest /\ j # i
    BY <1>c, <2>2 DEF Exiting
  <2> HIDE DEF rec, row, j
  <2>4. caller'[c] = rec /\ rows'[i] = rows[i]
    BY <2>2, <2>3, BecomesEffect, PutEffect
  <2> QED
    BY <1>a, <2>1, <2>3, <2>4 DEF Coming, Merging, Exiting
<1>12. ~SyncEnds(c) /\ ~ViewEnds(c) /\ \A j \in Ids : ~ViewWrites(c, j) /\ ~ViewFails(c, j)
  BY DEF SyncEnds, ViewEnds, ViewWrites, ViewFails, Coming, Merging, Exiting
<1> QED
  BY <1>1, <1>2, <1>3, <1>4, <1>5, <1>6, <1>7, <1>8, <1>9, <1>10, <1>11, <1>12 DEF Step

(* A sync that has passed the row leaves it alone until it returns.        *)
LEMMA PassedStep ==
  ASSUME TypeInv, SerialInv, NEW i \in Ids, NEW c \in Callers, Passed(c, i), Step(c)
  PROVE  rows'[i] = rows[i] /\ (Passed(c, i)' \/ caller'[c].stage = "idle")
<1> DEFINE Goal == rows'[i] = rows[i] /\ (Passed(c, i)' \/ caller'[c].stage = "idle")
<1>a. /\ CopiesTrue(c) /\ TargetTrue(c)
      /\ caller[c] \in Caller /\ i # 0
      /\ caller[c].stage \in Exiting => caller[c].target \in Ids
  BY CallerType DEF SerialInv, Ids
<1>b. caller[c].stage = "merge" => caller[c].todo = {} /\ i \notin caller[c].rest
  BY DEF Passed, Merging
<1>c. caller[c].stage \in Exiting =>
        /\ caller[c].auto /\ caller[c].todo = {} /\ i \notin caller[c].rest
        /\ caller[c].target # i
  BY <1>a DEF Passed, Merging, Exiting, TargetTrue
<1>1. ASSUME NEW j \in Ids, MissCounted(c, j) \/ MissSettled(c, j) PROVE Goal
  <2> DEFINE rec == [caller[c] EXCEPT !.rest = @ \ {j}]
  <2>1. /\ rec.stage = caller[c].stage /\ rec.rest = caller[c].rest \ {j}
        /\ rec.todo = caller[c].todo
    BY <1>a DEF Caller
  <2>2. Becomes(c, rec) /\ caller[c].stage = "merge" /\ j \in caller[c].rest
    BY <1>1 DEF MissCounted, MissSettled, Absent
  <2>3. \E row : Put(j, row)
    BY <1>1 DEF MissCounted, MissSettled
  <2> HIDE DEF rec
  <2>4. caller'[c] = rec /\ rows'[i] = rows[i]
    BY <1>b, <2>2, <2>3, BecomesEffect, PutEffect
  <2> QED
    BY <1>b, <2>1, <2>2, <2>4 DEF Passed, Merging, Exiting
<1>2. ASSUME NEW j \in Ids, MissConfirmed(c, j) PROVE Goal
  <2> DEFINE rec == [caller[c] EXCEPT !.stage = "exit", !.target = j, !.auto = TRUE]
  <2>1. /\ rec.stage = "exit" /\ rec.rest = caller[c].rest /\ rec.auto
        /\ rec.todo = caller[c].todo
    BY <1>a DEF Caller
  <2>2. Becomes(c, rec) /\ caller[c].stage = "merge" /\ rows' = rows
    BY <1>2 DEF MissConfirmed, Absent
  <2> HIDE DEF rec
  <2>3. caller'[c] = rec
    BY <2>2, BecomesEffect
  <2> QED
    BY <1>b, <2>1, <2>2, <2>3 DEF Passed, Merging, Exiting
<1>3. CASE ExitReads(c)
  <2> DEFINE rec == [caller[c] EXCEPT !.stage = "report", !.copy = rows[caller[c].target]]
  <2>1. /\ rec.stage = "report" /\ rec.rest = caller[c].rest /\ rec.auto = caller[c].auto
        /\ rec.todo = caller[c].todo
    BY <1>a DEF Caller
  <2>2. Becomes(c, rec) /\ caller[c].stage \in Exiting /\ rows' = rows
    BY <1>3 DEF ExitReads, Exiting
  <2> HIDE DEF rec
  <2>3. caller'[c] = rec
    BY <2>2, BecomesEffect
  <2> QED
    BY <1>c, <2>1, <2>2, <2>3 DEF Passed, Merging, Exiting
<1>4. CASE ExitRefused(c)
  <2> DEFINE rec == [caller[c] EXCEPT !.stage = "failed"]
  <2>1. /\ rec.stage = "failed" /\ rec.rest = caller[c].rest /\ rec.auto = caller[c].auto
        /\ rec.todo = caller[c].todo
    BY <1>a DEF Caller
  <2>2. Becomes(c, rec) /\ caller[c].stage \in Exiting /\ rows' = rows
    BY <1>4, <1>c DEF ExitRefused, Refused, Exiting
  <2> HIDE DEF rec
  <2>3. caller'[c] = rec
    BY <2>2, BecomesEffect
  <2> QED
    BY <1>c, <2>1, <2>2, <2>3 DEF Passed, Merging, Exiting
<1>5. ASSUME ExitCloses(c) \/ ExitFailed(c) PROVE Goal
  <2> PICK stage \in {"review", "undo"} :
        /\ Becomes(c, [caller[c] EXCEPT !.stage = stage])
        /\ caller[c].stage \in Exiting
    BY <1>5 DEF ExitCloses, ExitFailed, Exiting
  <2> DEFINE rec == [caller[c] EXCEPT !.stage = stage]
  <2>1. /\ rec.stage = stage /\ rec.rest = caller[c].rest /\ rec.auto = caller[c].auto
        /\ rec.todo = caller[c].todo
    BY <1>a DEF Caller
  <2>2. \E row : Put(caller[c].target, row)
    BY <1>5 DEF ExitCloses, ExitFailed
  <2> HIDE DEF rec
  <2>3. caller'[c] = rec /\ rows'[i] = rows[i]
    BY <1>a, <1>c, <2>2, BecomesEffect, PutEffect DEF rec
  <2> QED
    BY <1>c, <2>1, <2>3 DEF Passed, Merging, Exiting
<1>6. ASSUME TradeAdded(c) \/ CounterSaved(c) PROVE Goal
  <2> DEFINE rec == [caller[c] EXCEPT !.stage = "merge", !.rest = @ \ {caller[c].target},
                                      !.target = 0, !.copy = NoRow, !.auto = FALSE]
  <2>1. /\ rec.stage = "merge" /\ rec.rest = caller[c].rest \ {caller[c].target}
        /\ rec.todo = caller[c].todo
    BY <1>a DEF Caller
  <2>2. Becomes(c, rec) /\ caller[c].stage \in Exiting
    BY <1>6, <1>c DEF TradeAdded, Recorded, CounterSaved, Exiting
  <2>3. rows' = rows \/ \E row : Put(caller[c].target, row)
    BY <1>6 DEF TradeAdded, CounterSaved
  <2> HIDE DEF rec
  <2>4. caller'[c] = rec /\ rows'[i] = rows[i]
    BY <1>a, <1>c, <2>2, <2>3, BecomesEffect, PutEffect
  <2> QED
    BY <1>c, <2>1, <2>2, <2>4 DEF Passed, Merging, Exiting
<1>7. CASE SyncEnds(c)
  <2> DEFINE rec == [Idle EXCEPT
          !.stage = "views", !.copies = rows,
          !.rest = {j \in Ids : rows[j].status = "open"} \ Unconfirmed(caller[c])]
  <2>1. rec.stage = "views"
    BY IdleType DEF Caller
  <2>2. Becomes(c, rec) /\ rows' = rows
    BY <1>7 DEF SyncEnds
  <2> HIDE DEF rec
  <2>3. caller'[c] = rec
    BY <2>2, BecomesEffect
  <2> QED
    BY <2>1, <2>2, <2>3 DEF Passed
<1>8. ASSUME NEW j \in Ids, ViewWrites(c, j) \/ ViewFails(c, j) PROVE Goal
  <2> DEFINE rec == [caller[c] EXCEPT !.rest = @ \ {j}]
  <2>1. rec.stage = caller[c].stage
    BY <1>a DEF Caller
  <2>2. Becomes(c, rec) /\ caller[c].stage = "views" /\ j \in caller[c].rest
    BY <1>8 DEF ViewWrites, ViewFails
  <2>3. caller[c].copies[j] = rows[j]
    BY <1>a, <2>2 DEF CopiesTrue, Exiting, Ids
  <2>4. rows' = rows \/ Put(j, rows[j])
    BY <1>8, <2>3 DEF ViewWrites, ViewFails
  <2> HIDE DEF rec
  <2>5. caller'[c] = rec /\ rows'[i] = rows[i]
    BY <2>2, <2>4, BecomesEffect, PutEffect
  <2> QED
    BY <2>1, <2>2, <2>5 DEF Passed
<1>9. CASE ViewEnds(c)
  <2>1. Becomes(c, Idle) /\ rows' = rows
    BY <1>9 DEF ViewEnds
  <2> QED
    BY <2>1, BecomesEffect, IdleFields
<1>10. ~SyncRead(c) /\ \A k \in Keys : ~MergeListed(c, k)
  BY <1>b DEF SyncRead, MergeListed, Passed, Merging, Exiting
<1> QED
  BY <1>1, <1>2, <1>3, <1>4, <1>5, <1>6, <1>7, <1>8, <1>9, <1>10 DEF Step

LEMMA RaisedIsLate ==
  ASSUME TypeInv, NEW i \in Ids, ConfirmTicks <= 2, ~Late(i), Raised(i)
  PROVE  Late(i)'
<1>1. rows[i] \in Row /\ rows[i].miss \in 0..ConfirmTicks
  BY DEF TypeInv, TypeOK, Row
<1>2. rows'[i].miss = Counted(rows[i].miss)
  BY <1>1 DEF Raised, Row
<1> QED
  BY <1>1, <1>2, LedgerBoundsAssumption DEF Late, Counted

(* While a handler runs, every step that is no event is a step of it.      *)
LEMMA RunsAlone ==
  ASSUME TypeInv, Serial, SerialInv, [Next]_vars, events' = events,
         NEW c \in Callers, caller[c].stage # "idle"
  PROVE  UNCHANGED vars \/ Step(c)
<1>1. ASSUME NEW d \in Callers, Step(d) PROVE d = c
  BY <1>1, StepsRun DEF SerialInv, OneAtATime
<1>2. ASSUME NEW d \in Callers, FetchesHeld(d) PROVE FALSE
  BY <1>2 DEF FetchesHeld, Free
<1> QED
  BY <1>1, <1>2, CalmStep

(* A ghost closes.  After the last event the row of a position that is     *)
(* gone is missed by one sync, which counts it, and by the next, which     *)
(* closes it; nothing that runs in between takes the count back.  Two      *)
(* listings are the default of alert_closure_confirm_ticks; more would     *)
(* take an induction over them.                                            *)
THEOREM GhostsClose ==
  ASSUME Serial, Scheduled # {}, ConfirmTicks <= 2
  PROVE  FairSpec /\ SyncReady /\ EventsEnd /\ HandlersReturn => GhostCloses
<1> PICK w \in Scheduled : TRUE
  OBVIOUS
<1>1. ASSUME NEW i \in Ids
      PROVE  FairSpec /\ SyncReady /\ EventsEnd /\ HandlersReturn
               => ((Live(rows[i]) /\ rows[i].key \notin held)
                     ~> (rows[i].status = "closed" \/ rows[i].key \in held))
  <2> DEFINE ghost   == Live(rows[i]) /\ rows[i].key \notin held
             settled == rows[i].status = "closed" \/ rows[i].key \in held
             coming  == \E c \in Callers : Coming(c, i)
             passed  == \E c \in Callers : Passed(c, i)
             late    == Late(i)
             idle    == AllIdle
             calm    == events' = events
             inv     == TypeInv /\ SerialInv
  <2>1. coming => ~idle
    BY DEF AllIdle, Coming, Merging, Exiting
  <2>2. inv /\ ghost /\ [Next]_vars => ghost' \/ settled'
    BY LiveRowStays
  <2>3. inv /\ ghost /\ idle /\ [Next]_vars /\ [calm]_vars
          => (idle' \/ coming') /\ (late' <=> late)
    <3> SUFFICES ASSUME inv, ghost, idle, [Next]_vars, [calm]_vars
                 PROVE  (idle' \/ coming') /\ (late' <=> late)
      OBVIOUS
    <3>1. events' = events
      BY DEF vars
    <3>2. CASE UNCHANGED vars
      BY <3>2 DEF vars, AllIdle, Late
    <3>3. ASSUME NEW c \in Callers, FetchesHeld(c)
          PROVE  coming' /\ (late' <=> late)
      BY <3>3 DEF FetchesHeld, Coming, Late
    <3>4. ASSUME NEW c \in Callers, Step(c) PROVE FALSE
      BY <3>4, StepsRun DEF AllIdle
    <3> QED
      BY <3>1, <3>2, <3>3, <3>4, CalmStep
  <2>4. inv /\ ghost /\ coming /\ [Next]_vars /\ [calm]_vars
          => \/ coming' /\ (late' <=> late)
             \/ settled'
             \/ ~late /\ late' /\ passed'
    <3> SUFFICES ASSUME inv, ghost, NEW c \in Callers, Coming(c, i), [Next]_vars, [calm]_vars
                 PROVE  \/ coming' /\ (late' <=> late)
                        \/ settled'
                        \/ ~late /\ late' /\ passed'
      OBVIOUS
    <3>1. events' = events
      BY DEF vars
    <3>2. CASE UNCHANGED vars
      BY <3>2 DEF vars, Coming, Merging, Late
    <3>3. CASE Step(c)
      <4>1. CASE rows'[i] = rows[i] /\ Coming(c, i)'
        BY <4>1 DEF Late
      <4>2. CASE rows'[i].status = "closed"
        BY <4>2
      <4>3. CASE ~Late(i) /\ Raised(i) /\ Passed(c, i)'
        BY <4>3, RaisedIsLate
      <4> QED
        BY <3>3, <4>1, <4>2, <4>3, ComingStep
    <3>4. caller[c].stage # "idle"
      BY DEF Coming, Merging, Exiting
    <3> QED
      BY <3>1, <3>2, <3>3, <3>4, RunsAlone
  <2>5. inv /\ passed /\ late /\ [Next]_vars /\ [calm]_vars
          => (passed' \/ idle') /\ late'
    <3> SUFFICES ASSUME inv, NEW c \in Callers, Passed(c, i), late, [Next]_vars, [calm]_vars
                 PROVE  (passed' \/ idle') /\ late'
      OBVIOUS
    <3>1. events' = events
      BY DEF vars
    <3>2. CASE UNCHANGED vars
      BY <3>2 DEF vars, Passed, Merging, Late
    <3>3. caller[c].stage # "idle"
      BY DEF Passed, Merging, Exiting
    <3>4. CASE Step(c)
      <4>1. rows'[i] = rows[i] /\ (Passed(c, i)' \/ caller'[c].stage = "idle")
        BY <3>4, PassedStep
      <4>2. \A d \in Callers \ {c} : caller'[d] = Idle
        BY <3>3, <3>4, OthersIdle, StepsOwn
      <4>3. caller'[c].stage = "idle" => idle'
        BY <4>2, IdleFields DEF AllIdle
      <4> QED
        BY <4>1, <4>3 DEF Late
    <3> QED
      BY <3>1, <3>2, <3>3, <3>4, RunsAlone
  <2>6. TypeInv /\ <<SyncFetch(w)>>_vars => ~idle'
    BY CallersAssumption, FetchRuns DEF AllIdle
  <2>7. FairSpec => WF_vars(SyncFetch(w))
    <3>1. FairSpec => SyncsRun
      BY PTL DEF FairSpec
    <3>2. SyncsRun => SyncsFairly(w)
      BY DEF SyncsRun
    <3> QED
      BY <3>1, <3>2, PTL DEF SyncsFairly
  <2>8. SyncReady => [](idle => ENABLED <<SyncFetch(w)>>_vars)
    <3>1. SyncReady => MaySync(w)
      BY DEF SyncReady
    <3> QED
      BY <3>1, PTL DEF MaySync
  <2>9. FairSpec => [](TypeInv /\ SerialInv) /\ [][Next]_vars
    BY TypeInvariant, SerialInvariant, PTL DEF FairSpec, Spec
  <2>10. (EventsEnd => <>[][calm]_vars) /\ (HandlersReturn => []<>idle)
    BY DEF EventsEnd, HandlersReturn
  <2>11. inv <=> TypeInv /\ SerialInv
    OBVIOUS
  <2> HIDE DEF ghost, settled, coming, passed, late, idle, calm, inv
  <2>12. FairSpec /\ SyncReady /\ EventsEnd /\ HandlersReturn => (ghost ~> settled)
    BY <2>1, <2>2, <2>3, <2>4, <2>5, <2>6, <2>7, <2>8, <2>9, <2>10, <2>11, PTL
  <2> QED
    BY <2>12 DEF ghost, settled
<1> QED
  BY <1>1 DEF GhostCloses
=============================================================================
