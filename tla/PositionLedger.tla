---------------------------- MODULE PositionLedger ----------------------------
(***************************************************************************)
(* The position ledger and everybody who writes it: the sync with the      *)
(* exchange, the exit recording it ends in, manual exits, and the readers  *)
(* that write a whole row back (analysis, monitoring, memo).               *)
(*                                                                         *)
(* The ledger is a table of SQLite.  A row is read as an object, the       *)
(* handler works on it - asking the exchange for a report, a language      *)
(* model for a review - and then replaces the row with the object.  No     *)
(* transaction spans the read and the write, so a caller is modelled with  *)
(* the copies it holds, and each of its steps is one access to the table   *)
(* together with the memory it changes.                                    *)
(*                                                                         *)
(* The exchange names a position by its key, symbol and direction; the     *)
(* ledger names it by an id.                                               *)
(***************************************************************************)
EXTENDS Naturals, FiniteSets

CONSTANTS
  Keys,          \* pairs of symbol and direction
  Callers,       \* threads that run handlers of the ledger
  Scheduled,     \* those among them that run the sync again and again
  ConfirmTicks,  \* alert_closure_confirm_ticks
  Serial,        \* whether handlers run one at a time
  DieAt,         \* stages at which a handler may die half way
  MaxRows,       \* bound: rows of the ledger
  MaxEvents      \* bound: what users, browsers and faults do, together

ASSUME KeysAssumption == Keys # {}
ASSUME CallersAssumption == Scheduled \subseteq Callers
ASSUME LedgerBoundsAssumption == /\ ConfirmTicks \in Nat \ {0}
                                 /\ Serial \in BOOLEAN
                                 /\ MaxRows \in Nat
                                 /\ MaxEvents \in Nat

VARIABLES
  held,     \* keys of the positions open on the exchange
  rows,     \* the table positions: key, status and sync_miss_count of each id
  trades,   \* the table trades: how many name each position id
  caller,   \* what each caller is doing, and the copies it holds
  unseen,   \* history: how many listings in a row lacked each key
  events    \* history: events so far

vars == <<held, rows, trades, caller, unseen, events>>

Ids      == 1..MaxRows
Statuses == {"none", "open", "needs_exit_record", "closed"}
Row      == [key : Keys, status : Statuses, miss : 0..ConfirmTicks]

(* EXIT_RECORDABLE_STATUSES; missing_from_exchange is assigned nowhere.    *)
Live(row) == row.status \in {"open", "needs_exit_record"}

(* Counting past ConfirmTicks makes no difference to anything.             *)
Counted(n) == IF n < ConfirmTicks THEN n + 1 ELSE ConfirmTicks

AnyKey == CHOOSE k \in Keys : TRUE
NoRow  == [key |-> AnyKey, status |-> "none", miss |-> 0]

Stages == {"idle", "fetched", "merge", "exit", "report", "review", "failed",
           "undo", "views"}
Caller ==
  [stage   : Stages,
   listing : SUBSET Keys,        \* what get_positions returned
   gap     : [Keys -> 0..ConfirmTicks], \* history: unseen at that moment
   copies  : [Ids -> Row],       \* "existing", and what list_positions returned
   todo    : SUBSET Keys,        \* listed positions still to be merged
   rest    : SUBSET Ids,         \* copies still to be looked at
   target  : Ids \cup {0},       \* the row _record_exit works on
   copy    : Row,                \* its copy of that row
   auto    : BOOLEAN]            \* whether the sync called _record_exit

Idle == [stage |-> "idle", listing |-> {}, gap |-> [k \in Keys |-> 0],
         copies |-> [i \in Ids |-> NoRow], todo |-> {}, rest |-> {},
         target |-> 0, copy |-> NoRow, auto |-> FALSE]

Init ==
  /\ held = {}
  /\ rows = [i \in Ids |-> NoRow]
  /\ trades = [i \in Ids |-> 0]
  /\ caller = [c \in Callers |-> Idle]
  /\ unseen = [k \in Keys |-> 0]
  /\ events = 0

Event ==
  /\ events < MaxEvents
  /\ events' = events + 1

Free(c) ==
  /\ caller[c].stage = "idle"
  /\ Serial => \A d \in Callers : caller[d].stage = "idle"

Put(i, row)     == rows' = [rows EXCEPT ![i] = row]
Becomes(c, rec) == caller' = [caller EXCEPT ![c] = rec]

-----------------------------------------------------------------------------
(* The user trades on the exchange.                                        *)
UserTrades ==
  /\ Event
  /\ \E k \in Keys :
       held' = IF k \in held THEN held \ {k} ELSE held \cup {k}
  /\ UNCHANGED <<rows, trades, caller, unseen>>

-----------------------------------------------------------------------------
(* _sync_bitget_positions.                                                 *)

(* The listing of the exchange, which may lack a position that is held.    *)
SyncFetch(c) ==
  /\ Free(c)
  /\ \E listing \in {held} \cup {held \ {k} : k \in held} :
       /\ IF listing = held /\ c \in Scheduled THEN UNCHANGED events ELSE Event
       /\ unseen' = [k \in Keys |->
                       IF k \in listing THEN 0 ELSE Counted(unseen[k])]
       /\ Becomes(c, [Idle EXCEPT !.stage = "fetched", !.listing = listing,
                                  !.gap = unseen'])
  /\ UNCHANGED <<held, rows, trades>>

Unconfirmed(rec) ==
  {i \in Ids : Live(rec.copies[i]) /\ rec.copies[i].key \notin rec.listing}

SyncRead(c) ==
  /\ caller[c].stage = "fetched"
  /\ LET existing == [caller[c] EXCEPT !.copies = rows]
     IN Becomes(c, [existing EXCEPT !.stage = "merge", !.todo = existing.listing,
                                    !.rest = Unconfirmed(existing)])
  /\ UNCHANGED <<held, rows, trades, unseen, events>>

(* The copy of the row a listed position is found in.  Rows of one key are *)
(* ordered by opened_at only, so which of two comes first is open.         *)
Found(rec, k) == {i \in Ids : Live(rec.copies[i]) /\ rec.copies[i].key = k}

Unused   == {i \in Ids : rows[i].status = "none"}
FirstNew == {i \in Unused : \A j \in Unused : i <= j}

(* Mutant: a listed position is looked up among the open rows only.        *)
MergeListedOpenOnly(c, k) ==
  LET rec == caller[c]
      found == {i \in Found(rec, k) : rec.copies[i].status = "open"}
  IN /\ rec.stage = "merge"
     /\ k \in rec.todo
     /\ \E i \in IF found # {} THEN found ELSE FirstNew :
          Put(i, [key |-> k, status |-> "open", miss |-> 0])
     /\ Becomes(c, [rec EXCEPT !.todo = @ \ {k}])
     /\ UNCHANGED <<held, trades, unseen, events>>

(* Mutant: a row that was given up keeps its status.                       *)
MergeListedKeepsStatus(c, k) ==
  LET rec == caller[c]
  IN /\ rec.stage = "merge"
     /\ k \in rec.todo
     /\ \E i \in IF Found(rec, k) # {} THEN Found(rec, k) ELSE FirstNew :
          Put(i, [key |-> k, miss |-> 0,
                  status |-> IF Found(rec, k) # {} THEN rec.copies[i].status
                                                   ELSE "open"])
     /\ Becomes(c, [rec EXCEPT !.todo = @ \ {k}])
     /\ UNCHANGED <<held, trades, unseen, events>>

(* Mutant: a position that is listed again keeps its miss counter.         *)
MergeListedKeepsCount(c, k) ==
  LET rec == caller[c]
  IN /\ rec.stage = "merge"
     /\ k \in rec.todo
     /\ \E i \in IF Found(rec, k) # {} THEN Found(rec, k) ELSE FirstNew :
          Put(i, [key |-> k, status |-> "open", miss |-> rec.copies[i].miss])
     /\ Becomes(c, [rec EXCEPT !.todo = @ \ {k}])
     /\ UNCHANGED <<held, trades, unseen, events>>

(* A listed position: a new row, or its row with the counter reset.        *)
MergeListed(c, k) ==
  LET rec == caller[c]
  IN /\ rec.stage = "merge"
     /\ k \in rec.todo
     /\ \E i \in IF Found(rec, k) # {} THEN Found(rec, k) ELSE FirstNew :
          Put(i, [key |-> k, status |-> "open", miss |-> 0])
     /\ Becomes(c, [rec EXCEPT !.todo = @ \ {k}])
     /\ UNCHANGED <<held, trades, unseen, events>>

(* The copy of a row the listing lacks, with its counter increased.        *)
Missed(rec, i) == [rec.copies[i] EXCEPT !.miss = Counted(@)]

Absent(c, i) ==
  /\ caller[c].stage = "merge"
  /\ caller[c].todo = {}
  /\ i \in caller[c].rest

(* Mutant: the increased counter is not saved.                             *)
MissCountedUnsaved(c, i) ==
  /\ Absent(c, i)
  /\ Missed(caller[c], i).miss < ConfirmTicks
  /\ Becomes(c, [caller[c] EXCEPT !.rest = @ \ {i}])
  /\ UNCHANGED <<held, rows, trades, unseen, events>>

MissCounted(c, i) ==
  /\ Absent(c, i)
  /\ Missed(caller[c], i).miss < ConfirmTicks
  /\ Put(i, Missed(caller[c], i))
  /\ Becomes(c, [caller[c] EXCEPT !.rest = @ \ {i}])
  /\ UNCHANGED <<held, trades, unseen, events>>

(* Mutant: a row that has a trade is left as it is.                        *)
MissSettledIgnored(c, i) ==
  /\ Absent(c, i)
  /\ Missed(caller[c], i).miss = ConfirmTicks
  /\ trades[i] > 0
  /\ Put(i, Missed(caller[c], i))
  /\ Becomes(c, [caller[c] EXCEPT !.rest = @ \ {i}])
  /\ UNCHANGED <<held, trades, unseen, events>>

(* _auto_record_missing_bitget_exit, of a row that has its trade already.  *)
MissSettled(c, i) ==
  /\ Absent(c, i)
  /\ Missed(caller[c], i).miss = ConfirmTicks
  /\ trades[i] > 0
  /\ Put(i, [Missed(caller[c], i) EXCEPT !.status = "closed"])
  /\ Becomes(c, [caller[c] EXCEPT !.rest = @ \ {i}])
  /\ UNCHANGED <<held, trades, unseen, events>>

(* The same, of a row that has none: it calls _record_exit.  A price to    *)
(* record is always there, entry_price at worst.                           *)
MissConfirmed(c, i) ==
  /\ Absent(c, i)
  /\ Missed(caller[c], i).miss = ConfirmTicks
  /\ trades[i] = 0
  /\ Becomes(c, [caller[c] EXCEPT !.stage = "exit", !.target = i, !.auto = TRUE])
  /\ UNCHANGED <<held, rows, trades, unseen, events>>

(* Mutant: the status a failed exit is given is the one no longer used.    *)
ExitFailedMissing(c) ==
  LET i == caller[c].target
  IN /\ caller[c].stage = "failed"
     /\ Put(i, [rows[i] EXCEPT !.status = "missing_from_exchange"])
     /\ Becomes(c, [caller[c] EXCEPT !.stage = "undo"])
     /\ UNCHANGED <<held, trades, unseen, events>>

(* _record_exit raised HTTPException: the row as it is now is marked ...   *)
ExitFailed(c) ==
  LET i == caller[c].target
  IN /\ caller[c].stage = "failed"
     /\ Put(i, [rows[i] EXCEPT !.status = "needs_exit_record"])
     /\ Becomes(c, [caller[c] EXCEPT !.stage = "undo"])
     /\ UNCHANGED <<held, trades, unseen, events>>

(* ... and the sync, to save the counter, writes its own copy over it.     *)
CounterSaved(c) ==
  LET i == caller[c].target
  IN /\ caller[c].stage = "undo"
     /\ Put(i, Missed(caller[c], i))
     /\ Becomes(c, [caller[c] EXCEPT !.stage = "merge", !.rest = @ \ {i},
                                     !.target = 0, !.copy = NoRow, !.auto = FALSE])
     /\ UNCHANGED <<held, trades, unseen, events>>

(* sync_live_positions goes on to analyse the open rows, except those the  *)
(* listing did not confirm.                                                *)
SyncEnds(c) ==
  LET rec == caller[c]
  IN /\ rec.stage = "merge"
     /\ rec.todo = {} /\ rec.rest = {}
     /\ Becomes(c, [Idle EXCEPT
          !.stage = "views", !.copies = rows,
          !.rest = {i \in Ids : rows[i].status = "open"} \ Unconfirmed(rec)])
     /\ UNCHANGED <<held, rows, trades, unseen, events>>

-----------------------------------------------------------------------------
(* _record_exit, called by the sync or for a user.                         *)

ManualExit(c, i) ==
  /\ Free(c)
  /\ Event
  /\ rows[i].status # "none"
  /\ Becomes(c, [Idle EXCEPT !.stage = "exit", !.target = i])
  /\ UNCHANGED <<held, rows, trades, unseen>>

(* Where a call of _record_exit goes on that was refused or has failed.    *)
Refused(rec)  == IF rec.auto THEN [rec EXCEPT !.stage = "failed"] ELSE Idle
(* ... and one that returned the trade.                                    *)
Recorded(rec) ==
  IF rec.auto
  THEN [rec EXCEPT !.stage = "merge", !.rest = @ \ {rec.target},
                   !.target = 0, !.copy = NoRow, !.auto = FALSE]
  ELSE Idle

(* Mutant: the status of the row is not looked at.                         *)
ExitReadsUnguarded(c) ==
  /\ caller[c].stage = "exit"
  /\ Becomes(c, [caller[c] EXCEPT !.stage = "report",
                                  !.copy = rows[caller[c].target]])
  /\ UNCHANGED <<held, rows, trades, unseen, events>>

(* The guard "Position is already closed" is evaluated on a copy.          *)
ExitReads(c) ==
  /\ caller[c].stage = "exit"
  /\ Live(rows[caller[c].target])
  /\ Becomes(c, [caller[c] EXCEPT !.stage = "report",
                                  !.copy = rows[caller[c].target]])
  /\ UNCHANGED <<held, rows, trades, unseen, events>>

(* exit_position (a manual exit without allow_missing) wants an open row.  *)
ExitRefused(c) ==
  LET status == rows[caller[c].target].status
  IN /\ caller[c].stage = "exit"
     /\ status = "closed" \/ (status = "needs_exit_record" /\ ~caller[c].auto)
     /\ Becomes(c, Refused(caller[c]))
     /\ UNCHANGED <<held, rows, trades, unseen, events>>

(* The market report cannot be made.                                       *)
ReportFails(c) ==
  /\ caller[c].stage = "report"
  /\ Event
  /\ Becomes(c, Refused(caller[c]))
  /\ UNCHANGED <<held, rows, trades, unseen>>

(* The report took its time; the row is closed first ...                   *)
ExitCloses(c) ==
  /\ caller[c].stage = "report"
  /\ Put(caller[c].target, [caller[c].copy EXCEPT !.status = "closed"])
  /\ Becomes(c, [caller[c] EXCEPT !.stage = "review"])
  /\ UNCHANGED <<held, trades, unseen, events>>

(* Mutant: a trade that could not be reviewed is not added.                *)
TradeSkipped(c) ==
  /\ caller[c].stage = "review"
  /\ Becomes(c, Recorded(caller[c]))
  /\ UNCHANGED <<held, rows, trades, unseen, events>>

(* ... and the trade, once it has been reviewed, is added after it.        *)
TradeAdded(c) ==
  /\ caller[c].stage = "review"
  /\ trades' = [trades EXCEPT ![caller[c].target] = @ + 1]
  /\ Becomes(c, Recorded(caller[c]))
  /\ UNCHANGED <<held, rows, unseen, events>>

-----------------------------------------------------------------------------
(* Handlers that read rows, take their time and write them back whole.     *)

(* list_live_positions: every open row.  update_position_memo, and the     *)
(* alert context of a position: one row, whatever its status.              *)
ViewStarts(c) ==
  /\ Free(c)
  /\ Event
  /\ \E seen \in {{i \in Ids : rows[i].status = "open"}}
                   \cup {{i} : i \in Ids \ Unused} :
       Becomes(c, [Idle EXCEPT !.stage = "views", !.copies = rows, !.rest = seen])
  /\ UNCHANGED <<held, rows, trades, unseen>>

ViewWrites(c, i) ==
  /\ caller[c].stage = "views"
  /\ i \in caller[c].rest
  /\ Put(i, caller[c].copies[i])
  /\ Becomes(c, [caller[c] EXCEPT !.rest = @ \ {i}])
  /\ UNCHANGED <<held, trades, unseen, events>>

(* The analysis failed: the row is left out of the answer.                 *)
ViewFails(c, i) ==
  /\ caller[c].stage = "views"
  /\ i \in caller[c].rest
  /\ Becomes(c, [caller[c] EXCEPT !.rest = @ \ {i}])
  /\ UNCHANGED <<held, rows, trades, unseen, events>>

ViewEnds(c) ==
  /\ caller[c].stage = "views"
  /\ caller[c].rest = {}
  /\ Becomes(c, Idle)
  /\ UNCHANGED <<held, rows, trades, unseen, events>>

-----------------------------------------------------------------------------
(* The process dies, or an exception the handler does not expect ends it.  *)
Dies(c) ==
  /\ caller[c].stage \in DieAt \ {"idle"}
  /\ Event
  /\ Becomes(c, Idle)
  /\ UNCHANGED <<held, rows, trades, unseen>>

(* What a handler does of its own accord once it has been called.          *)
Step(c) ==
  \/ SyncRead(c)
  \/ \E k \in Keys : MergeListed(c, k)
  \/ \E i \in Ids : MissCounted(c, i) \/ MissSettled(c, i) \/ MissConfirmed(c, i)
  \/ ExitReads(c) \/ ExitRefused(c) \/ ExitCloses(c) \/ TradeAdded(c)
  \/ ExitFailed(c) \/ CounterSaved(c)
  \/ SyncEnds(c)
  \/ \E i \in Ids : ViewWrites(c, i) \/ ViewFails(c, i)
  \/ ViewEnds(c)

Next ==
  \/ UserTrades
  \/ \E c \in Callers :
       \/ SyncFetch(c) \/ Step(c)
       \/ ReportFails(c) \/ ViewStarts(c) \/ Dies(c)
       \/ \E i \in Ids : ManualExit(c, i)

Spec == Init /\ [][Next]_vars

(* Handlers return, and the worker runs its sync forever.                  *)
SyncsFairly(c) == WF_vars(SyncFetch(c))
SyncsRun       == \A c \in Scheduled : SyncsFairly(c)

FairSpec ==
  /\ Spec
  /\ \A c \in Callers : WF_vars(Step(c))
  /\ SyncsRun

-----------------------------------------------------------------------------
TypeOK ==
  /\ held \subseteq Keys
  /\ rows \in [Ids -> Row]
  /\ trades \in [Ids -> Nat]
  /\ caller \in [Callers -> Caller]
  /\ unseen \in [Keys -> 0..ConfirmTicks]
  /\ events \in 0..MaxEvents

(***************************************************************************)
(* A position has one row the ledger believes in: however it appears,      *)
(* vanishes, is recorded by hand and appears again, the sync finds the row *)
(* it has and never adds a second one.                                     *)
(***************************************************************************)
OneLiveRowPerKey ==
  \A i, j \in Ids :
    Live(rows[i]) /\ Live(rows[j]) /\ rows[i].key = rows[j].key => i = j

(***************************************************************************)
(* An exit is recorded once: no row is named by two trades, although the   *)
(* sync and the user both record exits, retry after failures, and the      *)
(* sync's own error path writes the row twice.                             *)
(***************************************************************************)
OneTradePerPosition == \A i \in Ids : trades[i] <= 1

(***************************************************************************)
(* A closed row has its trade, or somebody is about to add it: neither     *)
(* copies written back late nor competing exits close a row for which no   *)
(* exit was recorded.                                                      *)
(***************************************************************************)
ClosedHasTrade ==
  \A i \in Ids :
    rows[i].status = "closed" =>
      \/ trades[i] > 0
      \/ \E c \in Callers : caller[c].stage = "review" /\ caller[c].target = i

(***************************************************************************)
(* The sync records an exit only after ConfirmTicks listings in a row, the *)
(* caller's own included, lacked the position ("alert_closure_confirm_     *)
(* ticks consecutive absences", PositionVisibility).                       *)
(***************************************************************************)
ExitOnlyAfterConsecutiveAbsence ==
  [][\A c \in Callers, i \in Ids :
       MissConfirmed(c, i) => caller[c].gap[caller[c].copies[i].key] = ConfirmTicks]_vars

(***************************************************************************)
(* A ghost does not stay: a row whose position is gone from the exchange   *)
(* is closed in the end, unless the position comes back - though listings  *)
(* lack positions, reports fail and stale copies undo the miss counter.    *)
(***************************************************************************)
GhostCloses ==
  \A i \in Ids :
    (Live(rows[i]) /\ rows[i].key \notin held)
      ~> (rows[i].status = "closed" \/ rows[i].key \in held)

(***************************************************************************)
(* A position held on the exchange gets an open row in the end.            *)
(***************************************************************************)
HeldIsTracked ==
  \A k \in Keys :
    k \in held ~> (k \notin held \/ \E i \in Ids : rows[i].key = k /\ rows[i].status = "open")
=============================================================================
