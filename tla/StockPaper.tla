------------------------------ MODULE StockPaper ------------------------------
(***************************************************************************)
(* The paper account of one stock market (run_stock_paper_engine).  A run  *)
(* resubmits the orders that wait, then sells what must go, then enters    *)
(* strict candidates, then coverage candidates (the exploration lane).     *)
(* Each order is placed in three transactions: the order is saved, then    *)
(* its fill, then what follows from the fill (the plan of exit of a new    *)
(* position, the profit level an exit has taken).                          *)
(*                                                                         *)
(* A tick of the worker's job that finds its last run under way is         *)
(* skipped; only a run whose budget was spent leaves a thread behind that  *)
(* goes on beside the next.  POST /run starts a run of its own, but        *)
(* without a market's payload: it finds every session closed and has no    *)
(* candidates.  StockRuns says who may run at the same time.  Beside them  *)
(* the operator's script may mark a position so that its lane no longer    *)
(* counts it.                                                              *)
(*                                                                         *)
(* Prices, fees and the analysis are left out: which exits are due, which  *)
(* candidate passes the gates and how the market answers an order is       *)
(* chosen freely.                                                          *)
(***************************************************************************)
EXTENDS Naturals, Sequences, FiniteSets, FiniteSetsExt

CONSTANTS
  StockRuns,      \* who may run the engine: the job, a request
  Symbols,        \* the symbols of the market
  Candidates,     \* the symbols each lane may be offered
  HoldSettings,   \* values of stock_paper_hold_queued_orders
  Quantity,       \* shares of an entry
  TopLevel,       \* levels of the take-profit ladder
  MaxPositions,   \* max_open_positions
  CoverageTarget, \* coverage_target_open_positions
  MaxOrders       \* bound: orders ever made

Lanes     == {"strict_signal", "coverage"}
Levels    == 1..TopLevel

(* The limits are numbers, and the market lists finitely many symbols.     *)
ASSUME AccountAssumption ==
  /\ IsFiniteSet(Symbols) /\ Candidates \in [Lanes -> SUBSET Symbols]
  /\ HoldSettings \subseteq BOOLEAN
  /\ Quantity \in Nat \ {0} /\ TopLevel \in Nat \ {0}
  /\ MaxPositions \in Nat /\ CoverageTarget \in Nat /\ MaxOrders \in Nat

VARIABLES
  holdQueued,   \* the setting, read at each run
  orders,       \* stock_paper_orders, in the order of their creation
  shares,       \* stock_paper_positions.quantity
  laneShares,   \* stock_paper_mode_positions.quantity
  excluded,     \* symbols whose coverage row is marked excluded_from_stats
  exitPlan,     \* exit_plan of a position: is there one, which levels are taken
  engineRun,    \* what each run is doing, with the copies it works from
  filled,       \* history: shares filled, by order
  stockCut      \* history: a run died between two transactions

stockVars == <<holdQueued, orders, shares, laneShares, excluded, exitPlan,
               engineRun, filled, stockCut>>

IdleRun == [pc |-> "idle", open |-> FALSE, waiting |-> {}, sent |-> FALSE,
            rows |-> {}, keys |-> {}, offered |-> {}, order |-> 0, fill |-> 0,
            phase |-> "pending"]

Active(o)    == o.status \in {"queued", "partial"}
OrderIds     == 1..Len(orders)
ActiveIds    == {i \in OrderIds : Active(orders[i])}
ActiveOn(s)  == \E i \in ActiveIds : orders[i].symbol = s
Positions    == {s \in Symbols : shares[s] > 0}
CoverageHeld == {s \in Symbols : laneShares[s]["coverage"] > 0 /\ s \notin excluded}
CoverageUsed == Cardinality(CoverageHeld)
                + Cardinality({i \in ActiveIds : orders[i].lane = "coverage"})

NewOrder(side, s, lane, level, n) ==
  [status |-> "created", side |-> side, symbol |-> s, lane |-> lane,
   level |-> level, left |-> n, late |-> FALSE]

StockInit ==
  /\ holdQueued \in HoldSettings
  /\ orders = <<>>
  /\ shares = [s \in Symbols |-> 0]
  /\ laneShares = [s \in Symbols |-> [l \in Lanes |-> 0]]
  /\ excluded = {}
  /\ exitPlan = [s \in Symbols |-> [known |-> FALSE, taken |-> {}]]
  /\ engineRun = [r \in StockRuns |-> IdleRun]
  /\ filled = <<>>
  /\ stockCut = FALSE

-----------------------------------------------------------------------------
(* Saving an order: a new one is appended, a known one is overwritten by   *)
(* the copy the run holds, whatever has become of it meanwhile.            *)
Save(i, o) ==
  IF i > Len(orders)
  THEN orders' = Append(orders, o) /\ filled' = Append(filled, 0)
  ELSE orders' = [orders EXCEPT ![i] = o] /\ UNCHANGED filled

(* A first answer other than a fill makes the order late: nothing that     *)
(* follows from a fill at placement is ever done for it.                   *)
Unfilled(i, o, st) ==
  [o EXCEPT !.status = st, !.late = @ \/ i > Len(orders)]

(* Mutant: what is left to fill is not reduced by a part that was filled.  *)
LeftUnreduced(o, n) == IF n = o.left THEN 0 ELSE o.left

LeftAfter(o, n) == o.left - n

(* place(): a sale of more than is held is rejected; a hard warning        *)
(* cancels, a closed session, a halt, a lock or missing data queue; in an  *)
(* open session the market may take any part of what is left, or the fill  *)
(* breaks its invariant, which stops the track and aborts the run.         *)
Place(r, i, o, next) ==
  \/ /\ o.side = "sell" /\ o.left > shares[o.symbol]
     /\ Save(i, Unfilled(i, o, "rejected"))
     /\ engineRun' = [engineRun EXCEPT ![r] = next]
  \/ /\ ~(o.side = "sell" /\ o.left > shares[o.symbol])
     /\ \/ /\ \E st \in {"queued", "cancelled"} : Save(i, Unfilled(i, o, st))
           /\ engineRun' = [engineRun EXCEPT ![r] = next]
        \/ /\ next.open
           /\ \E n \in 1..o.left :
                /\ Save(i, [o EXCEPT !.left = LeftAfter(o, n),
                                     !.status = IF n = o.left THEN "filled"
                                                ELSE "partial"])
                /\ engineRun' = [engineRun EXCEPT ![r] =
                     [next EXCEPT !.pc = "fill", !.order = i, !.fill = n,
                                  !.phase = next.pc]]
        \/ /\ next.open
           /\ engineRun' = [engineRun EXCEPT ![r] = IdleRun]
           /\ UNCHANGED <<orders, filled>>

Minus(a, b) == IF a > b THEN a - b ELSE 0
AfterFill(side, old, n) == IF side = "buy" THEN old + n ELSE Minus(old, n)

(* save_fill: one transaction for the fill, the position and the lane.     *)
SaveFill(r) ==
  LET run == engineRun[r]
      o   == orders[run.order]
  IN /\ run.pc = "fill"
     /\ shares' = [shares EXCEPT ![o.symbol] = AfterFill(o.side, @, run.fill)]
     /\ laneShares' = [laneShares EXCEPT ![o.symbol][o.lane] =
                                           AfterFill(o.side, @, run.fill)]
     /\ filled' = [filled EXCEPT ![run.order] = @ + run.fill]
     /\ engineRun' = [engineRun EXCEPT ![r].pc =
                        IF run.phase = "pending" THEN "pending" ELSE "follow"]
     /\ UNCHANGED <<holdQueued, orders, excluded, exitPlan, stockCut>>

(* Mutant: a position filled in part gets no plan of exit.                 *)
PlanWhenComplete(plan, o) ==
  IF o.side = "buy" /\ o.status = "filled" THEN [known |-> TRUE, taken |-> {}]
  ELSE IF o.level = 0 THEN plan
  ELSE [plan EXCEPT !.taken = @ \cup {o.level}]

(* Mutant: a level is not recorded.                                        *)
PlanNoLevel(plan, o) ==
  IF o.side = "buy" THEN [known |-> TRUE, taken |-> {}] ELSE plan

PlanAfter(plan, o) ==
  IF o.side = "buy" THEN [known |-> TRUE, taken |-> {}]
  ELSE IF o.level = 0 THEN plan
  ELSE [plan EXCEPT !.taken = @ \cup {o.level}]

(* set_exit_plan after an entry, record_realized_level after a profit      *)
(* taking; neither is done for fills of resubmitted orders.                *)
Follow(r) ==
  LET run == engineRun[r]
      o   == orders[run.order]
  IN /\ run.pc = "follow"
     /\ exitPlan' = [exitPlan EXCEPT ![o.symbol] = PlanAfter(@, o)]
     /\ engineRun' = [engineRun EXCEPT ![r] =
                        [run EXCEPT !.pc = run.phase, !.order = 0, !.fill = 0]]
     /\ UNCHANGED <<holdQueued, orders, shares, laneShares, excluded, filled,
                    stockCut>>

-----------------------------------------------------------------------------
(* A run reads the waiting orders.                                         *)
BeginRun(r) ==
  /\ engineRun[r].pc = "idle"
  /\ \E open \in BOOLEAN :
       engineRun' = [engineRun EXCEPT ![r] =
         [IdleRun EXCEPT !.pc = "pending", !.open = open,
                         !.waiting = {[id |-> i, order |-> orders[i]] : i \in ActiveIds}]]
  /\ UNCHANGED <<holdQueued, orders, shares, laneShares, excluded, exitPlan, filled,
                 stockCut>>

(* Mutant: queued orders are sent in an open session.                      *)
HeldNever(run, w) == FALSE

Held(run, w) == holdQueued /\ run.open /\ w.order.status = "queued"

Resubmit(r) ==
  LET run == engineRun[r] IN
  /\ run.pc = "pending"
  /\ \E w \in run.waiting :
       /\ ~Held(run, w)
       /\ Place(r, w.id, w.order, [run EXCEPT !.waiting = @ \ {w}, !.sent = TRUE])
  /\ UNCHANGED <<holdQueued, shares, laneShares, excluded, exitPlan, stockCut>>

(* Orders beyond the limit of a batch, which is at least one, are left for *)
(* the next run.  _process_exits lists the positions and, once, the        *)
(* symbols with a sale that waits.                                         *)
ListPositions(r) ==
  LET run == engineRun[r] IN
  /\ run.pc = "pending"
  /\ run.sent \/ \A w \in run.waiting : Held(run, w)
  /\ engineRun' = [engineRun EXCEPT ![r] =
       [run EXCEPT !.pc = "exits", !.waiting = {}, !.sent = FALSE,
          !.keys = {orders[i].symbol : i \in {j \in ActiveIds : orders[j].side = "sell"}},
          !.rows = {[symbol |-> s, held |-> shares[s], plan |-> exitPlan[s]] :
                      s \in Positions}]]
  /\ UNCHANGED <<holdQueued, orders, shares, laneShares, excluded, exitPlan, filled,
                 stockCut>>

(* What evaluate_stock_exit may ask for: everything (a forced exit, the    *)
(* stop, too many days), which is level 0, or a level of the plan that was *)
(* not taken; the levels below it were taken or have no target.            *)
DueLevels(row) == {0} \cup (IF row.plan.known THEN Levels \ row.plan.taken ELSE {})

(* Everything is sold at level 0 and at the last level; a level below      *)
(* sells its share of the ladder, of what is held at least one and any     *)
(* part, for the shares are settings.                                      *)
SaleQuantities(row, l) == IF l \in {0, TopLevel} THEN {row.held} ELSE 1..row.held

(* A position row has no entry_mode, so every sale is a strict one.        *)
LaneOfSale(row) == "strict_signal"

ExitRow(r) ==
  LET run == engineRun[r] IN
  /\ run.pc = "exits"
  /\ \E row \in run.rows :
       LET next == [run EXCEPT !.rows = @ \ {row}] IN
       \/ /\ engineRun' = [engineRun EXCEPT ![r] = next]  \* nothing due, or deduped
          /\ UNCHANGED <<orders, filled>>
       \/ /\ row.symbol \notin run.keys /\ Len(orders) < MaxOrders
          /\ \E l \in DueLevels(row) : \E n \in SaleQuantities(row, l) :
               Place(r, Len(orders) + 1,
                     NewOrder("sell", row.symbol, LaneOfSale(row), l, n), next)
  /\ UNCHANGED <<holdQueued, shares, laneShares, excluded, exitPlan, stockCut>>

-----------------------------------------------------------------------------
NextPhase(p) == CASE p = "exits" -> "strict" [] p = "strict" -> "coverage"
                  [] p = "coverage" -> "idle"
LaneOf(p)    == IF p = "strict" THEN "strict_signal" ELSE "coverage"

(* The rest of a phase: no candidate is left that passes the gates.        *)
EndPhase(r) ==
  LET run  == engineRun[r]
      next == NextPhase(run.pc)
  IN /\ run.pc \in {"exits", "strict", "coverage"} /\ run.rows = {}
     /\ engineRun' = [engineRun EXCEPT ![r] =
          IF next = "idle" THEN IdleRun
          ELSE [run EXCEPT !.pc = next, !.keys = {}, !.offered = Candidates[LaneOf(next)]]]
     /\ UNCHANGED <<holdQueued, orders, shares, laneShares, excluded, exitPlan,
                    filled, stockCut>>

(* Mutant: the limit lets one position more in.                            *)
EnterAtLimit(r, lane) ==
  \E s \in engineRun[r].offered :
    /\ shares[s] = 0 /\ ~ActiveOn(s)
    /\ Cardinality(Positions) <= MaxPositions
    /\ Len(orders) < MaxOrders
    /\ Place(r, Len(orders) + 1, NewOrder("buy", s, lane, 0, Quantity),
             [engineRun[r] EXCEPT !.offered = @ \ {s}])
    /\ UNCHANGED <<holdQueued, shares, laneShares, excluded, exitPlan, stockCut>>

Enter(r, lane) ==
  \E s \in engineRun[r].offered :
    /\ shares[s] = 0 /\ ~ActiveOn(s)
    /\ Cardinality(Positions) < MaxPositions
    /\ Len(orders) < MaxOrders
    /\ Place(r, Len(orders) + 1, NewOrder("buy", s, lane, 0, Quantity),
             [engineRun[r] EXCEPT !.offered = @ \ {s}])
    /\ UNCHANGED <<holdQueued, shares, laneShares, excluded, exitPlan, stockCut>>

EnterStrict(r) == engineRun[r].pc = "strict" /\ Enter(r, "strict_signal")

(* Mutant: coverage orders that wait are not counted.                      *)
EnterCoverageUncounted(r) ==
  /\ engineRun[r].pc = "coverage"
  /\ Cardinality(CoverageHeld) < CoverageTarget
  /\ Enter(r, "coverage")

EnterCoverage(r) ==
  /\ engineRun[r].pc = "coverage"
  /\ CoverageUsed < CoverageTarget
  /\ Enter(r, "coverage")

(* The process dies: all runs are gone.                                    *)
StockCrash ==
  /\ ~stockCut
  /\ \E r \in StockRuns : engineRun[r].pc \in {"fill", "follow"}
  /\ engineRun' = [r \in StockRuns |-> IdleRun]
  /\ stockCut' = TRUE
  /\ UNCHANGED <<holdQueued, orders, shares, laneShares, excluded, exitPlan, filled>>

(* The operator's script lists the positions that are held and marks those *)
(* without a stop, their rows of every lane with them.  Coverage entries   *)
(* need not have passed the gate that asks for a stop, so which of them    *)
(* has none is left open.  Nothing takes a mark back: a symbol that is     *)
(* bought again keeps it.                                                  *)
VoidOrphan(s) ==
  /\ shares[s] > 0 /\ laneShares[s]["coverage"] > 0
  /\ excluded' = excluded \cup {s}
  /\ UNCHANGED <<holdQueued, orders, shares, laneShares, exitPlan, engineRun, filled,
                 stockCut>>

StockNext ==
  \/ \E r \in StockRuns :
       \/ BeginRun(r) \/ Resubmit(r) \/ ListPositions(r) \/ ExitRow(r)
       \/ SaveFill(r) \/ Follow(r) \/ EndPhase(r)
       \/ EnterStrict(r) \/ EnterCoverage(r)
  \/ StockCrash
  \/ \E s \in Symbols : VoidOrphan(s)

StockSpec == StockInit /\ [][StockNext]_stockVars

-----------------------------------------------------------------------------
OrderType == [status : {"queued", "partial", "filled", "cancelled", "rejected"},
              side : {"buy", "sell"}, symbol : Symbols, lane : Lanes,
              level : 0..TopLevel, left : Nat, late : BOOLEAN]

(* The types of the account.                                               *)
StockTypeOK ==
  /\ holdQueued \in BOOLEAN
  /\ orders \in Seq(OrderType) /\ filled \in Seq(Nat) /\ Len(filled) = Len(orders)
  /\ shares \in [Symbols -> Nat]
  /\ laneShares \in [Symbols -> [Lanes -> Nat]]
  /\ excluded \subseteq Symbols
  /\ exitPlan \in [Symbols -> [known : BOOLEAN, taken : SUBSET Levels]]
  /\ \A r \in StockRuns :
       /\ engineRun[r].pc \in {"idle", "pending", "exits", "strict", "coverage",
                               "fill", "follow"}
       /\ engineRun[r].order \in 0..Len(orders)
  /\ stockCut \in BOOLEAN

FilledOn(s, side) ==
  MapThenSumSet(LAMBDA i : filled[i],
                {i \in OrderIds : orders[i].symbol = s /\ orders[i].side = side})

(* Without overlapping runs no order is filled beyond its quantity and     *)
(* nothing is sold that is not there: the position is what the fills say,  *)
(* and the clamp of save_fill is never needed.  Orders are saved before    *)
(* their fills, so a crash loses shares and never creates them             *)
(* (PaperBroker.place, save_fill).                                         *)
StockLedgerAgrees ==
  \A s \in Symbols :
    /\ FilledOn(s, "buy") = shares[s] + FilledOn(s, "sell")
    /\ \A i \in OrderIds : orders[i].side = "buy" => filled[i] + orders[i].left <= Quantity

(* The exploration lane keeps to its target: symbols it holds and symbols  *)
(* it has ordered never exceed it, queued, partly filled or cut as its     *)
(* orders may be.  Positions the operator has marked are not counted, as   *)
(* the lane's gate does not count them.                                    *)
CoverageBounded ==
    Cardinality(CoverageHeld \cup {orders[i].symbol :
                  i \in {j \in ActiveIds : orders[j].lane = "coverage"}}) <= CoverageTarget

(* A run that enters never brings the account above max_open_positions:    *)
(* each gate compares the count it has just read, and nothing is filled    *)
(* between that and the fill.  The gates count positions only, and not, as *)
(* the lane's target does, the orders that wait, so an order that had to   *)
(* wait and is sent again may find the account full and fill beyond it.    *)
OverLimitOnlyFromQueue ==
  [][(Positions' \ Positions # {} /\ Cardinality(Positions') > MaxPositions)
     => \E r \in StockRuns : engineRun[r].pc = "fill" /\ engineRun[r].phase = "pending"]_stockVars

(* With queued orders held back (the default), a sale that once had to     *)
(* wait is never carried out and keeps every other sale of the symbol      *)
(* away: as long as it waits the position cannot shrink, neither by its    *)
(* stop nor by a forced exit.                                              *)
QueuedSaleBlocksExit ==
  [][\A i \in OrderIds :
       (holdQueued /\ orders[i].status = "queued" /\ orders[i].side = "sell")
       => /\ orders'[i].status \in {"queued", "cancelled"}
          /\ shares'[orders[i].symbol] >= shares[orders[i].symbol]]_stockVars

(* A position has its plan of exit as soon as its run has gone on, unless  *)
(* its entry was filled after it had waited: such a position has no stop,  *)
(* no targets and no day of opening.                                       *)
FilledAtOnceHasPlan ==
  ~stockCut =>
    \A s \in Symbols :
      \/ shares[s] = 0 \/ exitPlan[s].known
      \/ \E i \in OrderIds : orders[i].symbol = s /\ orders[i].side = "buy" /\ orders[i].late
      \/ \E r \in StockRuns : engineRun[r].pc = "follow"

(* A level of the take-profit ladder is sold once for each entry, unless   *)
(* its sale had to wait: then record_realized_level is never called and    *)
(* the level is sold again.                                                *)
LevelSoldOnce ==
  ~stockCut =>
    \A i, j \in OrderIds :
      (/\ i < j /\ filled[i] > 0 /\ filled[j] > 0
       /\ orders[i].side = "sell" /\ orders[j].side = "sell"
       /\ orders[i].symbol = orders[j].symbol
       /\ orders[i].level = orders[j].level /\ orders[i].level > 0
       /\ \A k \in (i + 1)..(j - 1) :
            ~(orders[k].side = "buy" /\ orders[k].symbol = orders[i].symbol))
      => orders[i].late
=============================================================================
