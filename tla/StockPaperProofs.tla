---------------------------- MODULE StockPaperProofs ----------------------------
(***************************************************************************)
(* The paper account of a stock market, for every set of symbols, ladder   *)
(* of levels, limit and number of orders.                                  *)
(***************************************************************************)
EXTENDS StockPaper, FiniteSetTheorems, SequenceTheorems, TLAPS

Phases   == {"pending", "exits", "strict", "coverage"}
PlanType == [known : BOOLEAN, taken : SUBSET Levels]
RowType  == [symbol : Symbols, held : Nat \ {0}, plan : PlanType]
WaitType == [id : Nat, order : OrderType]
RunType  ==
  [pc : Phases \cup {"idle", "fill", "follow"}, open : BOOLEAN, waiting : SUBSET WaitType,
   sent : BOOLEAN, rows : SUBSET RowType, keys : SUBSET Symbols, offered : SUBSET Symbols,
   order : Nat, fill : Nat, phase : Phases]

(* An order as a run holds it, saved or about to be.                       *)
DraftType ==
  [status : {"created", "queued", "partial", "filled", "cancelled", "rejected"},
   side : {"buy", "sell"}, symbol : Symbols, lane : Lanes, level : 0..TopLevel, left : Nat,
   late : BOOLEAN]

(* What a run at some stage holds.                                         *)
Holds(run) ==
  /\ \A w \in run.waiting : w.id \in OrderIds
  /\ run.pc \in {"fill", "follow"} => run.order \in OrderIds
  /\ run.order <= Len(orders)

TypeInv ==
  /\ holdQueued \in BOOLEAN
  /\ orders \in Seq(OrderType) /\ filled \in Seq(Nat) /\ Len(filled) = Len(orders)
  /\ shares \in [Symbols -> Nat]
  /\ laneShares \in [Symbols -> [Lanes -> Nat]] /\ excluded \subseteq Symbols
  /\ exitPlan \in [Symbols -> PlanType]
  /\ engineRun \in [StockRuns -> RunType]
  /\ \A r \in StockRuns : Holds(engineRun[r])
  /\ stockCut \in BOOLEAN

LEMMA IdleRunType ==
  /\ IdleRun \in RunType /\ IdleRun.pc = "idle" /\ IdleRun.order = 0
  /\ IdleRun.waiting = {} /\ IdleRun.rows = {}
BY DEF IdleRun, RunType, Phases

LEMMA OrdersType ==
  ASSUME TypeInv
  PROVE  /\ Len(orders) \in Nat /\ \A i \in OrderIds : orders[i] \in OrderType /\ filled[i] \in Nat
         /\ \A i \in OrderIds : i \in Nat
BY DEF TypeInv, OrderIds

LEMMA DraftsAreWide == OrderType \subseteq DraftType
BY DEF OrderType, DraftType

(* The ledger after order i was saved as u.                                *)
Booked(i, u) ==
  /\ orders' \in Seq(OrderType) /\ filled' \in Seq(Nat) /\ Len(filled') = Len(orders')
  /\ Len(orders) <= Len(orders')
  /\ Len(orders') = (IF i > Len(orders) THEN i ELSE Len(orders))
  /\ OrderIds' = OrderIds \cup {i} /\ orders'[i] = u
  /\ \A j \in OrderIds \ {i} : orders'[j] = orders[j]
  /\ \A j \in OrderIds : filled'[j] = filled[j]
  /\ i \notin OrderIds => filled'[i] = 0

LEMMA SaveBooks ==
  ASSUME TypeInv, NEW i \in 1..(Len(orders) + 1), NEW u \in OrderType, Save(i, u)
  PROVE  Booked(i, u)
<1>a. /\ orders \in Seq(OrderType) /\ filled \in Seq(Nat) /\ Len(filled) = Len(orders)
      /\ Len(orders) \in Nat
  BY DEF TypeInv
<1>1. CASE i > Len(orders)
  <2>1. orders' = Append(orders, u) /\ filled' = Append(filled, 0) /\ i = Len(orders) + 1
    BY <1>1, <1>a DEF Save
  <2>2. /\ orders' \in Seq(OrderType) /\ Len(orders') = Len(orders) + 1
        /\ orders'[i] = u /\ \A j \in OrderIds : orders'[j] = orders[j]
    BY <1>a, <2>1, AppendProperties DEF OrderIds
  <2>3. /\ filled' \in Seq(Nat) /\ Len(filled') = Len(filled) + 1
        /\ filled'[i] = 0 /\ \A j \in OrderIds : filled'[j] = filled[j]
    BY <1>a, <2>1, AppendProperties DEF OrderIds
  <2>4. OrderIds' = OrderIds \cup {i}
    BY <1>a, <2>1, <2>2 DEF OrderIds
  <2>5. Len(orders') = (IF i > Len(orders) THEN i ELSE Len(orders))
    BY <1>1, <1>a, <2>1, <2>2
  <2> QED
    BY <1>a, <2>2, <2>3, <2>4, <2>5 DEF Booked
<1>2. CASE ~(i > Len(orders))
  <2>1. orders' = [orders EXCEPT ![i] = u] /\ filled' = filled /\ i \in 1..Len(orders)
    BY <1>2, <1>a DEF Save
  <2>2. /\ orders' \in Seq(OrderType) /\ Len(orders') = Len(orders)
        /\ \A j \in OrderIds : orders'[j] = IF j = i THEN u ELSE orders[j]
    BY <1>a, <2>1, ExceptSeq DEF OrderIds
  <2>3. OrderIds' = OrderIds /\ i \in OrderIds
    BY <2>1, <2>2 DEF OrderIds
  <2> QED
    BY <1>2, <1>a, <2>1, <2>2, <2>3 DEF Booked
<1> QED
  BY <1>1, <1>2

(* Order i is o, and u after n of it were filled, or an answer without a   *)
(* fill.                                                                   *)
Handled(i, o, u, n) ==
  /\ u \in OrderType /\ n \in 0..o.left
  /\ u.side = o.side /\ u.symbol = o.symbol /\ u.lane = o.lane /\ u.level = o.level
  /\ u.left = o.left - n
  /\ n = 0 => /\ u.status \in {"rejected", "queued", "cancelled"}
              /\ u.late = (o.late \/ i > Len(orders))
              /\ u.status = "rejected" <=> (o.side = "sell" /\ o.left > shares[o.symbol])
  /\ n > 0 => /\ u.status = IF n = o.left THEN "filled" ELSE "partial"
              /\ u.late = o.late
              /\ o.side = "sell" => o.left <= shares[o.symbol]

(* What place() makes of the run and of the ledger.                        *)
Placed(r, i, o, next) ==
  LET new == engineRun'[r] IN
  \/ new = IdleRun /\ UNCHANGED <<orders, filled>>
  \/ /\ new.waiting = next.waiting /\ new.rows = next.rows /\ new.keys = next.keys
     /\ \E u \in OrderType, n \in 0..o.left :
          /\ Handled(i, o, u, n) /\ Booked(i, u)
          /\ IF n = 0 THEN new.pc = next.pc /\ new.order = next.order
             ELSE /\ new.pc = "fill" /\ new.order = i /\ new.fill = n
                  /\ new.phase = next.pc /\ next.open

LEMMA PlaceEffect ==
  ASSUME TypeInv, NEW r \in StockRuns, NEW i \in 1..(Len(orders) + 1), NEW o \in DraftType,
         NEW next \in RunType, next.pc \in Phases, Place(r, i, o, next)
  PROVE  /\ Placed(r, i, o, next) /\ engineRun'[r] \in RunType
         /\ \A q \in StockRuns \ {r} : engineRun'[q] = engineRun[q]
         /\ engineRun' \in [StockRuns -> RunType]
<1>a. engineRun \in [StockRuns -> RunType] /\ shares \in [Symbols -> Nat]
  BY DEF TypeInv
<1>b. o.left \in Nat /\ o.symbol \in Symbols /\ o.late \in BOOLEAN /\ shares[o.symbol] \in Nat
  BY <1>a DEF DraftType
<1>1. ASSUME NEW st \in {"rejected", "queued", "cancelled"}, Save(i, Unfilled(i, o, st)),
             engineRun' = [engineRun EXCEPT ![r] = next],
             st = "rejected" <=> (o.side = "sell" /\ o.left > shares[o.symbol])
      PROVE  Placed(r, i, o, next) /\ engineRun'[r] \in RunType
  <2> DEFINE u == Unfilled(i, o, st)
  <2>1. /\ u \in OrderType /\ u.side = o.side /\ u.symbol = o.symbol /\ u.lane = o.lane
        /\ u.level = o.level /\ u.left = o.left /\ u.status = st
        /\ u.late = (o.late \/ i > Len(orders))
    BY <1>b DEF Unfilled, DraftType, OrderType
  <2> HIDE DEF u
  <2>2. Booked(i, u)
    BY <1>1, <2>1, SaveBooks DEF u
  <2>3. Handled(i, o, u, 0)
    BY <1>1, <1>b, <2>1 DEF Handled
  <2>4. engineRun'[r] = next
    BY <1>1, <1>a
  <2> QED
    BY <1>b, <2>1, <2>2, <2>3, <2>4 DEF Placed
<1>2. ASSUME NEW n \in 1..o.left, next.open, ~(o.side = "sell" /\ o.left > shares[o.symbol]),
             Save(i, [o EXCEPT !.left = LeftAfter(o, n),
                               !.status = IF n = o.left THEN "filled" ELSE "partial"]),
             engineRun' = [engineRun EXCEPT ![r] =
               [next EXCEPT !.pc = "fill", !.order = i, !.fill = n, !.phase = next.pc]]
      PROVE  Placed(r, i, o, next) /\ engineRun'[r] \in RunType
  <2> DEFINE u   == [o EXCEPT !.left = LeftAfter(o, n),
                              !.status = IF n = o.left THEN "filled" ELSE "partial"]
             new == [next EXCEPT !.pc = "fill", !.order = i, !.fill = n, !.phase = next.pc]
  <2>1. /\ u \in OrderType /\ u.side = o.side /\ u.symbol = o.symbol /\ u.lane = o.lane
        /\ u.level = o.level /\ u.left = o.left - n /\ u.late = o.late
        /\ u.status = IF n = o.left THEN "filled" ELSE "partial"
    <3> DEFINE left == o.left - n
               st   == IF n = o.left THEN "filled" ELSE "partial"
    <3>1. left \in Nat /\ st \in {"filled", "partial"}
              /\ u = [o EXCEPT !.left = left, !.status = st]
      BY <1>b DEF LeftAfter
    <3> HIDE DEF left, st, u
    <3>2. /\ u \in OrderType /\ u.side = o.side /\ u.symbol = o.symbol /\ u.lane = o.lane
          /\ u.level = o.level /\ u.left = left /\ u.late = o.late /\ u.status = st
      BY <3>1 DEF DraftType, OrderType
    <3> QED
      BY <3>2 DEF left, st
  <2>2. i \in Nat /\ n \in Nat /\ n > 0 /\ n \in 0..o.left
    BY <1>b
  <2>3. /\ new \in RunType /\ new.pc = "fill" /\ new.order = i /\ new.fill = n
        /\ new.phase = next.pc /\ new.waiting = next.waiting /\ new.rows = next.rows
        /\ new.keys = next.keys
    BY <2>2 DEF RunType
  <2>4. engineRun'[r] = new
    BY <1>2, <1>a
  <2> HIDE DEF u, new
  <2>5. Booked(i, u)
    BY <1>2, <2>1, SaveBooks DEF u
  <2>6. Handled(i, o, u, n)
    BY <1>2, <1>b, <2>1, <2>2 DEF Handled
  <2> QED
    BY <1>2, <2>1, <2>2, <2>3, <2>4, <2>5, <2>6 DEF Placed
<1>3. ASSUME engineRun' = [engineRun EXCEPT ![r] = IdleRun], UNCHANGED <<orders, filled>>
      PROVE  Placed(r, i, o, next) /\ engineRun'[r] \in RunType
  BY <1>3, <1>a, IdleRunType DEF Placed
<1>4. Placed(r, i, o, next) /\ engineRun'[r] \in RunType
  <2>1. CASE o.side = "sell" /\ o.left > shares[o.symbol]
    BY <1>1, <2>1 DEF Place
  <2>2. CASE ~(o.side = "sell" /\ o.left > shares[o.symbol])
    BY <1>1, <1>2, <1>3, <2>2 DEF Place
  <2> QED
    BY <2>1, <2>2
<1>5. \E new : engineRun' = [engineRun EXCEPT ![r] = new]
  BY DEF Place
<1> QED
  BY <1>a, <1>4, <1>5

(* A part of what is held, and at least a share of it.                     *)
LEMMA SaleIsHeld ==
  ASSUME NEW row \in RowType, NEW l \in DueLevels(row)
  PROVE  l \in 0..TopLevel /\ SaleQuantities(row, l) \subseteq 1..row.held
<1>1. row.held \in Nat /\ row.held >= 1 /\ TopLevel \in Nat
  BY AccountAssumption DEF RowType
<1>2. l = 0 \/ l \in Levels
  BY DEF DueLevels
<1>3. l \in 0..TopLevel
  BY <1>1, <1>2 DEF Levels
<1>4. row.held \in 1..row.held
  BY <1>1
<1> QED
  BY <1>3, <1>4 DEF SaleQuantities

LEMMA NewOrderType ==
  ASSUME NEW side \in {"buy", "sell"}, NEW s \in Symbols, NEW lane \in Lanes,
         NEW level \in 0..TopLevel, NEW n \in Nat
  PROVE  LET o == NewOrder(side, s, lane, level, n) IN
         /\ o \in DraftType /\ o.status = "created" /\ o.side = side /\ o.symbol = s
         /\ o.lane = lane /\ o.level = level /\ o.left = n /\ o.late = FALSE
BY DEF NewOrder, DraftType

(* The orders an entry and an exit ask for.                                *)
Entry(o, s, p) ==
  /\ o \in DraftType /\ o.status = "created" /\ o.side = "buy" /\ o.symbol = s
  /\ o.lane = LaneOf(p) /\ o.level = 0 /\ o.left = Quantity /\ o.late = FALSE

Exit(o, row, l) ==
  /\ o \in DraftType /\ o.status = "created" /\ o.side = "sell"
  /\ o.symbol = row.symbol /\ o.lane = "strict_signal" /\ o.level = l
  /\ o.left \in 1..row.held /\ o.late = FALSE

LEMMA EntryDraft ==
  ASSUME NEW s \in Symbols, NEW p
  PROVE  Entry(NewOrder("buy", s, LaneOf(p), 0, Quantity), s, p)
<1> DEFINE lane == LaneOf(p)
           o    == NewOrder("buy", s, lane, 0, Quantity)
<1>1. lane \in Lanes /\ 0 \in 0..TopLevel /\ Quantity \in Nat
  BY AccountAssumption DEF Lanes, LaneOf
<1> HIDE DEF lane
<1>2. /\ o \in DraftType /\ o.status = "created" /\ o.side = "buy" /\ o.symbol = s
      /\ o.lane = lane /\ o.level = 0 /\ o.left = Quantity /\ o.late = FALSE
  BY <1>1 DEF NewOrder, DraftType
<1> HIDE DEF o
<1>3. Entry(o, s, p)
  BY <1>2 DEF Entry, lane
<1> QED
  BY <1>3 DEF o, lane

LEMMA ExitDraft ==
  ASSUME NEW row \in RowType, NEW l \in DueLevels(row), NEW n \in SaleQuantities(row, l)
  PROVE  Exit(NewOrder("sell", row.symbol, "strict_signal", l, n), row, l)
<1> DEFINE s == row.symbol
           o == NewOrder("sell", s, "strict_signal", l, n)
<1>1. l \in 0..TopLevel /\ n \in 1..row.held /\ row.held \in Nat
  BY SaleIsHeld DEF RowType
<1>2. s \in Symbols /\ n \in Nat /\ "strict_signal" \in Lanes
  BY <1>1 DEF RowType, Lanes
<1> HIDE DEF s
<1>3. /\ o \in DraftType /\ o.status = "created" /\ o.side = "sell"
      /\ o.symbol = s /\ o.lane = "strict_signal" /\ o.level = l
      /\ o.left = n /\ o.late = FALSE
  BY <1>1, <1>2 DEF NewOrder, DraftType
<1> HIDE DEF o
<1>4. Exit(o, row, l)
  BY <1>1, <1>3 DEF Exit, s
<1> QED
  BY <1>4 DEF o, s

(* What each step makes of the run that takes it and of the orders.        *)
StockEffect(r) ==
  LET old == engineRun[r]
      new == engineRun'[r]
  IN /\ BeginRun(r) =>
          /\ new.pc = "pending" /\ new.order = 0
          /\ \A w \in new.waiting : w.id \in ActiveIds /\ w.order = orders[w.id]
     /\ Resubmit(r) => \E w \in old.waiting, next \in RunType :
          /\ ~Held(old, w) /\ next.pc = "pending" /\ next.order = old.order
          /\ next.open = old.open /\ next.waiting = old.waiting \ {w}
          /\ Placed(r, w.id, w.order, next)
     /\ ListPositions(r) =>
          /\ new.pc = "exits" /\ new.order = old.order /\ new.waiting = {}
          /\ new.keys = {orders[i].symbol : i \in {j \in ActiveIds : orders[j].side = "sell"}}
          /\ \A row \in new.rows : /\ row.symbol \in Symbols /\ row.held = shares[row.symbol]
                                  /\ row.held > 0 /\ row.plan = exitPlan[row.symbol]
     /\ ExitRow(r) => \E row \in old.rows, next \in RunType :
          /\ next.pc = "exits" /\ next.order = old.order /\ next.open = old.open
          /\ next.waiting = old.waiting /\ next.rows = old.rows \ {row} /\ next.keys = old.keys
          /\ \/ new = next /\ UNCHANGED <<orders, filled>>
             \/ /\ row.symbol \notin old.keys
                /\ \E l \in DueLevels(row), o \in DraftType :
                     Exit(o, row, l) /\ Placed(r, Len(orders) + 1, o, next)
     /\ SaveFill(r) =>
          /\ new.pc = IF old.phase = "pending" THEN "pending" ELSE "follow"
          /\ new.order = old.order /\ new.phase = old.phase /\ new.waiting = old.waiting
          /\ new.rows = old.rows /\ new.keys = old.keys
     /\ Follow(r) =>
          /\ new.pc = old.phase /\ new.order = 0 /\ new.waiting = old.waiting
          /\ new.rows = old.rows /\ new.keys = old.keys
     /\ EndPhase(r) =>
          /\ new.pc \in {"strict", "coverage", "idle"} /\ new.waiting \subseteq old.waiting
          /\ new.order \in {0, old.order}
     /\ EnterStrict(r) \/ EnterCoverage(r) =>
          \E s \in Symbols, o \in DraftType, next \in RunType :
            /\ shares[s] = 0 /\ ~ActiveOn(s)
            /\ next.pc = old.pc /\ next.order = old.order /\ next.open = old.open
            /\ next.waiting = old.waiting
            /\ Entry(o, s, old.pc) /\ Placed(r, Len(orders) + 1, o, next)

StockAct(r) ==
  \/ BeginRun(r) \/ Resubmit(r) \/ ListPositions(r) \/ ExitRow(r)
  \/ SaveFill(r) \/ Follow(r) \/ EndPhase(r) \/ EnterStrict(r) \/ EnterCoverage(r)

(* A step that leaves all but the marks of the operator's script as it is. *)
Untouched ==
  UNCHANGED <<holdQueued, orders, shares, laneShares, exitPlan, engineRun, filled, stockCut>>

LEMMA StepCases ==
  ASSUME [StockNext]_stockVars
  PROVE  (\E r \in StockRuns : StockAct(r)) \/ StockCrash \/ Untouched
BY DEF StockNext, StockAct, stockVars, VoidOrphan, Untouched

(* The steps of a run leave the others alone.                              *)
Steps(r) ==
  /\ engineRun' \in [StockRuns -> RunType]
  /\ \A q \in StockRuns \ {r} : engineRun'[q] = engineRun[q]

LEMMA RunChanges ==
  ASSUME TypeInv, NEW r \in StockRuns, NEW new \in RunType,
         engineRun' = [engineRun EXCEPT ![r] = new]
  PROVE  Steps(r) /\ engineRun'[r] = new
BY DEF TypeInv, Steps

LEMMA WaitingType ==
  ASSUME TypeInv, NEW r \in StockRuns, NEW w \in engineRun[r].waiting
  PROVE  /\ w.id \in OrderIds /\ w.id \in 1..(Len(orders) + 1) /\ w.order \in OrderType
         /\ w.order \in DraftType
<1>1. engineRun[r] \in RunType /\ Holds(engineRun[r])
  BY DEF TypeInv
<1>2. w \in WaitType /\ w.id \in OrderIds
  BY <1>1 DEF RunType, Holds
<1> QED
  BY <1>2, DraftsAreWide, OrdersType DEF WaitType, OrderIds

LEMMA StockMoves ==
  ASSUME TypeInv, NEW r \in StockRuns, StockAct(r)
  PROVE  StockEffect(r) /\ Steps(r)
<1> DEFINE old == engineRun[r]
           new == engineRun'[r]
<1>a. old \in RunType /\ shares \in [Symbols -> Nat] /\ exitPlan \in [Symbols -> PlanType]
  BY DEF TypeInv
<1>b. Len(orders) + 1 \in 1..(Len(orders) + 1) /\ Len(orders) \in Nat
  BY OrdersType
<1>c. ASSUME NEW i \in 1..(Len(orders) + 1), NEW o \in DraftType, NEW next \in RunType,
             next.pc \in Phases, Place(r, i, o, next)
      PROVE  Placed(r, i, o, next) /\ Steps(r)
  BY <1>c, PlaceEffect DEF Steps
<1>1. ASSUME BeginRun(r)
      PROVE  /\ Steps(r) /\ new.pc = "pending" /\ new.order = 0
             /\ \A w \in new.waiting : w.id \in ActiveIds /\ w.order = orders[w.id]
  <2>1. PICK open \in BOOLEAN :
          engineRun' = [engineRun EXCEPT ![r] =
            [IdleRun EXCEPT !.pc = "pending", !.open = open,
                            !.waiting = {[id |-> i, order |-> orders[i]] : i \in ActiveIds}]]
    BY <1>1 DEF BeginRun
  <2> DEFINE waiting == {[id |-> i, order |-> orders[i]] : i \in ActiveIds}
             next    == [IdleRun EXCEPT !.pc = "pending", !.open = open, !.waiting = waiting]
  <2>2. waiting \in SUBSET WaitType
    BY OrdersType DEF WaitType, ActiveIds
  <2>3. \A w \in waiting : w.id \in ActiveIds /\ w.order = orders[w.id]
    OBVIOUS
  <2>4. engineRun' = [engineRun EXCEPT ![r] = next]
    BY <2>1
  <2> HIDE DEF waiting
  <2>5. next \in RunType /\ next.pc = "pending" /\ next.order = 0 /\ next.waiting = waiting
    BY <2>2, IdleRunType DEF RunType, Phases
  <2> HIDE DEF next
  <2> QED
    BY <2>3, <2>4, <2>5, RunChanges
<1>2. ASSUME Resubmit(r)
      PROVE  /\ Steps(r)
             /\ \E w \in old.waiting, next \in RunType :
                  /\ ~Held(old, w) /\ next.pc = "pending" /\ next.order = old.order
                  /\ next.open = old.open /\ next.waiting = old.waiting \ {w}
                  /\ Placed(r, w.id, w.order, next)
  <2>1. PICK w \in old.waiting :
          ~Held(old, w) /\ Place(r, w.id, w.order, [old EXCEPT !.waiting = @ \ {w}, !.sent = TRUE])
    BY <1>2 DEF Resubmit
  <2> DEFINE next == [old EXCEPT !.waiting = @ \ {w}, !.sent = TRUE]
  <2>2. /\ next \in RunType /\ next.pc = "pending" /\ next.order = old.order
        /\ next.open = old.open /\ next.waiting = old.waiting \ {w}
    BY <1>2, <1>a DEF RunType, Resubmit
  <2>3. Place(r, w.id, w.order, next)
    BY <2>1
  <2> HIDE DEF next
  <2>4. Placed(r, w.id, w.order, next) /\ Steps(r)
    BY <1>c, <2>2, <2>3, WaitingType DEF Phases
  <2> QED
    BY <2>1, <2>2, <2>4
<1>3. ASSUME ListPositions(r)
      PROVE  /\ Steps(r) /\ new.pc = "exits" /\ new.order = old.order /\ new.waiting = {}
             /\ new.keys = {orders[i].symbol : i \in {j \in ActiveIds : orders[j].side = "sell"}}
             /\ \A row \in new.rows : /\ row.symbol \in Symbols /\ row.held = shares[row.symbol]
                                     /\ row.held > 0 /\ row.plan = exitPlan[row.symbol]
  <2> DEFINE keys == {orders[i].symbol : i \in {j \in ActiveIds : orders[j].side = "sell"}}
             rows == {[symbol |-> s, held |-> shares[s], plan |-> exitPlan[s]] : s \in Positions}
             next == [old EXCEPT !.pc = "exits", !.waiting = {}, !.sent = FALSE, !.keys = keys,
                                 !.rows = rows]
  <2>1. engineRun' = [engineRun EXCEPT ![r] = next]
    BY <1>3 DEF ListPositions
  <2>2. keys \in SUBSET Symbols
    BY OrdersType DEF ActiveIds, OrderType
  <2>3. \A row \in rows : /\ row.symbol \in Symbols /\ row.held = shares[row.symbol]
                        /\ row.held > 0 /\ row.plan = exitPlan[row.symbol]
    BY DEF Positions
  <2>4. rows \in SUBSET RowType
    <3>1. ASSUME NEW s \in Positions
          PROVE  [symbol |-> s, held |-> shares[s], plan |-> exitPlan[s]] \in RowType
      <4>1. s \in Symbols /\ shares[s] \in Nat \ {0} /\ exitPlan[s] \in PlanType
        BY <1>a DEF Positions
      <4> QED
        BY <4>1 DEF RowType
    <3> QED
      BY <3>1
  <2> HIDE DEF keys, rows
  <2>5. /\ next \in RunType /\ next.pc = "exits" /\ next.order = old.order /\ next.waiting = {}
        /\ next.keys = keys /\ next.rows = rows
    BY <1>a, <2>2, <2>4 DEF RunType, Phases
  <2> HIDE DEF next
  <2>6. new = next /\ Steps(r)
    BY <2>1, <2>5, RunChanges
  <2> QED
    BY <2>3, <2>5, <2>6 DEF keys
<1>4. ASSUME ExitRow(r)
      PROVE  /\ Steps(r)
             /\ \E row \in old.rows, next \in RunType :
                  /\ next.pc = "exits" /\ next.order = old.order /\ next.open = old.open
                  /\ next.waiting = old.waiting /\ next.rows = old.rows \ {row}
                  /\ next.keys = old.keys
                  /\ \/ new = next /\ UNCHANGED <<orders, filled>>
                     \/ /\ row.symbol \notin old.keys
                        /\ \E l \in DueLevels(row), o \in DraftType :
                             Exit(o, row, l) /\ Placed(r, Len(orders) + 1, o, next)
  <2>1. PICK row \in old.rows :
          LET next == [old EXCEPT !.rows = @ \ {row}] IN
          \/ engineRun' = [engineRun EXCEPT ![r] = next] /\ UNCHANGED <<orders, filled>>
          \/ /\ row.symbol \notin old.keys
             /\ \E l \in DueLevels(row) : \E n \in SaleQuantities(row, l) :
                  Place(r, Len(orders) + 1,
                        NewOrder("sell", row.symbol, LaneOfSale(row), l, n), next)
    BY <1>4 DEF ExitRow
  <2> DEFINE next == [old EXCEPT !.rows = @ \ {row}]
  <2>2. /\ next \in RunType /\ next.pc = "exits" /\ next.order = old.order
        /\ next.open = old.open /\ next.waiting = old.waiting /\ next.rows = old.rows \ {row}
        /\ next.keys = old.keys
    BY <1>4, <1>a DEF RunType, ExitRow
  <2>3. \/ engineRun' = [engineRun EXCEPT ![r] = next] /\ UNCHANGED <<orders, filled>>
        \/ /\ row.symbol \notin old.keys
           /\ \E l \in DueLevels(row) : \E n \in SaleQuantities(row, l) :
                Place(r, Len(orders) + 1,
                      NewOrder("sell", row.symbol, "strict_signal", l, n), next)
    BY <2>1 DEF LaneOfSale
  <2> HIDE DEF next
  <2>4. row \in RowType /\ row.symbol \in Symbols
    BY <1>a DEF RunType, RowType
  <2>5. CASE engineRun' = [engineRun EXCEPT ![r] = next] /\ UNCHANGED <<orders, filled>>
    BY <2>2, <2>5, RunChanges
  <2>6. ASSUME row.symbol \notin old.keys, NEW l \in DueLevels(row),
               NEW n \in SaleQuantities(row, l),
               Place(r, Len(orders) + 1,
                     NewOrder("sell", row.symbol, "strict_signal", l, n), next)
        PROVE  /\ Steps(r)
               /\ \E o \in DraftType : Exit(o, row, l) /\ Placed(r, Len(orders) + 1, o, next)
    <3> DEFINE o == NewOrder("sell", row.symbol, "strict_signal", l, n)
    <3>1. Exit(o, row, l)
      BY <2>4, ExitDraft
    <3>2. Place(r, Len(orders) + 1, o, next)
      BY <2>6
    <3> HIDE DEF o
    <3>3. o \in DraftType
      BY <3>1 DEF Exit
    <3> QED
      BY <1>b, <1>c, <2>2, <3>1, <3>2, <3>3 DEF Phases
  <2> QED
    BY <2>2, <2>3, <2>5, <2>6
<1>5. ASSUME SaveFill(r)
      PROVE  /\ Steps(r) /\ new.pc = IF old.phase = "pending" THEN "pending" ELSE "follow"
             /\ new.order = old.order /\ new.phase = old.phase /\ new.waiting = old.waiting
             /\ new.rows = old.rows /\ new.keys = old.keys
  <2> DEFINE pc   == IF old.phase = "pending" THEN "pending" ELSE "follow"
             next == [old EXCEPT !.pc = pc]
  <2>1. engineRun' = [engineRun EXCEPT ![r] = next]
    BY <1>5 DEF SaveFill
  <2>2. pc \in {"pending", "follow"}
    OBVIOUS
  <2> HIDE DEF pc
  <2>3. /\ next \in RunType /\ next.pc = pc /\ next.order = old.order /\ next.phase = old.phase
        /\ next.waiting = old.waiting /\ next.rows = old.rows /\ next.keys = old.keys
    BY <1>a, <2>2 DEF RunType, Phases
  <2> HIDE DEF next
  <2> QED
    BY <2>1, <2>3, RunChanges DEF pc
<1>6. ASSUME Follow(r)
      PROVE  /\ Steps(r) /\ new.pc = old.phase /\ new.order = 0 /\ new.waiting = old.waiting
             /\ new.rows = old.rows /\ new.keys = old.keys
  <2> DEFINE next == [old EXCEPT !.pc = old.phase, !.order = 0, !.fill = 0]
  <2>1. engineRun' = [engineRun EXCEPT ![r] = next]
    BY <1>6 DEF Follow
  <2>2. /\ next \in RunType /\ next.pc = old.phase /\ next.order = 0
        /\ next.waiting = old.waiting /\ next.rows = old.rows /\ next.keys = old.keys
    BY <1>a DEF RunType
  <2> HIDE DEF next
  <2> QED
    BY <2>1, <2>2, RunChanges
<1>7. ASSUME EndPhase(r)
      PROVE  /\ Steps(r) /\ new.pc \in {"strict", "coverage", "idle"}
             /\ new.waiting \subseteq old.waiting /\ new.order \in {0, old.order}
  <2> DEFINE pc      == NextPhase(old.pc)
             offered == Candidates[LaneOf(pc)]
             next    == [old EXCEPT !.pc = pc, !.keys = {}, !.offered = offered]
  <2>1. engineRun' = [engineRun EXCEPT ![r] = IF pc = "idle" THEN IdleRun ELSE next]
    BY <1>7 DEF EndPhase
  <2>2. pc \in {"strict", "coverage", "idle"}
    BY <1>7 DEF EndPhase, NextPhase
  <2>3. offered \in SUBSET Symbols
    BY AccountAssumption DEF LaneOf, Lanes
  <2> HIDE DEF pc, offered
  <2>4. /\ next \in RunType /\ next.pc = pc /\ next.waiting = old.waiting
        /\ next.order = old.order
    BY <1>a, <2>2, <2>3 DEF RunType, Phases
  <2> HIDE DEF next
  <2>5. CASE pc = "idle"
    BY <2>1, <2>5, IdleRunType, RunChanges
  <2>6. CASE pc # "idle"
    BY <2>1, <2>2, <2>4, <2>6, RunChanges
  <2> QED
    BY <2>5, <2>6
<1>8. ASSUME EnterStrict(r) \/ EnterCoverage(r)
      PROVE  /\ Steps(r)
             /\ \E s \in Symbols, o \in DraftType, next \in RunType :
                  /\ shares[s] = 0 /\ ~ActiveOn(s)
                  /\ next.pc = old.pc /\ next.order = old.order /\ next.open = old.open
                  /\ next.waiting = old.waiting
                  /\ Entry(o, s, old.pc) /\ Placed(r, Len(orders) + 1, o, next)
  <2>1. old.pc \in {"strict", "coverage"} /\ Enter(r, LaneOf(old.pc))
    BY <1>8 DEF EnterStrict, EnterCoverage, LaneOf
  <2>2. PICK s \in old.offered :
          /\ shares[s] = 0 /\ ~ActiveOn(s)
          /\ Place(r, Len(orders) + 1, NewOrder("buy", s, LaneOf(old.pc), 0, Quantity),
                   [old EXCEPT !.offered = @ \ {s}])
    BY <2>1 DEF Enter
  <2> DEFINE next == [old EXCEPT !.offered = @ \ {s}]
             o    == NewOrder("buy", s, LaneOf(old.pc), 0, Quantity)
  <2>3. /\ next \in RunType /\ next.pc = old.pc /\ next.order = old.order
        /\ next.open = old.open /\ next.waiting = old.waiting
    BY <1>a DEF RunType
  <2>4. s \in Symbols
    BY <1>a DEF RunType
  <2>5. Entry(o, s, old.pc)
    BY <2>4, EntryDraft
  <2>6. Place(r, Len(orders) + 1, o, next)
    BY <2>2
  <2> HIDE DEF next, o
  <2>7. o \in DraftType
    BY <2>5 DEF Entry
  <2>8. Steps(r) /\ Placed(r, Len(orders) + 1, o, next)
    BY <1>b, <1>c, <2>1, <2>3, <2>6, <2>7 DEF Phases
  <2> QED
    BY <2>2, <2>3, <2>4, <2>5, <2>7, <2>8
<1>9. Steps(r)
  BY <1>1, <1>2, <1>3, <1>4, <1>5, <1>6, <1>7, <1>8 DEF StockAct
<1> QED
  BY <1>1, <1>2, <1>3, <1>4, <1>5, <1>6, <1>7, <1>8, <1>9, Zenon DEF StockEffect

LEMMA SaveFillTypes ==
  ASSUME TypeInv, NEW r \in StockRuns, SaveFill(r)
  PROVE  LET o == orders[engineRun[r].order]
             n == engineRun[r].fill
         IN /\ o \in OrderType /\ n \in Nat /\ engineRun[r].order \in OrderIds
            /\ shares' \in [Symbols -> Nat] /\ laneShares' \in [Symbols -> [Lanes -> Nat]]
            /\ filled' \in Seq(Nat) /\ Len(filled') = Len(filled)
            /\ shares'[o.symbol] = AfterFill(o.side, shares[o.symbol], n)
            /\ \A s \in Symbols \ {o.symbol} : shares'[s] = shares[s]
            /\ laneShares'[o.symbol][o.lane] = AfterFill(o.side, laneShares[o.symbol][o.lane], n)
            /\ \A s \in Symbols, l \in Lanes :
                 ~(s = o.symbol /\ l = o.lane) => laneShares'[s][l] = laneShares[s][l]
            /\ filled'[engineRun[r].order] = filled[engineRun[r].order] + n
            /\ \A i \in OrderIds \ {engineRun[r].order} : filled'[i] = filled[i]
            /\ UNCHANGED <<orders, excluded, exitPlan, holdQueued, stockCut>>
<1> DEFINE run == engineRun[r]
           o   == orders[run.order]
           n   == run.fill
<1>1. run.order \in OrderIds /\ n \in Nat /\ run.pc = "fill"
  BY DEF TypeInv, SaveFill, Holds, RunType
<1>2. o \in OrderType /\ o.symbol \in Symbols /\ o.lane \in Lanes /\ run.order \in Nat
  BY <1>1, OrdersType DEF OrderType
<1>3. /\ shares \in [Symbols -> Nat] /\ laneShares \in [Symbols -> [Lanes -> Nat]]
      /\ filled \in Seq(Nat) /\ run.order \in 1..Len(filled) /\ filled[run.order] \in Nat
  BY <1>1, OrdersType DEF TypeInv, OrderIds
<1>4. \A old \in Nat : AfterFill(o.side, old, n) \in Nat
  BY <1>1 DEF AfterFill, Minus
<1> DEFINE share == AfterFill(o.side, shares[o.symbol], n)
           lane  == AfterFill(o.side, laneShares[o.symbol][o.lane], n)
           sum   == filled[run.order] + n
<1>5. share \in Nat /\ lane \in Nat /\ sum \in Nat
  <2>1. shares[o.symbol] \in Nat /\ laneShares[o.symbol][o.lane] \in Nat
    BY <1>2, <1>3
  <2>2. share \in Nat /\ lane \in Nat
    BY <1>4, <2>1
  <2>3. sum \in Nat
    <3> HIDE DEF run
    <3> QED
      BY <1>1, <1>3
  <2> QED
    BY <2>2, <2>3
<1>6. /\ shares' = [shares EXCEPT ![o.symbol] = share]
      /\ laneShares' = [laneShares EXCEPT ![o.symbol][o.lane] = lane]
      /\ filled' = [filled EXCEPT ![run.order] = sum]
      /\ UNCHANGED <<orders, excluded, exitPlan, holdQueued, stockCut>>
  BY DEF SaveFill
<1> HIDE DEF share, lane, sum
<1>7. /\ shares' \in [Symbols -> Nat] /\ shares'[o.symbol] = share
      /\ \A s \in Symbols \ {o.symbol} : shares'[s] = shares[s]
  BY <1>2, <1>3, <1>5, <1>6
<1>8. /\ laneShares' \in [Symbols -> [Lanes -> Nat]] /\ laneShares'[o.symbol][o.lane] = lane
      /\ \A s \in Symbols, l \in Lanes :
           ~(s = o.symbol /\ l = o.lane) => laneShares'[s][l] = laneShares[s][l]
  BY <1>2, <1>3, <1>5, <1>6
<1>9. /\ filled' \in Seq(Nat) /\ Len(filled') = Len(filled) /\ filled'[run.order] = sum
      /\ \A i \in OrderIds \ {run.order} : filled'[i] = filled[i]
  <2>1. OrderIds = 1..Len(filled)
    BY DEF TypeInv, OrderIds
  <2> HIDE DEF run
  <2> QED
    BY <1>3, <1>5, <1>6, <2>1, ExceptSeq
<1> QED
  BY <1>1, <1>2, <1>6, <1>7, <1>8, <1>9 DEF share, lane, sum

LEMMA PlanAfterType ==
  ASSUME NEW plan \in PlanType, NEW o \in OrderType
  PROVE  PlanAfter(plan, o) \in PlanType
<1>1. TopLevel \in Nat
  BY AccountAssumption
<1>2. o.level = 0 \/ o.level \in Levels
  BY <1>1 DEF OrderType, Levels
<1>3. CASE o.side = "buy"
  BY <1>3 DEF PlanAfter, PlanType
<1>4. CASE o.side # "buy" /\ o.level = 0
  BY <1>4 DEF PlanAfter
<1>5. CASE o.side # "buy" /\ o.level # 0
  <2> DEFINE taken == plan.taken \cup {o.level}
  <2>1. taken \in SUBSET Levels
    BY <1>2, <1>5 DEF PlanType
  <2>2. PlanAfter(plan, o) = [plan EXCEPT !.taken = taken]
    BY <1>5 DEF PlanAfter
  <2> HIDE DEF taken
  <2> QED
    BY <2>1, <2>2 DEF PlanType
<1> QED
  BY <1>3, <1>4, <1>5

LEMMA FollowTypes ==
  ASSUME TypeInv, NEW r \in StockRuns, Follow(r)
  PROVE  LET o == orders[engineRun[r].order]
         IN /\ engineRun[r].order \in OrderIds /\ o \in OrderType
            /\ exitPlan' \in [Symbols -> PlanType]
            /\ exitPlan'[o.symbol] = PlanAfter(exitPlan[o.symbol], o)
            /\ \A s \in Symbols \ {o.symbol} : exitPlan'[s] = exitPlan[s]
            /\ UNCHANGED <<holdQueued, orders, shares, laneShares, excluded, filled, stockCut>>
<1> DEFINE o    == orders[engineRun[r].order]
           plan == PlanAfter(exitPlan[o.symbol], o)
<1>1. engineRun[r].order \in OrderIds
  BY DEF TypeInv, Follow, Holds
<1>2. o \in OrderType /\ o.symbol \in Symbols /\ exitPlan \in [Symbols -> PlanType]
  BY <1>1, OrdersType DEF OrderType, TypeInv
<1>3. plan \in PlanType
  BY <1>2, PlanAfterType
<1>4. /\ exitPlan' = [exitPlan EXCEPT ![o.symbol] = plan]
      /\ UNCHANGED <<holdQueued, orders, shares, laneShares, excluded, filled, stockCut>>
  BY DEF Follow
<1> HIDE DEF plan
<1>5. /\ exitPlan' \in [Symbols -> PlanType] /\ exitPlan'[o.symbol] = plan
      /\ \A s \in Symbols \ {o.symbol} : exitPlan'[s] = exitPlan[s]
  BY <1>2, <1>3, <1>4
<1> QED
  BY <1>1, <1>2, <1>4, <1>5 DEF plan

LEMMA TypeNext ==
  ASSUME TypeInv, [StockNext]_stockVars
  PROVE  TypeInv'
<1>a. /\ holdQueued \in BOOLEAN /\ stockCut \in BOOLEAN
      /\ orders \in Seq(OrderType) /\ filled \in Seq(Nat) /\ Len(filled) = Len(orders)
      /\ Len(orders) \in Nat
      /\ shares \in [Symbols -> Nat] /\ laneShares \in [Symbols -> [Lanes -> Nat]]
      /\ excluded \subseteq Symbols
      /\ exitPlan \in [Symbols -> PlanType] /\ engineRun \in [StockRuns -> RunType]
      /\ \A r \in StockRuns : Holds(engineRun[r])
  BY DEF TypeInv
<1>1. ASSUME NEW r \in StockRuns, StockAct(r)
      PROVE  TypeInv'
  <2> DEFINE old == engineRun[r]
             new == engineRun'[r]
  <2>a. StockEffect(r) /\ Steps(r)
    BY <1>1, StockMoves
  <2>b. /\ engineRun' \in [StockRuns -> RunType] /\ new \in RunType /\ old \in RunType
        /\ \A q \in StockRuns \ {r} : engineRun'[q] = engineRun[q]
    BY <1>a, <2>a DEF Steps
  <2> DEFINE Grown  == /\ orders' \in Seq(OrderType) /\ filled' \in Seq(Nat)
                       /\ Len(filled') = Len(orders') /\ Len(orders) <= Len(orders')
                       /\ Len(orders') \in Nat
             Known  == /\ \A w \in new.waiting : w.id \in OrderIds'
                       /\ new.pc \in {"fill", "follow"} => new.order \in OrderIds'
                       /\ new.order <= Len(orders')
             Books  == UNCHANGED <<shares, laneShares, excluded, exitPlan, holdQueued, stockCut>>
  <2>c. /\ \A w \in old.waiting : w.id \in OrderIds
        /\ old.pc \in {"fill", "follow"} => old.order \in OrderIds
        /\ old.order \in Nat /\ old.order <= Len(orders)
    BY <1>a, <2>b DEF Holds, RunType
  <2>d. UNCHANGED <<orders, filled>> => Grown /\ OrderIds' = OrderIds
    BY <1>a DEF OrderIds
  <2>e. ASSUME NEW i \in 1..(Len(orders) + 1), NEW o, NEW next \in RunType,
               Placed(r, i, o, next), next.order = old.order, next.pc \in Phases,
               next.waiting \subseteq old.waiting
        PROVE  Grown /\ Known
    <3>1. CASE new = IdleRun /\ UNCHANGED <<orders, filled>>
      BY <1>a, <2>d, <3>1, IdleRunType
    <3>2. ASSUME NEW u \in OrderType, NEW n \in 0..o.left, Booked(i, u),
                 new.waiting = next.waiting,
                 IF n = 0 THEN new.pc = next.pc /\ new.order = next.order
                 ELSE /\ new.pc = "fill" /\ new.order = i /\ new.fill = n
                      /\ new.phase = next.pc /\ next.open
          PROVE  Grown /\ Known
      <4>1. /\ Grown /\ OrderIds' = OrderIds \cup {i} /\ OrderIds' = 1..Len(orders')
        BY <3>2 DEF Booked, OrderIds
      <4>2. new.pc \notin {"fill", "follow"} \/ new.order = i
        BY <2>e, <3>2 DEF Phases
      <4>3. new.order = old.order \/ new.order = i
        BY <2>e, <3>2
      <4> QED
        BY <1>a, <2>c, <2>e, <3>2, <4>1, <4>2, <4>3
    <3> QED
      BY <2>e, <3>1, <3>2 DEF Placed
  <2>f. Len(orders) + 1 \in 1..(Len(orders) + 1)
    BY <1>a
  <2>g. ASSUME Grown, Known
        PROVE  \A q \in StockRuns : Holds(engineRun[q])'
    <3>1. OrderIds \subseteq OrderIds'
      BY <1>a, <2>g DEF OrderIds
    <3>2. ASSUME NEW q \in StockRuns \ {r}
          PROVE  Holds(engineRun[q])'
      <4>1. engineRun'[q] = engineRun[q] /\ engineRun[q] \in RunType /\ Holds(engineRun[q])
        BY <1>a, <2>b
      <4>2. Len(orders) <= Len(orders') /\ Len(orders') \in Nat
        BY <2>g
      <4> QED
        BY <1>a, <3>1, <4>1, <4>2 DEF Holds, RunType
    <3>3. Holds(engineRun[r])'
      BY <2>g DEF Holds
    <3> QED
      BY <3>2, <3>3
  <2>h. ASSUME Grown, Known, Books
        PROVE  TypeInv'
    BY <1>a, <2>b, <2>g, <2>h DEF TypeInv
  <2>1. CASE BeginRun(r)
    <3>1. /\ Books /\ UNCHANGED <<orders, filled>> /\ new.pc = "pending" /\ new.order = 0
          /\ \A w \in new.waiting : w.id \in ActiveIds
      BY <2>1, <2>a DEF BeginRun, StockEffect
    <3>2. Grown /\ Known
      BY <1>a, <2>d, <3>1 DEF ActiveIds
    <3> QED
      BY <2>h, <3>1, <3>2
  <2>2. CASE Resubmit(r)
    <3>1. PICK w \in old.waiting, next \in RunType :
            /\ next.pc = "pending" /\ next.order = old.order
            /\ next.waiting = old.waiting \ {w} /\ Placed(r, w.id, w.order, next)
      BY <2>2, <2>a DEF StockEffect
    <3>2. Books
      BY <2>2 DEF Resubmit, Place, Save
    <3>3. w.id \in 1..(Len(orders) + 1) /\ next.waiting \subseteq old.waiting
      BY <3>1, WaitingType
    <3> QED
      BY <2>e, <2>h, <3>1, <3>2, <3>3 DEF Phases
  <2>3. CASE ListPositions(r)
    <3>1. /\ Books /\ UNCHANGED <<orders, filled>> /\ new.pc = "exits"
          /\ new.order = old.order /\ new.waiting = {}
      BY <2>3, <2>a DEF ListPositions, StockEffect
    <3> QED
      BY <1>a, <2>c, <2>d, <2>h, <3>1
  <2>4. CASE ExitRow(r)
    <3>1. PICK row \in old.rows, next \in RunType :
            /\ next.pc = "exits" /\ next.order = old.order /\ next.waiting = old.waiting
            /\ \/ new = next /\ UNCHANGED <<orders, filled>>
               \/ \E o \in DraftType : Placed(r, Len(orders) + 1, o, next)
      BY <2>4, <2>a DEF StockEffect
    <3>2. Books
      BY <2>4 DEF ExitRow
    <3>3. Grown /\ Known
      <4>1. CASE new = next /\ UNCHANGED <<orders, filled>>
        BY <1>a, <2>c, <2>d, <3>1, <4>1
      <4>2. CASE \E o \in DraftType : Placed(r, Len(orders) + 1, o, next)
        BY <2>e, <2>f, <3>1, <4>2 DEF Phases
      <4> QED
        BY <3>1, <4>1, <4>2
    <3> QED
      BY <2>h, <3>2, <3>3
  <2>5. CASE SaveFill(r)
    <3>1. /\ new.pc \in {"pending", "follow"} /\ new.order = old.order
          /\ new.waiting = old.waiting
      BY <2>5, <2>a DEF StockEffect
    <3>2. /\ shares' \in [Symbols -> Nat] /\ laneShares' \in [Symbols -> [Lanes -> Nat]]
          /\ filled' \in Seq(Nat) /\ Len(filled') = Len(filled) /\ old.order \in OrderIds
          /\ UNCHANGED <<orders, excluded, exitPlan, holdQueued, stockCut>>
      BY <2>5, SaveFillTypes
    <3>3. Grown /\ Known
      BY <1>a, <2>c, <3>1, <3>2 DEF OrderIds
    <3> QED
      BY <1>a, <2>b, <2>g, <3>2, <3>3 DEF TypeInv
  <2>6. CASE Follow(r)
    <3>1. /\ new.pc = old.phase /\ new.order = 0 /\ new.waiting = old.waiting
      BY <2>6, <2>a DEF StockEffect
    <3>2. /\ exitPlan' \in [Symbols -> PlanType]
          /\ UNCHANGED <<holdQueued, orders, shares, laneShares, excluded, filled, stockCut>>
      BY <2>6, FollowTypes
    <3>3. new.pc \notin {"fill", "follow"}
      BY <2>b, <3>1 DEF RunType, Phases
    <3>4. Grown /\ Known
      BY <1>a, <2>c, <2>d, <3>1, <3>2, <3>3
    <3> QED
      BY <1>a, <2>b, <2>g, <3>2, <3>4 DEF TypeInv
  <2>7. CASE EndPhase(r)
    <3>1. /\ Books /\ UNCHANGED <<orders, filled>> /\ new.pc \in {"strict", "coverage", "idle"}
          /\ new.order \in {0, old.order} /\ new.waiting \subseteq old.waiting
      BY <2>7, <2>a DEF EndPhase, StockEffect
    <3>2. Grown /\ Known
      BY <1>a, <2>c, <2>d, <3>1
    <3> QED
      BY <2>h, <3>1, <3>2
  <2>8. CASE EnterStrict(r) \/ EnterCoverage(r)
    <3>1. PICK o \in DraftType, next \in RunType :
            /\ next.pc = old.pc /\ next.order = old.order /\ next.waiting = old.waiting
            /\ Placed(r, Len(orders) + 1, o, next)
      BY <2>8, <2>a DEF StockEffect
    <3>2. Books /\ old.pc \in Phases
      BY <2>8 DEF EnterStrict, EnterCoverage, Enter, Phases
    <3>3. Grown /\ Known
      BY <2>e, <2>f, <3>1, <3>2
    <3> QED
      BY <2>h, <3>2, <3>3
  <2> QED
    BY <1>1, <2>1, <2>2, <2>3, <2>4, <2>5, <2>6, <2>7, <2>8 DEF StockAct
<1>2. CASE StockCrash
  <2>1. /\ engineRun' = [r \in StockRuns |-> IdleRun] /\ stockCut' = TRUE
        /\ UNCHANGED <<holdQueued, orders, shares, laneShares, excluded, exitPlan, filled>>
    BY <1>2 DEF StockCrash
  <2>2. engineRun' \in [StockRuns -> RunType] /\ \A r \in StockRuns : engineRun'[r] = IdleRun
    BY <2>1, IdleRunType
  <2>3. \A r \in StockRuns : Holds(engineRun[r])'
    BY <1>a, <2>1, <2>2, IdleRunType DEF Holds
  <2> QED
    BY <1>a, <2>1, <2>2, <2>3 DEF TypeInv
<1>3. CASE Untouched
  <2>1. excluded' \subseteq Symbols
    <3>1. CASE StockNext /\ ~StockCrash
      <4>1. CASE \E r \in StockRuns : StockAct(r)
        BY <1>1, <4>1 DEF TypeInv
      <4> QED
        BY <1>a, <3>1, <4>1 DEF StockNext, StockAct, VoidOrphan
    <3> QED
      BY <1>a, <3>1 DEF StockCrash, stockVars
  <2> QED
    BY <1>a, <1>3, <2>1 DEF Untouched, TypeInv, Holds, OrderIds
<1> QED
  BY <1>1, <1>2, <1>3, StepCases

LEMMA TypeStart == StockInit => TypeInv
<1> SUFFICES ASSUME StockInit PROVE TypeInv
  OBVIOUS
<1>1. orders = <<>> /\ filled = <<>> /\ engineRun = [r \in StockRuns |-> IdleRun]
  BY DEF StockInit
<1>2. /\ orders \in Seq(OrderType) /\ filled \in Seq(Nat) /\ Len(filled) = Len(orders)
      /\ Len(orders) = 0
  BY <1>1
<1>3. /\ shares \in [Symbols -> Nat] /\ laneShares \in [Symbols -> [Lanes -> Nat]]
      /\ excluded \subseteq Symbols
  BY DEF StockInit
<1>4. exitPlan \in [Symbols -> PlanType]
  BY DEF StockInit, PlanType
<1>5. engineRun \in [StockRuns -> RunType] /\ \A r \in StockRuns : Holds(engineRun[r])
  BY <1>1, <1>2, IdleRunType DEF Holds
<1>6. holdQueued \in BOOLEAN /\ stockCut \in BOOLEAN
  BY AccountAssumption DEF StockInit
<1> QED
  BY <1>2, <1>3, <1>4, <1>5, <1>6 DEF TypeInv

LEMMA Typed == StockSpec => []TypeInv
<1>1. TypeInv /\ [StockNext]_stockVars => TypeInv'
  BY TypeNext
<1> QED
  BY <1>1, TypeStart, PTL DEF StockSpec

(* The books of the account always have their types: the orders, the fill  *)
(* of each, positions, lanes and plans that are natural numbers and levels *)
(* of the ladder, and no run has an order in hand that was never saved     *)
(* (StockPaperStore, PaperBroker.place).                              *)
THEOREM StockTypesCorrect == StockSpec => []StockTypeOK
<1>1. TypeInv => StockTypeOK
  <2> SUFFICES ASSUME TypeInv, NEW r \in StockRuns
               PROVE  /\ engineRun[r].pc \in {"idle", "pending", "exits", "strict", "coverage",
                                              "fill", "follow"}
                      /\ engineRun[r].order \in 0..Len(orders)
    BY DEF TypeInv, StockTypeOK, PlanType
  <2>1. engineRun[r] \in RunType /\ Holds(engineRun[r]) /\ Len(orders) \in Nat
    BY OrdersType DEF TypeInv
  <2> QED
    BY <2>1 DEF RunType, Phases, Holds
<1> QED
  BY <1>1, Typed, PTL

-----------------------------------------------------------------------------
(* The exploration lane.                                                   *)

(* The lane comes to hold a symbol only by a fill of an order of its own.  *)
LEMMA LaneGrows ==
  ASSUME TypeInv, NEW r \in StockRuns, SaveFill(r)
  PROVE  \A s \in CoverageHeld' \ CoverageHeld :
           /\ orders[engineRun[r].order].symbol = s
           /\ orders[engineRun[r].order].lane = "coverage"
<1> DEFINE o == orders[engineRun[r].order]
<1>1. /\ "coverage" \in Lanes /\ UNCHANGED excluded
      /\ \A s \in Symbols, l \in Lanes :
           ~(s = o.symbol /\ l = o.lane) => laneShares'[s][l] = laneShares[s][l]
  BY SaveFillTypes DEF Lanes
<1> HIDE DEF o
<1>2. ASSUME NEW s \in CoverageHeld' \ CoverageHeld
      PROVE  s = o.symbol /\ o.lane = "coverage"
  BY <1>1, <1>2 DEF CoverageHeld
<1> QED
  BY <1>2 DEF o

-----------------------------------------------------------------------------
(* From here on the engine has one run at a time.                          *)

Alone == \A r, q \in StockRuns : r = q

Books == <<shares, laneShares, excluded, exitPlan, holdQueued, stockCut>>

(* A step that touches neither orders nor books, with no order in hand.    *)
Quiet(r) ==
  /\ UNCHANGED <<orders, filled>> /\ UNCHANGED Books
  /\ engineRun[r].pc \notin {"fill", "follow"} /\ engineRun'[r].pc \notin {"fill", "follow"}

(* Order i, which was o, was saved as u after n of it were filled.         *)
Ordered(r, i, o, u, n) ==
  LET old == engineRun[r]
      new == engineRun'[r]
  IN /\ u \in OrderType /\ n \in 0..o.left
     /\ Booked(i, u) /\ Handled(i, o, u, n) /\ UNCHANGED Books
     /\ old.pc \in Phases
     /\ IF n = 0 THEN new.pc = old.pc
        ELSE /\ new.pc = "fill" /\ new.order = i /\ new.fill = n
             /\ new.phase = old.pc /\ old.open

Resent(r, w, u, n) ==
  /\ w \in engineRun[r].waiting /\ Ordered(r, w.id, w.order, u, n)
  /\ engineRun[r].pc = "pending" /\ ~Held(engineRun[r], w)
  /\ engineRun'[r].waiting = engineRun[r].waiting \ {w}

Sold(r, row, l, o, u, n) ==
  /\ row \in engineRun[r].rows /\ l \in DueLevels(row) /\ o \in DraftType /\ Exit(o, row, l)
  /\ Ordered(r, Len(orders) + 1, o, u, n)
  /\ engineRun[r].pc = "exits" /\ row.symbol \notin engineRun[r].keys
  /\ engineRun'[r].waiting = engineRun[r].waiting
  /\ engineRun'[r].rows = engineRun[r].rows \ {row} /\ engineRun'[r].keys = engineRun[r].keys

Bought(r, s, o, u, n) ==
  /\ s \in Symbols /\ o \in DraftType /\ Entry(o, s, engineRun[r].pc)
  /\ Ordered(r, Len(orders) + 1, o, u, n)
  /\ engineRun[r].pc \in {"strict", "coverage"} /\ shares[s] = 0 /\ ~ActiveOn(s)
  /\ EnterStrict(r) \/ EnterCoverage(r)
  /\ engineRun'[r].waiting = engineRun[r].waiting

(* What follows from a quiet step of a run for what it keeps.              *)
QuietKeeps(r) ==
  LET old == engineRun[r]
      new == engineRun'[r]
  IN /\ \/ new.waiting \subseteq old.waiting
        \/ \A w \in new.waiting : w.id \in ActiveIds /\ w.order = orders[w.id]
     /\ new.pc = "exits" =>
          \/ /\ old.pc = "exits" /\ new.rows \subseteq old.rows /\ new.keys = old.keys
          \/ /\ new.keys = {orders[i].symbol : i \in {j \in ActiveIds : orders[j].side = "sell"}}
             /\ \A row \in new.rows : /\ row.symbol \in Symbols /\ row.held = shares[row.symbol]
                                     /\ row.held > 0 /\ row.plan = exitPlan[row.symbol]

LEMMA StepsOfRun ==
  ASSUME TypeInv, NEW r \in StockRuns, StockAct(r)
  PROVE  \/ Quiet(r) /\ QuietKeeps(r)
         \/ \E w \in engineRun[r].waiting, u \in OrderType, n \in Nat : Resent(r, w, u, n)
         \/ \E row \in engineRun[r].rows, l \in Nat, o \in DraftType, u \in OrderType, n \in Nat :
              Sold(r, row, l, o, u, n)
         \/ \E s \in Symbols, o \in DraftType, u \in OrderType, n \in Nat : Bought(r, s, o, u, n)
         \/ SaveFill(r) \/ Follow(r)
<1> DEFINE old == engineRun[r]
           new == engineRun'[r]
<1>a. StockEffect(r) /\ Steps(r)
  BY StockMoves
<1>b. old \in RunType /\ new \in RunType
  BY <1>a DEF TypeInv, Steps
<1>c. ASSUME NEW i, NEW o \in DraftType, NEW next \in RunType, Placed(r, i, o, next),
             next.pc = old.pc, next.open = old.open, old.pc \in Phases, UNCHANGED Books
      PROVE  \/ Quiet(r) /\ new.waiting = {}  /\ new.pc = "idle"
             \/ /\ \E u \in OrderType, n \in Nat : Ordered(r, i, o, u, n)
                /\ new.waiting = next.waiting /\ new.rows = next.rows /\ new.keys = next.keys
  <2>1. CASE new = IdleRun /\ UNCHANGED <<orders, filled>>
    BY <1>c, <2>1, IdleRunType DEF Quiet, Phases
  <2>2. ASSUME NEW u \in OrderType, NEW n \in 0..o.left, Handled(i, o, u, n), Booked(i, u),
               IF n = 0 THEN new.pc = next.pc /\ new.order = next.order
               ELSE /\ new.pc = "fill" /\ new.order = i /\ new.fill = n
                    /\ new.phase = next.pc /\ next.open
        PROVE  Ordered(r, i, o, u, n) /\ n \in Nat
    BY <1>c, <2>2 DEF Ordered
  <2> QED
    BY <1>c, <2>1, <2>2 DEF Placed
<1>1. CASE BeginRun(r)
  <2>1. old.pc = "idle" /\ UNCHANGED <<orders, filled>> /\ UNCHANGED Books
    BY <1>1 DEF BeginRun, Books
  <2>2. /\ new.pc = "pending" /\ \A w \in new.waiting : w.id \in ActiveIds /\ w.order = orders[w.id]
    BY <1>1, <1>a DEF StockEffect
  <2> QED
    BY <2>1, <2>2 DEF Quiet, QuietKeeps
<1>2. CASE Resubmit(r)
  <2>1. PICK w \in old.waiting, next \in RunType :
          /\ ~Held(old, w) /\ next.pc = "pending" /\ next.open = old.open
          /\ next.waiting = old.waiting \ {w} /\ Placed(r, w.id, w.order, next)
    BY <1>2, <1>a DEF StockEffect
  <2>2. old.pc = "pending" /\ UNCHANGED Books
    BY <1>2 DEF Resubmit, Place, Save, Books
  <2>3. w.order \in DraftType
    BY WaitingType
  <2>4. CASE Quiet(r) /\ new.waiting = {} /\ new.pc = "idle"
    BY <2>4 DEF QuietKeeps
  <2>5. ASSUME NEW u \in OrderType, NEW n \in Nat, Ordered(r, w.id, w.order, u, n),
               new.waiting = next.waiting
        PROVE  Resent(r, w, u, n)
    BY <2>1, <2>2, <2>5 DEF Resent
  <2> QED
    BY <1>c, <2>1, <2>2, <2>3, <2>4, <2>5 DEF Phases
<1>3. CASE ListPositions(r)
  <2>1. old.pc = "pending" /\ UNCHANGED <<orders, filled>> /\ UNCHANGED Books
    BY <1>3 DEF ListPositions, Books
  <2>2. /\ new.pc = "exits" /\ new.waiting = {}
        /\ new.keys = {orders[i].symbol : i \in {j \in ActiveIds : orders[j].side = "sell"}}
        /\ \A row \in new.rows : /\ row.symbol \in Symbols /\ row.held = shares[row.symbol]
                                /\ row.held > 0 /\ row.plan = exitPlan[row.symbol]
    BY <1>3, <1>a DEF StockEffect
  <2> QED
    BY <2>1, <2>2 DEF Quiet, QuietKeeps
<1>4. CASE ExitRow(r)
  <2>1. PICK row \in old.rows, next \in RunType :
          /\ next.pc = "exits" /\ next.open = old.open
          /\ next.waiting = old.waiting /\ next.rows = old.rows \ {row} /\ next.keys = old.keys
          /\ \/ new = next /\ UNCHANGED <<orders, filled>>
             \/ /\ row.symbol \notin old.keys
                /\ \E l \in DueLevels(row), o \in DraftType :
                     Exit(o, row, l) /\ Placed(r, Len(orders) + 1, o, next)
    BY <1>4, <1>a DEF StockEffect
  <2>2. old.pc = "exits" /\ UNCHANGED Books
    BY <1>4 DEF ExitRow, Books
  <2>3. CASE new = next /\ UNCHANGED <<orders, filled>>
    BY <2>1, <2>2, <2>3 DEF Quiet, QuietKeeps
  <2>4. ASSUME row.symbol \notin old.keys, NEW l \in DueLevels(row), NEW o \in DraftType,
               Exit(o, row, l), Placed(r, Len(orders) + 1, o, next)
        PROVE  \/ Quiet(r) /\ QuietKeeps(r)
               \/ \E u \in OrderType, n \in Nat : l \in Nat /\ Sold(r, row, l, o, u, n)
    <3>1. CASE Quiet(r) /\ new.waiting = {} /\ new.pc = "idle"
      BY <3>1 DEF QuietKeeps
    <3>2. ASSUME NEW u \in OrderType, NEW n \in Nat, Ordered(r, Len(orders) + 1, o, u, n),
                 new.waiting = next.waiting, new.rows = next.rows, new.keys = next.keys
          PROVE  l \in Nat /\ Sold(r, row, l, o, u, n)
      <4>1. l \in 0..TopLevel
        BY <1>b, SaleIsHeld DEF RunType
      <4> QED
        BY <2>1, <2>2, <2>4, <3>2, <4>1 DEF Sold
    <3>3. old.pc \in Phases
      BY <2>2 DEF Phases
    <3>4. \/ Quiet(r) /\ new.waiting = {} /\ new.pc = "idle"
          \/ /\ \E u \in OrderType, n \in Nat : Ordered(r, Len(orders) + 1, o, u, n)
             /\ new.waiting = next.waiting /\ new.rows = next.rows /\ new.keys = next.keys
      BY <1>c, <2>1, <2>2, <2>4, <3>3
    <3> QED
      BY <3>1, <3>2, <3>4
  <2> QED
    BY <2>1, <2>3, <2>4
<1>5. CASE EndPhase(r)
  <2>1. UNCHANGED <<orders, filled>> /\ UNCHANGED Books /\ old.pc \notin {"fill", "follow"}
    BY <1>5 DEF EndPhase, Books
  <2>2. new.pc \in {"strict", "coverage", "idle"} /\ new.waiting \subseteq old.waiting
    BY <1>5, <1>a DEF StockEffect
  <2> QED
    BY <2>1, <2>2 DEF Quiet, QuietKeeps
<1>6. CASE EnterStrict(r) \/ EnterCoverage(r)
  <2>1. PICK s \in Symbols, o \in DraftType, next \in RunType :
          /\ shares[s] = 0 /\ ~ActiveOn(s)
          /\ next.pc = old.pc /\ next.open = old.open /\ next.waiting = old.waiting
          /\ Entry(o, s, old.pc) /\ Placed(r, Len(orders) + 1, o, next)
    BY <1>6, <1>a DEF StockEffect
  <2>2. old.pc \in {"strict", "coverage"} /\ UNCHANGED Books
    BY <1>6 DEF EnterStrict, EnterCoverage, Enter, Books
  <2>3. CASE Quiet(r) /\ new.waiting = {} /\ new.pc = "idle"
    BY <2>3 DEF QuietKeeps
  <2>4. ASSUME NEW u \in OrderType, NEW n \in Nat, Ordered(r, Len(orders) + 1, o, u, n),
               new.waiting = next.waiting
        PROVE  Bought(r, s, o, u, n)
    BY <1>6, <2>1, <2>2, <2>4 DEF Bought
  <2> QED
    BY <1>c, <2>1, <2>2, <2>3, <2>4 DEF Phases
<1> QED
  BY <1>1, <1>2, <1>3, <1>4, <1>5, <1>6 DEF StockAct

(* The copies a run waits with are the orders as they are.                 *)
CopiesCurrent ==
  \A r \in StockRuns : \A w \in engineRun[r].waiting :
    w.id \in OrderIds /\ w.order = orders[w.id] /\ Active(w.order)

(* The order in hand was filled, and unless it was resent it is the last   *)
(* one made.                                                               *)
HandsKnown ==
  \A r \in StockRuns :
    LET run == engineRun[r] IN
    /\ run.pc = "fill" => /\ orders[run.order].status \in {"filled", "partial"}
                          /\ run.fill >= 1
    /\ run.pc = "follow" => run.phase # "pending"
    /\ run.pc \in {"fill", "follow"} /\ run.phase # "pending" => run.order = Len(orders)

HandsInv == CopiesCurrent /\ HandsKnown

LEMMA IdleHands ==
  ASSUME \A r \in StockRuns : engineRun[r] = IdleRun
  PROVE  HandsInv
BY IdleRunType DEF HandsInv, CopiesCurrent, HandsKnown

LEMMA HandsNext ==
  ASSUME Alone, TypeInv, HandsInv, [StockNext]_stockVars
  PROVE  HandsInv'
<1>a. Len(orders) \in Nat
  BY OrdersType
<1>1. ASSUME NEW r \in StockRuns, StockAct(r)
      PROVE  HandsInv'
  <2> DEFINE old == engineRun[r]
             new == engineRun'[r]
  <2>a. \A q \in StockRuns : q = r
    BY DEF Alone
  <2>b. \A w \in old.waiting : /\ w \in WaitType /\ w.id \in OrderIds
                              /\ w.order = orders[w.id] /\ Active(w.order)
    BY DEF HandsInv, CopiesCurrent, TypeInv, RunType
  <2>c. /\ old.pc = "fill" => /\ orders[old.order].status \in {"filled", "partial"}
                              /\ old.fill >= 1
        /\ old.pc = "follow" => old.phase # "pending"
        /\ old.pc \in {"fill", "follow"} /\ old.phase # "pending" => old.order = Len(orders)
    BY DEF HandsInv, HandsKnown
  <2> DEFINE Current == \A w \in new.waiting :
                          w.id \in OrderIds' /\ w.order = orders'[w.id] /\ Active(w.order)
             Hand == /\ new.pc = "fill" => /\ orders'[new.order].status \in {"filled", "partial"}
                                           /\ new.fill >= 1
                     /\ new.pc = "follow" => new.phase # "pending"
                     /\ new.pc \in {"fill", "follow"} /\ new.phase # "pending"
                          => new.order = Len(orders')
  <2>d. Current /\ Hand => HandsInv'
    BY <2>a DEF HandsInv, CopiesCurrent, HandsKnown, Active
  <2>e. ASSUME NEW i, NEW o, NEW u, NEW n \in Nat, Ordered(r, i, o, u, n),
               i = Len(orders) + 1 \/ old.pc = "pending"
        PROVE  Hand
    BY <1>a, <2>e DEF Ordered, Handled, Booked, Phases
  <2>1. CASE Quiet(r) /\ QuietKeeps(r)
    BY <2>1, <2>b, <2>d DEF Quiet, QuietKeeps, OrderIds, ActiveIds
  <2>2. ASSUME NEW w \in old.waiting, NEW u \in OrderType, NEW n \in Nat, Resent(r, w, u, n)
        PROVE  HandsInv'
    <3>1. \A v \in new.waiting : v \in old.waiting /\ v.id # w.id
      BY <2>2, <2>b DEF Resent, WaitType
    <3>2. /\ OrderIds' = OrderIds \cup {w.id}
          /\ \A j \in OrderIds \ {w.id} : orders'[j] = orders[j]
      BY <2>2 DEF Resent, Ordered, Booked
    <3>3. Hand
      BY <2>2, <2>e DEF Resent
    <3> QED
      BY <2>b, <2>d, <3>1, <3>2, <3>3
  <2>3. ASSUME NEW o, NEW u, NEW n \in Nat, Ordered(r, Len(orders) + 1, o, u, n),
               new.waiting = old.waiting
        PROVE  HandsInv'
    <3>1. /\ OrderIds' = OrderIds \cup {Len(orders) + 1}
          /\ \A j \in OrderIds : orders'[j] = orders[j]
      BY <1>a, <2>3 DEF Ordered, Booked, OrderIds
    <3>2. Hand
      BY <2>3, <2>e
    <3> QED
      BY <2>3, <2>b, <2>d, <3>1, <3>2
  <2>4. CASE SaveFill(r)
    <3>1. new.waiting = old.waiting /\ new.order = old.order /\ new.phase = old.phase
          /\ new.pc = IF old.phase = "pending" THEN "pending" ELSE "follow"
      BY <1>1, <2>4, StockMoves DEF StockEffect
    <3>2. UNCHANGED orders /\ OrderIds' = OrderIds /\ old.pc = "fill"
      BY <2>4 DEF SaveFill, OrderIds
    <3> QED
      BY <2>b, <2>c, <2>d, <3>1, <3>2
  <2>5. CASE Follow(r)
    <3>1. new.waiting = old.waiting /\ new.pc = old.phase
      BY <1>1, <2>5, StockMoves DEF StockEffect
    <3>2. UNCHANGED orders /\ OrderIds' = OrderIds /\ old.phase \in Phases
      BY <2>5 DEF Follow, OrderIds, TypeInv, RunType
    <3> QED
      BY <2>b, <2>d, <3>1, <3>2 DEF Phases
  <2> QED
    BY <1>1, <2>1, <2>2, <2>3, <2>4, <2>5, StepsOfRun DEF Sold, Bought
<1>2. CASE StockCrash
  <2>1. \A r \in StockRuns : engineRun'[r] = IdleRun
    BY <1>2 DEF StockCrash
  <2> QED
    BY <2>1, IdleRunType DEF HandsInv, CopiesCurrent, HandsKnown
<1>3. CASE Untouched
  BY <1>3 DEF Untouched, HandsInv, CopiesCurrent, HandsKnown, OrderIds, Active
<1> QED
  BY <1>1, <1>2, <1>3, StepCases

LEMMA HandsStart == StockInit => HandsInv
<1> SUFFICES ASSUME StockInit PROVE HandsInv
  OBVIOUS
<1>1. \A r \in StockRuns : engineRun[r] = IdleRun
  BY DEF StockInit
<1> QED
  BY <1>1, IdleHands

LEMMA Handy == ASSUME Alone PROVE StockSpec => []HandsInv
<1>1. TypeInv /\ HandsInv /\ [StockNext]_stockVars => HandsInv'
  BY HandsNext
<1> QED
  BY <1>1, HandsStart, Typed, PTL DEF StockSpec

-----------------------------------------------------------------------------
InHand(i) == \E r \in StockRuns : engineRun[r].pc = "fill" /\ engineRun[r].order = i

(* The symbols the exploration lane holds or may still come to hold.       *)
LaneOrders     == {i \in OrderIds : orders[i].lane = "coverage" /\ (Active(orders[i]) \/ InHand(i))}
CoverageWanted == CoverageHeld \cup {orders[i].symbol : i \in LaneOrders}

WantedIsBounded == Cardinality(CoverageWanted) <= CoverageTarget

LEMMA WantedIsFinite ==
  ASSUME TypeInv
  PROVE  /\ IsFiniteSet(CoverageWanted) /\ CoverageWanted \subseteq Symbols
         /\ Cardinality(CoverageWanted) \in Nat
<1>1. CoverageWanted \subseteq Symbols
  BY OrdersType DEF CoverageWanted, CoverageHeld, LaneOrders, OrderType
<1> QED
  BY <1>1, AccountAssumption, FS_Subset, FS_CardinalityType

(* While a run is between two orders, the lane wants no more symbols than  *)
(* it counts.                                                              *)
LEMMA UsedCoversWanted ==
  ASSUME TypeInv, NEW r \in StockRuns, Alone, engineRun[r].pc # "fill"
  PROVE  CoverageUsed \in Nat /\ Cardinality(CoverageWanted) <= CoverageUsed
<1> DEFINE S == {i \in ActiveIds : orders[i].lane = "coverage"}
           T == {orders[i].symbol : i \in S}
           f == [i \in S |-> orders[i].symbol]
<1>1. CoverageWanted = CoverageHeld \cup T
  <2>1. \A i : ~InHand(i)
    BY DEF InHand, Alone
  <2>2. LaneOrders = S
    BY <2>1 DEF LaneOrders, ActiveIds
  <2> HIDE DEF S
  <2> QED
    BY <2>2 DEF CoverageWanted
<1>2. IsFiniteSet(S) /\ Cardinality(S) \in Nat
  <2>1. IsFiniteSet(OrderIds) /\ S \subseteq OrderIds
    BY OrdersType, FS_Interval DEF OrderIds, ActiveIds
  <2> HIDE DEF S
  <2> QED
    BY <2>1, FS_Subset, FS_CardinalityType
<1>3. IsFiniteSet(T) /\ Cardinality(T) <= Cardinality(S) /\ Cardinality(T) \in Nat
  <2> HIDE DEF S
  <2>1. f \in Surjection(S, T)
    BY DEF Surjection
  <2> HIDE DEF f, T
  <2> QED
    BY <1>2, <2>1, FS_Surjection, FS_CardinalityType
<1>4. IsFiniteSet(CoverageHeld) /\ Cardinality(CoverageHeld) \in Nat
  <2>1. CoverageHeld \subseteq Symbols
    BY DEF CoverageHeld
  <2> QED
    BY <2>1, AccountAssumption, FS_Subset, FS_CardinalityType
<1>5. CoverageUsed = Cardinality(CoverageHeld) + Cardinality(S)
  BY DEF CoverageUsed
<1> HIDE DEF S, T
<1>6. Cardinality(CoverageHeld \cup T) <= Cardinality(CoverageHeld) + Cardinality(T)
  <2>1. Cardinality(CoverageHeld \cap T) \in Nat
    <3>1. IsFiniteSet(CoverageHeld \cap T)
      BY <1>4, FS_Subset
    <3> QED
      BY <3>1, FS_CardinalityType
  <2>2. Cardinality(CoverageHeld \cup T)
          = Cardinality(CoverageHeld) + Cardinality(T) - Cardinality(CoverageHeld \cap T)
    BY <1>3, <1>4, FS_Union
  <2> QED
    BY <1>3, <1>4, <2>1, <2>2
<1>7. Cardinality(CoverageHeld \cup T) \in Nat
  BY <1>3, <1>4, FS_Union, FS_CardinalityType
<1> QED
  BY <1>1, <1>2, <1>3, <1>4, <1>5, <1>6, <1>7

LEMMA WantedNext ==
  ASSUME Alone, TypeInv, TypeInv', HandsInv, WantedIsBounded, [StockNext]_stockVars
  PROVE  WantedIsBounded'
<1>a. Len(orders) \in Nat /\ CoverageTarget \in Nat /\ Cardinality(CoverageWanted) <= CoverageTarget
  BY OrdersType, AccountAssumption DEF WantedIsBounded
<1>b. /\ IsFiniteSet(CoverageWanted) /\ Cardinality(CoverageWanted) \in Nat
      /\ Cardinality(CoverageWanted)' \in Nat
  <2>1. CoverageWanted' \subseteq Symbols
    <3>1. \A i \in OrderIds' : orders'[i] \in OrderType
      BY DEF TypeInv, OrderIds
    <3> QED
      BY <3>1 DEF CoverageWanted, CoverageHeld, LaneOrders, OrderType
  <2> QED
    BY <2>1, WantedIsFinite, AccountAssumption, FS_Subset, FS_CardinalityType
<1>c. CoverageWanted' \subseteq CoverageWanted => WantedIsBounded'
  <2> SUFFICES ASSUME CoverageWanted' \subseteq CoverageWanted
               PROVE  Cardinality(CoverageWanted)' <= CoverageTarget
    BY DEF WantedIsBounded
  <2>1. Cardinality(CoverageWanted') <= Cardinality(CoverageWanted)
    BY <1>b, FS_Subset
  <2> QED
    BY <1>a, <1>b, <2>1
<1>1. ASSUME NEW r \in StockRuns, StockAct(r)
      PROVE  WantedIsBounded'
  <2> DEFINE old == engineRun[r]
             new == engineRun'[r]
  <2>a. /\ \A i : InHand(i) <=> (old.pc = "fill" /\ old.order = i)
        /\ \A i : InHand(i)' <=> (new.pc = "fill" /\ new.order = i)
    BY DEF Alone, InHand
  <2>b. UNCHANGED Books => CoverageHeld' = CoverageHeld
    BY DEF Books, CoverageHeld
  <2>c. ASSUME NEW i, NEW o, NEW u \in OrderType, NEW n, Ordered(r, i, o, u, n),
               NEW s \in CoverageWanted', s \notin CoverageWanted
        PROVE  u.lane = "coverage" /\ s = u.symbol
    <3>1. /\ OrderIds' = OrderIds \cup {i} /\ orders'[i] = u
          /\ \A j \in OrderIds \ {i} : orders'[j] = orders[j]
          /\ \A j : InHand(j)' => j = i
          /\ CoverageHeld' = CoverageHeld
      BY <2>a, <2>b, <2>c DEF Ordered, Booked, Phases
    <3>2. PICK j \in LaneOrders' : s = orders'[j].symbol
      BY <2>c, <3>1 DEF CoverageWanted
    <3>3. j = i
      <4>1. SUFFICES ASSUME j # i PROVE j \in LaneOrders /\ s = orders[j].symbol
        BY <2>c DEF CoverageWanted
      <4> QED
        BY <3>1, <3>2, <4>1 DEF LaneOrders, Active
    <3> QED
      BY <3>1, <3>2, <3>3 DEF LaneOrders
  <2>1. CASE Quiet(r) /\ QuietKeeps(r)
    <3>1. CoverageHeld' = CoverageHeld /\ LaneOrders' \subseteq LaneOrders /\ UNCHANGED orders
      BY <2>1, <2>a, <2>b DEF Quiet, LaneOrders, OrderIds, Active
    <3> QED
      BY <1>c, <3>1 DEF CoverageWanted
  <2>2. ASSUME NEW w \in old.waiting, NEW u \in OrderType, NEW n \in Nat, Resent(r, w, u, n)
        PROVE  WantedIsBounded'
    <3>1. w.id \in OrderIds /\ w.order = orders[w.id] /\ Active(w.order)
      BY DEF HandsInv, CopiesCurrent
    <3>2. u.lane = orders[w.id].lane /\ u.symbol = orders[w.id].symbol
      BY <2>2, <3>1 DEF Resent, Ordered, Handled
    <3>3. u.lane = "coverage" => u.symbol \in CoverageWanted
      BY <3>1, <3>2 DEF CoverageWanted, LaneOrders
    <3>4. Ordered(r, w.id, w.order, u, n)
      BY <2>2 DEF Resent
    <3>5. CoverageWanted' \subseteq CoverageWanted
      BY <2>c, <3>3, <3>4
    <3> QED
      BY <1>c, <3>5
  <2>3. ASSUME NEW row, NEW l, NEW o, NEW u \in OrderType, NEW n, Sold(r, row, l, o, u, n)
        PROVE  WantedIsBounded'
    <3>1. u.lane = "strict_signal" /\ Ordered(r, Len(orders) + 1, o, u, n)
      BY <2>3 DEF Sold, Ordered, Handled, Exit
    <3>2. CoverageWanted' \subseteq CoverageWanted
      BY <2>c, <3>1
    <3> QED
      BY <1>c, <3>2
  <2>4. ASSUME NEW s, NEW o, NEW u \in OrderType, NEW n, Bought(r, s, o, u, n)
        PROVE  WantedIsBounded'
    <3>1. Ordered(r, Len(orders) + 1, o, u, n) /\ old.pc \in {"strict", "coverage"}
      BY <2>4 DEF Bought
    <3>2. CoverageWanted' \subseteq CoverageWanted \cup {u.symbol}
      BY <2>c, <3>1
    <3>3. CASE old.pc = "strict"
      <4>1. u.lane = "strict_signal"
        BY <2>4, <3>3 DEF Bought, Ordered, Handled, Entry, LaneOf
      <4> QED
        BY <1>c, <2>c, <3>1, <4>1
    <3>4. CASE old.pc = "coverage"
      <4>1. CoverageUsed < CoverageTarget
        BY <2>4, <3>4 DEF Bought, EnterStrict, EnterCoverage
      <4>2. CoverageUsed \in Nat /\ Cardinality(CoverageWanted) <= CoverageUsed
        BY <3>4, UsedCoversWanted
      <4>3. /\ IsFiniteSet(CoverageWanted \cup {u.symbol})
            /\ Cardinality(CoverageWanted \cup {u.symbol}) <= Cardinality(CoverageWanted) + 1
            /\ Cardinality(CoverageWanted \cup {u.symbol}) \in Nat
        <5>1. /\ IsFiniteSet(CoverageWanted \cup {u.symbol})
              /\ \/ Cardinality(CoverageWanted \cup {u.symbol}) = Cardinality(CoverageWanted)
                 \/ Cardinality(CoverageWanted \cup {u.symbol}) = Cardinality(CoverageWanted) + 1
          BY <1>b, FS_AddElement
        <5> QED
          BY <1>b, <5>1
      <4>4. Cardinality(CoverageWanted') <= Cardinality(CoverageWanted \cup {u.symbol})
        BY <3>2, <4>3, FS_Subset
      <4> QED
        BY <1>a, <1>b, <4>1, <4>2, <4>3, <4>4 DEF WantedIsBounded
    <3> QED
      BY <3>1, <3>3, <3>4
  <2>5. CASE SaveFill(r)
    <3>1. UNCHANGED orders /\ OrderIds' = OrderIds /\ old.pc = "fill" /\ old.order \in OrderIds
      BY <2>5, SaveFillTypes DEF SaveFill, OrderIds
    <3>2. new.pc # "fill"
      BY <1>1, <2>5, StockMoves DEF StockEffect
    <3>3. \A s \in CoverageHeld' \ CoverageHeld : s = orders[old.order].symbol
              /\ old.order \in LaneOrders
      <4> SUFFICES ASSUME NEW s \in CoverageHeld' \ CoverageHeld
                   PROVE  s = orders[old.order].symbol /\ old.order \in LaneOrders
        OBVIOUS
      <4>1. /\ orders[old.order].symbol = s /\ orders[old.order].lane = "coverage"
        BY <2>5, LaneGrows
      <4> QED
        BY <2>a, <3>1, <4>1 DEF LaneOrders
    <3>4. LaneOrders' \subseteq LaneOrders
      BY <2>a, <3>1, <3>2 DEF LaneOrders, Active
    <3>5. CoverageWanted' \subseteq CoverageWanted
      BY <3>1, <3>3, <3>4 DEF CoverageWanted
    <3> QED
      BY <1>c, <3>5
  <2>6. CASE Follow(r)
    <3>1. UNCHANGED <<orders, laneShares, excluded>> /\ OrderIds' = OrderIds /\ old.phase \in Phases
      BY <2>6 DEF Follow, OrderIds, TypeInv, RunType
    <3>2. new.pc # "fill"
      BY <1>1, <2>6, <3>1, StockMoves DEF StockEffect, Phases
    <3>3. CoverageHeld' = CoverageHeld /\ LaneOrders' \subseteq LaneOrders
      BY <2>a, <3>1, <3>2 DEF LaneOrders, Active, CoverageHeld
    <3> QED
      BY <1>c, <3>1, <3>3 DEF CoverageWanted
  <2> QED
    BY <1>1, <2>1, <2>2, <2>3, <2>4, <2>5, <2>6, StepsOfRun
<1>2. CASE StockCrash
  <2>1. UNCHANGED <<orders, laneShares, excluded>> /\ OrderIds' = OrderIds
    BY <1>2 DEF StockCrash, OrderIds
  <2>2. \A i : ~InHand(i)'
    BY <1>2, IdleRunType DEF StockCrash, InHand
  <2>3. CoverageHeld' = CoverageHeld /\ LaneOrders' \subseteq LaneOrders
    BY <2>1, <2>2 DEF LaneOrders, Active, CoverageHeld
  <2> QED
    BY <1>c, <2>1, <2>3 DEF CoverageWanted
<1>3. CASE UNCHANGED stockVars \/ \E s \in Symbols : VoidOrphan(s)
  <2>1. CoverageHeld' \subseteq CoverageHeld
    BY <1>3 DEF stockVars, VoidOrphan, CoverageHeld
  <2>2. LaneOrders' = LaneOrders /\ UNCHANGED orders
    BY <1>3 DEF stockVars, VoidOrphan, LaneOrders, InHand, Active, OrderIds
  <2>3. CoverageWanted' \subseteq CoverageWanted
    BY <2>1, <2>2 DEF CoverageWanted
  <2> QED
    BY <1>c, <2>3
<1> QED
  BY <1>1, <1>2, <1>3 DEF StockNext, StockAct

LEMMA WantedStart == StockInit => WantedIsBounded
<1> SUFFICES ASSUME StockInit PROVE WantedIsBounded
  OBVIOUS
<1>1. CoverageWanted = {}
  BY DEF StockInit, CoverageWanted, CoverageHeld, LaneOrders, OrderIds, Lanes
<1> QED
  BY <1>1, FS_EmptySet, AccountAssumption DEF WantedIsBounded

(* With one run at a time the exploration lane keeps to its target:        *)
(* symbols it holds and symbols it has ordered never exceed it, queued,    *)
(* partly filled or cut as its orders may be; positions the operator has   *)
(* marked are not counted (run_stock_paper_engine, mode_position_count).   *)
THEOREM LaneKeepsToTarget == ASSUME Alone PROVE StockSpec => []CoverageBounded
<1>1. TypeInv /\ TypeInv' /\ HandsInv /\ WantedIsBounded /\ [StockNext]_stockVars
        => WantedIsBounded'
  BY WantedNext
<1>2. TypeInv /\ WantedIsBounded => CoverageBounded
  <2> SUFFICES ASSUME TypeInv, WantedIsBounded PROVE CoverageBounded
    OBVIOUS
  <2> DEFINE counted == CoverageHeld \cup {orders[i].symbol :
                          i \in {j \in ActiveIds : orders[j].lane = "coverage"}}
  <2>1. counted \subseteq CoverageWanted
    BY DEF CoverageWanted, LaneOrders, ActiveIds
  <2> HIDE DEF counted
  <2>2. Cardinality(counted) <= Cardinality(CoverageWanted) /\ Cardinality(counted) \in Nat
    BY <2>1, WantedIsFinite, FS_Subset, FS_CardinalityType
  <2>3. Cardinality(counted) <= CoverageTarget
    BY <2>2, WantedIsFinite, AccountAssumption DEF WantedIsBounded
  <2> QED
    BY <2>3 DEF CoverageBounded, counted
<1> QED
  BY <1>1, <1>2, WantedStart, Typed, Handy, PTL DEF StockSpec

-----------------------------------------------------------------------------
(* The limit of positions.                                                 *)

(* A run that was answered an entry at once has found room for it, and     *)
(* the room is still there.                                                *)
RoomFound ==
  \A r \in StockRuns :
    /\ engineRun[r].pc = "fill" /\ engineRun[r].phase # "pending"
    /\ orders[engineRun[r].order].side = "buy"
    => Cardinality(Positions) < MaxPositions

LEMMA RoomStart == StockInit => RoomFound
BY IdleRunType DEF StockInit, RoomFound

LEMMA RoomNext ==
  ASSUME Alone, TypeInv, RoomFound, [StockNext]_stockVars
  PROVE  RoomFound'
<1>1. ASSUME NEW r \in StockRuns, StockAct(r)
      PROVE  RoomFound'
  <2> DEFINE old == engineRun[r]
             new == engineRun'[r]
             Room == /\ new.pc = "fill" /\ new.phase # "pending"
                     /\ orders'[new.order].side = "buy"
                     => Cardinality(Positions)' < MaxPositions
  <2>a. Room => RoomFound'
    BY DEF Alone, RoomFound
  <2>1. CASE Quiet(r)
    BY <2>1, <2>a DEF Quiet
  <2>2. ASSUME NEW w, NEW u, NEW n \in Nat, Resent(r, w, u, n)
        PROVE  RoomFound'
    BY <2>2, <2>a DEF Resent, Ordered
  <2>3. ASSUME NEW row, NEW l, NEW o, NEW u, NEW n \in Nat, Sold(r, row, l, o, u, n)
        PROVE  RoomFound'
    <3>1. Ordered(r, Len(orders) + 1, o, u, n) /\ o.side = "sell" /\ old.pc = "exits"
      BY <2>3 DEF Sold, Exit
    <3>2. u.side = "sell" /\ orders'[Len(orders) + 1] = u
      BY <3>1 DEF Ordered, Handled, Booked
    <3>3. new.pc = "fill" => new.order = Len(orders) + 1
      BY <3>1 DEF Ordered
    <3> QED
      BY <2>a, <3>2, <3>3
  <2>4. ASSUME NEW s, NEW o, NEW u, NEW n \in Nat, Bought(r, s, o, u, n)
        PROVE  RoomFound'
    <3>1. Cardinality(Positions) < MaxPositions
      BY <2>4 DEF Bought, EnterStrict, EnterCoverage, Enter
    <3>2. UNCHANGED shares
      BY <2>4 DEF Bought, Ordered, Books
    <3>3. Positions' = Positions
      BY <3>2 DEF Positions
    <3> QED
      BY <2>a, <3>1, <3>3
  <2>5. CASE SaveFill(r)
    BY <1>1, <2>5, <2>a, StockMoves DEF StockEffect
  <2>6. CASE Follow(r)
    <3>1. new.pc = old.phase /\ old.phase \in Phases
      BY <1>1, <2>6, StockMoves DEF StockEffect, TypeInv, RunType
    <3> QED
      BY <2>a, <3>1 DEF Phases
  <2> QED
    BY <1>1, <2>1, <2>2, <2>3, <2>4, <2>5, <2>6, StepsOfRun
<1>2. CASE StockCrash
  <2>1. \A r \in StockRuns : engineRun'[r] = IdleRun
    BY <1>2 DEF StockCrash
  <2> QED
    BY <2>1, IdleRunType DEF RoomFound
<1>3. CASE Untouched
  <2>1. Positions' = Positions
    BY <1>3 DEF Untouched, Positions
  <2> QED
    BY <1>3, <2>1 DEF Untouched, RoomFound
<1> QED
  BY <1>1, <1>2, <1>3, StepCases

(* Only a fill moves a position.                                           *)
LEMMA FillsAlone ==
  ASSUME TypeInv, [StockNext]_stockVars, UNCHANGED shares => FALSE
  PROVE  \E r \in StockRuns : SaveFill(r)
<1>1. ASSUME NEW r \in StockRuns, StockAct(r) PROVE SaveFill(r)
  <2>1. ~Quiet(r) /\ ~Follow(r)
    BY DEF Quiet, Books, Follow
  <2>2. ASSUME NEW i, NEW o, NEW u, NEW n PROVE ~Ordered(r, i, o, u, n)
    BY DEF Ordered, Books
  <2> QED
    BY <1>1, <2>1, <2>2, StepsOfRun DEF Resent, Sold, Bought
<1>2. ~StockCrash /\ ~Untouched
  BY DEF StockCrash, Untouched
<1> QED
  BY <1>1, <1>2, StepCases

LEMMA LimitHolds ==
  ASSUME TypeInv, RoomFound, [StockNext]_stockVars,
         Positions' \ Positions # {}, Cardinality(Positions') > MaxPositions
  PROVE  \E r \in StockRuns : engineRun[r].pc = "fill" /\ engineRun[r].phase = "pending"
<1>1. PICK r \in StockRuns : SaveFill(r)
  BY FillsAlone DEF Positions
<1> DEFINE o == orders[engineRun[r].order]
           n == engineRun[r].fill
<1>2. /\ o \in OrderType /\ n \in Nat /\ engineRun[r].pc = "fill"
      /\ shares' \in [Symbols -> Nat]
      /\ shares'[o.symbol] = AfterFill(o.side, shares[o.symbol], n)
      /\ \A s \in Symbols \ {o.symbol} : shares'[s] = shares[s]
  BY <1>1, SaveFillTypes DEF SaveFill
<1>3. Positions' \subseteq Positions \cup {o.symbol}
  BY <1>2 DEF Positions
<1>4. o.side = "buy"
  <2> SUFFICES ASSUME o.side = "sell" PROVE FALSE
    BY <1>2 DEF OrderType
  <2>1. shares[o.symbol] \in Nat
    BY <1>2 DEF TypeInv, OrderType
  <2>2. shares'[o.symbol] > 0 => shares[o.symbol] > 0
    BY <1>2, <2>1 DEF AfterFill, Minus
  <2> QED
    BY <1>2, <1>3, <2>2 DEF Positions
<1>5. IsFiniteSet(Positions) /\ Cardinality(Positions) \in Nat /\ MaxPositions \in Nat
  <2>1. Positions \subseteq Symbols
    BY DEF Positions
  <2> QED
    BY <2>1, AccountAssumption, FS_Subset, FS_CardinalityType
<1> HIDE DEF o, n
<1>6. /\ Cardinality(Positions') \in Nat
      /\ Cardinality(Positions') <= Cardinality(Positions) + 1
  <2>1. /\ IsFiniteSet(Positions \cup {o.symbol})
        /\ \/ Cardinality(Positions \cup {o.symbol}) = Cardinality(Positions)
           \/ Cardinality(Positions \cup {o.symbol}) = Cardinality(Positions) + 1
    BY <1>5, FS_AddElement
  <2>2. /\ IsFiniteSet(Positions')
        /\ Cardinality(Positions') <= Cardinality(Positions \cup {o.symbol})
    BY <1>3, <2>1, FS_Subset
  <2> QED
    BY <1>5, <2>1, <2>2, FS_CardinalityType
<1>7. ~(Cardinality(Positions) < MaxPositions)
  BY <1>5, <1>6
<1> QED
  BY <1>2, <1>4, <1>7 DEF RoomFound, o

(* With one run at a time no run enters beyond max_open_positions: the     *)
(* room each gate has found is there when the fill is saved, and only an   *)
(* order that was sent again may be filled beyond the limit                *)
(* (run_stock_paper_engine, _process_pending_orders).                      *)
THEOREM LimitPassedFromQueueOnly == ASSUME Alone PROVE StockSpec => OverLimitOnlyFromQueue
<1> DEFINE Kept ==
      Positions' \ Positions # {} /\ Cardinality(Positions') > MaxPositions
      => \E r \in StockRuns : engineRun[r].pc = "fill" /\ engineRun[r].phase = "pending"
<1>1. TypeInv /\ RoomFound /\ [StockNext]_stockVars => RoomFound'
  BY RoomNext
<1>2. TypeInv /\ RoomFound /\ [StockNext]_stockVars => [Kept]_stockVars
  BY LimitHolds
<1> QED
  BY <1>1, <1>2, RoomStart, Typed, PTL DEF StockSpec, OverLimitOnlyFromQueue

-----------------------------------------------------------------------------
(* Sales.                                                                  *)

(* The phase of the run, which an order in hand interrupts.                *)
PhaseOf(run) == IF run.pc \in {"fill", "follow"} THEN run.phase ELSE run.pc

(* A sale that waits or is being filled.                                   *)
LiveSale(i) == orders[i].side = "sell" /\ (Active(orders[i]) \/ InHand(i))

(* It asks for no more than there is.                                      *)
Covered(i) ==
  /\ orders[i].left <= shares[orders[i].symbol]
  /\ \A r \in StockRuns : engineRun[r].pc = "fill" /\ engineRun[r].order = i
       => orders[i].left + engineRun[r].fill <= shares[orders[i].symbol]

(* The positions a run still has to judge are as it listed them, and it    *)
(* knows which of them have a sale that lives.                             *)
RowsCurrent(run) ==
  \A row \in run.rows :
    /\ row.held = shares[row.symbol] /\ row.plan = exitPlan[row.symbol]
    /\ run.pc \in {"fill", "follow"} => row.symbol # orders[run.order].symbol
    /\ \A i \in OrderIds :
         LiveSale(i) /\ orders[i].symbol = row.symbol => row.symbol \in run.keys

SalesInv ==
  /\ \A i, j \in OrderIds :
       LiveSale(i) /\ LiveSale(j) /\ orders[i].symbol = orders[j].symbol => i = j
  /\ \A i \in OrderIds : LiveSale(i) => Covered(i)
  /\ \A r \in StockRuns : PhaseOf(engineRun[r]) = "exits" => RowsCurrent(engineRun[r])

LEMMA OrderKeeps ==
  ASSUME TypeInv, Alone, NEW r \in StockRuns, NEW i, NEW o, NEW u, NEW n \in Nat,
         Ordered(r, i, o, u, n)
  PROVE  /\ OrderIds' = OrderIds \cup {i} /\ orders'[i] = u
         /\ \A j \in OrderIds \ {i} : orders'[j] = orders[j] /\ (LiveSale(j)' => LiveSale(j))
         /\ UNCHANGED <<shares, exitPlan, laneShares, holdQueued, stockCut>>
         /\ PhaseOf(engineRun'[r]) = engineRun[r].pc
         /\ PhaseOf(engineRun[r]) = engineRun[r].pc
<1>1. /\ OrderIds' = OrderIds \cup {i} /\ orders'[i] = u
      /\ \A j \in OrderIds \ {i} : orders'[j] = orders[j]
  BY DEF Ordered, Booked
<1>2. \A j : InHand(j)' => j = i
  BY DEF Alone, InHand, Ordered, Phases
<1>3. PhaseOf(engineRun'[r]) = engineRun[r].pc /\ PhaseOf(engineRun[r]) = engineRun[r].pc
  BY DEF PhaseOf, Ordered, Phases
<1> QED
  BY <1>1, <1>2, <1>3 DEF Ordered, Books, LiveSale, Active

LEMMA RowsDiffer ==
  ASSUME TypeInv, NEW r \in StockRuns, RowsCurrent(engineRun[r]),
         NEW row \in engineRun[r].rows, NEW other \in engineRun[r].rows, row.symbol = other.symbol
  PROVE  row = other
<1>1. row \in RowType /\ other \in RowType
  BY DEF TypeInv, RunType
<1>2. row.held = other.held /\ row.plan = other.plan
  BY DEF RowsCurrent
<1> QED
  BY <1>1, <1>2 DEF RowType

LEMMA SalesStart == StockInit => SalesInv
<1> SUFFICES ASSUME StockInit PROVE SalesInv
  OBVIOUS
<1>1. OrderIds = {} /\ \A r \in StockRuns : engineRun[r] = IdleRun
  BY DEF StockInit, OrderIds
<1> QED
  BY <1>1, IdleRunType DEF SalesInv, PhaseOf

LEMMA SalesNext ==
  ASSUME Alone, TypeInv, HandsInv, SalesInv, [StockNext]_stockVars
  PROVE  SalesInv'
<1>a. /\ Len(orders) \in Nat /\ Len(orders) + 1 \notin OrderIds
      /\ \A i \in OrderIds : orders[i].left \in Nat /\ orders[i].symbol \in Symbols
      /\ shares \in [Symbols -> Nat]
  <2>1. Len(orders) \in Nat /\ Len(orders) + 1 \notin OrderIds
    BY OrdersType DEF OrderIds
  <2> QED
    BY <2>1, OrdersType DEF OrderType, TypeInv
<1>1. ASSUME NEW r \in StockRuns, StockAct(r)
      PROVE  SalesInv'
  <2> DEFINE old == engineRun[r]
             new == engineRun'[r]
  <2>a. \A q \in StockRuns : q = r
    BY DEF Alone
  <2>b. /\ \A i : InHand(i) <=> (old.pc = "fill" /\ old.order = i)
        /\ \A i : InHand(i)' <=> (new.pc = "fill" /\ new.order = i)
    BY <2>a DEF InHand
  <2> DEFINE
        One     == \A i, j \in OrderIds' :
                     LiveSale(i)' /\ LiveSale(j)' /\ orders'[i].symbol = orders'[j].symbol => i = j
        Enough  == \A i \in OrderIds' : LiveSale(i)' =>
                     /\ orders'[i].left <= shares'[orders'[i].symbol]
                     /\ new.pc = "fill" /\ new.order = i
                          => orders'[i].left + new.fill <= shares'[orders'[i].symbol]
        Current == PhaseOf(new) = "exits" =>
                     \A row \in new.rows :
                       /\ row.held = shares'[row.symbol] /\ row.plan = exitPlan'[row.symbol]
                       /\ new.pc \in {"fill", "follow"} => row.symbol # orders'[new.order].symbol
                       /\ \A i \in OrderIds' :
                            LiveSale(i)' /\ orders'[i].symbol = row.symbol
                                      => row.symbol \in new.keys
  <2>c. ASSUME One, Enough, Current PROVE SalesInv'
    <3>1. \A i \in OrderIds' : LiveSale(i)' => Covered(i)'
      BY <2>a, <2>c DEF Covered
    <3>2. PhaseOf(new) = "exits" => RowsCurrent(engineRun[r])'
      BY <2>c DEF RowsCurrent
    <3> QED
      BY <2>a, <2>c, <3>1, <3>2 DEF SalesInv
  <2>d. /\ \A i, j \in OrderIds :
             LiveSale(i) /\ LiveSale(j) /\ orders[i].symbol = orders[j].symbol => i = j
        /\ \A i \in OrderIds : LiveSale(i) =>
             /\ orders[i].left <= shares[orders[i].symbol]
             /\ old.pc = "fill" /\ old.order = i
                  => orders[i].left + old.fill <= shares[orders[i].symbol]
        /\ PhaseOf(old) = "exits" =>
             \A row \in old.rows :
               /\ row.held = shares[row.symbol] /\ row.plan = exitPlan[row.symbol]
               /\ old.pc \in {"fill", "follow"} => row.symbol # orders[old.order].symbol
               /\ \A i \in OrderIds :
                    LiveSale(i) /\ orders[i].symbol = row.symbol => row.symbol \in old.keys
    BY DEF SalesInv, Covered, RowsCurrent
  <2>e. \A row \in old.rows : row \in RowType /\ row.symbol \in Symbols /\ row.held \in Nat
    BY DEF TypeInv, RunType, RowType
  <2> HIDE DEF One, Enough, Current
  <2>1. CASE Quiet(r) /\ QuietKeeps(r)
    <3>1. /\ OrderIds' = OrderIds /\ UNCHANGED <<orders, shares, exitPlan>>
          /\ old.pc \notin {"fill", "follow"} /\ new.pc \notin {"fill", "follow"}
      BY <2>1 DEF Quiet, Books, OrderIds
    <3>2. \A i \in OrderIds : LiveSale(i)' <=> LiveSale(i)
      BY <2>b, <3>1 DEF LiveSale, Active
    <3>3. \A i \in OrderIds : LiveSale(i) => i \in ActiveIds /\ orders[i].side = "sell"
      BY <2>b, <3>1 DEF LiveSale, ActiveIds
    <3>4. One /\ Enough
      BY <2>d, <3>1, <3>2 DEF One, Enough
    <3>5. PhaseOf(new) = new.pc /\ PhaseOf(old) = old.pc
      BY <3>1 DEF PhaseOf
    <3>6. CASE new.pc = "exits" /\ old.pc = "exits" /\ new.rows \subseteq old.rows
              /\ new.keys = old.keys
      BY <2>c, <2>d, <3>1, <3>2, <3>4, <3>5, <3>6 DEF Current
    <3>7. CASE /\ new.keys = {orders[i].symbol : i \in {j \in ActiveIds : orders[j].side = "sell"}}
               /\ \A row \in new.rows : /\ row.symbol \in Symbols /\ row.held = shares[row.symbol]
                                       /\ row.held > 0 /\ row.plan = exitPlan[row.symbol]
      <4>1. \A i \in OrderIds : LiveSale(i) => orders[i].symbol \in new.keys
        BY <3>3, <3>7
      <4> QED
        BY <2>c, <3>1, <3>2, <3>4, <3>5, <3>7, <4>1 DEF Current
    <3>8. CASE new.pc # "exits"
      BY <2>c, <3>4, <3>5, <3>8 DEF Current
    <3> QED
      BY <2>1, <3>6, <3>7, <3>8 DEF QuietKeeps
  <2>2. ASSUME NEW w \in old.waiting, NEW u \in OrderType, NEW n \in Nat, Resent(r, w, u, n)
        PROVE  SalesInv'
    <3> DEFINE i == w.id
    <3>1. i \in OrderIds /\ w.order = orders[i] /\ Active(orders[i])
      BY DEF HandsInv, CopiesCurrent
    <3>2. Ordered(r, i, orders[i], u, n) /\ old.pc = "pending"
      BY <2>2, <3>1 DEF Resent
    <3> HIDE DEF i
    <3>3. /\ OrderIds' = OrderIds \cup {i} /\ orders'[i] = u
          /\ \A j \in OrderIds \ {i} : orders'[j] = orders[j] /\ (LiveSale(j)' => LiveSale(j))
          /\ UNCHANGED <<shares, exitPlan>> /\ PhaseOf(new) = "pending"
      BY <3>2, OrderKeeps
    <3>4. /\ u.side = orders[i].side /\ u.symbol = orders[i].symbol
          /\ u.left = orders[i].left - n /\ n \in 0..orders[i].left
          /\ new.pc = "fill" => new.order = i /\ new.fill = n
      BY <3>2 DEF Ordered, Handled
    <3>5. LiveSale(i)' => LiveSale(i)
      BY <3>1, <3>3, <3>4 DEF LiveSale
    <3>6. One
      BY <2>d, <3>1, <3>3, <3>4, <3>5 DEF One
    <3>7. Enough
      <4>1. LiveSale(i)' => /\ u.left <= shares[u.symbol] /\ u.left + n <= shares[u.symbol]
        <5> SUFFICES ASSUME LiveSale(i)' PROVE u.left <= shares[u.symbol]
                  /\ u.left + n <= shares[u.symbol]
          OBVIOUS
        <5>1. orders[i].left <= shares[orders[i].symbol]
          BY <2>d, <3>1, <3>5
        <5>2. shares[orders[i].symbol] \in Nat /\ orders[i].left \in Nat
          BY <1>a, <3>1
        <5> QED
          BY <3>4, <5>1, <5>2
      <4> QED
        BY <2>d, <3>1, <3>3, <3>4, <4>1 DEF Enough
    <3>8. Current
      BY <3>3 DEF Current
    <3> QED
      BY <2>c, <3>6, <3>7, <3>8
  <2>3. ASSUME NEW row \in old.rows, NEW l \in Nat, NEW o, NEW u \in OrderType, NEW n \in Nat,
               Sold(r, row, l, o, u, n)
        PROVE  SalesInv'
    <3> DEFINE i == Len(orders) + 1
    <3>1. Ordered(r, i, o, u, n) /\ Exit(o, row, l) /\ old.pc = "exits"
      BY <2>3 DEF Sold
    <3>2. i \notin OrderIds
      BY <1>a
    <3> HIDE DEF i
    <3>3. /\ OrderIds' = OrderIds \cup {i} /\ orders'[i] = u
          /\ \A j \in OrderIds : orders'[j] = orders[j] /\ (LiveSale(j)' => LiveSale(j))
          /\ UNCHANGED <<shares, exitPlan>> /\ PhaseOf(new) = "exits" /\ PhaseOf(old) = "exits"
      BY <3>1, <3>2, OrderKeeps
    <3>4. /\ u.symbol = row.symbol /\ o.left \in 1..row.held
          /\ u.left = o.left - n /\ n \in 0..o.left
          /\ new.pc = "fill" => new.order = i /\ new.fill = n
          /\ new.pc \in {"exits", "fill"}
      BY <3>1 DEF Ordered, Handled, Exit
    <3>5. /\ new.rows = old.rows \ {row} /\ new.keys = old.keys /\ row.symbol \notin old.keys
      BY <2>3 DEF Sold
    <3>6. \A j \in OrderIds : LiveSale(j) => orders[j].symbol # row.symbol
      BY <2>d, <3>3, <3>5
    <3>7. \A other \in new.rows : other \in old.rows /\ other.symbol # row.symbol
      <4>1. RowsCurrent(old)
        BY <3>3 DEF SalesInv
      <4> QED
        BY <3>5, <4>1, RowsDiffer
    <3>8. One
      BY <3>3, <3>4, <3>6, <2>d DEF One
    <3>9. Enough
      <4>1. u.left <= shares[u.symbol] /\ u.left + n <= shares[u.symbol]
        <5>1. row.held = shares[row.symbol] /\ row.held \in Nat
          BY <2>d, <2>e, <3>3
        <5> QED
          BY <3>4, <5>1
      <4> QED
        BY <2>d, <3>2, <3>3, <3>4, <4>1 DEF Enough
    <3>10. Current
      BY <2>d, <3>3, <3>4, <3>5, <3>7 DEF Current
    <3> QED
      BY <2>c, <3>8, <3>9, <3>10
  <2>4. ASSUME NEW s, NEW o, NEW u \in OrderType, NEW n \in Nat, Bought(r, s, o, u, n)
        PROVE  SalesInv'
    <3>a. PICK i : i = Len(orders) + 1
      OBVIOUS
    <3>1. Ordered(r, i, o, u, n) /\ Entry(o, s, old.pc) /\ old.pc \in {"strict", "coverage"}
      BY <2>4, <3>a DEF Bought
    <3>2. i \notin OrderIds
      BY <1>a, <3>a
    <3>3. /\ OrderIds' = OrderIds \cup {i} /\ orders'[i] = u
          /\ \A j \in OrderIds : orders'[j] = orders[j] /\ (LiveSale(j)' => LiveSale(j))
          /\ UNCHANGED <<shares, exitPlan>> /\ PhaseOf(new) # "exits"
      BY <3>1, <3>2, OrderKeeps
    <3>4. u.side = "buy" /\ (new.pc = "fill" => new.order = i)
      BY <3>1 DEF Ordered, Handled, Entry
    <3>5. ~LiveSale(i)'
      BY <3>3, <3>4 DEF LiveSale
    <3>6. One /\ Enough /\ Current
      BY <2>d, <3>2, <3>3, <3>4, <3>5 DEF One, Enough, Current
    <3> QED
      BY <2>c, <3>6
  <2>5. CASE SaveFill(r)
    <3> DEFINE i == old.order
               o == orders[i]
               n == old.fill
    <3>1. /\ o \in OrderType /\ n \in Nat /\ i \in OrderIds
          /\ shares'[o.symbol] = AfterFill(o.side, shares[o.symbol], n)
          /\ \A s \in Symbols \ {o.symbol} : shares'[s] = shares[s]
          /\ UNCHANGED <<orders, exitPlan>> /\ OrderIds' = OrderIds /\ old.pc = "fill"
      BY <2>5, SaveFillTypes DEF SaveFill, OrderIds
    <3>2. /\ new.pc = (IF old.phase = "pending" THEN "pending" ELSE "follow")
          /\ new.order = i /\ new.phase = old.phase /\ new.rows = old.rows /\ new.keys = old.keys
      BY <1>1, <2>5, StockMoves DEF StockEffect
    <3> HIDE DEF o, n
    <3>3. \A j \in OrderIds : LiveSale(j)' => LiveSale(j)
      BY <2>b, <3>1, <3>2 DEF LiveSale, Active
    <3>4. One
      BY <2>d, <3>1, <3>3 DEF One
    <3>5. ASSUME NEW j \in OrderIds, LiveSale(j)
          PROVE  orders[j].left <= shares'[orders[j].symbol]
      <4>1. /\ orders[j].left \in Nat /\ shares[orders[j].symbol] \in Nat
            /\ orders[j].left <= shares[orders[j].symbol]
        BY <1>a, <2>d, <3>5
      <4>2. CASE orders[j].symbol # o.symbol
        BY <1>a, <3>1, <4>1, <4>2
      <4>3. CASE orders[j].symbol = o.symbol /\ o.side = "buy"
        <5>1. shares'[orders[j].symbol] = shares[orders[j].symbol] + n
          BY <3>1, <4>3 DEF AfterFill
        <5> QED
          BY <3>1, <4>1, <5>1
      <4>4. CASE orders[j].symbol = o.symbol /\ o.side = "sell"
        <5>1. LiveSale(i)
          BY <2>b, <3>1, <4>4 DEF LiveSale, o
        <5>2. j = i
          BY <2>d, <3>1, <3>5, <4>4, <5>1 DEF o
        <5>3. orders[j].left + n <= shares[orders[j].symbol]
          BY <2>d, <3>1, <3>5, <5>2 DEF n
        <5>4. shares'[orders[j].symbol] = Minus(shares[orders[j].symbol], n)
          BY <3>1, <4>4 DEF AfterFill
        <5> QED
          BY <3>1, <4>1, <5>3, <5>4 DEF Minus
      <4>5. o.side \in {"buy", "sell"}
        BY <3>1 DEF OrderType
      <4> QED
        BY <4>2, <4>3, <4>4, <4>5
    <3>6. Enough
      BY <3>1, <3>2, <3>3, <3>5 DEF Enough
    <3>7. Current
      <4>1. PhaseOf(new) = "exits" => PhaseOf(old) = "exits"
        BY <3>1, <3>2 DEF PhaseOf
      <4>2. PhaseOf(old) = "exits" => \A row \in old.rows : row.symbol # o.symbol
        BY <2>d, <3>1 DEF o
      <4> QED
        BY <2>d, <2>e, <3>1, <3>2, <3>3, <4>1, <4>2 DEF Current, o
    <3> QED
      BY <2>c, <3>4, <3>6, <3>7
  <2>6. CASE Follow(r)
    <3> DEFINE o == orders[old.order]
    <3>1. /\ \A s \in Symbols \ {o.symbol} : exitPlan'[s] = exitPlan[s]
          /\ UNCHANGED <<orders, shares>> /\ OrderIds' = OrderIds /\ old.pc = "follow"
      BY <2>6, FollowTypes DEF Follow, OrderIds
    <3>2. new.pc = old.phase /\ new.rows = old.rows /\ new.keys = old.keys /\ old.phase \in Phases
      BY <1>1, <2>6, StockMoves DEF StockEffect, TypeInv, RunType
    <3>3. \A j \in OrderIds : LiveSale(j)' => LiveSale(j)
      BY <2>b, <3>1, <3>2 DEF LiveSale, Active, Phases
    <3>4. PhaseOf(new) = PhaseOf(old) /\ new.pc \notin {"fill", "follow"}
      BY <3>1, <3>2 DEF PhaseOf, Phases
    <3>5. One /\ Enough
      BY <2>d, <3>1, <3>3, <3>4 DEF One, Enough
    <3>6. Current
      BY <2>d, <2>e, <3>1, <3>2, <3>3, <3>4 DEF Current
    <3> QED
      BY <2>c, <3>5, <3>6
  <2> QED
    BY <1>1, <2>1, <2>2, <2>3, <2>4, <2>5, <2>6, StepsOfRun
<1>2. CASE StockCrash
  <2>1. /\ \A r \in StockRuns : engineRun'[r] = IdleRun
        /\ UNCHANGED <<orders, shares, exitPlan>> /\ OrderIds' = OrderIds
    BY <1>2 DEF StockCrash, OrderIds
  <2>2. \A i \in OrderIds : LiveSale(i)' => LiveSale(i)
    BY <2>1, IdleRunType DEF LiveSale, InHand, Active
  <2>3. \A i \in OrderIds : LiveSale(i)' => Covered(i)'
    BY <2>1, <2>2, IdleRunType DEF SalesInv, Covered
  <2>4. \A r \in StockRuns : PhaseOf(engineRun'[r]) # "exits"
    BY <2>1, IdleRunType DEF PhaseOf
  <2> QED
    BY <2>1, <2>2, <2>3, <2>4 DEF SalesInv
<1>3. CASE Untouched
  <2>1. UNCHANGED <<orders, shares, exitPlan, engineRun>> /\ OrderIds' = OrderIds
    BY <1>3 DEF Untouched, OrderIds
  <2>2. \A i : LiveSale(i)' <=> LiveSale(i)
    BY <2>1 DEF LiveSale, InHand, Active
  <2>3. \A i : Covered(i)' <=> Covered(i)
    BY <2>1 DEF Covered
  <2>4. \A r \in StockRuns : RowsCurrent(engineRun[r])' <=> RowsCurrent(engineRun[r])
    BY <2>1, <2>2 DEF RowsCurrent
  <2> QED
    BY <2>1, <2>2, <2>3, <2>4 DEF SalesInv
<1> QED
  BY <1>1, <1>2, <1>3, StepCases

LEMMA Sales == ASSUME Alone PROVE StockSpec => []SalesInv
<1>1. TypeInv /\ HandsInv /\ SalesInv /\ [StockNext]_stockVars => SalesInv'
  BY SalesNext
<1> QED
  BY <1>1, SalesStart, Typed, Handy, PTL DEF StockSpec

LEMMA QueuedSaleWaits ==
  ASSUME Alone, TypeInv, HandsInv, SalesInv, [StockNext]_stockVars,
         NEW i \in OrderIds, holdQueued, orders[i].status = "queued", orders[i].side = "sell"
  PROVE  /\ orders'[i].status \in {"queued", "cancelled"}
         /\ shares'[orders[i].symbol] >= shares[orders[i].symbol]
<1>a. /\ orders[i].symbol \in Symbols /\ shares[orders[i].symbol] \in Nat
      /\ Len(orders) + 1 \notin OrderIds
  <2>1. Len(orders) + 1 \notin OrderIds
    BY OrdersType DEF OrderIds
  <2> QED
    BY <2>1, OrdersType DEF OrderType, TypeInv
<1>b. LiveSale(i) /\ orders[i].left <= shares[orders[i].symbol]
  BY DEF LiveSale, Active, SalesInv, Covered
<1>c. UNCHANGED <<orders, shares>> => /\ orders'[i].status \in {"queued", "cancelled"}
                                     /\ shares'[orders[i].symbol] >= shares[orders[i].symbol]
  BY <1>a
<1>1. ASSUME NEW r \in StockRuns, StockAct(r)
      PROVE  /\ orders'[i].status \in {"queued", "cancelled"}
             /\ shares'[orders[i].symbol] >= shares[orders[i].symbol]
  <2> DEFINE old == engineRun[r]
             new == engineRun'[r]
  <2>1. CASE Quiet(r)
    BY <1>c, <2>1 DEF Quiet, Books
  <2>2. ASSUME NEW w \in old.waiting, NEW u \in OrderType, NEW n \in Nat, Resent(r, w, u, n)
        PROVE  /\ orders'[i].status \in {"queued", "cancelled"} /\ UNCHANGED shares
    <3>1. w.order = orders[w.id] /\ w.id \in OrderIds
      BY DEF HandsInv, CopiesCurrent
    <3>2. Ordered(r, w.id, w.order, u, n) /\ ~Held(old, w)
      BY <2>2 DEF Resent
    <3>3. /\ orders'[w.id] = u /\ \A j \in OrderIds \ {w.id} : orders'[j] = orders[j]
          /\ UNCHANGED shares
      BY <3>2 DEF Ordered, Booked, Books
    <3>4. ASSUME w.id = i
          PROVE  u.status \in {"queued", "cancelled"}
      <4>1. ~old.open
        BY <3>1, <3>2, <3>4 DEF Held
      <4>2. n = 0
        BY <3>2, <4>1 DEF Ordered
      <4>3. ~(w.order.left > shares[w.order.symbol])
        <5>1. orders[i].left \in Nat
          BY OrdersType DEF OrderType
        <5> QED
          BY <1>a, <1>b, <3>1, <3>4, <5>1
      <4> QED
        BY <3>2, <4>2, <4>3 DEF Ordered, Handled
    <3> QED
      BY <3>3, <3>4
  <2>3. ASSUME NEW o, NEW u \in OrderType, NEW n \in Nat, Ordered(r, Len(orders) + 1, o, u, n)
        PROVE  orders'[i] = orders[i] /\ UNCHANGED shares
    BY <1>a, <2>3, OrderKeeps
  <2>4. CASE SaveFill(r)
    <3> DEFINE o == orders[old.order]
               n == old.fill
    <3>1. /\ o \in OrderType /\ n \in Nat /\ old.order \in OrderIds /\ old.pc = "fill"
          /\ shares'[o.symbol] = AfterFill(o.side, shares[o.symbol], n)
          /\ \A s \in Symbols \ {o.symbol} : shares'[s] = shares[s]
          /\ UNCHANGED orders
      BY <2>4, SaveFillTypes DEF SaveFill
    <3>2. CASE o.side = "sell" /\ o.symbol = orders[i].symbol
      <4>1. LiveSale(old.order)
        BY <3>1, <3>2 DEF LiveSale, InHand
      <4>2. old.order = i
        BY <1>b, <3>1, <3>2, <4>1 DEF SalesInv
      <4>3. orders[old.order].status \in {"filled", "partial"}
        BY <3>1 DEF HandsInv, HandsKnown
      <4> QED
        BY <4>2, <4>3
    <3>3. CASE o.side = "buy" /\ o.symbol = orders[i].symbol
      <4>1. shares'[o.symbol] = shares[o.symbol] + n
        BY <3>1, <3>3 DEF AfterFill
      <4> HIDE DEF o, n
      <4> QED
        BY <1>a, <3>1, <3>3, <4>1
    <3>4. CASE o.symbol # orders[i].symbol
      BY <1>a, <3>1, <3>4
    <3>5. o.side \in {"buy", "sell"}
      BY <3>1 DEF OrderType
    <3> QED
      BY <3>2, <3>3, <3>4, <3>5
  <2>5. CASE Follow(r)
    BY <1>c, <2>5 DEF Follow
  <2> QED
    BY <1>1, <1>a, <2>1, <2>2, <2>3, <2>4, <2>5, StepsOfRun DEF Sold, Bought
<1>2. CASE StockCrash \/ Untouched
  BY <1>c, <1>2 DEF StockCrash, Untouched
<1> QED
  BY <1>1, <1>2, StepCases

(* With one run at a time and queued orders held back, a sale that once    *)
(* had to wait is never carried out, and as long as it waits the position  *)
(* cannot shrink: neither its stop nor a forced exit sells a share         *)
(* (_process_pending_orders, _process_exits).                              *)
THEOREM QueuedSalesBlock == ASSUME Alone PROVE StockSpec => QueuedSaleBlocksExit
<1> DEFINE Blocked == \A i \in OrderIds :
       (holdQueued /\ orders[i].status = "queued" /\ orders[i].side = "sell")
       => /\ orders'[i].status \in {"queued", "cancelled"}
          /\ shares'[orders[i].symbol] >= shares[orders[i].symbol]
<1>1. TypeInv /\ HandsInv /\ SalesInv /\ [StockNext]_stockVars => [Blocked]_stockVars
  BY QueuedSaleWaits
<1> QED
  BY <1>1, Typed, Handy, Sales, PTL DEF StockSpec, QueuedSaleBlocksExit

-----------------------------------------------------------------------------
(* The plan of exit.                                                       *)

LateBuy(s) ==
  \E i \in OrderIds : orders[i].symbol = s /\ orders[i].side = "buy" /\ orders[i].late

(* The plan of the symbol is about to be written.                          *)
Planned(s) ==
  \E r \in StockRuns :
    LET run == engineRun[r] IN
    run.pc = "follow" /\ orders[run.order].symbol = s /\ orders[run.order].side = "buy"

(* The order was filled when it was placed, and what follows from that is  *)
(* still to be done.                                                       *)
AtPlacement(i) ==
  \E r \in StockRuns :
    LET run == engineRun[r] IN
    run.pc \in {"fill", "follow"} /\ run.order = i /\ run.phase # "pending"

PlanInv ==
  ~stockCut =>
    /\ \A s \in Symbols : shares[s] > 0 => exitPlan[s].known \/ LateBuy(s) \/ Planned(s)
    /\ \A i \in OrderIds : orders[i].side = "buy" /\ (Active(orders[i]) \/ InHand(i)) =>
         orders[i].late \/ exitPlan[orders[i].symbol].known \/ AtPlacement(i)

LEMMA PlanStart == StockInit => PlanInv
<1> SUFFICES ASSUME StockInit PROVE PlanInv
  OBVIOUS
<1>1. OrderIds = {} /\ \A s \in Symbols : shares[s] = 0
  BY DEF StockInit, OrderIds
<1> QED
  BY <1>1 DEF PlanInv

(* An order keeps what it was made with, and is late from the start or     *)
(* never.                                                                  *)
LEMMA OrdersLast ==
  ASSUME TypeInv, HandsInv, NEW r \in StockRuns, NEW i, NEW o, NEW u, NEW n,
         Ordered(r, i, o, u, n), i \in OrderIds => o = orders[i]
  PROVE  \A j \in OrderIds :
           /\ j \in OrderIds' /\ filled'[j] = filled[j]
           /\ orders'[j].side = orders[j].side /\ orders'[j].symbol = orders[j].symbol
           /\ orders'[j].level = orders[j].level /\ orders'[j].late = orders[j].late
<1> SUFFICES ASSUME NEW j \in OrderIds
             PROVE  /\ j \in OrderIds' /\ filled'[j] = filled[j]
                    /\ orders'[j].side = orders[j].side /\ orders'[j].symbol = orders[j].symbol
                    /\ orders'[j].level = orders[j].level /\ orders'[j].late = orders[j].late
  OBVIOUS
<1>1. j \in OrderIds' /\ filled'[j] = filled[j] /\ (j # i => orders'[j] = orders[j])
  BY DEF Ordered, Booked
<1>2. ASSUME j = i
      PROVE  /\ orders'[j].side = orders[j].side /\ orders'[j].symbol = orders[j].symbol
             /\ orders'[j].level = orders[j].level /\ orders'[j].late = orders[j].late
  <2>1. orders'[i] = u /\ o = orders[i] /\ Handled(i, o, u, n) /\ n \in 0..o.left
    BY <1>2 DEF Ordered, Booked
  <2>2. o \in OrderType /\ ~(i > Len(orders))
    BY <1>2, <2>1, OrdersType DEF OrderIds
  <2>3. o.left \in Nat /\ o.late \in BOOLEAN
    BY <2>2 DEF OrderType
  <2>4. u.late = o.late
    BY <2>1, <2>2, <2>3 DEF Handled
  <2> QED
    BY <1>2, <2>1, <2>4 DEF Handled
<1> QED
  BY <1>1, <1>2

(* Only a crash changes what is remembered of crashes.                     *)
LEMMA CutLasts ==
  ASSUME TypeInv, [StockNext]_stockVars, ~StockCrash
  PROVE  stockCut' = stockCut
<1>1. ASSUME NEW r \in StockRuns, StockAct(r)
      PROVE  stockCut' = stockCut
  <2>1. Quiet(r) => stockCut' = stockCut
    BY DEF Quiet, Books
  <2>2. ASSUME NEW i, NEW o, NEW u, NEW n, Ordered(r, i, o, u, n)
        PROVE  stockCut' = stockCut
    BY <2>2 DEF Ordered, Books
  <2>3. SaveFill(r) \/ Follow(r) => stockCut' = stockCut
    BY DEF SaveFill, Follow
  <2> QED
    BY <1>1, <2>1, <2>2, <2>3, StepsOfRun DEF Resent, Sold, Bought
<1> QED
  BY <1>1, StepCases DEF Untouched

LEMMA PlanNext ==
  ASSUME Alone, TypeInv, HandsInv, PlanInv, [StockNext]_stockVars
  PROVE  PlanInv'
<1>a. Len(orders) \in Nat /\ Len(orders) + 1 \notin OrderIds
  BY OrdersType DEF OrderIds
<1>b. /\ shares \in [Symbols -> Nat] /\ exitPlan \in [Symbols -> PlanType]
      /\ \A j \in OrderIds : orders[j].symbol \in Symbols
  BY OrdersType DEF TypeInv, OrderType
<1>1. ASSUME NEW r \in StockRuns, StockAct(r), ~stockCut
      PROVE  PlanInv'
  <2> DEFINE old == engineRun[r]
             new == engineRun'[r]
  <2>a. /\ \A i : InHand(i) <=> (old.pc = "fill" /\ old.order = i)
        /\ \A i : InHand(i)' <=> (new.pc = "fill" /\ new.order = i)
    BY DEF InHand, Alone
  <2>b. /\ \A s : Planned(s) <=> /\ old.pc = "follow" /\ orders[old.order].symbol = s
                                 /\ orders[old.order].side = "buy"
        /\ \A s : Planned(s)' <=> /\ new.pc = "follow" /\ orders'[new.order].symbol = s
                                  /\ orders'[new.order].side = "buy"
    BY DEF Planned, Alone
  <2>c. /\ \A i : AtPlacement(i) <=> /\ old.pc \in {"fill", "follow"} /\ old.order = i
                                     /\ old.phase # "pending"
        /\ \A i : AtPlacement(i)' <=> /\ new.pc \in {"fill", "follow"} /\ new.order = i
                                      /\ new.phase # "pending"
    BY DEF AtPlacement, Alone
  <2>d. /\ \A s \in Symbols : shares[s] > 0 => exitPlan[s].known \/ LateBuy(s) \/ Planned(s)
        /\ \A i \in OrderIds : orders[i].side = "buy" /\ (Active(orders[i]) \/ InHand(i)) =>
             orders[i].late \/ exitPlan[orders[i].symbol].known \/ AtPlacement(i)
    BY <1>1 DEF PlanInv
  <2> DEFINE Held1 == \A s \in Symbols :
                        shares'[s] > 0 => exitPlan'[s].known \/ LateBuy(s)' \/ Planned(s)'
             Bought1 == \A i \in OrderIds' :
                          orders'[i].side = "buy" /\ (Active(orders'[i]) \/ InHand(i)') =>
                          orders'[i].late \/ exitPlan'[orders'[i].symbol].known \/ AtPlacement(i)'
  <2>e. Held1 /\ Bought1 => PlanInv'
    BY DEF PlanInv, Active
  <2> HIDE DEF Held1, Bought1
  <2>1. CASE Quiet(r)
    <3>1. /\ OrderIds' = OrderIds /\ UNCHANGED <<orders, shares, exitPlan>>
          /\ old.pc \notin {"fill", "follow"} /\ new.pc \notin {"fill", "follow"}
      BY <2>1 DEF Quiet, Books, OrderIds
    <3>2. \A s : LateBuy(s)' <=> LateBuy(s)
      BY <3>1 DEF LateBuy
    <3>3. Held1
      BY <2>b, <2>d, <3>1, <3>2 DEF Held1
    <3>4. Bought1
      BY <2>a, <2>c, <2>d, <3>1 DEF Bought1
    <3> QED
      BY <2>e, <3>3, <3>4
  <2>2. ASSUME NEW i, NEW o, NEW u \in OrderType, NEW n \in Nat, Ordered(r, i, o, u, n),
               i \in OrderIds => o = orders[i],
               u.side = "buy" => \/ i \in OrderIds /\ Active(o)
                                 \/ i = Len(orders) + 1 /\ old.pc # "pending"
        PROVE  PlanInv'
    <3>1. \A j \in OrderIds :
           /\ j \in OrderIds' /\ orders'[j].side = orders[j].side
           /\ orders'[j].symbol = orders[j].symbol /\ orders'[j].late = orders[j].late
      BY <2>2, OrdersLast
    <3>2. /\ OrderIds' = OrderIds \cup {i} /\ orders'[i] = u
          /\ \A j \in OrderIds \ {i} : orders'[j] = orders[j]
          /\ UNCHANGED <<shares, exitPlan>> /\ old.pc \in Phases
      BY <2>2 DEF Ordered, Booked, Books
    <3>3. \A s : LateBuy(s) => LateBuy(s)'
      BY <3>1 DEF LateBuy
    <3>4. Held1
      BY <2>b, <2>d, <3>2, <3>3 DEF Held1, Phases
    <3>5. ASSUME u.side = "buy"
          PROVE  u.late \/ exitPlan[u.symbol].known \/ AtPlacement(i)'
      <4>1. CASE i \in OrderIds /\ Active(o)
        <5>1. orders[i].side = "buy" /\ u.symbol = orders[i].symbol /\ u.late = orders[i].late
          BY <3>1, <3>2, <3>5, <4>1
        <5> QED
          BY <2>2, <2>c, <2>d, <3>2, <4>1, <5>1 DEF Phases
      <4>2. CASE i = Len(orders) + 1 /\ old.pc # "pending"
        <5>1. CASE n = 0
          <6>1. i > Len(orders)
            BY <1>a, <4>2
          <6>2. u.late = (o.late \/ i > Len(orders))
            BY <2>2, <5>1 DEF Ordered, Handled
          <6> QED
            BY <6>1, <6>2, Zenon
        <5>2. CASE n # 0
          BY <2>2, <2>c, <4>2, <5>2 DEF Ordered
        <5> QED
          BY <5>1, <5>2
      <4> QED
        BY <2>2, <3>5, <4>1, <4>2
    <3>6. \A j : InHand(j)' => j = i
      BY <2>2, <2>a DEF Ordered, Phases
    <3>7. Bought1
      <4> SUFFICES ASSUME NEW j \in OrderIds', orders'[j].side = "buy",
                          Active(orders'[j]) \/ InHand(j)'
                   PROVE  orders'[j].late \/ exitPlan'[orders'[j].symbol].known \/ AtPlacement(j)'
        BY DEF Bought1
      <4>1. CASE j = i
        BY <3>2, <3>5, <4>1
      <4>2. CASE j # i
        BY <2>c, <2>d, <3>2, <3>6, <4>2 DEF Phases
      <4> QED
        BY <4>1, <4>2
    <3> QED
      BY <2>e, <3>4, <3>7
  <2>3. ASSUME NEW w \in old.waiting, NEW u \in OrderType, NEW n \in Nat, Resent(r, w, u, n)
        PROVE  PlanInv'
    <3> DEFINE i == w.id
               o == w.order
    <3>1. i \in OrderIds /\ o = orders[i] /\ Active(o) /\ Ordered(r, i, o, u, n)
      BY <2>3 DEF HandsInv, CopiesCurrent, Resent
    <3> HIDE DEF i, o
    <3> QED
      BY <2>2, <3>1
  <2>4. ASSUME NEW row, NEW l, NEW o, NEW u \in OrderType, NEW n \in Nat, Sold(r, row, l, o, u, n)
        PROVE  PlanInv'
    <3>1. PICK i : i = Len(orders) + 1
      OBVIOUS
    <3>2. Ordered(r, i, o, u, n) /\ u.side = "sell" /\ i \notin OrderIds
      BY <1>a, <2>4, <3>1 DEF Sold, Exit, Ordered, Handled
    <3> QED
      BY <2>2, <3>2
  <2>5. ASSUME NEW s, NEW o, NEW u \in OrderType, NEW n \in Nat, Bought(r, s, o, u, n)
        PROVE  PlanInv'
    <3>1. PICK i : i = Len(orders) + 1
      OBVIOUS
    <3>2. Ordered(r, i, o, u, n) /\ old.pc # "pending" /\ i \notin OrderIds
      BY <1>a, <2>5, <3>1 DEF Bought
    <3> QED
      BY <2>2, <3>1, <3>2
  <2>6. CASE SaveFill(r)
    <3>a. PICK i, o, n : i = old.order /\ o = orders[i] /\ n = old.fill
      OBVIOUS
    <3>1. /\ o \in OrderType /\ n \in Nat /\ i \in OrderIds
          /\ shares'[o.symbol] = AfterFill(o.side, shares[o.symbol], n)
          /\ \A s \in Symbols \ {o.symbol} : shares'[s] = shares[s]
          /\ UNCHANGED <<orders, exitPlan>> /\ OrderIds' = OrderIds /\ old.pc = "fill"
      BY <2>6, <3>a, SaveFillTypes DEF SaveFill, OrderIds
    <3>2. /\ new.pc = (IF old.phase = "pending" THEN "pending" ELSE "follow")
          /\ new.order = i /\ new.phase = old.phase
      BY <1>1, <2>6, <3>a, StockMoves DEF StockEffect
    <3>3. \A s : LateBuy(s)' <=> LateBuy(s)
      BY <3>1 DEF LateBuy
    <3>4. o.side = "buy" => exitPlan'[o.symbol].known \/ LateBuy(o.symbol)' \/ Planned(o.symbol)'
      <4> SUFFICES ASSUME o.side = "buy", ~exitPlan[o.symbol].known, ~LateBuy(o.symbol)
                   PROVE  Planned(o.symbol)'
        BY <3>1, <3>3
      <4>1. ~o.late
        BY <3>1, <3>a DEF LateBuy
      <4>2. AtPlacement(i)
        BY <2>a, <2>d, <3>1, <3>a, <4>1
      <4> QED
        BY <2>b, <2>c, <3>1, <3>2, <3>a, <4>2
    <3>5. o.side = "sell" => (shares'[o.symbol] > 0 => shares[o.symbol] > 0)
      <4>1. o.symbol \in Symbols /\ shares[o.symbol] \in Nat
        BY <1>b, <3>1 DEF OrderType
      <4>2. o.side = "sell" => shares'[o.symbol] = Minus(shares[o.symbol], n)
        BY <3>1 DEF AfterFill
      <4> QED
        BY <3>1, <4>1, <4>2 DEF Minus
    <3>6. Held1
      <4> SUFFICES ASSUME NEW s \in Symbols, shares'[s] > 0
                   PROVE  exitPlan'[s].known \/ LateBuy(s)' \/ Planned(s)'
        BY DEF Held1
      <4>1. CASE s = o.symbol /\ o.side = "buy"
        BY <3>4, <4>1
      <4>2. CASE shares[s] > 0
        <5>1. exitPlan[s].known \/ LateBuy(s)
          BY <2>b, <2>d, <3>1, <4>2
        <5> QED
          BY <3>1, <3>3, <5>1
      <4>3. o.side \in {"buy", "sell"}
        BY <3>1 DEF OrderType
      <4> QED
        BY <3>1, <3>5, <4>1, <4>2, <4>3
    <3>7. Bought1
      <4> SUFFICES ASSUME NEW j \in OrderIds, orders[j].side = "buy", Active(orders'[j]) \/ InHand(j)',
                          ~orders[j].late, ~exitPlan[orders[j].symbol].known
                   PROVE  AtPlacement(j)'
        BY <3>1 DEF Bought1
      <4>1. Active(orders[j])
        BY <2>a, <3>1, <3>2
      <4>2. AtPlacement(j)
        BY <2>d, <4>1
      <4> QED
        BY <2>c, <3>1, <3>2, <3>a, <4>2
    <3> QED
      BY <2>e, <3>6, <3>7
  <2>7. CASE Follow(r)
    <3>a. PICK i, o : i = old.order /\ o = orders[i]
      OBVIOUS
    <3>1. /\ i \in OrderIds /\ o \in OrderType
          /\ exitPlan'[o.symbol] = PlanAfter(exitPlan[o.symbol], o)
          /\ \A s \in Symbols \ {o.symbol} : exitPlan'[s] = exitPlan[s]
          /\ UNCHANGED <<orders, shares>> /\ OrderIds' = OrderIds /\ old.pc = "follow"
      BY <2>7, <3>a, FollowTypes DEF Follow, OrderIds
    <3>2. new.pc \notin {"fill", "follow"}
      BY <1>1, <2>7, StockMoves DEF StockEffect, TypeInv, RunType, Phases
    <3>3. \A s : LateBuy(s)' <=> LateBuy(s)
      BY <3>1 DEF LateBuy
    <3>4. o.side = "buy" => exitPlan'[o.symbol].known
      BY <3>1 DEF PlanAfter
    <3>5. \A s \in Symbols : exitPlan[s].known => exitPlan'[s].known
      <4> SUFFICES ASSUME exitPlan[o.symbol].known, o.side # "buy", o.symbol \in Symbols
                   PROVE  exitPlan'[o.symbol].known
        BY <3>1, <3>4
      <4> DEFINE plan == exitPlan[o.symbol]
      <4>1. plan \in PlanType
        BY <1>b
      <4>2. PlanAfter(plan, o).known = plan.known
        BY <4>1 DEF PlanAfter, PlanType
      <4> QED
        BY <3>1, <4>2
    <3>6. Held1
      BY <2>b, <2>d, <3>a, <3>1, <3>3, <3>4, <3>5 DEF Held1
    <3>7. Bought1
      BY <1>b, <2>a, <2>c, <2>d, <3>a, <3>1, <3>2, <3>4, <3>5 DEF Bought1
    <3> QED
      BY <2>e, <3>6, <3>7
  <2> QED
    BY <1>1, <2>1, <2>3, <2>4, <2>5, <2>6, <2>7, StepsOfRun
<1>2. CASE stockCut /\ ~StockCrash
  <2>1. stockCut'
    BY <1>2, CutLasts
  <2> QED
    BY <2>1 DEF PlanInv
<1>3. CASE StockCrash
  BY <1>3 DEF StockCrash, PlanInv
<1>4. CASE Untouched
  BY <1>4 DEF Untouched, PlanInv, LateBuy, Planned, AtPlacement, InHand, Active, OrderIds
<1> QED
  BY <1>1, <1>2, <1>3, <1>4, StepCases

(* With one run at a time, and until a run dies between two of its         *)
(* transactions, a position has its plan of exit as soon as its run has    *)
(* gone on, unless its entry was filled after it had waited                *)
(* (_place_entry, set_exit_plan, _process_pending_orders).                 *)
THEOREM PromptEntriesHavePlans == ASSUME Alone PROVE StockSpec => []FilledAtOnceHasPlan
<1>1. TypeInv /\ HandsInv /\ PlanInv /\ [StockNext]_stockVars => PlanInv'
  BY PlanNext
<1>2. TypeInv /\ PlanInv => FilledAtOnceHasPlan
  <2> SUFFICES ASSUME TypeInv, PlanInv, ~stockCut, NEW s \in Symbols, shares[s] # 0
               PROVE  \/ exitPlan[s].known \/ LateBuy(s)
                      \/ \E r \in StockRuns : engineRun[r].pc = "follow"
    BY DEF FilledAtOnceHasPlan, LateBuy
  <2>1. shares[s] > 0
    BY DEF TypeInv
  <2> QED
    BY <2>1 DEF PlanInv, Planned
<1> QED
  BY <1>1, <1>2, PlanStart, Typed, Handy, PTL DEF StockSpec

-----------------------------------------------------------------------------
(* The ladder of profit levels.                                            *)

(* A sale of a level that was answered with a fill.                        *)
Prompt(i) == orders[i].side = "sell" /\ orders[i].level > 0 /\ ~orders[i].late

BoughtAfter(i) ==
  \E k \in OrderIds : k > i /\ orders[k].side = "buy" /\ orders[k].symbol = orders[i].symbol

(* The level is recorded or about to be, or its position is gone.          *)
Taken(i) ==
  \/ orders[i].level \in exitPlan[orders[i].symbol].taken
  \/ BoughtAfter(i)
  \/ \E r \in StockRuns : engineRun[r].pc = "follow" /\ engineRun[r].order = i

FilledFirst(i) ==
  \E r \in StockRuns :
    engineRun[r].pc = "fill" /\ engineRun[r].order = i /\ engineRun[r].phase # "pending"

SameLevel(i, j) ==
  /\ i < j /\ orders[j].side = "sell"
  /\ orders[j].symbol = orders[i].symbol /\ orders[j].level = orders[i].level

BoughtBetween(i, j) ==
  \E k \in OrderIds :
    i < k /\ k < j /\ orders[k].side = "buy" /\ orders[k].symbol = orders[i].symbol

LevelInv ==
  ~stockCut =>
    /\ \A i \in OrderIds : Prompt(i) /\ filled[i] > 0 => Taken(i)
    /\ \A i \in OrderIds : Prompt(i) /\ (Active(orders[i]) \/ InHand(i)) =>
         filled[i] > 0 \/ FilledFirst(i)
    /\ \A i, j \in OrderIds :
         Prompt(i) /\ filled[i] > 0 /\ SameLevel(i, j) => BoughtBetween(i, j)

LEMMA LevelStart == StockInit => LevelInv
<1> SUFFICES ASSUME StockInit PROVE LevelInv
  OBVIOUS
<1>1. OrderIds = {}
  BY DEF StockInit, OrderIds
<1> QED
  BY <1>1 DEF LevelInv

LEMMA LevelNext ==
  ASSUME Alone, TypeInv, HandsInv, SalesInv, LevelInv, [StockNext]_stockVars
  PROVE  LevelInv'
<1>a. Len(orders) \in Nat /\ Len(orders) + 1 \notin OrderIds
          /\ \A j \in OrderIds : j < Len(orders) + 1
  BY OrdersType DEF OrderIds
<1>b. /\ exitPlan \in [Symbols -> PlanType]
      /\ \A j \in OrderIds : /\ orders[j].symbol \in Symbols /\ orders[j].level \in Nat
                             /\ filled[j] \in Nat /\ j \in Nat /\ j <= Len(orders)
  <2>1. \A j \in OrderIds : j \in Nat /\ j <= Len(orders)
    BY <1>a DEF OrderIds
  <2>2. \A j \in OrderIds : /\ orders[j].symbol \in Symbols /\ orders[j].level \in 0..TopLevel
                           /\ filled[j] \in Nat
    BY OrdersType DEF OrderType
  <2>3. \A j \in OrderIds : orders[j].level \in Nat
    BY <2>2
  <2> QED
    BY <2>1, <2>2, <2>3 DEF TypeInv
<1>1. ASSUME NEW r \in StockRuns, StockAct(r), ~stockCut
      PROVE  LevelInv'
  <2> DEFINE old == engineRun[r]
             new == engineRun'[r]
  <2>a. /\ \A i : InHand(i) <=> (old.pc = "fill" /\ old.order = i)
        /\ \A i : InHand(i)' <=> (new.pc = "fill" /\ new.order = i)
        /\ \A i : FilledFirst(i) <=> (old.pc = "fill" /\ old.order = i /\ old.phase # "pending")
        /\ \A i : FilledFirst(i)' <=> (new.pc = "fill" /\ new.order = i /\ new.phase # "pending")
    BY DEF InHand, FilledFirst, Alone
  <2>b. /\ \A i : Taken(i) <=> \/ orders[i].level \in exitPlan[orders[i].symbol].taken
                               \/ BoughtAfter(i)
                               \/ old.pc = "follow" /\ old.order = i
        /\ \A i : Taken(i)' <=> \/ orders'[i].level \in exitPlan'[orders'[i].symbol].taken
                                \/ BoughtAfter(i)'
                                \/ new.pc = "follow" /\ new.order = i
    BY DEF Taken, Alone
  <2>c. /\ \A i \in OrderIds : Prompt(i) /\ filled[i] > 0 => Taken(i)
        /\ \A i \in OrderIds : Prompt(i) /\ (Active(orders[i]) \/ InHand(i)) =>
             filled[i] > 0 \/ FilledFirst(i)
        /\ \A i, j \in OrderIds :
             Prompt(i) /\ filled[i] > 0 /\ SameLevel(i, j) => BoughtBetween(i, j)
    BY <1>1 DEF LevelInv
  <2>d. /\ old.pc = "fill" => old.fill >= 1
        /\ old.pc = "follow" => old.phase # "pending"
        /\ old.pc \in {"fill", "follow"} /\ old.phase # "pending" => old.order = Len(orders)
    BY DEF HandsInv, HandsKnown
  <2> DEFINE Recorded == \A i \in OrderIds' : Prompt(i)' /\ filled'[i] > 0 => Taken(i)'
             First    == \A i \in OrderIds' : Prompt(i)' /\ (Active(orders'[i]) \/ InHand(i)') =>
                           filled'[i] > 0 \/ FilledFirst(i)'
             Once     == \A i, j \in OrderIds' :
                           Prompt(i)' /\ filled'[i] > 0 /\ SameLevel(i, j)' => BoughtBetween(i, j)'
  <2>e. Recorded /\ First /\ Once => LevelInv'
    BY DEF LevelInv, Active
  <2> HIDE DEF Recorded, First, Once
  <2>f. ASSUME UNCHANGED orders, OrderIds' = OrderIds
        PROVE  /\ \A i : (Prompt(i)' <=> Prompt(i)) /\ (BoughtAfter(i)' <=> BoughtAfter(i))
               /\ \A i, j : (SameLevel(i, j)' <=> SameLevel(i, j))
                         /\ (BoughtBetween(i, j)' <=> BoughtBetween(i, j))
    BY <2>f DEF Prompt, BoughtAfter, SameLevel, BoughtBetween
  <2>1. CASE Quiet(r)
    <3>1. /\ OrderIds' = OrderIds /\ UNCHANGED <<orders, filled, exitPlan>>
          /\ old.pc \notin {"fill", "follow"} /\ new.pc \notin {"fill", "follow"}
      BY <2>1 DEF Quiet, Books, OrderIds
    <3>2. Recorded
      BY <2>b, <2>c, <2>f, <3>1 DEF Recorded
    <3>3. First
      BY <2>a, <2>c, <2>f, <3>1 DEF First
    <3>4. Once
      <4>1. \A i, j : (SameLevel(i, j)' <=> SameLevel(i, j))
                /\ (BoughtBetween(i, j)' <=> BoughtBetween(i, j))
        BY <2>f, <3>1
      <4>2. \A i : Prompt(i)' <=> Prompt(i)
        BY <2>f, <3>1
      <4>3. OrderIds' = OrderIds /\ filled' = filled
        BY <3>1
      <4> QED
        BY <2>c, <4>1, <4>2, <4>3, Zenon DEF Once
    <3> QED
      BY <2>e, <3>2, <3>3, <3>4
  <2>2. ASSUME NEW i, NEW o, NEW u \in OrderType, NEW n \in Nat, Ordered(r, i, o, u, n),
               \/ i \in OrderIds /\ o = orders[i] /\ Active(o)
               \/ /\ i = Len(orders) + 1 /\ old.pc # "pending"
                  /\ u.side = "sell" /\ u.level > 0 => u.level \notin exitPlan[u.symbol].taken
        PROVE  LevelInv'
    <3>a. i \in OrderIds \/ i = Len(orders) + 1
      BY <2>2
    <3>1. \A j \in OrderIds :
           /\ j \in OrderIds' /\ filled'[j] = filled[j]
           /\ orders'[j].side = orders[j].side /\ orders'[j].symbol = orders[j].symbol
           /\ orders'[j].level = orders[j].level /\ orders'[j].late = orders[j].late
      BY <1>a, <2>2, OrdersLast
    <3>2. /\ OrderIds' = OrderIds \cup {i} /\ orders'[i] = u
          /\ \A j \in OrderIds \ {i} : orders'[j] = orders[j]
          /\ UNCHANGED exitPlan /\ old.pc \in Phases /\ (i \notin OrderIds => filled'[i] = 0)
      BY <2>2 DEF Ordered, Booked, Books
    <3>3. \A j \in OrderIds : (Prompt(j)' <=> Prompt(j)) /\ (BoughtAfter(j) => BoughtAfter(j)')
      BY <3>1 DEF Prompt, BoughtAfter
    <3>4. \A j \in OrderIds : Taken(j) => Taken(j)'
      BY <2>b, <3>1, <3>2, <3>3 DEF Phases
    <3>5. Recorded
      BY <2>c, <3>1, <3>2, <3>3, <3>4 DEF Recorded
    <3>6. \A j : InHand(j)' => j = i
      BY <2>2, <2>a DEF Ordered, Phases
    <3>7. \A j : ~FilledFirst(j) /\ ~InHand(j)
      BY <2>a, <3>2 DEF Phases
    <3>8. ASSUME Prompt(i)', Active(u) \/ InHand(i)'
          PROVE  filled'[i] > 0 \/ FilledFirst(i)'
      <4>1. CASE i \in OrderIds
        <5>1. Active(orders[i]) /\ Prompt(i)
          BY <1>a, <2>2, <3>3, <3>8, <4>1
        <5> QED
          BY <2>c, <3>1, <3>7, <4>1, <5>1
      <4>2. CASE i = Len(orders) + 1 /\ old.pc # "pending"
        <5>1. CASE n = 0
          <6>1. i > Len(orders) /\ ~u.late
            BY <1>a, <3>2, <3>8, <4>2 DEF Prompt
          <6>2. u.late = (o.late \/ i > Len(orders))
            BY <2>2, <5>1 DEF Ordered, Handled
          <6> QED
            BY <6>1, <6>2, Zenon
        <5>2. CASE n # 0
          BY <2>2, <2>a, <4>2, <5>2 DEF Ordered
        <5> QED
          BY <5>1, <5>2
      <4> QED
        BY <2>2, <4>1, <4>2
    <3>9. First
      <4> SUFFICES ASSUME NEW j \in OrderIds', Prompt(j)', Active(orders'[j]) \/ InHand(j)', j # i
                   PROVE  filled'[j] > 0
        BY <3>2, <3>8 DEF First
      <4>1. j \in OrderIds /\ Active(orders[j]) /\ Prompt(j)
        BY <3>2, <3>3, <3>6
      <4> QED
        BY <2>c, <3>1, <3>7, <4>1
    <3>10. Once
      <4> SUFFICES ASSUME NEW p \in OrderIds', NEW q \in OrderIds',
                          Prompt(p)', filled'[p] > 0, SameLevel(p, q)'
                   PROVE  BoughtBetween(p, q)'
        BY DEF Once
      <4>1. p \in OrderIds /\ p < q /\ Prompt(p) /\ filled[p] > 0
        BY <3>1, <3>2, <3>3 DEF SameLevel
      <4>2. CASE q \in OrderIds
        <5>1. SameLevel(p, q)
          BY <3>1, <4>1, <4>2 DEF SameLevel
        <5>2. BoughtBetween(p, q)
          BY <2>c, <4>1, <4>2, <5>1
        <5> QED
          BY <3>1, <4>1, <5>2 DEF BoughtBetween
      <4>3. CASE q \notin OrderIds
        <5>1. q = i /\ i = Len(orders) + 1
          BY <2>2, <3>2, <4>3
        <5>2. /\ u.side = "sell" /\ u.symbol = orders[p].symbol /\ u.level = orders[p].level
              /\ orders[p].level > 0
          BY <3>1, <3>2, <4>1, <5>1 DEF SameLevel, Prompt
        <5>3. orders[p].level \notin exitPlan[orders[p].symbol].taken
          BY <1>a, <2>2, <5>1, <5>2
        <5>4. BoughtAfter(p)
          BY <2>b, <2>c, <3>2, <4>1, <5>3 DEF Phases
        <5>5. PICK k \in OrderIds : k > p /\ orders[k].side = "buy"
                  /\ orders[k].symbol = orders[p].symbol
          BY <5>4 DEF BoughtAfter
        <5>6. p < k /\ k < q
          BY <1>a, <1>b, <4>1, <5>1, <5>5
        <5> QED
          BY <3>1, <4>1, <5>5, <5>6 DEF BoughtBetween
      <4> QED
        BY <4>2, <4>3
    <3> QED
      BY <2>e, <3>5, <3>9, <3>10
  <2>3. ASSUME NEW w \in old.waiting, NEW u \in OrderType, NEW n \in Nat, Resent(r, w, u, n)
        PROVE  LevelInv'
    <3> DEFINE i == w.id
               o == w.order
    <3>1. i \in OrderIds /\ o = orders[i] /\ Active(o) /\ Ordered(r, i, o, u, n)
      BY <2>3 DEF HandsInv, CopiesCurrent, Resent
    <3> HIDE DEF i, o
    <3> QED
      BY <2>2, <3>1
  <2>4. ASSUME NEW row \in old.rows, NEW l \in Nat, NEW o, NEW u \in OrderType, NEW n \in Nat,
               Sold(r, row, l, o, u, n)
        PROVE  LevelInv'
    <3>1. PICK i : i = Len(orders) + 1
      OBVIOUS
    <3>2. /\ Ordered(r, i, o, u, n) /\ old.pc = "exits" /\ l \in DueLevels(row)
          /\ u.level = l /\ u.symbol = row.symbol
      BY <2>4, <3>1 DEF Sold, Exit, Ordered, Handled
    <3>3. row.plan = exitPlan[row.symbol]
      BY <3>2 DEF SalesInv, RowsCurrent, PhaseOf
    <3>4. l > 0 => l \notin row.plan.taken
      BY <3>2 DEF DueLevels
    <3> QED
      BY <2>2, <3>1, <3>2, <3>3, <3>4
  <2>5. ASSUME NEW s, NEW o, NEW u \in OrderType, NEW n \in Nat, Bought(r, s, o, u, n)
        PROVE  LevelInv'
    <3>1. PICK i : i = Len(orders) + 1
      OBVIOUS
    <3>2. Ordered(r, i, o, u, n) /\ old.pc # "pending" /\ u.side = "buy"
      BY <2>5, <3>1 DEF Bought, Entry, Ordered, Handled
    <3> QED
      BY <2>2, <3>1, <3>2
  <2>6. CASE SaveFill(r)
    <3>a. PICK i, n : i = old.order /\ n = old.fill
      OBVIOUS
    <3>1. /\ n \in Nat /\ i \in OrderIds /\ filled'[i] = filled[i] + n
          /\ \A j \in OrderIds \ {i} : filled'[j] = filled[j]
          /\ UNCHANGED <<orders, exitPlan>> /\ OrderIds' = OrderIds /\ old.pc = "fill"
      BY <2>6, <3>a, SaveFillTypes DEF SaveFill, OrderIds
    <3>2. /\ new.pc = (IF old.phase = "pending" THEN "pending" ELSE "follow")
          /\ new.order = i /\ new.phase = old.phase
      BY <1>1, <2>6, <3>a, StockMoves DEF StockEffect
    <3>3. filled'[i] > 0
      BY <1>b, <2>d, <3>1, <3>a
    <3>4. \A j \in OrderIds : Taken(j) => Taken(j)'
      BY <2>b, <2>f, <3>1
    <3>5. Recorded
      <4> SUFFICES ASSUME NEW j \in OrderIds, Prompt(j), filled'[j] > 0 PROVE Taken(j)'
        BY <2>f, <3>1 DEF Recorded
      <4>1. CASE filled[j] > 0
        BY <2>c, <3>4, <4>1
      <4>2. CASE ~(filled[j] > 0)
        <5>1. j = i
          BY <3>1, <4>2
        <5>2. FilledFirst(j)
          BY <2>a, <2>c, <3>1, <3>a, <4>2, <5>1
        <5> QED
          BY <2>a, <2>b, <3>1, <3>2, <3>a, <5>1, <5>2
      <4> QED
        BY <4>1, <4>2
    <3>6. First
      <4> SUFFICES ASSUME NEW j \in OrderIds, Prompt(j), Active(orders[j]), j # i
                   PROVE  filled'[j] > 0
        BY <2>a, <2>f, <3>1, <3>2, <3>3 DEF First
      <4> QED
        BY <2>a, <2>c, <3>1, <3>a
    <3>7. Once
      <4> SUFFICES ASSUME NEW p \in OrderIds, NEW q \in OrderIds,
                          Prompt(p), filled'[p] > 0, SameLevel(p, q)
                   PROVE  BoughtBetween(p, q)
        <5>1. \A i1, j1 : (SameLevel(i1, j1)' <=> SameLevel(i1, j1))
                  /\ (BoughtBetween(i1, j1)' <=> BoughtBetween(i1, j1))
          BY <2>f, <3>1
        <5>2. \A i1 : Prompt(i1)' <=> Prompt(i1)
          BY <2>f, <3>1
        <5>3. OrderIds' = OrderIds
          BY <3>1
        <5> QED
          BY <5>1, <5>2, <5>3, Zenon DEF Once
      <4>1. CASE filled[p] > 0
        BY <2>c, <4>1
      <4>2. CASE ~(filled[p] > 0)
        <5>1. p = i
          BY <3>1, <4>2
        <5>2. FilledFirst(p)
          BY <2>a, <2>c, <3>1, <3>a, <4>2, <5>1
        <5>3. p = Len(orders)
          BY <2>a, <2>d, <5>2
        <5> QED
          BY <1>b, <5>3 DEF SameLevel
      <4> QED
        BY <4>1, <4>2
    <3> QED
      BY <2>e, <3>5, <3>6, <3>7
  <2>7. CASE Follow(r)
    <3>a. PICK i, o : i = old.order /\ o = orders[i]
      OBVIOUS
    <3>1. /\ i \in OrderIds /\ o \in OrderType
          /\ exitPlan'[o.symbol] = PlanAfter(exitPlan[o.symbol], o)
          /\ \A s \in Symbols \ {o.symbol} : exitPlan'[s] = exitPlan[s]
          /\ UNCHANGED <<orders, filled>> /\ OrderIds' = OrderIds /\ old.pc = "follow"
      BY <2>7, <3>a, FollowTypes DEF Follow, OrderIds
    <3>2. new.pc \notin {"fill", "follow"}
      BY <1>1, <2>7, StockMoves DEF StockEffect, TypeInv, RunType, Phases
    <3>b. OrderIds' = OrderIds /\ filled' = filled /\ \A j : Prompt(j)' <=> Prompt(j)
      BY <2>f, <3>1
    <3>c. \A j, k : (SameLevel(j, k)' <=> SameLevel(j, k))
              /\ (BoughtBetween(j, k)' <=> BoughtBetween(j, k))
      BY <2>f, <3>1
    <3>3. i = Len(orders)
      BY <2>d, <3>1, <3>a
    <3>4. exitPlan[o.symbol] \in PlanType /\ o.symbol \in Symbols
      BY <1>b, <3>1 DEF OrderType
    <3>5. ASSUME o.side = "buy" PROVE Recorded
      <4>1. ASSUME NEW j \in OrderIds, Prompt(j), filled[j] > 0
            PROVE  Taken(j)'
        <5>1. Taken(j) /\ j # i /\ j < i
          BY <1>b, <2>c, <3>1, <3>3, <3>5, <3>a, <4>1 DEF Prompt
        <5>2. CASE orders[j].symbol = o.symbol
          <6>1. BoughtAfter(j)
            BY <1>b, <3>1, <3>5, <3>a, <5>1, <5>2 DEF BoughtAfter
          <6> QED
            BY <2>b, <2>f, <3>1, <6>1
        <5>3. CASE orders[j].symbol # o.symbol
          BY <1>b, <2>b, <2>f, <3>1, <3>a, <5>1, <5>3
        <5> QED
          BY <5>2, <5>3
      <4> QED
        BY <3>b, <4>1, Zenon DEF Recorded
    <3>6. ASSUME o.side # "buy" PROVE Recorded
      <4>1. exitPlan[o.symbol].taken \subseteq exitPlan'[o.symbol].taken
        <5> DEFINE plan == exitPlan[o.symbol]
        <5>1. plan.taken \subseteq PlanAfter(plan, o).taken
          BY <3>4, <3>6 DEF PlanAfter, PlanType
        <5> QED
          BY <3>1, <5>1
      <4>2. o.level > 0 => o.level \in exitPlan'[o.symbol].taken
        <5> DEFINE plan == exitPlan[o.symbol]
        <5>1. o.level # 0 => o.level \in PlanAfter(plan, o).taken
          BY <3>4, <3>6 DEF PlanAfter, PlanType
        <5> QED
          BY <3>1, <5>1
      <4>3. ASSUME NEW j \in OrderIds, Prompt(j), filled[j] > 0
            PROVE  Taken(j)'
        <5>1. Taken(j)
          BY <2>c, <4>3
        <5>2. CASE orders[j].level \in exitPlan[orders[j].symbol].taken
          <6>1. orders[j].level \in exitPlan'[orders[j].symbol].taken
            BY <1>b, <3>1, <4>1, <5>2
          <6> QED
            BY <2>b, <3>1, <6>1
        <5>3. CASE BoughtAfter(j)
          BY <2>b, <2>f, <3>1, <5>3
        <5>4. CASE old.order = j
          <6>1. orders[j].level \in exitPlan'[orders[j].symbol].taken
            BY <3>a, <4>2, <4>3, <5>4 DEF Prompt
          <6> QED
            BY <2>b, <3>1, <6>1
        <5> QED
          BY <2>b, <5>1, <5>2, <5>3, <5>4
      <4> QED
        BY <3>b, <4>3, Zenon DEF Recorded
    <3>7. First
      <4> SUFFICES ASSUME NEW j \in OrderIds, Prompt(j), Active(orders[j]) PROVE filled[j] > 0
        BY <2>a, <3>1, <3>2, <3>b DEF First
      <4> QED
        BY <2>a, <2>c, <3>1
    <3>8. Once
      BY <2>c, <3>b, <3>c, Zenon DEF Once
    <3> QED
      BY <2>e, <3>5, <3>6, <3>7, <3>8
  <2> QED
    BY <1>1, <2>1, <2>3, <2>4, <2>5, <2>6, <2>7, StepsOfRun
<1>2. CASE stockCut /\ ~StockCrash
  <2>1. stockCut'
    BY <1>2, CutLasts
  <2> QED
    BY <2>1 DEF LevelInv
<1>3. CASE StockCrash
  BY <1>3 DEF StockCrash, LevelInv
<1>4. CASE Untouched
  <2>1. UNCHANGED <<orders, filled, exitPlan, engineRun, stockCut>> /\ OrderIds' = OrderIds
    BY <1>4 DEF Untouched, OrderIds
  <2>2. /\ \A i : (Prompt(i)' <=> Prompt(i)) /\ (Taken(i)' <=> Taken(i))
        /\ \A i : (InHand(i)' <=> InHand(i)) /\ (FilledFirst(i)' <=> FilledFirst(i))
        /\ \A i, j : (SameLevel(i, j)' <=> SameLevel(i, j))
                  /\ (BoughtBetween(i, j)' <=> BoughtBetween(i, j))
    BY <2>1 DEF Prompt, Taken, BoughtAfter, InHand, FilledFirst, SameLevel, BoughtBetween
  <2>3. OrderIds' = OrderIds /\ filled' = filled /\ orders' = orders /\ stockCut' = stockCut
    BY <2>1
  <2> QED
    BY <2>2, <2>3, Zenon DEF LevelInv, Active
<1> QED
  BY <1>1, <1>2, <1>3, <1>4, StepCases

(* With one run at a time, and until a run dies between two of its         *)
(* transactions, a level of the take-profit ladder is sold once for each   *)
(* entry, unless its sale had to wait (record_realized_level,              *)
(* evaluate_stock_exit).                                                   *)
THEOREM LevelsAreSoldOnce == ASSUME Alone PROVE StockSpec => []LevelSoldOnce
<1>1. TypeInv /\ HandsInv /\ SalesInv /\ LevelInv /\ [StockNext]_stockVars => LevelInv'
  BY LevelNext
<1>2. TypeInv /\ LevelInv => LevelSoldOnce
  <2> SUFFICES ASSUME TypeInv, LevelInv, ~stockCut, NEW i \in OrderIds, NEW j \in OrderIds,
                      i < j, filled[i] > 0, orders[i].side = "sell", orders[j].side = "sell",
                      orders[i].symbol = orders[j].symbol,
                      orders[i].level = orders[j].level, orders[i].level > 0,
                      \A k \in (i + 1)..(j - 1) :
                        ~(orders[k].side = "buy" /\ orders[k].symbol = orders[i].symbol),
                      ~orders[i].late
               PROVE  FALSE
    BY DEF LevelSoldOnce
  <2>1. BoughtBetween(i, j)
    BY DEF LevelInv, Prompt, SameLevel
  <2>2. PICK k \in OrderIds :
          i < k /\ k < j /\ orders[k].side = "buy" /\ orders[k].symbol = orders[i].symbol
    BY <2>1 DEF BoughtBetween
  <2>3. k \in (i + 1)..(j - 1)
    <3>1. i \in Nat /\ j \in Nat /\ k \in Nat
      BY OrdersType
    <3> QED
      BY <2>2, <3>1
  <2> QED
    BY <2>2, <2>3
<1> QED
  BY <1>1, <1>2, LevelStart, Typed, Handy, Sales, PTL DEF StockSpec

-----------------------------------------------------------------------------
(* The ledger, step by step.                                               *)

(* An entry is filled for what it asked, counting the fill in hand.        *)
FillsFit ==
  \A i \in OrderIds : orders[i].side = "buy" =>
    /\ filled[i] + orders[i].left <= Quantity
    /\ \A r \in StockRuns : engineRun[r].pc = "fill" /\ engineRun[r].order = i
         => (filled[i] + orders[i].left) + engineRun[r].fill <= Quantity

LEMMA FillsStart == StockInit => FillsFit
<1> SUFFICES ASSUME StockInit PROVE FillsFit
  OBVIOUS
<1>1. OrderIds = {}
  BY DEF StockInit, OrderIds
<1> QED
  BY <1>1 DEF FillsFit

LEMMA FillsNext ==
  ASSUME Alone, TypeInv, HandsInv, FillsFit, [StockNext]_stockVars
  PROVE  FillsFit'
<1>a. Len(orders) \in Nat /\ Len(orders) + 1 \notin OrderIds /\ Quantity \in Nat
  BY OrdersType, AccountAssumption DEF OrderIds
<1>b. \A j \in OrderIds : orders[j].left \in Nat /\ filled[j] \in Nat
  BY OrdersType DEF OrderType
<1>1. ASSUME NEW r \in StockRuns, StockAct(r)
      PROVE  FillsFit'
  <2> DEFINE old == engineRun[r]
             new == engineRun'[r]
  <2>a. /\ \A q \in StockRuns : q = r
        /\ \A i \in OrderIds : orders[i].side = "buy" =>
             /\ filled[i] + orders[i].left <= Quantity
             /\ old.pc = "fill" /\ old.order = i
                  => (filled[i] + orders[i].left) + old.fill <= Quantity
    BY DEF Alone, FillsFit
  <2> DEFINE Fit(i) == orders'[i].side = "buy" =>
                         /\ filled'[i] + orders'[i].left <= Quantity
                         /\ new.pc = "fill" /\ new.order = i
                              => (filled'[i] + orders'[i].left) + new.fill <= Quantity
  <2>b. (\A i \in OrderIds' : Fit(i)) => FillsFit'
    BY <2>a DEF FillsFit
  <2>1. CASE Quiet(r)
    BY <2>1, <2>a, <2>b DEF Quiet, OrderIds
  <2>2. ASSUME NEW i, NEW o, NEW u \in OrderType, NEW n \in Nat, Ordered(r, i, o, u, n),
               o.side = "buy" =>
                 /\ o.left \in Nat
                 /\ \/ i \in OrderIds /\ o = orders[i]
                    \/ i \notin OrderIds /\ o.left = Quantity
        PROVE  FillsFit'
    <3>1. /\ OrderIds' = OrderIds \cup {i} /\ orders'[i] = u
          /\ \A j \in OrderIds \ {i} : orders'[j] = orders[j]
          /\ \A j \in OrderIds : filled'[j] = filled[j]
          /\ i \notin OrderIds => filled'[i] = 0
          /\ n \in 0..o.left /\ u.side = o.side /\ u.left = o.left - n
          /\ new.pc = "fill" => new.order = i /\ new.fill = n
      BY <2>2 DEF Ordered, Booked, Handled, Phases
    <3>2. \A j \in OrderIds \ {i} : Fit(j)
      BY <2>a, <3>1
    <3>3. Fit(i)
      <4> SUFFICES ASSUME u.side = "buy"
                   PROVE  /\ filled'[i] + u.left <= Quantity
                          /\ (filled'[i] + u.left) + n <= Quantity
        BY <3>1
      <4>1. filled'[i] \in Nat /\ o.left \in Nat /\ filled'[i] + o.left <= Quantity
        BY <1>a, <1>b, <2>2, <2>a, <3>1
      <4>2. u.left = o.left - n /\ n \in 0..o.left
        BY <3>1
      <4> QED
        BY <1>a, <4>1, <4>2
    <3> QED
      BY <2>b, <3>1, <3>2, <3>3
  <2>3. ASSUME NEW w \in old.waiting, NEW u \in OrderType, NEW n \in Nat, Resent(r, w, u, n)
        PROVE  FillsFit'
    <3> DEFINE i == w.id
               o == w.order
    <3>1. i \in OrderIds /\ o = orders[i] /\ Ordered(r, i, o, u, n)
      BY <2>3 DEF HandsInv, CopiesCurrent, Resent
    <3> HIDE DEF i, o
    <3> QED
      BY <1>b, <2>2, <3>1
  <2>4. ASSUME NEW row, NEW l, NEW o, NEW u \in OrderType, NEW n \in Nat, Sold(r, row, l, o, u, n)
        PROVE  FillsFit'
    <3>1. PICK i : i = Len(orders) + 1
      OBVIOUS
    <3>2. Ordered(r, i, o, u, n) /\ o.side = "sell"
      BY <2>4, <3>1 DEF Sold, Exit
    <3> QED
      BY <2>2, <3>2
  <2>5. ASSUME NEW s, NEW o, NEW u \in OrderType, NEW n \in Nat, Bought(r, s, o, u, n)
        PROVE  FillsFit'
    <3>1. PICK i : i = Len(orders) + 1
      OBVIOUS
    <3>2. Ordered(r, i, o, u, n) /\ o.left = Quantity /\ i \notin OrderIds
      BY <1>a, <2>5, <3>1 DEF Bought, Entry
    <3> QED
      BY <1>a, <2>2, <3>2
  <2>6. CASE SaveFill(r)
    <3>a. PICK i, n : i = old.order /\ n = old.fill
      OBVIOUS
    <3>1. /\ n \in Nat /\ i \in OrderIds /\ filled'[i] = filled[i] + n
          /\ \A j \in OrderIds \ {i} : filled'[j] = filled[j]
          /\ UNCHANGED orders /\ OrderIds' = OrderIds /\ old.pc = "fill"
      BY <2>6, <3>a, SaveFillTypes DEF SaveFill, OrderIds
    <3>2. new.pc # "fill"
      BY <1>1, <2>6, StockMoves DEF StockEffect
    <3>3. Fit(i)
      <4>1. filled[i] \in Nat /\ orders[i].left \in Nat
        BY <1>b, <3>1
      <4>2. orders[i].side = "buy" => (filled[i] + orders[i].left) + n <= Quantity
        BY <2>a, <3>1, <3>a
      <4> QED
        BY <1>a, <3>1, <3>2, <4>1, <4>2
    <3> QED
      BY <2>a, <2>b, <3>1, <3>2, <3>3
  <2>7. CASE Follow(r)
    <3>1. new.pc # "fill"
      BY <1>1, <2>7, StockMoves DEF StockEffect, TypeInv, RunType, Phases
    <3>2. UNCHANGED <<orders, filled>> /\ OrderIds' = OrderIds
      BY <2>7 DEF Follow, OrderIds
    <3> QED
      BY <2>a, <2>b, <3>1, <3>2
  <2> QED
    BY <1>1, <2>1, <2>3, <2>4, <2>5, <2>6, <2>7, StepsOfRun
<1>2. CASE StockCrash
  <2>1. /\ \A r \in StockRuns : engineRun'[r] = IdleRun
        /\ UNCHANGED <<orders, filled>> /\ OrderIds' = OrderIds
    BY <1>2 DEF StockCrash, OrderIds
  <2> QED
    BY <2>1, IdleRunType DEF FillsFit
<1>3. CASE Untouched
  BY <1>3 DEF Untouched, FillsFit, OrderIds
<1> QED
  BY <1>1, <1>2, <1>3, StepCases

(* With one run at a time no entry is ever filled beyond its quantity,     *)
(* however often what is left of it is resent (place, save_order).         *)
THEOREM EntriesAreNotOverfilled ==
  ASSUME Alone
  PROVE  StockSpec => [](\A i \in OrderIds :
                           orders[i].side = "buy" => filled[i] + orders[i].left <= Quantity)
<1>1. TypeInv /\ HandsInv /\ FillsFit /\ [StockNext]_stockVars => FillsFit'
  BY FillsNext
<1>2. FillsFit => \A i \in OrderIds :
                    orders[i].side = "buy" => filled[i] + orders[i].left <= Quantity
  BY DEF FillsFit
<1> QED
  BY <1>1, <1>2, FillsStart, Typed, Handy, PTL DEF StockSpec

(* A fill that is saved moves the position by what was filled and no more: *)
(* the order's sum grows by it, a purchase adds it, a sale takes it from a *)
(* position that has it.  No other step moves a position or a sum; an      *)
(* order keeps its side and symbol, and begins with nothing filled.        *)
FillMoves(r) ==
  LET i == engineRun[r].order
      o == orders[i]
      n == engineRun[r].fill
  IN /\ filled'[i] = filled[i] + n
     /\ \A j \in OrderIds \ {i} : filled'[j] = filled[j]
     /\ o.side = "buy" => shares'[o.symbol] = shares[o.symbol] + n
     /\ o.side = "sell" => shares[o.symbol] = shares'[o.symbol] + n
     /\ \A s \in Symbols \ {o.symbol} : shares'[s] = shares[s]
     /\ UNCHANGED orders

SumsKept ==
  /\ UNCHANGED shares /\ OrderIds \subseteq OrderIds'
  /\ \A i \in OrderIds : /\ filled'[i] = filled[i]
                          /\ orders'[i].side = orders[i].side
                          /\ orders'[i].symbol = orders[i].symbol
  /\ \A i \in OrderIds' \ OrderIds : filled'[i] = 0

FillsMovePositions ==
  /\ \A r \in StockRuns : SaveFill(r) => FillMoves(r)
  /\ SumsKept \/ \E r \in StockRuns : SaveFill(r)

LEMMA SavedFillMoves ==
  ASSUME TypeInv, SalesInv, NEW r \in StockRuns, SaveFill(r)
  PROVE  FillMoves(r)
<1>a. PICK i, o, n : i = engineRun[r].order /\ o = orders[i] /\ n = engineRun[r].fill
  OBVIOUS
<1>1. /\ i \in OrderIds /\ n \in Nat /\ o \in OrderType /\ engineRun[r].pc = "fill"
      /\ filled'[i] = filled[i] + n
      /\ \A j \in OrderIds \ {i} : filled'[j] = filled[j]
      /\ shares'[o.symbol] = AfterFill(o.side, shares[o.symbol], n)
      /\ \A s \in Symbols \ {o.symbol} : shares'[s] = shares[s]
      /\ UNCHANGED orders
  BY <1>a, SaveFillTypes DEF SaveFill
<1>2. shares[o.symbol] \in Nat /\ o.left \in Nat
  BY <1>1 DEF TypeInv, OrderType
<1>3. o.side = "buy" => shares'[o.symbol] = shares[o.symbol] + n
  BY <1>1 DEF AfterFill
<1>4. o.side = "sell" => shares[o.symbol] = shares'[o.symbol] + n
  <2> SUFFICES ASSUME o.side = "sell" PROVE shares[o.symbol] = shares'[o.symbol] + n
    OBVIOUS
  <2>1. o.left + n <= shares[o.symbol]
    BY <1>1, <1>a DEF SalesInv, LiveSale, InHand, Covered
  <2>2. shares'[o.symbol] = Minus(shares[o.symbol], n)
    BY <1>1 DEF AfterFill
  <2> QED
    BY <1>1, <1>2, <2>1, <2>2 DEF Minus
<1> QED
  BY <1>a, <1>1, <1>3, <1>4 DEF FillMoves

LEMMA OthersKeepSums ==
  ASSUME TypeInv, HandsInv, StockNext
  PROVE  SumsKept \/ \E r \in StockRuns : SaveFill(r)
<1>a. Len(orders) + 1 \notin OrderIds
  BY OrdersType DEF OrderIds
<1>b. ASSUME UNCHANGED <<orders, filled, shares>> PROVE SumsKept
  <2>1. OrderIds' = OrderIds
    BY <1>b DEF OrderIds
  <2> QED
    BY <1>b, <2>1 DEF SumsKept
<1>c. ASSUME NEW r \in StockRuns, NEW i, NEW o, NEW u \in OrderType, NEW n,
             Ordered(r, i, o, u, n), i \in OrderIds => o = orders[i]
      PROVE  SumsKept
  BY <1>c DEF Ordered, Booked, Handled, Books, SumsKept
<1>1. ASSUME NEW r \in StockRuns, StockAct(r) PROVE SumsKept \/ SaveFill(r)
  <2>1. CASE Quiet(r)
    BY <2>1, <1>b DEF Quiet, Books
  <2>2. ASSUME NEW w \in engineRun[r].waiting, NEW u \in OrderType, NEW n \in Nat,
               Resent(r, w, u, n)
        PROVE  SumsKept
    (* The copy that is sent again is the order as it is.                  *)
    <3>1. w.order = orders[w.id] /\ Ordered(r, w.id, w.order, u, n)
      BY <2>2 DEF HandsInv, CopiesCurrent, Resent
    <3> QED
      BY <1>c, <3>1
  <2>3. ASSUME NEW row, NEW l, NEW o, NEW u \in OrderType, NEW n \in Nat,
               Sold(r, row, l, o, u, n)
        PROVE  SumsKept
    <3>1. PICK i : i = Len(orders) + 1
      OBVIOUS
    <3> QED
      BY <1>a, <1>c, <2>3, <3>1 DEF Sold
  <2>4. ASSUME NEW s, NEW o, NEW u \in OrderType, NEW n \in Nat, Bought(r, s, o, u, n)
        PROVE  SumsKept
    <3>1. PICK i : i = Len(orders) + 1
      OBVIOUS
    <3> QED
      BY <1>a, <1>c, <2>4, <3>1 DEF Bought
  <2>5. CASE Follow(r)
    BY <2>5, <1>b DEF Follow
  <2> QED
    BY <1>1, <2>1, <2>2, <2>3, <2>4, <2>5, StepsOfRun
<1>2. CASE StockCrash \/ Untouched
  BY <1>2, <1>b DEF StockCrash, Untouched
<1> QED
  BY <1>1, <1>2, StepCases

(* With one run at a time each fill moves the position by exactly its      *)
(* shares, and nothing else moves it: nothing is sold that is not there,   *)
(* the clamp of save_fill is never needed, and bought less sold stays what *)
(* is held (save_fill, PaperBroker.place).                                 *)
THEOREM EachFillIsBooked == ASSUME Alone PROVE StockSpec => [][FillsMovePositions]_stockVars
<1>1. TypeInv /\ HandsInv /\ SalesInv /\ [StockNext]_stockVars
        => [FillsMovePositions]_stockVars
  BY SavedFillMoves, OthersKeepSums DEF FillsMovePositions
<1> QED
  BY <1>1, Typed, Handy, Sales, PTL DEF StockSpec
-----------------------------------------------------------------------------
(* Among numbers there is a least: what stands for induction below.        *)
LEMMA LeastNumber ==
  ASSUME NEW T \in SUBSET Nat, T # {}
  PROVE  \E n \in T : \A m \in T : n <= m
<1>1. \A m, n \in Nat : m < n => <<m, n>> \in OpToRel(<, Nat)
  BY Zenon DEF OpToRel
<1>2. PICK R : IsWellFoundedOn(R, Nat) /\ \A m, n \in Nat : m < n => <<m, n>> \in R
  BY <1>1, NatLessThanWellFounded, Zenon
<1>3. \E n \in T : \A m \in T : ~ (<<m, n>> \in R)
  <2>1. IsWellFoundedOn(R, Nat) /\ T \subseteq Nat /\ T # {}
    BY <1>2
  <2> QED
    BY <2>1, WFMin, Zenon
<1>4. PICK n \in T : \A m \in T : ~ (<<m, n>> \in R)
  BY <1>3
<1>5. ASSUME NEW m \in T PROVE n <= m
  <2>1. m \in Nat /\ n \in Nat /\ ~ (m < n)
    BY <1>2, <1>4, Zenon
  <2> QED
    BY <2>1
<1> QED
  BY <1>5

(* A sum of numbers, as the number of its units.                           *)
SumOver(f, S) == MapThenSumSet(LAMBDA i : f[i], S)
Units(f, S)   == UNION {{i} \X (1..f[i]) : i \in S}

LEMMA UnitsOfOne ==
  ASSUME NEW i, NEW k \in Nat
  PROVE  IsFiniteSet({i} \X (1..k)) /\ Cardinality({i} \X (1..k)) = k
<1>1. IsFiniteSet(1..k) /\ Cardinality(1..k) = k
  BY FS_Interval
<1>2. IsFiniteSet({i}) /\ Cardinality({i}) = 1
  BY FS_Singleton
<1> QED
  BY <1>1, <1>2, FS_Product

LEMMA UnitsFinite ==
  ASSUME NEW S, IsFiniteSet(S), NEW f, \A i \in S : f[i] \in Nat
  PROVE  IsFiniteSet(Units(f, S))
<1> DEFINE rows == {{i} \X (1..f[i]) : i \in S}
           row  == [i \in S |-> {i} \X (1..f[i])]
<1>1. IsFiniteSet(rows)
  <2>1. row \in [S -> rows] /\ \A t \in rows : \E i \in S : row[i] = t
    OBVIOUS
  <2> HIDE DEF row, rows
  <2> QED
    BY <2>1, FS_Surjection DEF Surjection
<1>2. ASSUME NEW t \in rows PROVE IsFiniteSet(t)
  <2>1. PICK i \in S : t = {i} \X (1..f[i])
    OBVIOUS
  <2>2. f[i] \in Nat
    OBVIOUS
  <2> QED
    BY <2>1, <2>2, UnitsOfOne
<1> QED
  BY <1>1, <1>2, FS_UNION DEF Units

LEMMA UnitsApart ==
  ASSUME NEW S, IsFiniteSet(S), NEW f, \A i \in S : f[i] \in Nat, NEW x \in S
  PROVE  Cardinality(Units(f, S)) = f[x] + Cardinality(Units(f, S \ {x}))
<1>1. Units(f, S) = ({x} \X (1..f[x])) \cup Units(f, S \ {x})
  BY DEF Units
<1>2. ({x} \X (1..f[x])) \cap Units(f, S \ {x}) = {}
  BY DEF Units
<1>3. IsFiniteSet(S \ {x})
  BY FS_RemoveElement
<1>4. IsFiniteSet(Units(f, S \ {x}))
  BY <1>3, UnitsFinite
<1>5. IsFiniteSet({x} \X (1..f[x])) /\ Cardinality({x} \X (1..f[x])) = f[x]
  BY UnitsOfOne
<1>6. Cardinality({}) = 0
  BY FS_EmptySet
<1>7. Cardinality(Units(f, S \ {x})) \in Nat
  BY <1>4, FS_CardinalityType
<1> QED
  <2> DEFINE A == {x} \X (1..f[x])
             B == Units(f, S \ {x})
  <2>1. Units(f, S) = A \cup B /\ A \cap B = {} /\ IsFiniteSet(A) /\ IsFiniteSet(B)
    BY <1>1, <1>2, <1>4, <1>5
  <2>2. Cardinality(A) = f[x] /\ Cardinality(B) \in Nat /\ f[x] \in Nat
    BY <1>5, <1>7
  <2> HIDE DEF A, B
  <2>3. Cardinality(A \cup B) = Cardinality(A) + Cardinality(B) - Cardinality(A \cap B)
    BY <2>1, FS_Union
  <2>4. Cardinality(A \cap B) = 0
    BY <2>1, <1>6
  <2> QED
    BY <2>1, <2>2, <2>3, <2>4 DEF B

LEMMA SumCountsUnits ==
  ASSUME NEW S, IsFiniteSet(S), NEW f, \A i \in S : f[i] \in Nat
  PROVE  SumOver(f, S) = Cardinality(Units(f, S))
<1> DEFINE Step(g) ==
      [T \in SUBSET S |->
         IF T = {} THEN 0 ELSE LET x == CHOOSE x \in T : TRUE IN f[x] + g[T \ {x}]]
           count == [T \in SUBSET S |-> Cardinality(Units(f, T))]
           sum   == CHOOSE g : g = Step(g)
<1>1. \A T \in SUBSET S : IsFiniteSet(T) /\ Cardinality(T) \in Nat
  BY FS_Subset, FS_CardinalityType
<1>2. Cardinality(Units(f, {})) = 0
  BY FS_EmptySet DEF Units
<1>3. ASSUME NEW T \in SUBSET S, T # {}
      PROVE  Cardinality(Units(f, T))
               = LET x == CHOOSE x \in T : TRUE IN f[x] + Cardinality(Units(f, T \ {x}))
  <2>1. PICK x : x = CHOOSE y \in T : TRUE
    OBVIOUS
  <2>2. x \in T /\ IsFiniteSet(T) /\ \A i \in T : f[i] \in Nat
    BY <1>1, <1>3, <2>1
  <2>3. Cardinality(Units(f, T)) = f[x] + Cardinality(Units(f, T \ {x}))
    BY <2>2, UnitsApart
  <2> QED
    BY <2>1, <2>3
<1>4. count = Step(count)
  BY <1>2, <1>3
<1>5. sum = Step(sum)
  <2> HIDE DEF Step, count
  <2> QED
    BY <1>4
<1>6. sum[S] = SumOver(f, S)
  BY DEF SumOver, MapThenSumSet, MapThenFoldSet
<1> HIDE DEF sum
<1>7. \A T \in SUBSET S : sum[T] = Cardinality(Units(f, T))
  <2> DEFINE bad == {T \in SUBSET S : sum[T] # Cardinality(Units(f, T))}
             sizes == {n \in Nat : \E T \in bad : Cardinality(T) = n}
  <2> SUFFICES ASSUME bad # {} PROVE FALSE
    OBVIOUS
  <2>1. sizes \in SUBSET Nat /\ sizes # {}
    BY <1>1
  <2>2. PICK n \in sizes : \A m \in sizes : n <= m
    BY <2>1, LeastNumber
  <2>3. PICK T \in bad : Cardinality(T) = n
    OBVIOUS
  <2>4. T # {}
    BY <1>2, <1>5
  <2>5. PICK x : x = CHOOSE y \in T : TRUE
    OBVIOUS
  <2>6. x \in T
    BY <2>4, <2>5
  <2>7. T \ {x} \in SUBSET S /\ Cardinality(T \ {x}) = n - 1
    BY <1>1, <2>3, <2>6, FS_RemoveElement
  <2>8. T \ {x} \notin bad
    BY <2>2, <2>7, <1>1
  <2>9. sum[T] = f[x] + sum[T \ {x}]
    BY <1>5, <2>4, <2>5
  <2>10. Cardinality(Units(f, T)) = f[x] + Cardinality(Units(f, T \ {x}))
    BY <1>3, <2>4, <2>5
  <2> QED
    BY <2>3, <2>7, <2>8, <2>9, <2>10
<1> QED
  BY <1>6, <1>7

(* A sum depends on the units only, and has one term for each member.      *)
LEMMA SameUnitsSameSum ==
  ASSUME NEW S, IsFiniteSet(S), NEW f, \A i \in S : f[i] \in Nat,
         NEW T, IsFiniteSet(T), NEW g, \A i \in T : g[i] \in Nat,
         \A i \in S \cap T : f[i] = g[i],
         \A i \in S \ T : f[i] = 0, \A i \in T \ S : g[i] = 0
  PROVE  SumOver(f, S) = SumOver(g, T)
<1>1. Units(f, S) = Units(g, T)
  <2>1. ASSUME NEW u \in Units(f, S) PROVE u \in Units(g, T)
    BY <2>1 DEF Units
  <2>2. ASSUME NEW u \in Units(g, T) PROVE u \in Units(f, S)
    BY <2>2 DEF Units
  <2> QED
    BY <2>1, <2>2
<1> QED
  BY <1>1, SumCountsUnits

LEMMA SumSplits ==
  ASSUME NEW S, IsFiniteSet(S), NEW f, \A i \in S : f[i] \in Nat, NEW x \in S
  PROVE  SumOver(f, S) = f[x] + SumOver(f, S \ {x}) /\ SumOver(f, S \ {x}) \in Nat
<1>1. IsFiniteSet(S \ {x})
  BY FS_RemoveElement
<1>2. SumOver(f, S \ {x}) = Cardinality(Units(f, S \ {x}))
  BY <1>1, SumCountsUnits
<1>3. Cardinality(Units(f, S \ {x})) \in Nat
  BY <1>1, UnitsFinite, FS_CardinalityType
<1> QED
  BY <1>2, <1>3, SumCountsUnits, UnitsApart

LEMMA SumGrows ==
  ASSUME NEW S, IsFiniteSet(S), NEW x \in S, NEW n \in Nat,
         NEW f, \A i \in S : f[i] \in Nat,
         NEW g, g[x] = f[x] + n, \A i \in S \ {x} : g[i] = f[i]
  PROVE  SumOver(g, S) = SumOver(f, S) + n
<1>1. IsFiniteSet(S \ {x}) /\ \A i \in S : g[i] \in Nat
  BY FS_RemoveElement
<1>2. SumOver(f, S \ {x}) = SumOver(g, S \ {x})
  BY <1>1, SameUnitsSameSum
<1>3. SumOver(f, S) = f[x] + SumOver(f, S \ {x}) /\ SumOver(f, S \ {x}) \in Nat
  BY SumSplits
<1>4. SumOver(g, S) = g[x] + SumOver(g, S \ {x})
  BY <1>1, SumSplits
<1>5. f[x] \in Nat
  OBVIOUS
<1> QED
  BY <1>2, <1>3, <1>4, <1>5

-----------------------------------------------------------------------------
(* The orders of a symbol and a side, whose fills are summed.              *)
FillIds(s, side) == {i \in OrderIds : orders[i].symbol = s /\ orders[i].side = side}

BooksBalance ==
  \A s \in Symbols : FilledOn(s, "buy") = shares[s] + FilledOn(s, "sell")

FilledIsSum == \A s, side : FilledOn(s, side) = SumOver(filled, FillIds(s, side))

LEMMA FilledIsSumNow == FilledIsSum
BY DEF FilledIsSum, FilledOn, SumOver, FillIds

LEMMA FilledIsSumThen == \A s, side : FilledOn(s, side)' = SumOver(filled', FillIds(s, side)')
<1>1. FilledIsSum'
  BY FilledIsSumNow, PTL
<1> QED
  BY <1>1 DEF FilledIsSum

LEMMA FilledOnSums ==
  ASSUME TypeInv, NEW s, NEW side
  PROVE  /\ FilledOn(s, side) = SumOver(filled, FillIds(s, side))
         /\ IsFiniteSet(FillIds(s, side)) /\ \A i \in FillIds(s, side) : filled[i] \in Nat
         /\ FilledOn(s, side) \in Nat
<1>1. FilledOn(s, side) = SumOver(filled, FillIds(s, side))
  BY FilledIsSumNow DEF FilledIsSum
<1>2. IsFiniteSet(OrderIds)
  BY OrdersType, FS_Interval DEF OrderIds
<1>3. IsFiniteSet(FillIds(s, side)) /\ \A i \in FillIds(s, side) : filled[i] \in Nat
  BY <1>2, OrdersType, FS_Subset DEF FillIds
<1> QED
  BY <1>1, <1>3, SumCountsUnits, UnitsFinite, FS_CardinalityType

LEMMA BalanceStart == StockInit => BooksBalance
<1> SUFFICES ASSUME StockInit, NEW s \in Symbols
             PROVE  FilledOn(s, "buy") = shares[s] + FilledOn(s, "sell")
  BY DEF BooksBalance
<1>1. TypeInv /\ OrderIds = {} /\ shares[s] = 0
  BY TypeStart DEF StockInit, OrderIds
<1>2. FillIds(s, "buy") = {} /\ FillIds(s, "sell") = {}
  BY <1>1 DEF FillIds
<1>3. FilledOn(s, "buy") = FilledOn(s, "sell") /\ FilledOn(s, "buy") \in Nat
  BY <1>1, <1>2, FilledOnSums
<1> QED
  BY <1>1, <1>3

(* A saved fill adds to the sum of its order's symbol and side only.       *)
LEMMA FillKeepsBalance ==
  ASSUME TypeInv, TypeInv', SalesInv, BooksBalance, NEW r \in StockRuns, SaveFill(r)
  PROVE  BooksBalance'
<1>a. PICK i, o, n : i = engineRun[r].order /\ o = orders[i] /\ n = engineRun[r].fill
  OBVIOUS
<1>1. /\ i \in OrderIds /\ n \in Nat /\ o \in OrderType
      /\ filled'[i] = filled[i] + n
      /\ \A j \in OrderIds \ {i} : filled'[j] = filled[j]
      /\ o.side = "buy" => shares'[o.symbol] = shares[o.symbol] + n
      /\ o.side = "sell" => shares[o.symbol] = shares'[o.symbol] + n
      /\ \A s \in Symbols \ {o.symbol} : shares'[s] = shares[s]
      /\ UNCHANGED orders
  BY <1>a, SaveFillTypes, SavedFillMoves DEF FillMoves
<1>2. \A s, side : FillIds(s, side)' = FillIds(s, side)
  BY <1>1 DEF FillIds, OrderIds
<1>3. ASSUME NEW s, NEW side PROVE
        /\ FilledOn(s, side)' = SumOver(filled', FillIds(s, side))
        /\ FilledOn(s, side) = SumOver(filled, FillIds(s, side))
        /\ IsFiniteSet(FillIds(s, side)) /\ \A j \in FillIds(s, side) : filled[j] \in Nat
        /\ \A j \in FillIds(s, side) : filled'[j] \in Nat
        /\ FilledOn(s, side) \in Nat
  <2>1. FilledOn(s, side)' = SumOver(filled', FillIds(s, side)')
    BY FilledIsSumThen
  <2>2. FilledOn(s, side)' = SumOver(filled', FillIds(s, side))
    BY <2>1, <1>2
  <2>3. \A j \in OrderIds : filled'[j] \in Nat
    BY <1>1, OrdersType
  <2>4. FillIds(s, side) \subseteq OrderIds
    BY DEF FillIds
  <2> QED
    BY <2>2, <2>3, <2>4, FilledOnSums
<1>4. FilledOn(o.symbol, o.side)' = FilledOn(o.symbol, o.side) + n
  <2>1. i \in FillIds(o.symbol, o.side)
    BY <1>a, <1>1 DEF FillIds
  <2>2. \A j \in FillIds(o.symbol, o.side) \ {i} : filled'[j] = filled[j]
    BY <1>1 DEF FillIds
  <2> QED
    BY <1>1, <1>3, <2>1, <2>2, SumGrows
<1>5. ASSUME NEW s, NEW side, s # o.symbol \/ side # o.side
      PROVE  FilledOn(s, side)' = FilledOn(s, side)
  <2>1. \A j \in FillIds(s, side) : filled'[j] = filled[j]
    BY <1>a, <1>1, <1>5 DEF FillIds
  <2> QED
    BY <1>3, <2>1, SameUnitsSameSum
<1>6. ASSUME NEW s \in Symbols PROVE FilledOn(s, "buy")' = shares'[s] + FilledOn(s, "sell")'
  <2>1. /\ shares[s] \in Nat /\ shares'[s] \in Nat /\ o.side \in {"buy", "sell"}
        /\ FilledOn(s, "buy") \in Nat /\ FilledOn(s, "sell") \in Nat
        /\ FilledOn(s, "buy") = shares[s] + FilledOn(s, "sell")
    BY <1>1, <1>3 DEF TypeInv, OrderType, BooksBalance
  <2>2. CASE s # o.symbol
    <3>1. /\ FilledOn(s, "buy")' = FilledOn(s, "buy")
          /\ FilledOn(s, "sell")' = FilledOn(s, "sell")
      BY <2>2, <1>5
    <3> QED
      BY <2>1, <2>2, <3>1, <1>1
  <2>3. CASE s = o.symbol /\ o.side = "buy"
    <3>1. /\ FilledOn(s, "buy")' = FilledOn(s, "buy") + n
          /\ FilledOn(s, "sell")' = FilledOn(s, "sell")
      BY <2>3, <1>4, <1>5
    <3>2. shares'[s] = shares[s] + n
      BY <2>3, <1>1
    <3> QED
      BY <1>1, <2>1, <3>1, <3>2
  <2>4. CASE s = o.symbol /\ o.side = "sell"
    <3>1. /\ FilledOn(s, "buy")' = FilledOn(s, "buy")
          /\ FilledOn(s, "sell")' = FilledOn(s, "sell") + n
      BY <2>4, <1>4, <1>5
    <3>2. shares[s] = shares'[s] + n
      BY <2>4, <1>1
    <3> QED
      BY <1>1, <2>1, <3>1, <3>2
  <2> QED
    BY <2>1, <2>2, <2>3, <2>4
<1> QED
  BY <1>6 DEF BooksBalance

(* Any other step adds orders of which nothing is filled, at most.         *)
LEMMA OthersKeepBalance ==
  ASSUME TypeInv, TypeInv', BooksBalance, SumsKept
  PROVE  BooksBalance'
<1>1. ASSUME NEW s \in Symbols, NEW side PROVE FilledOn(s, side)' = FilledOn(s, side)
  <2>1. /\ FilledOn(s, side) = SumOver(filled, FillIds(s, side))
        /\ IsFiniteSet(FillIds(s, side)) /\ \A j \in FillIds(s, side) : filled[j] \in Nat
    BY FilledOnSums
  <2>2. /\ FilledOn(s, side)' = SumOver(filled', FillIds(s, side)')
        /\ IsFiniteSet(FillIds(s, side)') /\ \A j \in FillIds(s, side)' : filled'[j] \in Nat
    <3>1. FilledOn(s, side)' = SumOver(filled', FillIds(s, side)')
      BY FilledIsSumThen
    <3>2. /\ Len(orders') \in Nat /\ OrderIds' = 1..Len(orders')
          /\ \A j \in OrderIds' : filled'[j] \in Nat
      BY DEF TypeInv, OrderIds
    <3>3. IsFiniteSet(OrderIds')
      BY <3>2, FS_Interval
    <3> QED
      BY <3>1, <3>2, <3>3, FS_Subset DEF FillIds
  <2>3. /\ FillIds(s, side) = FillIds(s, side)' \cap OrderIds
        /\ FillIds(s, side)' \subseteq OrderIds'
    BY DEF SumsKept, FillIds
  <2>4. /\ \A j \in FillIds(s, side) : filled'[j] = filled[j]
        /\ \A j \in FillIds(s, side)' \ FillIds(s, side) : filled'[j] = 0
    BY <2>3 DEF SumsKept
  <2>5. FillIds(s, side) \ FillIds(s, side)' = {}
    BY <2>3
  <2> QED
    BY <2>1, <2>2, <2>4, <2>5, SameUnitsSameSum
<1>2. shares' = shares
  BY DEF SumsKept
<1> QED
  BY <1>1, <1>2 DEF BooksBalance

LEMMA BalanceNext ==
  ASSUME TypeInv, HandsInv, SalesInv, BooksBalance, [StockNext]_stockVars, TypeInv'
  PROVE  BooksBalance'
<1>1. CASE UNCHANGED stockVars
  <2>1. SumsKept
    BY <1>1 DEF stockVars, SumsKept, OrderIds
  <2> QED
    BY <2>1, OthersKeepBalance
<1>2. CASE StockNext
  BY <1>2, OthersKeepSums, FillKeepsBalance, OthersKeepBalance
<1> QED
  BY <1>1, <1>2

(* The ledger agrees with itself: what was bought of a symbol, less what   *)
(* was sold of it, is the position, and no entry is filled beyond its      *)
(* quantity (place, save_order, save_fill).  The sum over the orders is    *)
(* compared term by term: a fill adds its shares to one term.              *)
THEOREM LedgerAgrees == ASSUME Alone PROVE StockSpec => []StockLedgerAgrees
<1>1. TypeInv /\ TypeInv' /\ HandsInv /\ SalesInv /\ BooksBalance /\ [StockNext]_stockVars
        => BooksBalance'
  BY BalanceNext
<1>2. BooksBalance
      /\ (\A i \in OrderIds : orders[i].side = "buy" => filled[i] + orders[i].left <= Quantity)
        => StockLedgerAgrees
  BY DEF BooksBalance, StockLedgerAgrees
<1> QED
  BY <1>1, <1>2, BalanceStart, EntriesAreNotOverfilled, Typed, Handy, Sales, PTL DEF StockSpec
=============================================================================
