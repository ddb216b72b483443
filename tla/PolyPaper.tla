------------------------------- MODULE PolyPaper -------------------------------
(***************************************************************************)
(* The paper account of prediction markets (run_poly_paper_engine).  A run *)
(* lists the open markets, settles what has been resolved, then estimates  *)
(* the listed markets and may take a position in each.  The settlement of  *)
(* a market is a chain of transactions: a resolution row and a score for   *)
(* each estimate, and at the end the payout of the position.  What the     *)
(* next run takes up again is decided by the resolution rows alone.        *)
(*                                                                         *)
(* The job and POST /run may run at the same time.  Prices are left out:   *)
(* which estimate is worth a position and whether the book fills its order *)
(* is chosen freely.                                                       *)
(***************************************************************************)
EXTENDS Naturals, FiniteSets

CONSTANTS
  PolyRuns,       \* who may run the engine: the job, a request
  Markets,        \* the prediction markets
  MaxOpenMarkets, \* max_open_markets
  MaxEstimates    \* bound: estimates ever made

VARIABLES
  final,       \* markets that are closed with a final price (at Polymarket)
  estimates,   \* poly_estimates: the market, by id
  resolutions, \* poly_resolutions: estimates that have a row
  scores,      \* estimates whose judgment was scored
  bets,        \* poly_positions.status, by market
  paid,        \* history: payouts, by market
  polyRun,     \* what each run is doing
  polyOverlap, \* history: two runs have overlapped
  polyCut      \* history: a run ended between two of its steps

polyVars == <<final, estimates, resolutions, scores, bets, paid,
              polyRun, polyOverlap, polyCut>>

IdlePoly == [pc |-> "idle", listed |-> {}, due |-> {}, market |-> "none",
             todo |-> {}, estimate |-> 0]

EstimateIds   == DOMAIN estimates
EstimatesOf(m) == {e \in EstimateIds : estimates[e] = m}
OpenBets      == {m \in Markets : bets[m] = "open"}

PolyInit ==
  /\ final = {}
  /\ estimates = <<>>
  /\ resolutions = {} /\ scores = {}
  /\ bets = [m \in Markets |-> "none"]
  /\ paid = [m \in Markets |-> 0]
  /\ polyRun = [r \in PolyRuns |-> IdlePoly]
  /\ polyOverlap = FALSE
  /\ polyCut = FALSE

Goes(r, next) == polyRun' = [polyRun EXCEPT ![r] = next]

(* Polymarket closes a market.                                             *)
MarketCloses(m) ==
  /\ m \notin final
  /\ final' = final \cup {m}
  /\ UNCHANGED <<estimates, resolutions, scores, bets, paid, polyRun,
                 polyOverlap, polyCut>>

-----------------------------------------------------------------------------
(* Mutant: a market is done with as soon as one of its estimates is.       *)
UnresolvedWhole ==
  {m \in Markets : EstimatesOf(m) # {} /\ EstimatesOf(m) \cap resolutions = {}}

(* unresolved_market_ids                                                   *)
Unresolved == {m \in Markets : ~(EstimatesOf(m) \subseteq resolutions)}

(* list_markets, of which any part may be within the limit, and, some      *)
(* awaits later, the markets to settle.                                    *)
PolyBegin(r) ==
  /\ polyRun[r].pc = "idle"
  /\ \E listed \in SUBSET (Markets \ final) :
       Goes(r, [IdlePoly EXCEPT !.pc = "list", !.listed = listed])
  /\ polyOverlap' = (polyOverlap \/ \E q \in PolyRuns \ {r} : polyRun[q].pc # "idle")
  /\ UNCHANGED <<final, estimates, resolutions, scores, bets, paid, polyCut>>

DueMarkets(r) ==
  /\ polyRun[r].pc = "list"
  /\ Goes(r, [polyRun[r] EXCEPT !.pc = "settle", !.due = Unresolved])
  /\ UNCHANGED <<final, estimates, resolutions, scores, bets, paid,
                 polyOverlap, polyCut>>

(* A market that cannot be fetched or is not final is left for later.      *)
SkipMarket(r) ==
  /\ polyRun[r].pc = "settle"
  /\ \E m \in polyRun[r].due : Goes(r, [polyRun[r] EXCEPT !.due = @ \ {m}])
  /\ UNCHANGED <<final, estimates, resolutions, scores, bets, paid,
                 polyOverlap, polyCut>>

(* settle_market takes the estimates that have no resolution yet ...       *)
SettleMarket(r) ==
  /\ polyRun[r].pc = "settle"
  /\ \E m \in polyRun[r].due \cap final :
       Goes(r, [polyRun[r] EXCEPT !.pc = "resolve", !.market = m, !.due = @ \ {m},
                                  !.todo = EstimatesOf(m) \ resolutions])
  /\ UNCHANGED <<final, estimates, resolutions, scores, bets, paid,
                 polyOverlap, polyCut>>

(* ... and writes for each a resolution, which another run may have        *)
(* written already ...                                                     *)
WriteResolution(r) ==
  /\ polyRun[r].pc = "resolve"
  /\ \E e \in polyRun[r].todo :
       /\ resolutions' = resolutions \cup {e}
       /\ Goes(r, [polyRun[r] EXCEPT !.pc = "score", !.estimate = e, !.todo = @ \ {e}])
  /\ UNCHANGED <<final, estimates, scores, bets, paid, polyOverlap, polyCut>>

(* ... then a score.                                                       *)
AddScore(r) ==
  /\ polyRun[r].pc = "score"
  /\ scores' = scores \cup {polyRun[r].estimate}
  /\ Goes(r, [polyRun[r] EXCEPT !.pc = "resolve", !.estimate = 0])
  /\ UNCHANGED <<final, estimates, resolutions, bets, paid, polyOverlap, polyCut>>

(* Mutant: the status of the position is not looked at.                    *)
PayableAny(m) == bets[m] # "none"

Payable(m) == bets[m] = "open"

(* _settle_position reads the open position of the market ...              *)
ReadPosition(r) ==
  /\ polyRun[r].pc = "resolve" /\ polyRun[r].todo = {}
  /\ Goes(r, [polyRun[r] EXCEPT !.pc = IF Payable(polyRun[r].market) THEN "pay" ELSE "settle"])
  /\ UNCHANGED <<final, estimates, resolutions, scores, bets, paid,
                 polyOverlap, polyCut>>

(* ... and resolves and pays it, without looking at the status again.      *)
PayOut(r) ==
  LET m == polyRun[r].market IN
  /\ polyRun[r].pc = "pay"
  /\ bets' = [bets EXCEPT ![m] = "resolved"]
  /\ paid' = [paid EXCEPT ![m] = @ + 1]
  /\ Goes(r, [polyRun[r] EXCEPT !.pc = "settle"])
  /\ UNCHANGED <<final, estimates, resolutions, scores, polyOverlap, polyCut>>

-----------------------------------------------------------------------------
PolyObserve(r) ==
  /\ polyRun[r].pc = "settle" /\ polyRun[r].due = {}
  /\ Goes(r, [polyRun[r] EXCEPT !.pc = "observe", !.market = "none"])
  /\ UNCHANGED <<final, estimates, resolutions, scores, bets, paid,
                 polyOverlap, polyCut>>

(* save_estimate, of a listed market that is due, and whether the estimate *)
(* is worth an order.  The listing may be old: the market may have been    *)
(* settled by this very run.                                               *)
SaveEstimate(r) ==
  /\ polyRun[r].pc = "observe"
  /\ Cardinality(EstimateIds) < MaxEstimates
  /\ \E m \in polyRun[r].listed, pc \in {"order", "observe"} :
       LET e == Cardinality(EstimateIds) + 1 IN
       /\ estimates' = [i \in EstimateIds \cup {e} |-> IF i = e THEN m ELSE estimates[i]]
       /\ Goes(r, [polyRun[r] EXCEPT !.listed = @ \ {m}, !.pc = pc,
                                      !.market = IF pc = "order" THEN m ELSE "none"])
  /\ UNCHANGED <<final, resolutions, scores, bets, paid, polyOverlap, polyCut>>

(* A market that already has an open position, or no room: no order.       *)
NoCapacity(r) ==
  /\ polyRun[r].pc = "order"
  /\ bets[polyRun[r].market] = "open" \/ Cardinality(OpenBets) >= MaxOpenMarkets
  /\ Goes(r, [polyRun[r] EXCEPT !.pc = "observe", !.market = "none"])
  /\ UNCHANGED <<final, estimates, resolutions, scores, bets, paid,
                 polyOverlap, polyCut>>

(* save_execution: the order, and if the book filled it the position.  The *)
(* key of a position is its market: a market that has had one makes the    *)
(* transaction fail and the run with it.                                   *)
SaveExecution(r) ==
  LET m == polyRun[r].market IN
  /\ polyRun[r].pc = "order"
  /\ bets[m] # "open" /\ Cardinality(OpenBets) < MaxOpenMarkets
  /\ \/ /\ \/ bets' = bets
           \/ bets[m] = "none" /\ bets' = [bets EXCEPT ![m] = "open"]
        /\ Goes(r, [polyRun[r] EXCEPT !.pc = "observe", !.market = "none"])
     \/ /\ bets[m] = "resolved"
        /\ Goes(r, IdlePoly)
        /\ UNCHANGED bets
  /\ UNCHANGED <<final, estimates, resolutions, scores, paid, polyOverlap, polyCut>>

(* The rest of the listed markets is not due.                              *)
PolyEnd(r) ==
  /\ polyRun[r].pc = "observe"
  /\ Goes(r, IdlePoly)
  /\ UNCHANGED <<final, estimates, resolutions, scores, bets, paid,
                 polyOverlap, polyCut>>

(* A run ends where it stands: the process dies, a write fails.            *)
PolyDies(r) ==
  /\ ~polyCut /\ polyRun[r].pc \in {"resolve", "score", "pay", "order"}
  /\ Goes(r, IdlePoly)
  /\ polyCut' = TRUE
  /\ UNCHANGED <<final, estimates, resolutions, scores, bets, paid, polyOverlap>>

PolyStep(r) ==
  \/ DueMarkets(r) \/ SkipMarket(r) \/ SettleMarket(r) \/ WriteResolution(r)
  \/ AddScore(r) \/ ReadPosition(r) \/ PayOut(r) \/ PolyObserve(r)
  \/ SaveEstimate(r) \/ NoCapacity(r) \/ SaveExecution(r) \/ PolyEnd(r)

PolyNext ==
  \/ \E m \in Markets : MarketCloses(m)
  \/ \E r \in PolyRuns : PolyBegin(r) \/ PolyStep(r) \/ PolyDies(r)

PolySpec == PolyInit /\ [][PolyNext]_polyVars

-----------------------------------------------------------------------------
(* The types of the account.                                               *)
PolyTypeOK ==
  /\ final \subseteq Markets
  /\ \A e \in EstimateIds : estimates[e] \in Markets
  /\ scores \subseteq resolutions /\ resolutions \subseteq EstimateIds
  /\ bets \in [Markets -> {"none", "open", "resolved"}]
  /\ paid \in [Markets -> Nat]
  /\ \A r \in PolyRuns :
       /\ polyRun[r].pc \in {"idle", "list", "settle", "resolve", "score", "pay",
                             "observe", "order"}
       /\ polyRun[r].listed \cup polyRun[r].due \subseteq Markets
       /\ polyRun[r].todo \subseteq EstimateIds

(* An open position is always within reach of a settlement: its market is  *)
(* still among the unresolved ones, or some run is settling it right now.  *)
(* Only a run that ends between the last resolution and the payout, or a   *)
(* second run that takes a position while its estimate is settled, leaves  *)
(* a position that no run will ever look at again (settle_market).         *)
OpenBetWillBeSettled ==
  ~polyCut /\ ~polyOverlap => \A m \in OpenBets :
    \/ m \in Unresolved
    \/ \E r \in PolyRuns : polyRun[r].market = m /\ polyRun[r].pc \in {"resolve", "score", "pay"}

(* Unless two runs overlap a position is paid once, and a position that    *)
(* was resolved was paid, whatever was cut: the status and the cash change *)
(* in one transaction (_settle_position).                                  *)
PaidOnce ==
  \A m \in Markets : /\ bets[m] = "resolved" <=> paid[m] > 0
                     /\ ~polyOverlap => paid[m] <= 1
=============================================================================
