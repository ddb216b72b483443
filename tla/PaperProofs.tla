------------------------------ MODULE PaperProofs ------------------------------
(***************************************************************************)
(* The paper engines of prediction markets and of the crypto track, for    *)
(* every number of runs, markets and symbols.                              *)
(***************************************************************************)
EXTENDS PolyPaper, CryptoPaper, FiniteSetTheorems, SequenceTheorems,
        WellFoundedInduction, TLAPS

-----------------------------------------------------------------------------
(* PolyPaper.                                                              *)
PolyRun == [pc : {"idle", "list", "settle", "resolve", "score", "pay", "observe", "order"},
            listed : SUBSET Markets, due : SUBSET Markets, market : Markets \cup {"none"},
            todo : SUBSET Nat, estimate : Nat]

(* What a run at some stage holds.                                         *)
PolyHolds(run) ==
  /\ run.todo \subseteq EstimateIds
  /\ run.pc \in {"resolve", "score", "pay", "order"} => run.market \in Markets
  /\ run.pc = "score" => run.estimate \in resolutions

PolyTypeInv ==
  /\ final \subseteq Markets
  /\ \E n \in Nat : estimates \in [1..n -> Markets]
  /\ scores \subseteq resolutions /\ resolutions \subseteq EstimateIds
  /\ bets \in [Markets -> {"none", "open", "resolved"}]
  /\ paid \in [Markets -> Nat]
  /\ polyRun \in [PolyRuns -> PolyRun]
  /\ \A r \in PolyRuns : PolyHolds(polyRun[r])

LEMMA IdlePolyType ==
  /\ IdlePoly \in PolyRun
  /\ IdlePoly.pc = "idle" /\ IdlePoly.todo = {}
BY DEF IdlePoly, PolyRun

LEMMA GoesEffect ==
  ASSUME PolyTypeInv, NEW r \in PolyRuns, NEW next \in PolyRun, Goes(r, next)
  PROVE  /\ polyRun' \in [PolyRuns -> PolyRun]
         /\ polyRun'[r] = next /\ \A q \in PolyRuns \ {r} : polyRun'[q] = polyRun[q]
BY DEF PolyTypeInv, Goes

LEMMA EstimateIdsType ==
  ASSUME PolyTypeInv
  PROVE  /\ EstimateIds \subseteq Nat /\ \A e \in EstimateIds : estimates[e] \in Markets
         /\ Cardinality(EstimateIds) + 1 \in Nat \ EstimateIds
         /\ EstimateIds \cup {Cardinality(EstimateIds) + 1} = 1..(Cardinality(EstimateIds) + 1)
<1>1. PICK n \in Nat : estimates \in [1..n -> Markets]
  BY DEF PolyTypeInv
<1>2. EstimateIds = 1..n
  BY <1>1 DEF EstimateIds
<1>3. Cardinality(EstimateIds) = n
  BY <1>2, FS_Interval
<1> QED
  BY <1>1, <1>2, <1>3 DEF EstimateIds

(* A run that goes on while the tables lose nothing.                       *)
LEMMA PolyGoesOn ==
  ASSUME PolyTypeInv, NEW r \in PolyRuns, NEW next \in PolyRun, Goes(r, next),
         next.todo \subseteq EstimateIds',
         next.pc \in {"resolve", "score", "pay", "order"} => next.market \in Markets,
         next.pc = "score" => next.estimate \in resolutions',
         EstimateIds \subseteq EstimateIds', resolutions \subseteq resolutions'
  PROVE  /\ polyRun' \in [PolyRuns -> PolyRun]
         /\ \A q \in PolyRuns : PolyHolds(polyRun[q])'
<1>1. /\ polyRun' \in [PolyRuns -> PolyRun]
      /\ polyRun'[r] = next /\ \A q \in PolyRuns \ {r} : polyRun'[q] = polyRun[q]
  BY GoesEffect
<1>2. \A q \in PolyRuns : PolyHolds(polyRun[q])'
  BY <1>1 DEF PolyTypeInv, PolyHolds
<1> QED
  BY <1>1, <1>2

LEMMA PolyTypeInit == PolyInit => PolyTypeInv
<1> SUFFICES ASSUME PolyInit PROVE PolyTypeInv
  OBVIOUS
<1>1. estimates \in [1..0 -> Markets]
  BY DEF PolyInit
<1>2. polyRun \in [PolyRuns -> PolyRun] /\ \A r \in PolyRuns : PolyHolds(polyRun[r])
  BY IdlePolyType DEF PolyInit, PolyHolds
<1> QED
  BY <1>1, <1>2 DEF PolyInit, PolyTypeInv

LEMMA PolyTypeNext == PolyTypeInv /\ [PolyNext]_polyVars => PolyTypeInv'
<1> SUFFICES ASSUME PolyTypeInv, [PolyNext]_polyVars PROVE PolyTypeInv'
  OBVIOUS
<1>a. ASSUME NEW r \in PolyRuns PROVE polyRun[r] \in PolyRun /\ PolyHolds(polyRun[r])
  BY DEF PolyTypeInv
<1>b. ASSUME UNCHANGED <<final, estimates, bets, paid>>,
             scores' \subseteq resolutions', resolutions' \subseteq EstimateIds,
             polyRun' \in [PolyRuns -> PolyRun],
             \A r \in PolyRuns : PolyHolds(polyRun[r])'
      PROVE  PolyTypeInv'
  BY <1>b DEF PolyTypeInv, EstimateIds
<1>1. ASSUME NEW m \in Markets, MarketCloses(m) PROVE PolyTypeInv'
  BY <1>1 DEF MarketCloses, PolyTypeInv, PolyHolds, EstimateIds
(* The steps that change nothing but their run.                            *)
<1>2. ASSUME NEW r \in PolyRuns, NEW next \in PolyRun, Goes(r, next),
             UNCHANGED <<final, estimates, bets, paid, resolutions, scores>>,
             next.todo \subseteq EstimateIds,
             next.pc \in {"resolve", "score", "pay", "order"} => next.market \in Markets,
             next.pc # "score"
      PROVE  PolyTypeInv'
  <2>1. UNCHANGED EstimateIds
    BY <1>2 DEF EstimateIds
  <2>2. /\ polyRun' \in [PolyRuns -> PolyRun]
        /\ \A q \in PolyRuns : PolyHolds(polyRun[q])'
    BY <1>2, <2>1, PolyGoesOn
  <2> QED
    BY <1>2, <1>b, <2>2 DEF PolyTypeInv
<1>3. ASSUME NEW r \in PolyRuns, PolyBegin(r) PROVE PolyTypeInv'
  <2>1. PICK listed \in SUBSET (Markets \ final) :
          Goes(r, [IdlePoly EXCEPT !.pc = "list", !.listed = listed])
    BY <1>3 DEF PolyBegin
  <2> DEFINE next == [IdlePoly EXCEPT !.pc = "list", !.listed = listed]
  <2>2. next \in PolyRun /\ next.pc = "list" /\ next.todo = {}
    BY IdlePolyType DEF PolyRun
  <2> HIDE DEF next
  <2> QED
    BY <1>2, <1>3, <2>1, <2>2 DEF PolyBegin, next
<1>4. ASSUME NEW r \in PolyRuns, DueMarkets(r) PROVE PolyTypeInv'
  <2> DEFINE next == [polyRun[r] EXCEPT !.pc = "settle", !.due = Unresolved]
  <2>1. next \in PolyRun /\ next.pc = "settle" /\ next.todo = polyRun[r].todo
    BY <1>a DEF PolyRun, Unresolved
  <2>2. Goes(r, next)
    BY <1>4 DEF DueMarkets
  <2> HIDE DEF next
  <2> QED
    BY <1>2, <1>4, <1>a, <2>1, <2>2 DEF DueMarkets, PolyHolds
<1>5. ASSUME NEW r \in PolyRuns, SkipMarket(r) PROVE PolyTypeInv'
  <2>1. PICK m : Goes(r, [polyRun[r] EXCEPT !.due = @ \ {m}])
    BY <1>5 DEF SkipMarket
  <2> DEFINE next == [polyRun[r] EXCEPT !.due = @ \ {m}]
  <2>2. next \in PolyRun /\ next.pc = polyRun[r].pc /\ next.todo = polyRun[r].todo
    BY <1>a DEF PolyRun
  <2> HIDE DEF next
  <2> QED
    BY <1>2, <1>5, <1>a, <2>1, <2>2 DEF SkipMarket, PolyHolds, next
<1>6. ASSUME NEW r \in PolyRuns, SettleMarket(r) PROVE PolyTypeInv'
  <2>1. PICK m \in polyRun[r].due \cap final :
          Goes(r, [polyRun[r] EXCEPT !.pc = "resolve", !.market = m, !.due = @ \ {m},
                                     !.todo = EstimatesOf(m) \ resolutions])
    BY <1>6 DEF SettleMarket
  <2> DEFINE next == [polyRun[r] EXCEPT !.pc = "resolve", !.market = m, !.due = @ \ {m},
                                        !.todo = EstimatesOf(m) \ resolutions]
  <2>2. m \in Markets /\ EstimatesOf(m) \subseteq EstimateIds /\ EstimateIds \subseteq Nat
    BY <2>1, EstimateIdsType DEF PolyTypeInv, EstimatesOf
  <2>3. /\ next \in PolyRun /\ next.pc = "resolve" /\ next.market = m
        /\ next.todo = EstimatesOf(m) \ resolutions
    BY <1>a, <2>2 DEF PolyRun
  <2> HIDE DEF next
  <2> QED
    BY <1>2, <1>6, <2>1, <2>2, <2>3 DEF SettleMarket, next
<1>7. ASSUME NEW r \in PolyRuns, WriteResolution(r) PROVE PolyTypeInv'
  <2>1. PICK e \in polyRun[r].todo :
          /\ resolutions' = resolutions \cup {e}
          /\ Goes(r, [polyRun[r] EXCEPT !.pc = "score", !.estimate = e, !.todo = @ \ {e}])
    BY <1>7 DEF WriteResolution
  <2> DEFINE next == [polyRun[r] EXCEPT !.pc = "score", !.estimate = e, !.todo = @ \ {e}]
  <2>2. /\ next \in PolyRun /\ next.pc = "score" /\ next.estimate = e
        /\ next.todo = polyRun[r].todo \ {e} /\ next.market = polyRun[r].market
    BY <1>a DEF PolyRun
  <2>3. /\ polyRun[r].pc = "resolve" /\ UNCHANGED EstimateIds /\ e \in EstimateIds
        /\ polyRun[r].todo \subseteq EstimateIds /\ polyRun[r].market \in Markets
        /\ Goes(r, next)
    BY <1>7, <1>a, <2>1 DEF WriteResolution, EstimateIds, PolyHolds
  <2> HIDE DEF next
  <2>4. /\ polyRun' \in [PolyRuns -> PolyRun]
        /\ \A q \in PolyRuns : PolyHolds(polyRun[q])'
    <3>1. e \in resolutions' /\ resolutions \subseteq resolutions'
      BY <2>1
    <3> QED
      BY <2>2, <2>3, <3>1, PolyGoesOn
  <2> QED
    BY <1>7, <1>b, <2>1, <2>3, <2>4 DEF WriteResolution, PolyTypeInv
<1>8. ASSUME NEW r \in PolyRuns, AddScore(r) PROVE PolyTypeInv'
  <2> DEFINE next == [polyRun[r] EXCEPT !.pc = "resolve", !.estimate = 0]
  <2>1. /\ next \in PolyRun /\ next.pc = "resolve"
        /\ next.todo = polyRun[r].todo /\ next.market = polyRun[r].market
    BY <1>a DEF PolyRun
  <2>2. Goes(r, next) /\ polyRun[r].pc = "score" /\ UNCHANGED <<EstimateIds, resolutions>>
    BY <1>8 DEF AddScore, EstimateIds
  <2> HIDE DEF next
  <2>3. /\ polyRun' \in [PolyRuns -> PolyRun]
        /\ \A q \in PolyRuns : PolyHolds(polyRun[q])'
    BY <1>a, <2>1, <2>2, PolyGoesOn DEF PolyHolds
  <2>4. scores' \subseteq resolutions'
    BY <1>8, <1>a DEF AddScore, PolyHolds, PolyTypeInv
  <2> QED
    BY <1>8, <1>b, <2>3, <2>4 DEF AddScore, PolyTypeInv
<1>9. ASSUME NEW r \in PolyRuns, ReadPosition(r) PROVE PolyTypeInv'
  <2> DEFINE next == [polyRun[r] EXCEPT !.pc = IF Payable(polyRun[r].market) THEN "pay"
                                                                           ELSE "settle"]
  <2>1. /\ next \in PolyRun /\ next.pc \in {"pay", "settle"}
        /\ next.todo = polyRun[r].todo /\ next.market = polyRun[r].market
    BY <1>a DEF PolyRun
  <2>2. Goes(r, next)
    BY <1>9 DEF ReadPosition
  <2> HIDE DEF next
  <2> QED
    BY <1>2, <1>9, <1>a, <2>1, <2>2 DEF ReadPosition, PolyHolds
<1>10. ASSUME NEW r \in PolyRuns, PayOut(r) PROVE PolyTypeInv'
  <2> DEFINE next == [polyRun[r] EXCEPT !.pc = "settle"]
  <2>1. next \in PolyRun /\ next.pc = "settle" /\ next.todo = polyRun[r].todo
    BY <1>a DEF PolyRun
  <2>2. Goes(r, next) /\ UNCHANGED <<EstimateIds, resolutions>>
    BY <1>10 DEF PayOut, EstimateIds
  <2> HIDE DEF next
  <2>3. /\ polyRun' \in [PolyRuns -> PolyRun]
        /\ \A q \in PolyRuns : PolyHolds(polyRun[q])'
    BY <1>a, <2>1, <2>2, PolyGoesOn DEF PolyHolds
  <2>4. /\ bets' \in [Markets -> {"none", "open", "resolved"}]
        /\ paid' \in [Markets -> Nat]
    <3> DEFINE m == polyRun[r].market
    <3>1. bets' = [bets EXCEPT ![m] = "resolved"] /\ paid' = [paid EXCEPT ![m] = @ + 1]
      BY <1>10 DEF PayOut
    <3>2. m \in Markets
      BY <1>10, <1>a DEF PayOut, PolyHolds
    <3> HIDE DEF m
    <3> QED
      BY <3>1, <3>2 DEF PolyTypeInv
  <2> QED
    <3>1. UNCHANGED <<final, estimates, scores>>
      BY <1>10 DEF PayOut
    <3> QED
      BY <2>2, <2>3, <2>4, <3>1 DEF PolyTypeInv
<1>11. ASSUME NEW r \in PolyRuns, PolyObserve(r) \/ NoCapacity(r) PROVE PolyTypeInv'
  <2> DEFINE next == [polyRun[r] EXCEPT !.pc = "observe", !.market = "none"]
  <2>1. next \in PolyRun /\ next.pc = "observe" /\ next.todo = polyRun[r].todo
    BY <1>a DEF PolyRun
  <2>2. Goes(r, next)
    BY <1>11 DEF PolyObserve, NoCapacity
  <2> HIDE DEF next
  <2> QED
    BY <1>2, <1>11, <1>a, <2>1, <2>2 DEF PolyObserve, NoCapacity, PolyHolds
<1>12. ASSUME NEW r \in PolyRuns, SaveEstimate(r) PROVE PolyTypeInv'
  <2> DEFINE e == Cardinality(EstimateIds) + 1
  <2>1. PICK m \in polyRun[r].listed, pc \in {"order", "observe"} :
          /\ estimates' = [i \in EstimateIds \cup {e} |-> IF i = e THEN m ELSE estimates[i]]
          /\ Goes(r, [polyRun[r] EXCEPT !.listed = @ \ {m}, !.pc = pc,
                                        !.market = IF pc = "order" THEN m ELSE "none"])
    BY <1>12 DEF SaveEstimate
  <2> DEFINE next == [polyRun[r] EXCEPT !.listed = @ \ {m}, !.pc = pc,
                                        !.market = IF pc = "order" THEN m ELSE "none"]
  <2>2. m \in Markets
    BY <1>a DEF PolyRun
  <2>3. /\ next \in PolyRun /\ next.pc = pc /\ next.todo = polyRun[r].todo
        /\ pc = "order" => next.market = m
    BY <1>a, <2>2 DEF PolyRun
  <2>4. \E n \in Nat : estimates' \in [1..n -> Markets]
    BY <2>1, <2>2, EstimateIdsType
  <2>5. EstimateIds \subseteq EstimateIds'
    BY <2>1 DEF EstimateIds
  <2> HIDE DEF next
  <2>6. /\ polyRun' \in [PolyRuns -> PolyRun]
        /\ \A q \in PolyRuns : PolyHolds(polyRun[q])'
    BY <1>12, <1>a, <2>1, <2>2, <2>3, <2>5, PolyGoesOn DEF SaveEstimate, PolyHolds, next
  <2> QED
    BY <1>12, <2>4, <2>5, <2>6 DEF SaveEstimate, PolyTypeInv
<1>13. ASSUME NEW r \in PolyRuns, SaveExecution(r) PROVE PolyTypeInv'
  <2> DEFINE next == [polyRun[r] EXCEPT !.pc = "observe", !.market = "none"]
  <2>1. next \in PolyRun /\ next.pc = "observe" /\ next.todo = polyRun[r].todo
    BY <1>a DEF PolyRun
  <2>2. Goes(r, next) \/ Goes(r, IdlePoly)
    BY <1>13 DEF SaveExecution
  <2>3. UNCHANGED <<final, estimates, resolutions, scores, paid, EstimateIds>>
    BY <1>13 DEF SaveExecution, EstimateIds
  <2> HIDE DEF next
  <2>4. /\ polyRun' \in [PolyRuns -> PolyRun]
        /\ \A q \in PolyRuns : PolyHolds(polyRun[q])'
    BY <1>a, <2>1, <2>2, <2>3, IdlePolyType, PolyGoesOn DEF PolyHolds
  <2>5. bets' \in [Markets -> {"none", "open", "resolved"}]
    BY <1>13 DEF SaveExecution, PolyTypeInv
  <2> QED
    BY <2>3, <2>4, <2>5 DEF PolyTypeInv
<1>14. ASSUME NEW r \in PolyRuns, PolyEnd(r) \/ PolyDies(r) PROVE PolyTypeInv'
  BY <1>2, <1>14, IdlePolyType DEF PolyEnd, PolyDies
<1>15. CASE UNCHANGED polyVars
  BY <1>15 DEF polyVars, PolyTypeInv, PolyHolds, EstimateIds
<1> QED
  BY <1>1, <1>3, <1>4, <1>5, <1>6, <1>7, <1>8, <1>9, <1>10, <1>11, <1>12, <1>13, <1>14,
     <1>15 DEF PolyNext, PolyStep

LEMMA PolyTypeInvariant == PolySpec => []PolyTypeInv
BY PolyTypeInit, PolyTypeNext, PTL DEF PolySpec

(* The types of the account of prediction markets.                         *)
THEOREM PolyTypesCorrect == PolySpec => []PolyTypeOK
<1>1. PolyTypeInv => PolyTypeOK
  <2> SUFFICES ASSUME PolyTypeInv PROVE PolyTypeOK
    OBVIOUS
  <2>1. \A r \in PolyRuns : polyRun[r] \in PolyRun /\ PolyHolds(polyRun[r])
    BY DEF PolyTypeInv
  <2>2. \A e \in EstimateIds : estimates[e] \in Markets
    BY EstimateIdsType
  <2> QED
    BY <2>1, <2>2 DEF PolyTypeInv, PolyTypeOK, PolyRun, PolyHolds
<1> QED
  BY <1>1, PolyTypeInvariant, PTL

(* Unless two runs have overlapped, one runs at a time.                    *)
PolyAlone ==
  ~polyOverlap =>
    \A r, q \in PolyRuns : polyRun[r].pc # "idle" /\ polyRun[q].pc # "idle" => r = q

(* However runs overlap: a resolved position is a paid one; and what is    *)
(* about to be paid is open, unless two runs have overlapped.              *)
PayoutInv ==
  /\ PaidOnce
  /\ PolyAlone
  /\ ~polyOverlap =>
       \A r \in PolyRuns : polyRun[r].pc = "pay" => bets[polyRun[r].market] = "open"

(* A settlement works on the estimates of its market, and a position is    *)
(* taken in a market that has an estimate to settle.                       *)
SettlementInv ==
  /\ OpenBetWillBeSettled
  /\ ~polyOverlap => \A r \in PolyRuns :
       /\ polyRun[r].pc \in {"resolve", "score"} =>
            polyRun[r].todo \subseteq EstimatesOf(polyRun[r].market)
       /\ polyRun[r].pc = "order" => polyRun[r].market \in Unresolved

LEMMA GoesTo ==
  ASSUME PolyTypeInv, NEW r \in PolyRuns, NEW next, Goes(r, next)
  PROVE  polyRun'[r] = next /\ \A q \in PolyRuns \ {r} : polyRun'[q] = polyRun[q]
BY DEF PolyTypeInv, Goes

(* What each step makes of the run that takes it.                          *)
PolyEffect(r) ==
  LET old == polyRun[r]
      new == polyRun'[r]
  IN /\ PolyBegin(r) => new.pc = "list"
     /\ DueMarkets(r) \/ SkipMarket(r) \/ PayOut(r) => new.pc = "settle"
     /\ SettleMarket(r) => /\ new.pc = "resolve" /\ new.market \in Markets
                           /\ new.todo = EstimatesOf(new.market) \ resolutions
     /\ WriteResolution(r) => /\ new.pc = "score" /\ new.market = old.market
                              /\ new.todo \subseteq old.todo
                              /\ \E e \in old.todo : resolutions' = resolutions \cup {e}
     /\ AddScore(r) => /\ new.pc = "resolve" /\ new.market = old.market
                       /\ new.todo = old.todo
     /\ ReadPosition(r) => /\ new.pc = IF Payable(old.market) THEN "pay" ELSE "settle"
                           /\ new.market = old.market
     /\ PolyObserve(r) \/ NoCapacity(r) => new.pc = "observe"
     /\ SaveEstimate(r) =>
          \E m \in Markets :
            /\ (new.pc = "order" /\ new.market = m) \/ new.pc = "observe"
            /\ LET e == Cardinality(EstimateIds) + 1 IN
               estimates' = [i \in EstimateIds \cup {e} |-> IF i = e THEN m ELSE estimates[i]]
     /\ SaveExecution(r) => new.pc \in {"observe", "idle"}
     /\ PolyEnd(r) \/ PolyDies(r) => new.pc = "idle"

LEMMA PolyMoves ==
  ASSUME PolyTypeInv, NEW r \in PolyRuns
  PROVE  PolyEffect(r)
<1>a. polyRun[r] \in PolyRun
  BY DEF PolyTypeInv
<1>1. ASSUME PolyBegin(r) PROVE polyRun'[r].pc = "list"
  <2>1. PICK listed : Goes(r, [IdlePoly EXCEPT !.pc = "list", !.listed = listed])
    BY <1>1 DEF PolyBegin
  <2>2. [IdlePoly EXCEPT !.pc = "list", !.listed = listed].pc = "list"
    BY IdlePolyType DEF PolyRun
  <2> QED
    BY <2>1, <2>2, GoesTo
<1>2. ASSUME DueMarkets(r) \/ SkipMarket(r) \/ PayOut(r) PROVE polyRun'[r].pc = "settle"
  <2>1. CASE DueMarkets(r)
    <3>1. [polyRun[r] EXCEPT !.pc = "settle", !.due = Unresolved].pc = "settle"
      BY <1>a DEF PolyRun
    <3> QED
      BY <2>1, <3>1, GoesTo DEF DueMarkets
  <2>2. CASE SkipMarket(r)
    <3>1. PICK m : Goes(r, [polyRun[r] EXCEPT !.due = @ \ {m}])
      BY <2>2 DEF SkipMarket
    <3>2. [polyRun[r] EXCEPT !.due = @ \ {m}].pc = "settle"
      BY <1>a, <2>2 DEF SkipMarket, PolyRun
    <3> QED
      BY <3>1, <3>2, GoesTo
  <2>3. CASE PayOut(r)
    <3>1. [polyRun[r] EXCEPT !.pc = "settle"].pc = "settle"
      BY <1>a DEF PolyRun
    <3> QED
      BY <2>3, <3>1, GoesTo DEF PayOut
  <2> QED
    BY <1>2, <2>1, <2>2, <2>3
<1>3. ASSUME SettleMarket(r)
      PROVE  /\ polyRun'[r].pc = "resolve" /\ polyRun'[r].market \in Markets
             /\ polyRun'[r].todo = EstimatesOf(polyRun'[r].market) \ resolutions
  <2>1. PICK m \in Markets :
          Goes(r, [polyRun[r] EXCEPT !.pc = "resolve", !.market = m, !.due = @ \ {m},
                                     !.todo = EstimatesOf(m) \ resolutions])
    BY <1>3 DEF SettleMarket, PolyTypeInv
  <2> DEFINE next == [polyRun[r] EXCEPT !.pc = "resolve", !.market = m, !.due = @ \ {m},
                                        !.todo = EstimatesOf(m) \ resolutions]
  <2>2. /\ next.pc = "resolve" /\ next.market = m
        /\ next.todo = EstimatesOf(m) \ resolutions
    BY <1>a DEF PolyRun
  <2>3. polyRun'[r] = next
    BY <2>1, GoesTo
  <2> HIDE DEF next
  <2> QED
    BY <2>2, <2>3
<1>4. ASSUME WriteResolution(r)
      PROVE  /\ polyRun'[r].pc = "score" /\ polyRun'[r].market = polyRun[r].market
             /\ polyRun'[r].todo \subseteq polyRun[r].todo
             /\ \E e \in polyRun[r].todo : resolutions' = resolutions \cup {e}
  <2>1. PICK e \in polyRun[r].todo :
          /\ resolutions' = resolutions \cup {e}
          /\ Goes(r, [polyRun[r] EXCEPT !.pc = "score", !.estimate = e, !.todo = @ \ {e}])
    BY <1>4 DEF WriteResolution
  <2> DEFINE next == [polyRun[r] EXCEPT !.pc = "score", !.estimate = e, !.todo = @ \ {e}]
  <2>2. /\ next.pc = "score" /\ next.market = polyRun[r].market
        /\ next.todo \subseteq polyRun[r].todo
    BY <1>a DEF PolyRun
  <2>3. polyRun'[r] = next
    BY <2>1, GoesTo
  <2> HIDE DEF next
  <2> QED
    BY <2>1, <2>2, <2>3
<1>5. ASSUME AddScore(r)
      PROVE  /\ polyRun'[r].pc = "resolve" /\ polyRun'[r].market = polyRun[r].market
             /\ polyRun'[r].todo = polyRun[r].todo
  <2> DEFINE next == [polyRun[r] EXCEPT !.pc = "resolve", !.estimate = 0]
  <2>1. /\ next.pc = "resolve" /\ next.market = polyRun[r].market
        /\ next.todo = polyRun[r].todo
    BY <1>a DEF PolyRun
  <2>2. polyRun'[r] = next
    BY <1>5, GoesTo DEF AddScore
  <2> HIDE DEF next
  <2> QED
    BY <2>1, <2>2
<1>6. ASSUME ReadPosition(r)
      PROVE  /\ polyRun'[r].pc = IF Payable(polyRun[r].market) THEN "pay" ELSE "settle"
             /\ polyRun'[r].market = polyRun[r].market
  <2> DEFINE pc   == IF Payable(polyRun[r].market) THEN "pay" ELSE "settle"
             next == [polyRun[r] EXCEPT !.pc = pc]
  <2>1. next.pc = pc /\ next.market = polyRun[r].market
    BY <1>a DEF PolyRun
  <2>2. polyRun'[r] = next
    BY <1>6, GoesTo DEF ReadPosition
  <2> HIDE DEF next
  <2> QED
    BY <2>1, <2>2
<1>7. ASSUME PolyObserve(r) \/ NoCapacity(r) PROVE polyRun'[r].pc = "observe"
  <2>1. [polyRun[r] EXCEPT !.pc = "observe", !.market = "none"].pc = "observe"
    BY <1>a DEF PolyRun
  <2> QED
    BY <1>7, <2>1, GoesTo DEF PolyObserve, NoCapacity
<1>8. ASSUME SaveExecution(r) PROVE polyRun'[r].pc \in {"observe", "idle"}
  <2>1. [polyRun[r] EXCEPT !.pc = "observe", !.market = "none"].pc = "observe"
    BY <1>a DEF PolyRun
  <2>2. \/ Goes(r, [polyRun[r] EXCEPT !.pc = "observe", !.market = "none"])
        \/ Goes(r, IdlePoly)
    BY <1>8 DEF SaveExecution
  <2> QED
    BY <2>1, <2>2, IdlePolyType, GoesTo
<1>9. ASSUME SaveEstimate(r)
      PROVE  \E m \in Markets :
               /\ (polyRun'[r].pc = "order" /\ polyRun'[r].market = m) \/ polyRun'[r].pc = "observe"
               /\ LET e == Cardinality(EstimateIds) + 1 IN
                  estimates' = [i \in EstimateIds \cup {e} |-> IF i = e THEN m ELSE estimates[i]]
  <2> DEFINE e == Cardinality(EstimateIds) + 1
  <2>1. PICK m \in polyRun[r].listed, pc \in {"order", "observe"} :
          /\ estimates' = [i \in EstimateIds \cup {e} |-> IF i = e THEN m ELSE estimates[i]]
          /\ Goes(r, [polyRun[r] EXCEPT !.listed = @ \ {m}, !.pc = pc,
                                        !.market = IF pc = "order" THEN m ELSE "none"])
    BY <1>9 DEF SaveEstimate
  <2> DEFINE next == [polyRun[r] EXCEPT !.listed = @ \ {m}, !.pc = pc,
                                        !.market = IF pc = "order" THEN m ELSE "none"]
  <2>2. next.pc = pc /\ (pc = "order" => next.market = m) /\ m \in Markets
    BY <1>a DEF PolyRun
  <2>3. polyRun'[r] = next
    BY <2>1, GoesTo
  <2> HIDE DEF next
  <2> QED
    BY <2>1, <2>2, <2>3
<1>10. ASSUME PolyEnd(r) \/ PolyDies(r) PROVE polyRun'[r].pc = "idle"
  BY <1>10, IdlePolyType, GoesTo DEF PolyEnd, PolyDies
<1> QED
  BY <1>1, <1>2, <1>3, <1>4, <1>5, <1>6, <1>7, <1>8, <1>9, <1>10 DEF PolyEffect

LEMMA PolyOthers ==
  ASSUME PolyTypeInv, NEW r \in PolyRuns, PolyStep(r) \/ PolyDies(r) \/ PolyBegin(r)
  PROVE  \A q \in PolyRuns \ {r} : polyRun'[q] = polyRun[q]
<1>1. ASSUME NEW next, Goes(r, next)
      PROVE  \A q \in PolyRuns \ {r} : polyRun'[q] = polyRun[q]
  BY <1>1, GoesTo
<1>2. CASE PolyBegin(r) \/ SkipMarket(r)
  BY <1>1, <1>2 DEF PolyBegin, SkipMarket
<1>3. CASE SettleMarket(r) \/ WriteResolution(r)
  BY <1>1, <1>3 DEF SettleMarket, WriteResolution
<1>4. CASE DueMarkets(r) \/ AddScore(r) \/ ReadPosition(r) \/ PayOut(r)
  BY <1>1, <1>4 DEF DueMarkets, AddScore, ReadPosition, PayOut
<1>5. CASE SaveEstimate(r)
  BY <1>1, <1>5 DEF SaveEstimate
<1>6. CASE PolyObserve(r) \/ NoCapacity(r) \/ SaveExecution(r) \/ PolyEnd(r) \/ PolyDies(r)
  BY <1>1, <1>6 DEF PolyObserve, NoCapacity, SaveExecution, PolyEnd, PolyDies
<1> QED
  BY <1>2, <1>3, <1>4, <1>5, <1>6 DEF PolyStep

(* A run that takes a step is alone, or the overlap is known.              *)
LEMMA StepAlone ==
  ASSUME PolyTypeInv, PolyAlone, NEW r \in PolyRuns,
         PolyStep(r) \/ PolyDies(r) \/ PolyBegin(r), ~polyOverlap'
  PROVE  /\ ~polyOverlap
         /\ \A q \in PolyRuns \ {r} : polyRun[q].pc = "idle" /\ polyRun'[q].pc = "idle"
<1>1. \/ polyRun[r].pc # "idle" /\ UNCHANGED polyOverlap
      \/ PolyBegin(r)
  BY DEF PolyStep, PolyDies, DueMarkets, SkipMarket, SettleMarket, WriteResolution, AddScore,
         ReadPosition, PayOut, PolyObserve, SaveEstimate, NoCapacity, SaveExecution, PolyEnd
<1>2. ~polyOverlap /\ \A q \in PolyRuns \ {r} : polyRun[q].pc = "idle"
  <2>1. CASE PolyBegin(r)
    BY <2>1, Zenon DEF PolyBegin
  <2>2. CASE polyRun[r].pc # "idle" /\ UNCHANGED polyOverlap
    BY <2>2 DEF PolyAlone
  <2> QED
    BY <1>1, <2>1, <2>2
<1> QED
  BY <1>2, PolyOthers

LEMMA AloneNext == PolyTypeInv /\ PolyAlone /\ [PolyNext]_polyVars => PolyAlone'
<1> SUFFICES ASSUME PolyTypeInv, PolyAlone, [PolyNext]_polyVars PROVE PolyAlone'
  OBVIOUS
<1>1. ASSUME NEW r \in PolyRuns, PolyStep(r) \/ PolyDies(r) \/ PolyBegin(r) PROVE PolyAlone'
  BY <1>1, StepAlone DEF PolyAlone
<1>2. CASE (\E m \in Markets : MarketCloses(m)) \/ UNCHANGED polyVars
  BY <1>2 DEF MarketCloses, polyVars, PolyAlone
<1> QED
  BY <1>1, <1>2 DEF PolyNext

LEMMA PayoutNext == PolyTypeInv /\ PayoutInv /\ [PolyNext]_polyVars => PayoutInv'
<1> SUFFICES ASSUME PolyTypeInv, PayoutInv, [PolyNext]_polyVars PROVE PayoutInv'
  OBVIOUS
<1>a. PolyAlone /\ PolyAlone'
  BY AloneNext DEF PayoutInv
<1>b. ASSUME NEW r \in PolyRuns, PolyStep(r) \/ PolyDies(r) \/ PolyBegin(r), PaidOnce',
             polyRun'[r].pc = "pay" /\ ~polyOverlap' => bets'[polyRun'[r].market] = "open"
      PROVE  PayoutInv'
  BY <1>a, <1>b, StepAlone DEF PayoutInv
<1>1. ASSUME NEW r \in PolyRuns, ReadPosition(r) PROVE PayoutInv'
  <2>1. UNCHANGED <<bets, paid, polyOverlap>> /\ PolyStep(r)
    BY <1>1 DEF ReadPosition, PolyStep
  <2>2. polyRun'[r].pc = "pay" => bets[polyRun'[r].market] = "open"
    BY <1>1, PolyMoves DEF PolyEffect, Payable
  <2>3. PaidOnce'
    BY <2>1 DEF PayoutInv, PaidOnce
  <2> QED
    BY <1>b, <2>1, <2>2, <2>3
<1>2. ASSUME NEW r \in PolyRuns, PayOut(r) PROVE PayoutInv'
  <2> DEFINE m == polyRun[r].market
  <2>1. /\ UNCHANGED polyOverlap /\ polyRun[r].pc = "pay" /\ PolyStep(r)
        /\ bets' = [bets EXCEPT ![m] = "resolved"] /\ paid' = [paid EXCEPT ![m] = @ + 1]
    BY <1>2 DEF PayOut, PolyStep
  <2>2. m \in Markets
    BY <2>1 DEF PolyTypeInv, PolyHolds
  <2>3. polyRun'[r].pc = "settle"
    BY <1>2, PolyMoves DEF PolyEffect
  <2>4. ~polyOverlap => bets[m] = "open"
    BY <2>1 DEF PayoutInv
  <2> HIDE DEF m
  <2>5. \A l \in Markets : /\ bets'[l] = IF l = m THEN "resolved" ELSE bets[l]
                           /\ paid'[l] = IF l = m THEN paid[l] + 1 ELSE paid[l]
                           /\ paid[l] \in Nat
    BY <2>1, <2>2 DEF PolyTypeInv
  <2>6. ~polyOverlap => paid[m] = 0
    BY <2>2, <2>4, <2>5 DEF PayoutInv, PaidOnce
  <2>7. PaidOnce'
    BY <2>1, <2>2, <2>5, <2>6 DEF PayoutInv, PaidOnce
  <2> QED
    BY <1>b, <2>1, <2>3, <2>7
<1>3. ASSUME NEW r \in PolyRuns, SaveExecution(r) PROVE PayoutInv'
  <2>1. polyRun'[r].pc # "pay"
    BY <1>3, PolyMoves DEF PolyEffect
  <2>2. UNCHANGED <<paid, polyOverlap>> /\ PolyStep(r)
    BY <1>3 DEF SaveExecution, PolyStep
  <2> DEFINE l == polyRun[r].market
  <2>a. bets' = bets \/ (bets[l] = "none" /\ bets' = [bets EXCEPT ![l] = "open"])
    BY <1>3 DEF SaveExecution
  <2> HIDE DEF l
  <2>b. bets \in [Markets -> {"none", "open", "resolved"}]
    BY DEF PolyTypeInv
  <2>3. \A m \in Markets : bets'[m] = bets[m] \/ (bets[m] = "none" /\ bets'[m] = "open")
    BY <2>a, <2>b
  <2>4. PaidOnce'
    BY <2>2, <2>3 DEF PayoutInv, PaidOnce
  <2> QED
    BY <1>b, <2>1, <2>2, <2>4
(* The other steps neither pay nor lead to a payout.                       *)
<1>4. ASSUME NEW r \in PolyRuns, PolyStep(r) \/ PolyDies(r) \/ PolyBegin(r),
             ~ReadPosition(r), ~PayOut(r), ~SaveExecution(r)
      PROVE  PayoutInv'
  <2>1. UNCHANGED <<bets, paid>>
    BY <1>4 DEF PolyStep, DueMarkets, SkipMarket, SettleMarket, WriteResolution, AddScore,
                PolyObserve, SaveEstimate, NoCapacity, PolyEnd, PolyDies, PolyBegin
  <2>2. polyRun'[r].pc # "pay"
    BY <1>4, PolyMoves DEF PolyEffect, PolyStep
  <2>3. PaidOnce'
    BY <1>4, <1>a, <2>1, StepAlone DEF PayoutInv, PaidOnce
  <2> QED
    BY <1>4, <1>b, <2>2, <2>3
<1>5. CASE (\E m \in Markets : MarketCloses(m)) \/ UNCHANGED polyVars
  <2>1. UNCHANGED <<bets, paid, polyRun, polyOverlap>>
    BY <1>5 DEF MarketCloses, polyVars
  <2> QED
    BY <1>a, <2>1 DEF PayoutInv, PaidOnce
<1> QED
  BY <1>1, <1>2, <1>3, <1>4, <1>5 DEF PolyNext

(* A position that is resolved has been paid, and unless two runs have     *)
(* overlapped no more than once, wherever runs break off                   *)
(* (_settle_position).                                                     *)
THEOREM PositionsPaidOnce == PolySpec => []PaidOnce
<1>1. PolyInit => PayoutInv
  BY DEF PolyInit, PayoutInv, PaidOnce, PolyAlone, IdlePoly
<1>2. PayoutInv => PaidOnce
  BY DEF PayoutInv
<1> QED
  BY <1>1, <1>2, PayoutNext, PolyTypeInvariant, PTL DEF PolySpec

LEMMA SettlementNext ==
  ASSUME PolyTypeInv, PolyTypeInv', PayoutInv, SettlementInv, [PolyNext]_polyVars
  PROVE  SettlementInv'
<1>a. PolyAlone
  BY DEF PayoutInv
<1>b. ASSUME NEW r \in PolyRuns, PolyStep(r) \/ PolyDies(r) \/ PolyBegin(r),
             ~polyOverlap' => ~polyOverlap,
             ~polyOverlap' /\ ~polyCut' => \A m \in Markets : bets'[m] = "open" =>
               \/ m \in Unresolved'
               \/ polyRun'[r].market = m /\ polyRun'[r].pc \in {"resolve", "score", "pay"},
             ~polyOverlap' =>
               /\ polyRun'[r].pc \in {"resolve", "score"} =>
                    polyRun'[r].todo \subseteq EstimatesOf(polyRun[r].market)'
               /\ polyRun'[r].pc = "order" => polyRun'[r].market \in Unresolved'
      PROVE  SettlementInv'
  <2>1. OpenBetWillBeSettled'
    BY <1>b DEF OpenBetWillBeSettled, OpenBets
  <2>2. ~polyOverlap' => \A q \in PolyRuns \ {r} : polyRun'[q].pc = "idle"
    BY <1>a, <1>b, StepAlone
  <2> QED
    BY <1>b, <2>1, <2>2 DEF SettlementInv
(* While nobody overlaps or was cut, what the stepping run does not settle *)
(* is unresolved.                                                          *)
<1>c. ASSUME NEW r \in PolyRuns, PolyStep(r) \/ PolyDies(r) \/ PolyBegin(r),
             ~polyOverlap', ~polyCut, NEW m \in Markets, bets[m] = "open"
      PROVE  \/ m \in Unresolved
             \/ polyRun[r].market = m /\ polyRun[r].pc \in {"resolve", "score", "pay"}
  <2>1. ~polyOverlap /\ \A q \in PolyRuns \ {r} : polyRun[q].pc = "idle"
    BY <1>a, <1>c, StepAlone
  <2>2. \/ m \in Unresolved
        \/ \E q \in PolyRuns : /\ polyRun[q].market = m
                               /\ polyRun[q].pc \in {"resolve", "score", "pay"}
    BY <1>c, <2>1 DEF SettlementInv, OpenBetWillBeSettled, OpenBets
  <2>3. ASSUME NEW q \in PolyRuns, polyRun[q].pc \in {"resolve", "score", "pay"} PROVE q = r
    BY <2>1, <2>3
  <2> QED
    BY <2>2, <2>3
<1>d. Unresolved \subseteq Markets /\ \A m \in Markets : EstimatesOf(m) \subseteq EstimateIds
  BY DEF Unresolved, EstimatesOf
<1>e. ASSUME UNCHANGED <<estimates, resolutions>>
      PROVE  UNCHANGED Unresolved /\ \A m : EstimatesOf(m)' = EstimatesOf(m)
  BY <1>e DEF Unresolved, EstimatesOf, EstimateIds
<1>1. ASSUME NEW r \in PolyRuns, PolyBegin(r) PROVE SettlementInv'
  <2>1. UNCHANGED <<estimates, resolutions, bets, polyCut>> /\ polyRun[r].pc = "idle"
        /\ (~polyOverlap' => ~polyOverlap)
    BY <1>1 DEF PolyBegin
  <2>2. polyRun'[r].pc = "list"
    BY <1>1, PolyMoves DEF PolyEffect
  <2> QED
    BY <1>1, <1>b, <1>c, <1>e, <2>1, <2>2
(* Steps that leave the tables alone.                                      *)
<1>2. ASSUME NEW r \in PolyRuns,
             DueMarkets(r) \/ SkipMarket(r) \/ PolyObserve(r) \/ NoCapacity(r) \/ PolyEnd(r)
      PROVE  SettlementInv'
  <2>1. /\ UNCHANGED <<estimates, resolutions, bets, polyCut, polyOverlap>> /\ PolyStep(r)
        /\ polyRun[r].pc \notin {"resolve", "score", "pay"}
    BY <1>2 DEF PolyStep, DueMarkets, SkipMarket, PolyObserve, NoCapacity, PolyEnd
  <2>2. polyRun'[r].pc \notin {"resolve", "score", "order"}
    BY <1>2, PolyMoves DEF PolyEffect
  <2> QED
    BY <1>b, <1>c, <1>e, <2>1, <2>2
<1>3. ASSUME NEW r \in PolyRuns, SettleMarket(r) PROVE SettlementInv'
  <2>1. /\ UNCHANGED <<estimates, resolutions, bets, polyCut, polyOverlap>> /\ PolyStep(r)
        /\ polyRun[r].pc = "settle"
    BY <1>3 DEF PolyStep, SettleMarket
  <2>2. /\ polyRun'[r].pc = "resolve" /\ polyRun'[r].market \in Markets
        /\ polyRun'[r].todo \subseteq EstimatesOf(polyRun'[r].market)
    BY <1>3, PolyMoves DEF PolyEffect
  <2>3. polyRun'[r].todo \subseteq EstimatesOf(polyRun[r].market)'
    BY <2>1, <2>2 DEF EstimatesOf, EstimateIds
  <2> QED
    BY <1>b, <1>c, <1>e, <2>1, <2>2, <2>3
<1>4. ASSUME NEW r \in PolyRuns, WriteResolution(r) PROVE SettlementInv'
  <2> DEFINE m == polyRun[r].market
  <2>1. /\ UNCHANGED <<estimates, bets, polyCut, polyOverlap>> /\ PolyStep(r)
        /\ polyRun[r].pc = "resolve"
    BY <1>4 DEF PolyStep, WriteResolution
  <2>2. /\ polyRun'[r].pc = "score" /\ polyRun'[r].market = m
        /\ polyRun'[r].todo \subseteq polyRun[r].todo
        /\ \E e \in polyRun[r].todo : resolutions' = resolutions \cup {e}
    BY <1>4, PolyMoves DEF PolyEffect
  <2> HIDE DEF m
  <2>3. ~polyOverlap => polyRun[r].todo \subseteq EstimatesOf(m)
    BY <2>1 DEF SettlementInv, m
  <2>4. ASSUME ~polyOverlap, NEW l \in Unresolved, l # m PROVE l \in Unresolved'
    <3>1. PICK e \in polyRun[r].todo : resolutions' = resolutions \cup {e}
      BY <2>2
    <3>2. estimates[e] = m
      BY <2>3, <2>4 DEF EstimatesOf
    <3> QED
      BY <2>1, <2>4, <3>1, <3>2 DEF Unresolved, EstimatesOf, EstimateIds
  <2>5. ~polyOverlap => polyRun'[r].todo \subseteq EstimatesOf(polyRun[r].market)'
    BY <2>1, <2>2, <2>3 DEF EstimatesOf, EstimateIds
  <2>6. ASSUME ~polyOverlap', ~polyCut', NEW l \in Markets, bets'[l] = "open"
        PROVE  l \in Unresolved' \/ polyRun'[r].market = l
    <3>1. l \in Unresolved \/ l = m
      BY <1>c, <2>1, <2>6 DEF m
    <3> QED
      BY <2>1, <2>2, <2>4, <2>6, <3>1
  <2> QED
    BY <1>b, <2>1, <2>2, <2>5, <2>6
<1>5. ASSUME NEW r \in PolyRuns, AddScore(r) PROVE SettlementInv'
  <2>1. /\ UNCHANGED <<estimates, resolutions, bets, polyCut, polyOverlap>> /\ PolyStep(r)
        /\ polyRun[r].pc = "score"
    BY <1>5 DEF PolyStep, AddScore
  <2>2. /\ polyRun'[r].pc = "resolve" /\ polyRun'[r].market = polyRun[r].market
        /\ polyRun'[r].todo = polyRun[r].todo
    BY <1>5, PolyMoves DEF PolyEffect
  <2>3. ~polyOverlap => polyRun'[r].todo \subseteq EstimatesOf(polyRun[r].market)'
    BY <2>1, <2>2 DEF EstimatesOf, EstimateIds, SettlementInv
  <2> QED
    BY <1>b, <1>c, <1>e, <2>1, <2>2, <2>3
<1>6. ASSUME NEW r \in PolyRuns, ReadPosition(r) PROVE SettlementInv'
  <2>1. /\ UNCHANGED <<estimates, resolutions, bets, polyCut, polyOverlap>> /\ PolyStep(r)
    BY <1>6 DEF PolyStep, ReadPosition
  <2>2. /\ polyRun'[r].pc = IF bets[polyRun[r].market] = "open" THEN "pay" ELSE "settle"
        /\ polyRun'[r].market = polyRun[r].market
    BY <1>6, PolyMoves DEF PolyEffect, Payable
  <2> QED
    BY <1>b, <1>c, <1>e, <2>1, <2>2
<1>7. ASSUME NEW r \in PolyRuns, PayOut(r) PROVE SettlementInv'
  <2> DEFINE m == polyRun[r].market
  <2>1. /\ UNCHANGED <<estimates, resolutions, polyCut, polyOverlap>> /\ PolyStep(r)
        /\ bets' = [bets EXCEPT ![m] = "resolved"]
    BY <1>7 DEF PolyStep, PayOut
  <2>2. polyRun'[r].pc = "settle"
    BY <1>7, PolyMoves DEF PolyEffect
  <2>3. \A l \in Markets : bets'[l] = "open" => l # m /\ bets[l] = "open"
    BY <2>1 DEF PolyTypeInv
  <2> QED
    BY <1>b, <1>c, <1>e, <2>1, <2>2, <2>3
<1>8. ASSUME NEW r \in PolyRuns, SaveEstimate(r) PROVE SettlementInv'
  <2> DEFINE e == Cardinality(EstimateIds) + 1
  <2>1. /\ UNCHANGED <<resolutions, bets, polyCut, polyOverlap>> /\ PolyStep(r)
        /\ polyRun[r].pc = "observe"
    BY <1>8 DEF PolyStep, SaveEstimate
  <2>2. PICK m \in Markets :
          /\ (polyRun'[r].pc = "order" /\ polyRun'[r].market = m) \/ polyRun'[r].pc = "observe"
          /\ estimates' = [i \in EstimateIds \cup {e} |-> IF i = e THEN m ELSE estimates[i]]
    BY <1>8, PolyMoves DEF PolyEffect
  <2>3. e \notin EstimateIds /\ e \notin resolutions
    BY EstimateIdsType DEF PolyTypeInv
  <2> HIDE DEF e
  <2>4. /\ EstimateIds' = EstimateIds \cup {e} /\ estimates'[e] = m
        /\ \A i \in EstimateIds : estimates'[i] = estimates[i]
    BY <2>2, <2>3 DEF EstimateIds
  <2>5. Unresolved \subseteq Unresolved' /\ m \in Unresolved'
    BY <2>1, <2>3, <2>4 DEF Unresolved, EstimatesOf
  <2> QED
    BY <1>b, <1>c, <2>1, <2>2, <2>5
<1>9. ASSUME NEW r \in PolyRuns, SaveExecution(r) PROVE SettlementInv'
  <2> DEFINE m == polyRun[r].market
  <2>1. /\ UNCHANGED <<estimates, resolutions, polyCut, polyOverlap>> /\ PolyStep(r)
        /\ polyRun[r].pc = "order" /\ (bets' = bets \/ bets' = [bets EXCEPT ![m] = "open"])
    BY <1>9 DEF PolyStep, SaveExecution
  <2>2. polyRun'[r].pc \in {"observe", "idle"}
    BY <1>9, PolyMoves DEF PolyEffect
  <2>3. \A l \in Markets : bets'[l] = "open" => l = m \/ bets[l] = "open"
    BY <2>1 DEF PolyTypeInv
  <2>4. ~polyOverlap => m \in Unresolved
    BY <2>1 DEF SettlementInv
  <2> QED
    BY <1>b, <1>c, <1>e, <2>1, <2>2, <2>3, <2>4
<1>10. ASSUME NEW r \in PolyRuns, PolyDies(r) PROVE SettlementInv'
  <2>1. polyCut' = TRUE /\ UNCHANGED polyOverlap
    BY <1>10 DEF PolyDies
  <2>2. polyRun'[r].pc = "idle"
    BY <1>10, PolyMoves DEF PolyEffect
  <2> QED
    BY <1>10, <1>b, <2>1, <2>2
<1>11. CASE (\E m \in Markets : MarketCloses(m)) \/ UNCHANGED polyVars
  <2>1. UNCHANGED <<estimates, resolutions, bets, polyRun, polyCut, polyOverlap>>
    BY <1>11 DEF MarketCloses, polyVars
  <2> QED
    BY <2>1 DEF SettlementInv, OpenBetWillBeSettled, OpenBets, Unresolved, EstimatesOf,
                EstimateIds
<1> QED
  BY <1>1, <1>2, <1>3, <1>4, <1>5, <1>6, <1>7, <1>8, <1>9, <1>10, <1>11
     DEF PolyNext, PolyStep

(* While no run was cut and none overlapped, an open position is within    *)
(* reach of a settlement: its market is unresolved, or it is being settled *)
(* (settle_market, unresolved_market_ids).                                 *)
THEOREM OpenBetsAreReached == PolySpec => []OpenBetWillBeSettled
<1>1. PolyInit => PayoutInv /\ SettlementInv
  BY DEF PolyInit, PayoutInv, PaidOnce, PolyAlone, IdlePoly, SettlementInv,
         OpenBetWillBeSettled, OpenBets
<1>2. PolyTypeInv /\ PolyTypeInv' /\ PayoutInv /\ SettlementInv /\ [PolyNext]_polyVars
        => SettlementInv'
  BY SettlementNext
<1>3. SettlementInv => OpenBetWillBeSettled
  BY DEF SettlementInv
<1> QED
  BY <1>1, <1>2, <1>3, PayoutNext, PolyTypeInvariant, PTL DEF PolySpec

-----------------------------------------------------------------------------
(* CryptoPaper.                                                            *)
PaperRunType ==
  [pc : {"idle", "scan", "exit", "enter", "open", "state", "seek"}, todo : SUBSET Coins,
   coin : Coins \cup {"none"}, bar : 0..MaxBars, id : Nat, trade : TradeType \cup {NoTrade},
   seen : [Coins -> Nat], slots : Nat, picked : SUBSET [coin : Coins, bar : 1..MaxBars]]

(* The stages at which a run works on a symbol.                            *)
Judging == {"exit", "enter", "open", "state"}

(* What a run at some stage holds.                                         *)
PaperHolds(run) ==
  /\ run.pc \in Judging => run.coin \in Coins /\ run.bar \in 1..bar
  /\ run.pc = "exit" => /\ run.id \in TradeIds /\ run.trade \in TradeType
                        /\ run.trade.entry <= bar
  /\ run.id <= Len(paperTrades)
  /\ \A p \in run.picked : p.bar <= bar

PaperTypeInv ==
  /\ bar \in 1..MaxBars
  /\ paperTrades \in Seq(TradeType) /\ \A i \in TradeIds : paperTrades[i].entry <= bar
  /\ lastBar \in [Coins -> 0..bar]
  /\ funnel \in [Coins -> SUBSET (1..MaxBars)]
  /\ paperRun \in [PaperRuns -> PaperRunType]
  /\ \A r \in PaperRuns : PaperHolds(paperRun[r])

LEMMA NoTradeIsNone == NoTrade \notin TradeType
BY DEF NoTrade, TradeType

LEMMA IdlePaperType ==
  /\ IdlePaper \in PaperRunType
  /\ IdlePaper.pc = "idle" /\ IdlePaper.id = 0 /\ IdlePaper.picked = {}
BY LimitsAssumption DEF IdlePaper, PaperRunType

LEMMA BecomesEffect ==
  ASSUME PaperTypeInv, NEW r \in PaperRuns, NEW next, Becomes(r, next)
  PROVE  paperRun'[r] = next /\ \A q \in PaperRuns \ {r} : paperRun'[q] = paperRun[q]
BY DEF PaperTypeInv, Becomes

LEMMA TradesType ==
  ASSUME PaperTypeInv
  PROVE  /\ Len(paperTrades) \in Nat
         /\ \A i \in TradeIds : paperTrades[i] \in TradeType
         /\ \A i \in TradeIds : paperTrades[i].entry \in 1..bar
<1>1. \A i \in TradeIds : paperTrades[i] \in TradeType
  BY DEF PaperTypeInv, TradeIds
<1>2. \A i \in TradeIds : paperTrades[i].entry \in 1..MaxBars
  BY <1>1 DEF TradeType
<1> QED
  BY <1>1, <1>2, LimitsAssumption DEF PaperTypeInv

(* The newest entry bar of a symbol is a number: some bar is the last.     *)
LEMMA NewestType ==
  ASSUME PaperTypeInv, NEW s \in Coins
  PROVE  Newest(s) \in Nat
<1> DEFINE bars == {paperTrades[i].entry : i \in {j \in TradeIds : paperTrades[j].coin = s}}
<1>1. \A b \in bars : b \in 0..MaxBars
  BY TradesType, LimitsAssumption DEF PaperTypeInv
<1>2. Newest(s) = IF bars = {} THEN 0 ELSE CHOOSE b \in bars : \A c \in bars : c <= b
  BY DEF Newest
<1> HIDE DEF bars
<1>3. ASSUME bars # {} PROVE \E b \in bars : \A c \in bars : c <= b
  <2> DEFINE left == {MaxBars - b : b \in bars}
  <2>1. left \subseteq Nat
    BY <1>1, LimitsAssumption
  <2>2. left # {}
    BY <1>3
  <2>3. \A b \in bars : MaxBars - b \in left
    OBVIOUS
  <2>4. \A x \in left : \E b \in bars : x = MaxBars - b
    OBVIOUS
  <2> HIDE DEF left
  <2>5. PICK x \in left : \A y \in left : ~(<<y, x>> \in OpToRel(<, Nat))
    BY <2>1, <2>2, NatLessThanWellFounded, WFMin, Zenon
  <2>6. \A y \in left : ~(y < x)
    BY <2>1, <2>5 DEF OpToRel
  <2>7. PICK b \in bars : x = MaxBars - b
    BY <2>4
  <2>8. ASSUME NEW c \in bars PROVE c <= b
    <3>1. ~(MaxBars - c < MaxBars - b)
      BY <2>3, <2>6, <2>7
    <3> QED
      BY <1>1, <3>1, LimitsAssumption
  <2> QED
    BY <2>8
<1> QED
  BY <1>1, <1>2, <1>3, LimitsAssumption

LEMMA FreeSlotsType ==
  ASSUME PaperTypeInv
  PROVE  FreeSlots \in Nat
<1>1. IsFiniteSet(TradeIds)
  BY TradesType, FS_Interval DEF TradeIds
<1>2. OpenCount \in Nat
  BY <1>1, FS_Subset, FS_CardinalityType DEF OpenCount
<1> QED
  BY <1>2, LimitsAssumption DEF FreeSlots

(* What each step makes of the run that takes it.                          *)
PaperEffect(r) ==
  LET old == paperRun[r]
      new == paperRun'[r]
  IN /\ new \in PaperRunType
     /\ BeginPaper(r) => new.pc = "scan" /\ new.id = 0 /\ new.picked = {}
     /\ LoadCoin(r) =>
          /\ new.picked = old.picked
          /\ \/ new.pc = "scan" /\ new.id = old.id
             \/ /\ new.coin \in Coins /\ new.bar = bar /\ ~Judged(new.coin)
                /\ \/ new.pc = "enter" /\ new.id = old.id
                   \/ /\ new.pc = "exit" /\ new.id \in OpenIds(new.coin)
                      /\ new.trade = paperTrades[new.id]
     /\ JudgeExit(r) \/ JudgeEntry(r) \/ OpenPaper(r) =>
          /\ new.coin = old.coin /\ new.bar = old.bar /\ new.id = old.id
          /\ new.picked = old.picked
          /\ new.pc = "state" \/ (new.pc = "open" /\ JudgeEntry(r))
     /\ HaltTrack(r) \/ SaveState(r) \/ CoinFails(r) =>
          new.pc = "scan" /\ new.id = 0 /\ new.picked = old.picked
     /\ BeginSeeding(r) => new.pc \in {"idle", "seek"} /\ new.id = 0 /\ new.picked = {}
     /\ SeekSeed(r) =>
          /\ new.pc = "seek" /\ new.id = old.id
          /\ \A p \in new.picked : p \in old.picked \/ p.bar = bar
     /\ OpenSeed(r) => new.pc = "seek" /\ new.id = old.id /\ new.picked \subseteq old.picked
     /\ PaperEnds(r) \/ PaperDies(r) => new = IdlePaper

LEMMA NextCoinType ==
  ASSUME NEW run \in PaperRunType
  PROVE  /\ NextCoin(run) \in PaperRunType /\ NextCoin(run).pc = "scan"
         /\ NextCoin(run).id = 0 /\ NextCoin(run).picked = run.picked
<1> DEFINE next == [run EXCEPT !.pc = "scan", !.coin = "none", !.bar = 0, !.id = 0,
                               !.trade = NoTrade]
<1>1. 0 \in 0..MaxBars
  BY LimitsAssumption
<1>2. /\ next \in PaperRunType /\ next.pc = "scan"
      /\ next.id = 0 /\ next.picked = run.picked
  BY <1>1 DEF PaperRunType
<1> QED
  BY <1>2 DEF NextCoin

LEMMA PaperMoves ==
  ASSUME PaperTypeInv, NEW r \in PaperRuns, BeginPaper(r) \/ PaperStep(r) \/ PaperDies(r)
  PROVE  PaperEffect(r)
<1> DEFINE new == paperRun'[r]
<1>a. paperRun[r] \in PaperRunType
  BY DEF PaperTypeInv
<1>b. bar \in 0..MaxBars /\ bar \in 1..MaxBars
  BY LimitsAssumption DEF PaperTypeInv
<1>1. ASSUME BeginPaper(r)
      PROVE  new \in PaperRunType /\ new.pc = "scan" /\ new.id = 0 /\ new.picked = {}
  <2>1. PICK todo \in SUBSET Pending : Becomes(r, [IdlePaper EXCEPT !.pc = "scan", !.todo = todo])
    BY <1>1 DEF BeginPaper
  <2> DEFINE next == [IdlePaper EXCEPT !.pc = "scan", !.todo = todo]
  <2>2. next \in PaperRunType /\ next.pc = "scan" /\ next.id = 0 /\ next.picked = {}
    BY IdlePaperType DEF PaperRunType, Pending
  <2>3. new = next
    BY <2>1, BecomesEffect
  <2> HIDE DEF next
  <2> QED
    BY <2>2, <2>3
<1>2. ASSUME LoadCoin(r)
      PROVE  /\ new \in PaperRunType /\ new.picked = paperRun[r].picked
             /\ \/ new.pc = "scan" /\ new.id = paperRun[r].id
                \/ /\ new.coin \in Coins /\ new.bar = bar /\ ~Judged(new.coin)
                   /\ \/ new.pc = "enter" /\ new.id = paperRun[r].id
                      \/ /\ new.pc = "exit" /\ new.id \in OpenIds(new.coin)
                         /\ new.trade = paperTrades[new.id]
  <2> DEFINE s   == FirstOf(paperRun[r].todo)
             run == [paperRun[r] EXCEPT !.todo = @ \ {s}]
  <2>1. s \in Coins
    BY <1>a, <1>2 DEF LoadCoin, FirstOf, PaperRunType
  <2>2. /\ run \in PaperRunType /\ run.id = paperRun[r].id /\ run.picked = paperRun[r].picked
        /\ run.pc = "scan"
    BY <1>a, <1>2 DEF PaperRunType, LoadCoin
  <2>3. CASE Judged(s)
    <3>1. Becomes(r, run)
      BY <1>2, <2>3 DEF LoadCoin
    <3>2. new = run
      BY <3>1, BecomesEffect
    <3> HIDE DEF run
    <3> QED
      BY <2>2, <3>2
  <2>4. CASE ~Judged(s) /\ OpenIds(s) = {}
    <3> DEFINE next == [run EXCEPT !.pc = "enter", !.coin = s, !.bar = bar]
    <3>1. Becomes(r, next)
      BY <1>2, <2>4 DEF LoadCoin
    <3>2. new = next
      BY <3>1, BecomesEffect
    <3> HIDE DEF run, s
    <3>3. /\ next \in PaperRunType /\ next.id = run.id /\ next.picked = run.picked
          /\ next.pc = "enter" /\ next.coin = s /\ next.bar = bar
      BY <1>b, <2>1, <2>2 DEF PaperRunType
    <3> HIDE DEF next
    <3> QED
      BY <2>1, <2>2, <2>4, <3>2, <3>3
  <2>5. CASE ~Judged(s) /\ OpenIds(s) # {}
    <3>1. PICK i \in OpenIds(s) :
            Becomes(r, [run EXCEPT !.pc = "exit", !.coin = s, !.bar = bar, !.id = i,
                                   !.trade = paperTrades[i]])
      BY <1>2, <2>5 DEF LoadCoin
    <3> DEFINE next == [run EXCEPT !.pc = "exit", !.coin = s, !.bar = bar, !.id = i,
                                   !.trade = paperTrades[i]]
    <3>2. new = next
      BY <3>1, BecomesEffect
    <3>3. i \in Nat /\ paperTrades[i] \in TradeType
      BY TradesType DEF OpenIds, TradeIds
    <3> HIDE DEF run, s
    <3>4. /\ next \in PaperRunType /\ next.id = i /\ next.picked = run.picked
          /\ next.pc = "exit" /\ next.coin = s /\ next.bar = bar
          /\ next.trade = paperTrades[i]
      BY <1>b, <2>1, <2>2, <3>3 DEF PaperRunType
    <3> HIDE DEF next
    <3> QED
      BY <2>1, <2>2, <2>5, <3>1, <3>2, <3>4
  <2> QED
    BY <2>3, <2>4, <2>5
<1>3. ASSUME JudgeExit(r) \/ JudgeEntry(r) \/ OpenPaper(r)
      PROVE  /\ new \in PaperRunType
             /\ new.coin = paperRun[r].coin /\ new.bar = paperRun[r].bar
             /\ new.id = paperRun[r].id /\ new.picked = paperRun[r].picked
             /\ new.pc = "state" \/ (new.pc = "open" /\ JudgeEntry(r))
  <2>1. PICK pc \in {"state", "open"} :
          /\ Becomes(r, [paperRun[r] EXCEPT !.pc = pc])
          /\ pc = "state" \/ JudgeEntry(r)
    BY <1>3 DEF JudgeExit, JudgeEntry, OpenPaper
  <2> DEFINE next == [paperRun[r] EXCEPT !.pc = pc]
  <2>2. /\ next \in PaperRunType /\ next.pc = pc /\ next.coin = paperRun[r].coin
        /\ next.bar = paperRun[r].bar /\ next.id = paperRun[r].id
        /\ next.picked = paperRun[r].picked
    BY <1>a DEF PaperRunType
  <2>3. new = next
    BY <2>1, BecomesEffect
  <2> HIDE DEF next
  <2> QED
    BY <2>1, <2>2, <2>3
<1>4. ASSUME HaltTrack(r) \/ SaveState(r) \/ CoinFails(r)
      PROVE  /\ new \in PaperRunType
             /\ new.pc = "scan" /\ new.id = 0 /\ new.picked = paperRun[r].picked
  <2>1. NextCoin(paperRun[r]) \in PaperRunType
    BY <1>a, NextCoinType
  <2>2. CASE HaltTrack(r)
    <3> DEFINE next == [NextCoin(paperRun[r]) EXCEPT !.todo = {}]
    <3>1. /\ next \in PaperRunType /\ next.pc = "scan" /\ next.id = 0
          /\ next.picked = paperRun[r].picked
      BY <1>a, <2>1, NextCoinType DEF PaperRunType
    <3>2. new = next
      BY <2>2, BecomesEffect DEF HaltTrack
    <3> HIDE DEF next
    <3> QED
      BY <3>1, <3>2
  <2>3. CASE SaveState(r) \/ CoinFails(r)
    <3>1. new = NextCoin(paperRun[r])
      BY <2>3, BecomesEffect DEF SaveState, CoinFails
    <3> QED
      BY <1>a, <3>1, NextCoinType
  <2> QED
    BY <1>4, <2>2, <2>3
<1>5. ASSUME BeginSeeding(r)
      PROVE  /\ new \in PaperRunType
             /\ new.pc \in {"idle", "seek"} /\ new.id = 0 /\ new.picked = {}
  <2> DEFINE seen == [s \in Coins |-> Newest(s)]
             next == [IdlePaper EXCEPT !.pc = "seek", !.todo = Coins, !.slots = FreeSlots,
                                       !.seen = seen]
  <2>1. new = IdlePaper \/ new = next
    BY <1>5, BecomesEffect DEF BeginSeeding
  <2>2. seen \in [Coins -> Nat] /\ FreeSlots \in Nat
    BY NewestType, FreeSlotsType
  <2> HIDE DEF seen
  <2>3. next \in PaperRunType /\ next.pc = "seek" /\ next.id = 0 /\ next.picked = {}
    BY <2>2, IdlePaperType DEF PaperRunType
  <2> HIDE DEF next
  <2> QED
    BY <2>1, <2>3, IdlePaperType
<1>6. ASSUME SeekSeed(r)
      PROVE  /\ new \in PaperRunType /\ new.pc = "seek" /\ new.id = paperRun[r].id
             /\ \A p \in new.picked : p \in paperRun[r].picked \/ p.bar = bar
  <2> DEFINE s    == FirstOf(paperRun[r].todo)
             run  == [paperRun[r] EXCEPT !.todo = @ \ {s}]
             cand == [coin |-> s, bar |-> bar]
             next == [run EXCEPT !.picked = @ \cup {cand}]
  <2>1. s \in Coins
    BY <1>a, <1>6 DEF SeekSeed, FirstOf, PaperRunType
  <2>2. new = run \/ new = next
    BY <1>6, BecomesEffect DEF SeekSeed
  <2>3. cand \in [coin : Coins, bar : 1..MaxBars] /\ cand.bar = bar
    BY <1>b, <2>1
  <2> HIDE DEF s, cand
  <2>4. /\ run \in PaperRunType /\ run.pc = "seek" /\ run.id = paperRun[r].id
        /\ run.picked = paperRun[r].picked
    BY <1>a, <1>6 DEF PaperRunType, SeekSeed
  <2> HIDE DEF run
  <2>5. /\ next \in PaperRunType /\ next.pc = "seek" /\ next.id = run.id
        /\ next.picked = run.picked \cup {cand}
    BY <2>3, <2>4 DEF PaperRunType
  <2> HIDE DEF next
  <2> QED
    BY <2>2, <2>3, <2>4, <2>5
<1>7. ASSUME OpenSeed(r)
      PROVE  /\ new \in PaperRunType /\ new.pc = "seek" /\ new.id = paperRun[r].id
             /\ new.picked \subseteq paperRun[r].picked
  <2>1. PICK p \in paperRun[r].picked :
          Becomes(r, [paperRun[r] EXCEPT !.picked = @ \ {p}, !.slots = @ - 1])
    BY <1>7 DEF OpenSeed
  <2> DEFINE next == [paperRun[r] EXCEPT !.picked = @ \ {p}, !.slots = @ - 1]
  <2>2. paperRun[r].slots \in Nat /\ paperRun[r].slots > 0 /\ paperRun[r].pc = "seek"
    BY <1>a, <1>7 DEF PaperRunType, OpenSeed
  <2> DEFINE left == paperRun[r].slots - 1
             rest == paperRun[r].picked \ {p}
  <2>a. /\ left \in Nat /\ rest \subseteq paperRun[r].picked
        /\ rest \in SUBSET [coin : Coins, bar : 1..MaxBars]
        /\ next = [paperRun[r] EXCEPT !.picked = rest, !.slots = left]
    BY <1>a, <2>2 DEF PaperRunType
  <2> HIDE DEF left, rest, next
  <2>3. /\ next \in PaperRunType /\ next.pc = "seek" /\ next.id = paperRun[r].id
        /\ next.picked \subseteq paperRun[r].picked
    BY <1>a, <2>2, <2>a DEF PaperRunType
  <2>4. new = next
    BY <2>1, BecomesEffect DEF next
  <2> QED
    BY <2>3, <2>4
<1>8. ASSUME PaperEnds(r) \/ PaperDies(r) PROVE new = IdlePaper
  BY <1>8, BecomesEffect DEF PaperEnds, PaperDies
<1> HIDE DEF new
<1>9. new \in PaperRunType
  BY <1>1, <1>2, <1>3, <1>4, <1>5, <1>6, <1>7, <1>8, IdlePaperType DEF PaperStep
<1> QED
  BY <1>1, <1>2, <1>3, <1>4, <1>5, <1>6, <1>7, <1>8, <1>9 DEF PaperEffect, new

LEMMA OutcomesType ==
  ASSUME NEW t \in TradeType, NEW b \in 1..MaxBars, NEW u \in Outcomes(t, b)
  PROVE  /\ u \in TradeType
         /\ u.coin = t.coin /\ u.entry = t.entry /\ u.seeded = t.seeded
         /\ u.halved \in {t.halved, b} /\ u.exit \in {t.exit, b}
<1>1. \/ u = t
      \/ u = [t EXCEPT !.status = "closed", !.exit = b]
      \/ u = [t EXCEPT !.halved = b]
  BY DEF Outcomes
<1>2. b \in 0..MaxBars
  BY LimitsAssumption
<1> QED
  BY <1>1, <1>2 DEF TradeType

(* What the steps that write the ledger make of it.                        *)
TradesEffect(r) ==
  LET run == paperRun[r] IN
  /\ paperTrades' \in Seq(TradeType) /\ Len(paperTrades) <= Len(paperTrades')
  /\ \A i \in TradeIds' : paperTrades'[i].entry <= bar
  /\ JudgeExit(r) =>
       /\ TradeIds' = TradeIds
       /\ \A i \in TradeIds : \/ paperTrades'[i] = paperTrades[i]
                              \/ i = run.id /\ paperTrades'[i] \in Outcomes(run.trade, run.bar)
  /\ OpenPaper(r) => \A i \in TradeIds' :
       \/ i \in TradeIds /\ paperTrades'[i] = paperTrades[i]
       \/ paperTrades'[i] = NewTrade(run.coin, run.bar, FALSE)
  /\ OpenSeed(r) => \A i \in TradeIds' :
       \/ i \in TradeIds /\ paperTrades'[i] = paperTrades[i]
       \/ \E s \in Coins, b \in 1..bar : paperTrades'[i] = NewTrade(s, b, TRUE)

LEMMA NewTradeType ==
  ASSUME NEW s \in Coins, NEW b \in 1..MaxBars, NEW seeded \in BOOLEAN
  PROVE  /\ NewTrade(s, b, seeded) \in TradeType
         /\ NewTrade(s, b, seeded).coin = s /\ NewTrade(s, b, seeded).entry = b
         /\ NewTrade(s, b, seeded).seeded = seeded
         /\ NewTrade(s, b, seeded).halved = 0 /\ NewTrade(s, b, seeded).exit = 0
BY LimitsAssumption DEF NewTrade, TradeType

(* A trade is appended.                                                    *)
LEMMA LedgerGrows ==
  ASSUME PaperTypeInv, NEW s \in Coins, NEW b \in 1..bar, NEW seeded \in BOOLEAN,
         paperTrades' = Append(paperTrades, NewTrade(s, b, seeded))
  PROVE  /\ paperTrades' \in Seq(TradeType) /\ Len(paperTrades) <= Len(paperTrades')
         /\ \A i \in TradeIds' : paperTrades'[i].entry <= bar
         /\ \A i \in TradeIds' : \/ i \in TradeIds /\ paperTrades'[i] = paperTrades[i]
                                 \/ paperTrades'[i] = NewTrade(s, b, seeded)
<1> DEFINE new == NewTrade(s, b, seeded)
<1>1. b \in 1..MaxBars
  BY LimitsAssumption DEF PaperTypeInv
<1>2. new \in TradeType /\ new.entry = b
  BY <1>1, NewTradeType
<1>3. paperTrades \in Seq(TradeType)
  BY DEF PaperTypeInv
<1> HIDE DEF new
<1>4. /\ paperTrades' = Append(paperTrades, new)
      /\ paperTrades' \in Seq(TradeType) /\ Len(paperTrades') = Len(paperTrades) + 1
      /\ \A i \in TradeIds' : \/ i \in TradeIds /\ paperTrades'[i] = paperTrades[i]
                              \/ paperTrades'[i] = new
  BY <1>2, <1>3, AppendProperties DEF TradeIds, new
<1>5. Len(paperTrades) <= Len(paperTrades')
  BY <1>3, <1>4
<1>6. new.entry <= bar /\ \A i \in TradeIds : paperTrades[i].entry <= bar
  BY <1>2 DEF PaperTypeInv
<1>7. ASSUME NEW i \in TradeIds' PROVE paperTrades'[i].entry <= bar
  BY <1>4, <1>6
<1> QED
  BY <1>4, <1>5, <1>7, Zenon DEF new

LEMMA TradesWritten ==
  ASSUME PaperTypeInv, NEW r \in PaperRuns, JudgeExit(r) \/ OpenPaper(r) \/ OpenSeed(r)
  PROVE  TradesEffect(r)
<1> DEFINE run == paperRun[r]
<1>a. run \in PaperRunType /\ PaperHolds(run)
  BY DEF PaperTypeInv
<1>b. 1..bar \subseteq 1..MaxBars
  BY LimitsAssumption DEF PaperTypeInv
<1>c. run.pc \in {"exit", "seek", "open"}
  BY DEF JudgeExit, OpenPaper, OpenSeed
<1>1. CASE JudgeExit(r)
  <2>1. /\ run.id \in TradeIds /\ run.trade \in TradeType /\ run.trade.entry <= bar
        /\ run.bar \in 1..MaxBars
    BY <1>1, <1>a, <1>b DEF JudgeExit, PaperHolds, Judging
  <2>2. PICK t \in Outcomes(run.trade, run.bar) : paperTrades' = [paperTrades EXCEPT ![run.id] = t]
    BY <1>1 DEF JudgeExit
  <2>3. t \in TradeType /\ t.entry <= bar
    BY <2>1, OutcomesType
  <2>4. paperTrades \in Seq(TradeType)
    BY DEF PaperTypeInv
  <2>5. run.pc = "exit"
    BY <1>1 DEF JudgeExit
  <2> HIDE DEF run
  <2>6. /\ paperTrades' \in Seq(TradeType) /\ Len(paperTrades') = Len(paperTrades)
        /\ TradeIds' = TradeIds
        /\ \A i \in TradeIds : paperTrades'[i] = IF i = run.id THEN t ELSE paperTrades[i]
    BY <2>1, <2>2, <2>3, <2>4, ExceptSeq DEF TradeIds
  <2>7. Len(paperTrades) \in Nat
    BY <2>4
  <2>8. \A i \in TradeIds' : paperTrades'[i].entry <= bar
    BY <2>3, <2>6 DEF PaperTypeInv
  <2>9. ~OpenPaper(r) /\ ~OpenSeed(r)
    BY <2>5 DEF OpenPaper, OpenSeed, run
  <2>10. \A i \in TradeIds :
           \/ paperTrades'[i] = paperTrades[i]
           \/ i = run.id /\ paperTrades'[i] \in Outcomes(run.trade, run.bar)
    BY <2>2, <2>6
  <2>11. Len(paperTrades) <= Len(paperTrades')
    BY <2>6, <2>7
  <2> QED
    BY <2>6, <2>8, <2>9, <2>10, <2>11, Zenon DEF TradesEffect, run
<1>2. CASE OpenPaper(r)
  <2>1. run.coin \in Coins /\ run.bar \in 1..bar
    BY <1>2, <1>a DEF OpenPaper, PaperHolds, Judging
  <2>2. paperTrades' = Append(paperTrades, NewTrade(run.coin, run.bar, FALSE))
    BY <1>2 DEF OpenPaper
  <2>3. ~JudgeExit(r) /\ ~OpenSeed(r)
    BY <1>2 DEF OpenPaper, OpenSeed, JudgeExit
  <2> HIDE DEF run
  <2> QED
    BY <2>1, <2>2, <2>3, LedgerGrows DEF TradesEffect, run
<1>3. CASE OpenSeed(r)
  <2>1. PICK p \in run.picked :
          IF SeedId(p) = {}
          THEN paperTrades' = Append(paperTrades, NewTrade(p.coin, p.bar, TRUE))
          ELSE paperTrades' = [i \in TradeIds |->
                 IF i \in SeedId(p) THEN NewTrade(p.coin, p.bar, TRUE) ELSE paperTrades[i]]
    BY <1>3 DEF OpenSeed
  <2>2. p \in [coin : Coins, bar : 1..MaxBars] /\ p.bar <= bar
    BY <1>a DEF PaperRunType, PaperHolds
  <2>3. p.coin \in Coins /\ p.bar \in 1..bar
    BY <2>2, LimitsAssumption DEF PaperTypeInv
  <2>4. ~JudgeExit(r) /\ ~OpenPaper(r)
    BY <1>3 DEF OpenPaper, OpenSeed, JudgeExit
  <2> DEFINE new == NewTrade(p.coin, p.bar, TRUE)
  <2>5. CASE paperTrades' = Append(paperTrades, new)
    BY <2>3, <2>4, <2>5, LedgerGrows DEF TradesEffect
  <2>6. CASE paperTrades' = [i \in TradeIds |-> IF i \in SeedId(p) THEN new ELSE paperTrades[i]]
    <3>1. new \in TradeType /\ new.entry <= bar
      BY <1>b, <2>2, <2>3, NewTradeType
    <3> DEFINE n == Len(paperTrades)
    <3>2. n \in Nat /\ TradeIds = 1..n
      BY TradesType DEF TradeIds
    <3> HIDE DEF new
    <3>3. \A i \in TradeIds : /\ paperTrades'[i] \in TradeType /\ paperTrades'[i].entry <= bar
                             /\ (paperTrades'[i] = paperTrades[i] \/ paperTrades'[i] = new)
      BY <2>6, <3>1, TradesType DEF PaperTypeInv
    <3>4. paperTrades' \in [1..n -> TradeType]
      BY <2>6, <3>2, <3>3
    <3> HIDE DEF n
    <3>5. paperTrades' \in Seq(TradeType) /\ Len(paperTrades') = n
      BY <3>2, <3>4
    <3>6. TradeIds' = TradeIds
      BY <3>2, <3>5 DEF TradeIds
    <3>7. Len(paperTrades) <= Len(paperTrades')
      BY <3>2, <3>5 DEF n
    <3>8. \A i \in TradeIds' :
            \/ i \in TradeIds /\ paperTrades'[i] = paperTrades[i]
            \/ \E s \in Coins, b \in 1..bar : paperTrades'[i] = NewTrade(s, b, TRUE)
      BY <2>3, <3>3, <3>6, Zenon DEF new
    <3>9. \A i \in TradeIds' : paperTrades'[i].entry <= bar
      BY <3>3, <3>6
    <3> QED
      BY <2>4, <3>5, <3>7, <3>8, <3>9, Zenon DEF TradesEffect
  <2> QED
    BY <2>1, <2>5, <2>6
<1> QED
  BY <1>1, <1>2, <1>3

(* What a run holds stays good while the ledger and the bars grow.         *)
LEMMA HoldsOn ==
  ASSUME PaperTypeInv, NEW q \in PaperRuns, paperRun'[q] = paperRun[q],
         bar' \in Nat, bar <= bar', Len(paperTrades)' \in Nat,
         Len(paperTrades) <= Len(paperTrades)'
  PROVE  PaperHolds(paperRun[q])'
<1>1. bar \in Nat /\ paperRun[q] \in PaperRunType /\ PaperHolds(paperRun[q])
  BY LimitsAssumption DEF PaperTypeInv
<1>2. /\ paperRun[q].id \in Nat
      /\ \A p \in paperRun[q].picked : p.bar \in Nat
  BY <1>1, LimitsAssumption DEF PaperRunType
<1>3. paperRun[q].trade \in TradeType => paperRun[q].trade.entry \in Nat
  BY LimitsAssumption DEF TradeType
<1>4. Len(paperTrades) \in Nat
  BY TradesType
<1> QED
  BY <1>1, <1>2, <1>3, <1>4 DEF PaperHolds, TradeIds

(* The run that steps still holds what its stage needs.                    *)
LEMMA StepperHolds ==
  ASSUME PaperTypeInv, NEW r \in PaperRuns, BeginPaper(r) \/ PaperStep(r) \/ PaperDies(r),
         UNCHANGED bar, Len(paperTrades)' \in Nat, Len(paperTrades) <= Len(paperTrades)'
  PROVE  PaperHolds(paperRun[r])'
<1> DEFINE new == paperRun'[r]
<1>a. PaperEffect(r) /\ new \in PaperRunType
  BY PaperMoves DEF PaperEffect
<1>b. /\ bar \in 1..MaxBars /\ paperRun[r] \in PaperRunType /\ PaperHolds(paperRun[r])
      /\ Len(paperTrades) \in Nat
  BY TradesType DEF PaperTypeInv
<1>c. /\ new.id \in Nat /\ paperRun[r].id \in Nat /\ bar \in Nat
      /\ \A p \in new.picked : p.bar \in Nat
  <2>1. ASSUME NEW run \in PaperRunType
        PROVE  run.id \in Nat /\ \A p \in run.picked : p.bar \in 1..MaxBars
    BY DEF PaperRunType
  <2> HIDE DEF new
  <2> QED
    BY <1>a, <1>b, <2>1, LimitsAssumption
<1> HIDE DEF new
<1>d. ASSUME new.id = 0 \/ new.id = paperRun[r].id,
             \A p \in new.picked : p \in paperRun[r].picked \/ p.bar = bar
      PROVE  new.id <= Len(paperTrades)' /\ \A p \in new.picked : p.bar <= bar'
  BY <1>b, <1>c, <1>d DEF PaperHolds
<1>1. CASE BeginPaper(r) \/ HaltTrack(r) \/ SaveState(r) \/ CoinFails(r)
  <2>1. new.pc = "scan" /\ new.id = 0 /\ new.picked \subseteq paperRun[r].picked
    BY <1>1, <1>a DEF PaperEffect, new
  <2> QED
    BY <1>d, <2>1 DEF PaperHolds, Judging, new
<1>2. CASE LoadCoin(r)
  <2>1. /\ new.picked = paperRun[r].picked
        /\ \/ new.pc = "scan" /\ new.id = paperRun[r].id
           \/ /\ new.coin \in Coins /\ new.bar = bar
              /\ \/ new.pc = "enter" /\ new.id = paperRun[r].id
                 \/ /\ new.pc = "exit" /\ new.id \in OpenIds(new.coin)
                    /\ new.trade = paperTrades[new.id]
    BY <1>2, <1>a DEF PaperEffect, new
  <2>2. CASE new.pc = "exit"
    <3>1. new.id \in TradeIds /\ new.trade = paperTrades[new.id] /\ new.coin \in Coins
              /\ new.bar = bar
      BY <2>1, <2>2 DEF OpenIds
    <3>2. new.trade \in TradeType /\ new.trade.entry <= bar
      BY <3>1, TradesType DEF PaperTypeInv
    <3>3. new.id \in TradeIds' /\ new.id <= Len(paperTrades)'
      BY <1>b, <3>1 DEF TradeIds
    <3>4. \A p \in new.picked : p.bar <= bar
      BY <1>b, <2>1 DEF PaperHolds
    <3> QED
      BY <1>b, <3>1, <3>2, <3>3, <3>4 DEF PaperHolds, new
  <2>3. CASE new.pc # "exit"
    BY <1>b, <1>d, <2>1, <2>3 DEF PaperHolds, Judging, new
  <2> QED
    BY <2>2, <2>3
<1>3. CASE JudgeExit(r) \/ JudgeEntry(r) \/ OpenPaper(r)
  <2>1. /\ new.coin = paperRun[r].coin /\ new.bar = paperRun[r].bar
        /\ new.id = paperRun[r].id /\ new.picked = paperRun[r].picked
        /\ new.pc \in {"state", "open"}
    BY <1>3, <1>a DEF PaperEffect, new
  <2>2. paperRun[r].pc \in Judging
    BY <1>3 DEF JudgeExit, JudgeEntry, OpenPaper, Judging
  <2> QED
    BY <1>b, <1>d, <2>1, <2>2 DEF PaperHolds, new
<1>4. CASE BeginSeeding(r) \/ SeekSeed(r) \/ OpenSeed(r)
  <2>1. /\ new.pc \in {"idle", "seek"} /\ (new.id = 0 \/ new.id = paperRun[r].id)
        /\ \A p \in new.picked : p \in paperRun[r].picked \/ p.bar = bar
    BY <1>4, <1>a DEF PaperEffect, new
  <2> QED
    BY <1>d, <2>1 DEF PaperHolds, Judging, new
<1>5. CASE PaperEnds(r) \/ PaperDies(r)
  <2>1. new.pc = "idle" /\ new.id = 0 /\ new.picked = {}
    BY <1>5, <1>a, IdlePaperType DEF PaperEffect, new
  <2> QED
    BY <1>d, <2>1 DEF PaperHolds, Judging, new
<1> QED
  BY <1>1, <1>2, <1>3, <1>4, <1>5 DEF PaperStep

LEMMA PaperTypeNext == PaperTypeInv /\ [PaperNext]_paperVars => PaperTypeInv'
<1> SUFFICES ASSUME PaperTypeInv, [PaperNext]_paperVars PROVE PaperTypeInv'
  OBVIOUS
<1>a. bar \in Nat /\ Len(paperTrades) \in Nat
  BY TradesType, LimitsAssumption DEF PaperTypeInv
<1>1. CASE BarConfirmed
  <2>1. /\ bar' = bar + 1 /\ bar' \in 1..MaxBars
        /\ UNCHANGED <<paperTrades, lastBar, funnel, paperRun>>
    BY <1>1, LimitsAssumption DEF BarConfirmed, PaperTypeInv
  <2>2. \A q \in PaperRuns : PaperHolds(paperRun[q])'
    BY <1>a, <2>1, HoldsOn
  <2>3. \A i \in TradeIds' : paperTrades'[i].entry <= bar'
    BY <1>a, <2>1, TradesType DEF TradeIds
  <2>4. lastBar' \in [Coins -> 0..bar']
    BY <1>a, <2>1 DEF PaperTypeInv
  <2> QED
    BY <2>1, <2>2, <2>3, <2>4 DEF PaperTypeInv
<1>2. ASSUME NEW r \in PaperRuns, BeginPaper(r) \/ PaperStep(r) \/ PaperDies(r) PROVE PaperTypeInv'
  <2>1. /\ paperTrades' \in Seq(TradeType) /\ Len(paperTrades) <= Len(paperTrades')
        /\ \A i \in TradeIds' : paperTrades'[i].entry <= bar
    <3>1. CASE JudgeExit(r) \/ OpenPaper(r) \/ OpenSeed(r)
      BY <3>1, TradesWritten DEF TradesEffect
    <3>2. CASE UNCHANGED paperTrades
      BY <1>a, <3>2 DEF PaperTypeInv, TradeIds
    <3> QED
      BY <1>2, <3>1, <3>2 DEF PaperStep, BeginPaper, PaperDies, LoadCoin, HaltTrack, JudgeEntry,
                              SaveState, CoinFails, BeginSeeding, SeekSeed, PaperEnds
  <2>2. UNCHANGED bar /\ Len(paperTrades)' \in Nat
    <3>1. UNCHANGED bar
      BY <1>2 DEF PaperStep, BeginPaper, PaperDies, LoadCoin, HaltTrack, JudgeEntry, SaveState,
                  CoinFails, BeginSeeding, SeekSeed, PaperEnds, JudgeExit, OpenPaper, OpenSeed
    <3> QED
      BY <2>1, <3>1
  <2>3. \A q \in PaperRuns : paperRun'[q] \in PaperRunType /\ PaperHolds(paperRun[q])'
    <3>1. paperRun'[r] \in PaperRunType /\ PaperHolds(paperRun[r])'
      BY <1>2, <2>1, <2>2, PaperMoves, StepperHolds DEF PaperEffect
    <3>2. ASSUME NEW q \in PaperRuns \ {r}
          PROVE  paperRun'[q] \in PaperRunType /\ PaperHolds(paperRun[q])'
      <4>1. paperRun'[q] = paperRun[q]
        BY <1>2, <3>2 DEF PaperStep, BeginPaper, PaperDies, LoadCoin, HaltTrack, JudgeEntry,
             SaveState, CoinFails, BeginSeeding, SeekSeed, PaperEnds, JudgeExit, OpenPaper,
             OpenSeed, Becomes, PaperTypeInv
      <4> QED
        BY <1>a, <2>1, <2>2, <4>1, HoldsOn DEF PaperTypeInv
    <3> QED
      BY <3>1, <3>2
  <2>4. paperRun' \in [PaperRuns -> PaperRunType]
    <3>1. \E next : Becomes(r, next)
      BY <1>2, Zenon DEF PaperStep, BeginPaper, PaperDies, LoadCoin, HaltTrack, JudgeEntry,
           SaveState, CoinFails, BeginSeeding, SeekSeed, PaperEnds, JudgeExit, OpenPaper, OpenSeed
    <3> QED
      BY <2>3, <3>1 DEF Becomes, PaperTypeInv
  <2>5. lastBar' \in [Coins -> 0..bar] /\ funnel' \in [Coins -> SUBSET (1..MaxBars)]
    <3>1. CASE SaveState(r)
      <4>1. paperRun[r].coin \in Coins /\ paperRun[r].bar \in 1..bar
        BY <3>1 DEF SaveState, PaperTypeInv, PaperHolds, Judging
      <4> QED
        BY <1>a, <3>1, <4>1 DEF SaveState, PaperTypeInv
    <3>2. CASE JudgeEntry(r)
      <4>1. paperRun[r].coin \in Coins /\ paperRun[r].bar \in 1..MaxBars
        BY <1>a, <3>2, LimitsAssumption DEF JudgeEntry, PaperTypeInv, PaperHolds, Judging
      <4> QED
        BY <3>2, <4>1 DEF JudgeEntry, PaperTypeInv
    <3>3. CASE UNCHANGED <<lastBar, funnel>>
      BY <3>3 DEF PaperTypeInv
    <3> QED
      BY <1>2, <3>1, <3>2, <3>3 DEF PaperStep, BeginPaper, PaperDies, LoadCoin, HaltTrack,
           CoinFails, BeginSeeding, SeekSeed, PaperEnds, JudgeExit, OpenPaper, OpenSeed
  <2> QED
    BY <2>1, <2>2, <2>3, <2>4, <2>5 DEF PaperTypeInv
<1>3. CASE ClearHalt \/ UNCHANGED paperVars
  <2>1. UNCHANGED <<bar, paperTrades, lastBar, funnel, paperRun>>
    BY <1>3 DEF ClearHalt, paperVars
  <2>2. \A q \in PaperRuns : PaperHolds(paperRun[q])'
    BY <1>a, <2>1, HoldsOn
  <2> QED
    BY <2>1, <2>2 DEF PaperTypeInv, TradeIds
<1> QED
  BY <1>1, <1>2, <1>3 DEF PaperNext

LEMMA PaperTypeInvariant == PaperSpec => []PaperTypeInv
<1>1. PaperInit => PaperTypeInv
  <2> SUFFICES ASSUME PaperInit PROVE PaperTypeInv
    OBVIOUS
  <2>1. bar \in 1..MaxBars /\ 0 \in 0..bar
    BY LimitsAssumption DEF PaperInit
  <2>2. paperTrades \in Seq(TradeType) /\ Len(paperTrades) = 0 /\ TradeIds = {}
    BY EmptySeq DEF PaperInit, TradeIds
  <2>3. PaperHolds(IdlePaper)
    BY <2>2, IdlePaperType DEF PaperHolds, Judging
  <2> QED
    BY <2>1, <2>2, <2>3, IdlePaperType DEF PaperInit, PaperTypeInv
<1> QED
  BY <1>1, PaperTypeNext, PTL DEF PaperSpec

(* The ledger, the funnel and the copies of the runs keep their types.     *)
THEOREM PaperTypesCorrect == PaperSpec => []PaperTypeOK
<1>1. PaperTypeInv => PaperTypeOK
  <2> SUFFICES ASSUME PaperTypeInv PROVE PaperTypeOK
    OBVIOUS
  <2>1. lastBar \in [Coins -> 0..MaxBars]
    BY LimitsAssumption DEF PaperTypeInv
  <2>2. ASSUME NEW r \in PaperRuns
        PROVE  /\ paperRun[r].pc \in {"idle", "scan", "exit", "enter", "open", "state", "seek"}
               /\ paperRun[r].todo \subseteq Coins /\ paperRun[r].id \in 0..Len(paperTrades)
    BY TradesType DEF PaperTypeInv, PaperHolds, PaperRunType
  <2> QED
    BY <2>1, <2>2 DEF PaperTypeInv, PaperTypeOK
<1> QED
  BY <1>1, PaperTypeInvariant, PTL

(* While no two runs overlap one at most is at work.                       *)
PaperAlone ==
  ~paperOverlap => \A r, q \in PaperRuns :
    r = q \/ paperRun[r].pc = "idle" \/ paperRun[q].pc = "idle"

(* A trade of the scan that was entered on the present bar is announced by *)
(* a funnel row of that bar, and the engine state of its symbol is of that *)
(* bar too or about to be written.                                         *)
Covered(i) ==
  LET s == paperTrades[i].coin IN
  /\ bar \in funnel[s]
  /\ \/ lastBar[s] = bar
     \/ \E r \in PaperRuns : /\ paperRun[r].pc = "state" /\ paperRun[r].coin = s
                             /\ paperRun[r].bar = bar

FreshCovered ==
  \A i \in TradeIds : ~paperTrades[i].seeded /\ paperTrades[i].entry = bar => Covered(i)

(* A run judges bars that are not behind the engine state, announces a     *)
(* trade before it opens it, and has a true copy of the trade it judges,   *)
(* which was entered earlier.                                              *)
JudgesAhead(r) ==
  LET run == paperRun[r] IN
  /\ run.pc \in Judging => lastBar[run.coin] <= run.bar
  /\ run.pc = "open" => run.bar \in funnel[run.coin]
  /\ run.pc = "exit" => /\ run.trade = paperTrades[run.id]
                        /\ run.trade.seeded \/ run.trade.entry < run.bar

Spared(t) == t.seeded \/ (t.halved # t.entry /\ t.exit # t.entry)

SparedInv ==
  /\ PaperAlone
  /\ ~paperOverlap /\ ~paperCut =>
       /\ \A i \in TradeIds : Spared(paperTrades[i])
       /\ FreshCovered
       /\ \A r \in PaperRuns : JudgesAhead(r)

LEMMA PaperStepAlone ==
  ASSUME PaperTypeInv, PaperAlone, NEW r \in PaperRuns,
         BeginPaper(r) \/ PaperStep(r) \/ PaperDies(r), ~paperOverlap'
  PROVE  /\ ~paperOverlap /\ (~paperCut' => ~paperCut)
         /\ \A q \in PaperRuns \ {r} : paperRun[q].pc = "idle" /\ paperRun'[q] = paperRun[q]
<1>1. \A q \in PaperRuns \ {r} : paperRun'[q] = paperRun[q]
  BY DEF PaperStep, BeginPaper, PaperDies, LoadCoin, HaltTrack, JudgeEntry,
         SaveState, CoinFails, BeginSeeding, SeekSeed, PaperEnds, JudgeExit, OpenPaper,
         OpenSeed, Becomes, PaperTypeInv
<1>2. \/ paperRun[r].pc # "idle" /\ UNCHANGED paperOverlap
      \/ BeginPaper(r)
  BY DEF PaperStep, PaperDies, LoadCoin, HaltTrack, JudgeEntry, SaveState, CoinFails,
         BeginSeeding, SeekSeed, PaperEnds, JudgeExit, OpenPaper, OpenSeed
<1>3. ~paperCut' => ~paperCut
  BY DEF PaperStep, BeginPaper, PaperDies, LoadCoin, HaltTrack, JudgeEntry, SaveState, CoinFails,
         BeginSeeding, SeekSeed, PaperEnds, JudgeExit, OpenPaper, OpenSeed
<1>4. CASE BeginPaper(r)
  <2>1. ~paperOverlap /\ \A q \in PaperRuns \ {r} : paperRun[q].pc = "idle"
    BY <1>4, Zenon DEF BeginPaper
  <2> QED
    BY <1>1, <1>3, <2>1
<1>5. CASE paperRun[r].pc # "idle" /\ UNCHANGED paperOverlap
  BY <1>1, <1>3, <1>5 DEF PaperAlone
<1> QED
  BY <1>2, <1>4, <1>5

(* Trades that were covered remain so in a step that is not about to write *)
(* an engine state.                                                        *)
LEMMA FreshStays ==
  ASSUME PaperTypeInv, SparedInv, NEW r \in PaperRuns,
         BeginPaper(r) \/ PaperStep(r) \/ PaperDies(r), ~paperOverlap', ~paperCut',
         paperRun[r].pc # "state", UNCHANGED <<bar, lastBar>>,
         \A s \in Coins : funnel[s] \subseteq funnel'[s],
         \A i \in TradeIds' :
           \/ paperTrades'[i].seeded
           \/ /\ i \in TradeIds /\ paperTrades'[i].coin = paperTrades[i].coin
              /\ paperTrades'[i].entry = paperTrades[i].entry
              /\ paperTrades'[i].seeded = paperTrades[i].seeded
  PROVE  FreshCovered'
<1> SUFFICES ASSUME NEW i \in TradeIds', ~paperTrades'[i].seeded, paperTrades'[i].entry = bar'
             PROVE  /\ bar' \in funnel'[paperTrades'[i].coin]
                    /\ lastBar'[paperTrades'[i].coin] = bar'
  BY DEF FreshCovered, Covered
<1> DEFINE s == paperTrades[i].coin
<1>1. /\ i \in TradeIds /\ paperTrades'[i].coin = s /\ ~paperTrades[i].seeded
      /\ paperTrades[i].entry = bar
  OBVIOUS
<1>2. s \in Coins
  BY <1>1, TradesType DEF TradeType
<1>3. ~paperOverlap /\ ~paperCut /\ \A q \in PaperRuns : paperRun[q].pc # "state"
  BY PaperStepAlone DEF SparedInv
<1>4. bar \in funnel[s] /\ lastBar[s] = bar
  BY <1>1, <1>3 DEF SparedInv, FreshCovered, Covered
<1> QED
  BY <1>1, <1>2, <1>4

LEMMA SparedNext == PaperTypeInv /\ PaperTypeInv' /\ SparedInv /\ [PaperNext]_paperVars
          => SparedInv'
<1> SUFFICES ASSUME PaperTypeInv, PaperTypeInv', SparedInv, [PaperNext]_paperVars PROVE SparedInv'
  OBVIOUS
<1>a. bar \in Nat /\ bar \in 1..MaxBars
  BY LimitsAssumption DEF PaperTypeInv
<1>b. ASSUME NEW r \in PaperRuns, BeginPaper(r) \/ PaperStep(r) \/ PaperDies(r),
             ~paperOverlap' /\ ~paperCut' =>
               (\A i \in TradeIds' : Spared(paperTrades'[i])) /\ FreshCovered' /\ JudgesAhead(r)'
      PROVE  SparedInv'
  <2>1. PaperAlone'
    BY <1>b, PaperStepAlone DEF PaperAlone, SparedInv
  <2>2. ASSUME ~paperOverlap', ~paperCut' PROVE \A q \in PaperRuns : JudgesAhead(q)'
    BY <1>b, <2>2, PaperStepAlone DEF JudgesAhead, Judging, SparedInv
  <2> QED
    BY <1>b, <2>1, <2>2 DEF SparedInv
<1>c. ASSUME NEW r \in PaperRuns, BeginPaper(r) \/ PaperStep(r) \/ PaperDies(r),
             ~paperOverlap', ~paperCut'
      PROVE  /\ FreshCovered /\ JudgesAhead(r) /\ \A i \in TradeIds : Spared(paperTrades[i])
             /\ \A q \in PaperRuns : paperRun[q].pc # "idle" => q = r
  BY <1>c, PaperStepAlone DEF SparedInv
<1>d. ASSUME UNCHANGED paperTrades
      PROVE  /\ TradeIds' = TradeIds
             /\ (\A i \in TradeIds : Spared(paperTrades[i]))
                  => \A i \in TradeIds' : Spared(paperTrades'[i])
  BY <1>d DEF TradeIds
(* Steps that leave the tables alone and judge nothing afterwards.         *)
<1>1. ASSUME NEW r \in PaperRuns,
             BeginPaper(r) \/ HaltTrack(r) \/ BeginSeeding(r) \/ SeekSeed(r) \/ PaperEnds(r)
      PROVE  SparedInv'
  <2>1. /\ UNCHANGED <<bar, lastBar, funnel, paperTrades>> /\ (BeginPaper(r) \/ PaperStep(r))
        /\ paperRun[r].pc # "state"
    BY <1>1 DEF BeginPaper, HaltTrack, BeginSeeding, SeekSeed, PaperEnds, PaperStep
  <2>2. paperRun'[r].pc \notin Judging
    BY <1>1, <2>1, PaperMoves, IdlePaperType DEF PaperEffect, Judging
  <2>3. JudgesAhead(r)'
    BY <2>2 DEF JudgesAhead, Judging
  <2>4. ASSUME ~paperOverlap', ~paperCut' PROVE FreshCovered'
    BY <1>d, <2>1, <2>4, FreshStays
  <2> QED
    BY <1>b, <1>c, <1>d, <2>1, <2>3, <2>4
<1>2. ASSUME NEW r \in PaperRuns, CoinFails(r) \/ PaperDies(r) PROVE SparedInv'
  <2>1. paperCut' = TRUE /\ (PaperStep(r) \/ PaperDies(r))
    BY <1>2 DEF CoinFails, PaperDies, PaperStep
  <2> QED
    BY <1>b, <2>1
<1>3. ASSUME NEW r \in PaperRuns, LoadCoin(r) PROVE SparedInv'
  <2>1. UNCHANGED <<bar, lastBar, funnel, paperTrades>> /\ PaperStep(r) /\ paperRun[r].pc = "scan"
    BY <1>3 DEF LoadCoin, PaperStep
  <2> DEFINE new == paperRun'[r]
  <2>2. \/ new.pc = "scan"
        \/ /\ new.coin \in Coins /\ new.bar = bar /\ ~Judged(new.coin)
           /\ \/ new.pc = "enter"
              \/ /\ new.pc = "exit" /\ new.id \in OpenIds(new.coin)
                 /\ new.trade = paperTrades[new.id]
    BY <1>3, <2>1, PaperMoves DEF PaperEffect
  <2>3. ASSUME ~paperOverlap', ~paperCut' PROVE FreshCovered'
    BY <1>d, <2>1, <2>3, FreshStays
  <2> HIDE DEF new
  <2>4. ASSUME ~paperOverlap', ~paperCut' PROVE JudgesAhead(r)'
    <3>1. CASE new.pc = "scan"
      BY <3>1 DEF JudgesAhead, Judging, new
    <3>2. CASE new.pc # "scan"
      <4>1. new.coin \in Coins /\ new.bar = bar /\ new.pc \in {"enter", "exit"}
        BY <2>2, <3>2
      <4>2. lastBar[new.coin] <= bar
        BY <1>a, <4>1 DEF PaperTypeInv
      <4>3. ASSUME new.pc = "exit", ~new.trade.seeded PROVE new.trade.entry < bar
        <5>1. /\ new.id \in TradeIds /\ paperTrades[new.id].coin = new.coin
              /\ new.trade = paperTrades[new.id] /\ ~Judged(new.coin)
          BY <2>2, <4>3 DEF OpenIds
        <5>2. CASE new.trade.entry = bar
          <6>1. Covered(new.id)
            BY <1>c, <2>1, <2>4, <4>3, <5>1, <5>2 DEF FreshCovered
          <6>2. \A q \in PaperRuns : paperRun[q].pc # "state"
            BY <1>c, <2>1, <2>4
          <6> QED
            BY <5>1, <6>1, <6>2 DEF Covered, Judged
        <5> QED
          BY <1>a, <5>1, <5>2, TradesType
      <4> QED
        BY <2>1, <2>2, <4>1, <4>2, <4>3 DEF JudgesAhead, new
    <3> QED
      BY <3>1, <3>2
  <2> QED
    BY <1>b, <1>c, <1>d, <2>1, <2>3, <2>4
<1>4. ASSUME NEW r \in PaperRuns, JudgeEntry(r) PROVE SparedInv'
  <2> DEFINE run == paperRun[r]
             new == paperRun'[r]
  <2>1. /\ UNCHANGED <<bar, lastBar, paperTrades>> /\ PaperStep(r) /\ run.pc = "enter"
        /\ funnel' = [funnel EXCEPT ![run.coin] = @ \cup {run.bar}]
    BY <1>4 DEF JudgeEntry, PaperStep
  <2>2. new.pc \in {"state", "open"} /\ new.coin = run.coin /\ new.bar = run.bar
    BY <1>4, <2>1, PaperMoves DEF PaperEffect
  <2>3. run.coin \in Coins
    BY <2>1 DEF PaperTypeInv, PaperHolds, Judging
  <2> HIDE DEF run, new
  <2>4. /\ run.bar \in funnel'[run.coin]
        /\ \A s \in Coins : funnel[s] \subseteq funnel'[s]
    BY <2>1, <2>3 DEF PaperTypeInv
  <2>5. ASSUME ~paperOverlap', ~paperCut' PROVE FreshCovered'
    BY <1>d, <2>1, <2>4, <2>5, FreshStays DEF run
  <2>6. ASSUME ~paperOverlap', ~paperCut' PROVE JudgesAhead(r)'
    <3>1. lastBar[run.coin] <= run.bar
      BY <1>c, <2>1, <2>6 DEF JudgesAhead, Judging, run
    <3> QED
      BY <2>1, <2>2, <2>4, <3>1 DEF JudgesAhead, new
  <2> QED
    BY <1>b, <1>c, <1>d, <2>1, <2>5, <2>6
<1>5. ASSUME NEW r \in PaperRuns, JudgeExit(r) PROVE SparedInv'
  <2> DEFINE run == paperRun[r]
             new == paperRun'[r]
  <2>1. /\ UNCHANGED <<bar, lastBar, funnel>> /\ PaperStep(r) /\ run.pc = "exit"
    BY <1>5 DEF JudgeExit, PaperStep
  <2>2. new.pc = "state" /\ new.coin = run.coin /\ new.bar = run.bar
    <3>1. ~JudgeEntry(r)
      BY <2>1 DEF JudgeEntry
    <3> QED
      BY <1>5, <2>1, <3>1, PaperMoves DEF PaperEffect
  <2>3. /\ run.coin \in Coins /\ run.id \in TradeIds /\ run.trade \in TradeType
        /\ run.bar \in 1..MaxBars
    BY <1>a, <2>1, LimitsAssumption DEF PaperTypeInv, PaperHolds, Judging
  <2>4. /\ TradeIds' = TradeIds
        /\ \A i \in TradeIds : \/ paperTrades'[i] = paperTrades[i]
                               \/ i = run.id /\ paperTrades'[i] \in Outcomes(run.trade, run.bar)
    BY <1>5, TradesWritten DEF TradesEffect
  <2> HIDE DEF run, new
  <2>5. ASSUME ~paperOverlap', ~paperCut'
        PROVE  /\ lastBar[run.coin] <= run.bar /\ run.trade = paperTrades[run.id]
               /\ run.trade.seeded \/ run.trade.entry < run.bar
    BY <1>c, <2>1, <2>5 DEF JudgesAhead, Judging, run
  <2>6. ASSUME ~paperOverlap', ~paperCut', NEW i \in TradeIds
        PROVE  /\ Spared(paperTrades'[i]) /\ paperTrades'[i].coin = paperTrades[i].coin
               /\ paperTrades'[i].entry = paperTrades[i].entry
               /\ paperTrades'[i].seeded = paperTrades[i].seeded
    <3>1. Spared(paperTrades[i])
      BY <1>c, <2>1, <2>6
    <3>2. CASE paperTrades'[i] = paperTrades[i]
      BY <3>1, <3>2
    <3>3. CASE i = run.id /\ paperTrades'[i] \in Outcomes(run.trade, run.bar)
      <4> DEFINE t == run.trade
                 u == paperTrades'[i]
      <4>1. /\ u.coin = t.coin /\ u.entry = t.entry /\ u.seeded = t.seeded
            /\ u.halved \in {t.halved, run.bar} /\ u.exit \in {t.exit, run.bar}
        BY <2>3, <3>3, OutcomesType
      <4>2. t = paperTrades[i] /\ (t.seeded \/ t.entry # run.bar)
        BY <2>3, <2>5, <2>6, <3>3 DEF TradeType
      <4> QED
        BY <3>1, <4>1, <4>2 DEF Spared
    <3> QED
      BY <2>4, <3>2, <3>3
  <2>7. ASSUME ~paperOverlap', ~paperCut' PROVE FreshCovered'
    <3>1. paperRun[r].pc # "state"
      BY <2>1 DEF run
    <3> QED
      BY <2>1, <2>4, <2>6, <2>7, <3>1, FreshStays
  <2>8. ASSUME ~paperOverlap', ~paperCut' PROVE JudgesAhead(r)'
    BY <2>1, <2>2, <2>5, <2>8 DEF JudgesAhead, new
  <2> QED
    BY <1>b, <2>1, <2>4, <2>6, <2>7, <2>8
<1>6. ASSUME NEW r \in PaperRuns, OpenPaper(r) PROVE SparedInv'
  <2> DEFINE run == paperRun[r]
             new == paperRun'[r]
             t   == NewTrade(run.coin, run.bar, FALSE)
  <2>1. /\ UNCHANGED <<bar, lastBar, funnel>> /\ PaperStep(r) /\ run.pc = "open"
    BY <1>6 DEF OpenPaper, PaperStep
  <2>2. new.pc = "state" /\ new.coin = run.coin /\ new.bar = run.bar
    <3>1. ~JudgeEntry(r)
      BY <2>1 DEF JudgeEntry
    <3> QED
      BY <1>6, <2>1, <3>1, PaperMoves DEF PaperEffect
  <2>3. run.coin \in Coins /\ run.bar \in 1..MaxBars
    BY <1>a, <2>1, LimitsAssumption DEF PaperTypeInv, PaperHolds, Judging
  <2>4. \A i \in TradeIds' : \/ i \in TradeIds /\ paperTrades'[i] = paperTrades[i]
                             \/ paperTrades'[i] = t
    BY <1>6, TradesWritten DEF TradesEffect
  <2>5. /\ t.coin = run.coin /\ t.entry = run.bar /\ t.halved = 0 /\ t.exit = 0
    BY <2>3, NewTradeType
  <2> HIDE DEF run, new, t
  <2>6. ASSUME ~paperOverlap', ~paperCut'
        PROVE  lastBar[run.coin] <= run.bar /\ run.bar \in funnel[run.coin]
    BY <1>c, <2>1, <2>6 DEF JudgesAhead, Judging, run
  <2>7. ASSUME ~paperOverlap', ~paperCut', NEW i \in TradeIds' PROVE Spared(paperTrades'[i])
    BY <1>c, <2>1, <2>3, <2>4, <2>5, <2>7 DEF Spared
  <2>8. ASSUME ~paperOverlap', ~paperCut' PROVE FreshCovered'
    <3> SUFFICES ASSUME NEW i \in TradeIds', ~paperTrades'[i].seeded, paperTrades'[i].entry = bar'
                 PROVE  Covered(i)'
      BY DEF FreshCovered
    <3>1. CASE i \in TradeIds /\ paperTrades'[i] = paperTrades[i]
      <4>1. Covered(i) /\ \A q \in PaperRuns : paperRun[q].pc # "state"
        BY <1>c, <2>1, <2>8, <3>1 DEF FreshCovered, run
      <4> QED
        BY <2>1, <3>1, <4>1 DEF Covered
    <3>2. CASE paperTrades'[i] = t
      BY <2>1, <2>2, <2>5, <2>6, <2>8, <3>2 DEF Covered, new
    <3> QED
      BY <2>4, <3>1, <3>2
  <2>9. ASSUME ~paperOverlap', ~paperCut' PROVE JudgesAhead(r)'
    BY <2>1, <2>2, <2>6, <2>9 DEF JudgesAhead, new
  <2> QED
    BY <1>b, <2>1, <2>7, <2>8, <2>9
(* The engine state that is written is of the bar the run judged: it is    *)
(* behind no trade.                                                        *)
<1>7. ASSUME NEW r \in PaperRuns, SaveState(r) PROVE SparedInv'
  <2> DEFINE run == paperRun[r]
  <2>1. /\ UNCHANGED <<bar, funnel, paperTrades>> /\ PaperStep(r) /\ run.pc = "state"
        /\ lastBar' = [lastBar EXCEPT ![run.coin] = run.bar]
    BY <1>7 DEF SaveState, PaperStep
  <2>2. paperRun'[r].pc = "scan"
    BY <1>7, <2>1, PaperMoves DEF PaperEffect
  <2>3. run.coin \in Coins /\ run.bar \in 1..bar
    BY <2>1 DEF PaperTypeInv, PaperHolds, Judging
  <2> HIDE DEF run
  <2>4. \A s \in Coins : lastBar'[s] = IF s = run.coin THEN run.bar ELSE lastBar[s]
    BY <2>1, <2>3 DEF PaperTypeInv
  <2>5. JudgesAhead(r)'
    BY <2>2 DEF JudgesAhead, Judging
  <2>6. ASSUME ~paperOverlap', ~paperCut' PROVE FreshCovered'
    <3> SUFFICES ASSUME NEW i \in TradeIds, ~paperTrades[i].seeded, paperTrades[i].entry = bar
                 PROVE  lastBar'[paperTrades[i].coin] = bar /\ bar \in funnel[paperTrades[i].coin]
      BY <1>d, <2>1 DEF FreshCovered, Covered
    <3> DEFINE s == paperTrades[i].coin
    <3>1. s \in Coins
      BY TradesType DEF TradeType
    <3>2. Covered(i)
      BY <1>c, <2>1, <2>6 DEF FreshCovered
    <3>3. lastBar[run.coin] <= run.bar
      BY <1>c, <2>1, <2>6 DEF JudgesAhead, Judging, run
    <3>4. bar \in funnel[s] /\ (lastBar[s] = bar \/ (run.coin = s /\ run.bar = bar))
      <4>1. \A q \in PaperRuns : paperRun[q].pc = "state" => q = r
        BY <1>c, <2>1, <2>6
      <4> QED
        BY <3>2, <4>1 DEF Covered, run
    <3> HIDE DEF s
    <3>5. lastBar'[s] = bar
      BY <1>a, <2>3, <2>4, <3>1, <3>3, <3>4
    <3> QED
      BY <3>4, <3>5 DEF s
  <2> QED
    BY <1>b, <1>c, <1>d, <2>1, <2>5, <2>6
<1>8. ASSUME NEW r \in PaperRuns, OpenSeed(r) PROVE SparedInv'
  <2>1. /\ UNCHANGED <<bar, lastBar, funnel>> /\ PaperStep(r) /\ paperRun[r].pc = "seek"
    BY <1>8 DEF OpenSeed, PaperStep
  <2>2. JudgesAhead(r)'
    BY <1>8, <2>1, PaperMoves DEF PaperEffect, JudgesAhead, Judging
  <2>3. \A i \in TradeIds' : \/ i \in TradeIds /\ paperTrades'[i] = paperTrades[i]
                             \/ paperTrades'[i].seeded
    <3>1. ASSUME NEW s \in Coins, NEW b \in 1..bar PROVE NewTrade(s, b, TRUE).seeded
      BY <3>1 DEF NewTrade
    <3> QED
      BY <1>8, <3>1, TradesWritten DEF TradesEffect
  <2>4. ASSUME ~paperOverlap', ~paperCut' PROVE \A i \in TradeIds' : Spared(paperTrades'[i])
    BY <1>c, <2>1, <2>3, <2>4 DEF Spared
  <2>5. ASSUME ~paperOverlap', ~paperCut' PROVE FreshCovered'
    BY <2>1, <2>3, <2>5, FreshStays
  <2> QED
    BY <1>b, <2>1, <2>2, <2>4, <2>5
(* On a new bar no trade is of the present one.                            *)
<1>9. CASE BarConfirmed
  <2>1. bar' = bar + 1
            /\ UNCHANGED <<paperTrades, lastBar, funnel, paperRun, paperOverlap, paperCut>>
    BY <1>9 DEF BarConfirmed
  <2>2. FreshCovered'
    <3>1. \A i \in TradeIds : paperTrades[i].entry # bar + 1
      BY <1>a, TradesType
    <3> QED
      BY <1>d, <2>1, <3>1 DEF FreshCovered
  <2> QED
    BY <1>d, <2>1, <2>2 DEF SparedInv, PaperAlone, JudgesAhead
<1>10. CASE ClearHalt \/ UNCHANGED paperVars
  <2>1. UNCHANGED <<bar, paperTrades, lastBar, funnel, paperRun, paperOverlap, paperCut>>
    BY <1>10 DEF ClearHalt, paperVars
  <2> QED
    BY <1>d, <2>1 DEF SparedInv, PaperAlone, JudgesAhead, FreshCovered, Covered
<1> QED
  BY <1>1, <1>2, <1>3, <1>4, <1>5, <1>6, <1>7, <1>8, <1>9, <1>10 DEF PaperNext, PaperStep

(* While no two runs overlapped and none broke off, no trade of the scan   *)
(* was judged by the bar it was entered on (evaluate_exit, after           *)
(* universe_needing_evaluation and the funnel row).                        *)
THEOREM EntryBarIsSpared == PaperSpec => []EntryBarSpared
<1>1. PaperInit => SparedInv
  <2> SUFFICES ASSUME PaperInit PROVE SparedInv
    OBVIOUS
  <2>1. TradeIds = {}
    BY EmptySeq DEF PaperInit, TradeIds
  <2> QED
    BY <2>1, IdlePaperType
       DEF PaperInit, SparedInv, PaperAlone, FreshCovered, JudgesAhead, Judging
<1>2. SparedInv => EntryBarSpared
  BY DEF SparedInv, EntryBarSpared, Spared
<1>3. PaperTypeInv /\ PaperTypeInv' /\ SparedInv /\ [PaperNext]_paperVars => SparedInv'
  BY SparedNext
<1> QED
  BY <1>1, <1>2, <1>3, PaperTypeInvariant, PTL DEF PaperSpec

=============================================================================
