------------------------------ MODULE CryptoPaper ------------------------------
(***************************************************************************)
(* The paper engine of the crypto track (paper/service.run_paper_engine).  *)
(* For each symbol a run loads an analysis, and on the last confirmed bar  *)
(* judges the open trade or, where there is none, an entry.  Afterwards    *)
(* the same run fills validation slots with trades of its own judgment     *)
(* (the bootstrap), which writes neither a funnel row nor an engine state. *)
(*                                                                         *)
(* A run whose budget is over goes on in its thread, and POST /run starts  *)
(* one of its own: PaperRuns says who may run at the same time.            *)
(*                                                                         *)
(* Prices and gates are left out: which bar hits a stop or a target and    *)
(* which entry passes its gates (the re-entry lock among them) is chosen   *)
(* freely.                                                                 *)
(***************************************************************************)
EXTENDS Naturals, Sequences, FiniteSets

CONSTANTS
  PaperRuns,    \* runs that may be under way at the same time
  Coins,        \* the symbols of the universe
  MaxOpen,      \* paper_max_open_positions
  SlotTarget,   \* VALIDATION_BOOTSTRAP_MAX_POSITIONS
  MaxBars,      \* bound: bars confirmed
  MaxTrades     \* bound: trades ever made

(* The limits of the settings and the bounds of a run are numbers.         *)
ASSUME LimitsAssumption ==
  /\ MaxOpen \in Nat /\ SlotTarget \in Nat
  /\ MaxBars \in Nat \ {0} /\ MaxTrades \in Nat

VARIABLES
  bar,          \* the last confirmed bar
  paperTrades,  \* paper_trades, in the order of their creation
  lastBar,      \* paper_engine_states.last_bar_at
  funnel,       \* paper_gate_funnel: bars with a row, by symbol
  paperRun,     \* what each run is doing, with the copies it works from
  paperHalted,  \* the track was halted by a loss beyond the margin
  paperOverlap, \* history: two runs have overlapped
  paperCut      \* history: a run, or its work on a symbol, broke off

paperVars == <<bar, paperTrades, lastBar, funnel, paperRun, paperHalted,
               paperOverlap, paperCut>>

NoTrade == [coin |-> "none", entry |-> 0, status |-> "none", halved |-> 0,
            exit |-> 0, seeded |-> FALSE]

IdlePaper == [pc |-> "idle", todo |-> {}, coin |-> "none", bar |-> 0, id |-> 0,
              trade |-> NoTrade, seen |-> [s \in Coins |-> 0], slots |-> 0,
              picked |-> {}]

TradeIds   == 1..Len(paperTrades)
OpenIds(s) == {i \in TradeIds : paperTrades[i].coin = s /\ paperTrades[i].status = "open"}
OpenCount  == Cardinality({i \in TradeIds : paperTrades[i].status = "open"})

NewTrade(s, b, seeded) ==
  [coin |-> s, entry |-> b, status |-> "open", halved |-> 0, exit |-> 0,
   seeded |-> seeded]

PaperInit ==
  /\ bar = 1
  /\ paperTrades = <<>>
  /\ lastBar = [s \in Coins |-> 0]
  /\ funnel = [s \in Coins |-> {}]
  /\ paperRun = [r \in PaperRuns |-> IdlePaper]
  /\ paperHalted = FALSE
  /\ paperOverlap = FALSE
  /\ paperCut = FALSE

Becomes(r, next) == paperRun' = [paperRun EXCEPT ![r] = next]
FirstOf(todo) == CHOOSE s \in todo : TRUE  \* the universe is sorted
NextCoin(run) == [run EXCEPT !.pc = "scan", !.coin = "none", !.bar = 0, !.id = 0,
                             !.trade = NoTrade]

BarConfirmed ==
  /\ bar < MaxBars
  /\ bar' = bar + 1
  /\ UNCHANGED <<paperTrades, lastBar, funnel, paperRun, paperHalted, paperOverlap, paperCut>>

-----------------------------------------------------------------------------
(* universe_needing_evaluation: symbols whose state is of an older bar or  *)
(* that have an open trade, and of those as many as a run may take.        *)
Pending == {s \in Coins : lastBar[s] # bar \/ OpenIds(s) # {}}

BeginPaper(r) ==
  /\ paperRun[r].pc = "idle" /\ ~paperHalted
  /\ \E todo \in SUBSET Pending : Becomes(r, [IdlePaper EXCEPT !.pc = "scan", !.todo = todo])
  /\ paperOverlap' = (paperOverlap \/ \E q \in PaperRuns \ {r} : paperRun[q].pc # "idle")
  /\ UNCHANGED <<bar, paperTrades, lastBar, funnel, paperHalted, paperCut>>

(* Mutant: a bar is judged again although its entry was judged.            *)
JudgedNever(s) == FALSE

Judged(s) == lastBar[s] = bar /\ bar \in funnel[s]

(* The analysis is loaded and the open trade read.                         *)
LoadCoin(r) ==
  /\ paperRun[r].pc = "scan" /\ paperRun[r].todo # {}
  /\ LET s   == FirstOf(paperRun[r].todo)
         run == [paperRun[r] EXCEPT !.todo = @ \ {s}]
     IN
       IF Judged(s) THEN Becomes(r, run)
       ELSE IF OpenIds(s) = {} THEN
         Becomes(r, [run EXCEPT !.pc = "enter", !.coin = s, !.bar = bar])
       ELSE \E i \in OpenIds(s) :
         Becomes(r, [run EXCEPT !.pc = "exit", !.coin = s, !.bar = bar, !.id = i,
                                !.trade = paperTrades[i]])
  /\ UNCHANGED <<bar, paperTrades, lastBar, funnel, paperHalted, paperOverlap, paperCut>>

(* What evaluate_exit and apply_exit_decision make of a trade: it is held, *)
(* halved at its first target, or closed.                                  *)
Outcomes(t, b) ==
  {t, [t EXCEPT !.status = "closed", !.exit = b]}
  \cup (IF t.halved = 0 THEN {[t EXCEPT !.halved = b]} ELSE {})

(* The copy that was read is written back.                                 *)
JudgeExit(r) ==
  LET run == paperRun[r] IN
  /\ run.pc = "exit"
  /\ \E t \in Outcomes(run.trade, run.bar) :
       paperTrades' = [paperTrades EXCEPT ![run.id] = t]
  /\ Becomes(r, [run EXCEPT !.pc = "state"])
  /\ UNCHANGED <<bar, lastBar, funnel, paperHalted, paperOverlap, paperCut>>

(* The loss is beyond the margin: nothing is written, the scan ends and no *)
(* further run begins.  The bootstrap of this run is still to come.        *)
HaltTrack(r) ==
  /\ paperRun[r].pc = "exit"
  /\ paperHalted' = TRUE
  /\ Becomes(r, [NextCoin(paperRun[r]) EXCEPT !.todo = {}])
  /\ UNCHANGED <<bar, paperTrades, lastBar, funnel, paperOverlap, paperCut>>

(* Somebody has mended the cause and taken the mark away.                  *)
ClearHalt ==
  /\ paperHalted
  /\ paperHalted' = FALSE
  /\ UNCHANGED <<bar, paperTrades, lastBar, funnel, paperRun, paperOverlap, paperCut>>

(* The funnel row comes before the trade it announces.                     *)
JudgeEntry(r) ==
  LET run == paperRun[r] IN
  /\ run.pc = "enter"
  /\ funnel' = [funnel EXCEPT ![run.coin] = @ \cup {run.bar}]
  /\ \/ Becomes(r, [run EXCEPT !.pc = "state"])
     \/ OpenCount < MaxOpen /\ Len(paperTrades) < MaxTrades
        /\ Becomes(r, [run EXCEPT !.pc = "open"])
  /\ UNCHANGED <<bar, paperTrades, lastBar, paperHalted, paperOverlap, paperCut>>

OpenPaper(r) ==
  LET run == paperRun[r] IN
  /\ run.pc = "open" /\ Len(paperTrades) < MaxTrades
  /\ paperTrades' = Append(paperTrades, NewTrade(run.coin, run.bar, FALSE))
  /\ Becomes(r, [run EXCEPT !.pc = "state"])
  /\ UNCHANGED <<bar, lastBar, funnel, paperHalted, paperOverlap, paperCut>>

SaveState(r) ==
  LET run == paperRun[r] IN
  /\ run.pc = "state"
  /\ lastBar' = [lastBar EXCEPT ![run.coin] = run.bar]
  /\ Becomes(r, NextCoin(run))
  /\ UNCHANGED <<bar, paperTrades, funnel, paperHalted, paperOverlap, paperCut>>

(* An error is a symbol's own: the scan goes on with the next one.         *)
CoinFails(r) ==
  /\ paperRun[r].pc \in {"exit", "enter", "open", "state"}
  /\ Becomes(r, NextCoin(paperRun[r]))
  /\ paperCut' = TRUE
  /\ UNCHANGED <<bar, paperTrades, lastBar, funnel, paperHalted, paperOverlap>>

-----------------------------------------------------------------------------
(* The bootstrap reads the ledger once: the newest entry bar of each       *)
(* symbol and how many slots are free.                                     *)
Newest(s) ==
  LET bars == {paperTrades[i].entry : i \in {j \in TradeIds : paperTrades[j].coin = s}}
  IN IF bars = {} THEN 0 ELSE CHOOSE b \in bars : \A c \in bars : c <= b

FreeSlots ==
  LET target == IF MaxOpen < SlotTarget THEN MaxOpen ELSE SlotTarget
  IN IF OpenCount < target THEN target - OpenCount ELSE 0

BeginSeeding(r) ==
  /\ paperRun[r].pc = "scan" /\ paperRun[r].todo = {}
  /\ Becomes(r, IF FreeSlots = 0 THEN IdlePaper
                ELSE [IdlePaper EXCEPT !.pc = "seek", !.todo = Coins, !.slots = FreeSlots,
                                       !.seen = [s \in Coins |-> Newest(s)]])
  /\ UNCHANGED <<bar, paperTrades, lastBar, funnel, paperHalted, paperOverlap, paperCut>>

Seedable(r, s) == OpenIds(s) = {} /\ bar > paperRun[r].seen[s]

(* A symbol is a candidate or not ...                                      *)
SeekSeed(r) ==
  /\ paperRun[r].pc = "seek" /\ paperRun[r].todo # {}
  /\ LET s   == FirstOf(paperRun[r].todo)
         run == [paperRun[r] EXCEPT !.todo = @ \ {s}]
     IN
       \/ Becomes(r, run)
       \/ Seedable(r, s) /\ Becomes(r, [run EXCEPT !.picked = @ \cup {[coin |-> s, bar |-> bar]}])
  /\ UNCHANGED <<bar, paperTrades, lastBar, funnel, paperHalted, paperOverlap, paperCut>>

SeedId(p) ==
  {i \in TradeIds : /\ paperTrades[i].seeded
                    /\ paperTrades[i].coin = p.coin /\ paperTrades[i].entry = p.bar}

(* ... and the best candidates are opened.  The id of such a trade is made *)
(* of its symbol and bar: what is there already is overwritten.            *)
OpenSeed(r) ==
  LET run == paperRun[r] IN
  /\ run.pc = "seek" /\ run.todo = {} /\ run.slots > 0
  /\ \E p \in run.picked :
       /\ IF SeedId(p) = {}
          THEN /\ Len(paperTrades) < MaxTrades
               /\ paperTrades' = Append(paperTrades, NewTrade(p.coin, p.bar, TRUE))
          ELSE paperTrades' = [i \in TradeIds |->
                 IF i \in SeedId(p) THEN NewTrade(p.coin, p.bar, TRUE) ELSE paperTrades[i]]
       /\ Becomes(r, [run EXCEPT !.picked = @ \ {p}, !.slots = @ - 1])
  /\ UNCHANGED <<bar, lastBar, funnel, paperHalted, paperOverlap, paperCut>>

PaperEnds(r) ==
  /\ paperRun[r].pc = "seek" /\ paperRun[r].todo = {}
  /\ paperRun[r].picked = {} \/ paperRun[r].slots = 0 \/ Len(paperTrades) = MaxTrades
  /\ Becomes(r, IdlePaper)
  /\ UNCHANGED <<bar, paperTrades, lastBar, funnel, paperHalted, paperOverlap, paperCut>>

PaperDies(r) ==
  /\ paperRun[r].pc \in {"exit", "enter", "open", "state", "seek"}
  /\ Becomes(r, IdlePaper)
  /\ paperCut' = TRUE
  /\ UNCHANGED <<bar, paperTrades, lastBar, funnel, paperHalted, paperOverlap>>

PaperStep(r) ==
  \/ LoadCoin(r) \/ JudgeExit(r) \/ HaltTrack(r) \/ JudgeEntry(r) \/ OpenPaper(r)
  \/ SaveState(r) \/ CoinFails(r) \/ BeginSeeding(r) \/ SeekSeed(r) \/ OpenSeed(r)
  \/ PaperEnds(r)

PaperNext ==
  \/ BarConfirmed \/ ClearHalt
  \/ \E r \in PaperRuns : BeginPaper(r) \/ PaperStep(r) \/ PaperDies(r)

PaperSpec == PaperInit /\ [][PaperNext]_paperVars

-----------------------------------------------------------------------------
TradeType == [coin : Coins, entry : 1..MaxBars, status : {"open", "closed"},
              halved : 0..MaxBars, exit : 0..MaxBars, seeded : BOOLEAN]

(* The types of the ledger.                                                *)
PaperTypeOK ==
  /\ bar \in 1..MaxBars
  /\ paperTrades \in Seq(TradeType)
  /\ lastBar \in [Coins -> 0..MaxBars]
  /\ funnel \in [Coins -> SUBSET (1..MaxBars)]
  /\ \A r \in PaperRuns :
       /\ paperRun[r].pc \in {"idle", "scan", "exit", "enter", "open", "state", "seek"}
       /\ paperRun[r].todo \subseteq Coins /\ paperRun[r].id \in 0..Len(paperTrades)

(* A trade is not judged by the bar it was entered on, whose high and low  *)
(* were made before the entry: the funnel row and the engine state of that *)
(* bar, written around the trade, keep later runs away.  The exceptions:   *)
(* a run or a symbol that broke off before its state was written, runs     *)
(* that overlap, and every trade of the bootstrap, which writes neither.   *)
EntryBarSpared ==
  ~paperOverlap /\ ~paperCut =>
    \A i \in TradeIds :
      LET t == paperTrades[i] IN t.seeded \/ (t.halved # t.entry /\ t.exit # t.entry)
=============================================================================
