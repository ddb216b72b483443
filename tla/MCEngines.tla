------------------------------- MODULE MCEngines -------------------------------
(***************************************************************************)
(* Six components that share no state, checked in one run: which of them   *)
(* runs is chosen at the start, the others stay where they begin.          *)
(***************************************************************************)
EXTENDS StockPaper, PolyPaper, CryptoPaper, EntryIntents, TradeFlow, TossToken

CONSTANTS a, b

VARIABLE part

enginesVars == <<part, stockVars, polyVars, paperVars, intentVars, flowVars, tokenVars>>

Stocks == {a, b}
CandidatesOf == [strict_signal |-> {a}, coverage |-> {a, b}]

EnginesInit ==
  /\ part \in {"stock", "poly", "crypto", "intents", "flow", "token"}
  /\ StockInit /\ PolyInit /\ PaperInit /\ IntentInit /\ FlowInit /\ TokenInit
  /\ part # "stock" => ~holdQueued

EnginesNext ==
  /\ UNCHANGED part
  /\ \/ /\ part = "stock" /\ StockNext
        /\ UNCHANGED <<polyVars, paperVars, intentVars, flowVars, tokenVars>>
     \/ /\ part = "poly" /\ PolyNext
        /\ UNCHANGED <<stockVars, paperVars, intentVars, flowVars, tokenVars>>
     \/ /\ part = "crypto" /\ PaperNext
        /\ UNCHANGED <<stockVars, polyVars, intentVars, flowVars, tokenVars>>
     \/ /\ part = "intents" /\ IntentNext
        /\ UNCHANGED <<stockVars, polyVars, paperVars, flowVars, tokenVars>>
     \/ /\ part = "flow" /\ FlowNext
        /\ UNCHANGED <<stockVars, polyVars, paperVars, intentVars, tokenVars>>
     \/ /\ part = "token" /\ TokenNext
        /\ UNCHANGED <<stockVars, polyVars, paperVars, intentVars, flowVars>>

EnginesSpec == EnginesInit /\ [][EnginesNext]_enginesVars

(* The types of all six.                                                   *)
TypesOK ==
  /\ StockTypeOK /\ PolyTypeOK /\ PaperTypeOK
  /\ IntentTypeOK /\ FlowTypeOK /\ TokenTypeOK
=============================================================================
