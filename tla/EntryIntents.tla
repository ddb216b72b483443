------------------------------ MODULE EntryIntents ------------------------------
(***************************************************************************)
(* Entry intents: price zones and watches a user registers and the scout   *)
(* scan judges (process_scout_scan, evaluate_entry_intents,                *)
(* score_entry_intents).  A scan writes the outcome of each intent as it   *)
(* goes and collects the alerts; the worker sends them when the scan has   *)
(* returned, after the scoring of all intents.  Users register and cancel  *)
(* meanwhile, each by reading and then writing a whole row.                *)
(*                                                                         *)
(* A scan whose budget is over goes on in its thread: nobody hears its     *)
(* alerts, and the next scan may begin beside it.                          *)
(***************************************************************************)
EXTENDS Naturals, FiniteSets

CONSTANTS
  Scans,      \* threads a scan may run in
  Clients,    \* users' requests under way
  Zones,      \* ids of zone intents
  Watches,    \* ids of watch intents: made of symbol and timeframe
  MaxActive   \* entry_intent_max_active

ASSUME KindsAssumption == Zones \cap Watches = {}

Intents  == Zones \cup Watches
Resolved == {"triggered", "invalidated", "expired"}

VARIABLES
  intents,        \* entry_intents.status
  judgments,      \* intents whose registration or trigger was recorded
  scored,         \* intents whose judgment has a score
  scan,           \* what each scan is doing, with the copies it works from
  client,         \* what each request is doing
  announced,      \* history: triggered intents whose alert was handed over
  scanLost,       \* history: a scan timed out or died
  watchExpired    \* history: a watch has expired

intentVars == <<intents, judgments, scored, scan, client, announced, scanLost,
                watchExpired>>

IdleScan   == [pc |-> "idle", todo |-> {}, id |-> "none", alerts |-> {}, heard |-> TRUE]
IdleClient == [pc |-> "idle", id |-> "none"]

IntentsIn(st) == {i \in Intents : intents[i] = st}

IntentInit ==
  /\ intents = [i \in Intents |-> "none"]
  /\ judgments = {}
  /\ scored = {}
  /\ scan = [r \in Scans |-> IdleScan]
  /\ client = [u \in Clients |-> IdleClient]
  /\ announced = {}
  /\ scanLost = FALSE
  /\ watchExpired = FALSE

Scanning(r, next) == scan' = [scan EXCEPT ![r] = next]
Request(u, pc, i) == client' = [client EXCEPT ![u] = [pc |-> pc, id |-> i]]

-----------------------------------------------------------------------------
(* create_entry_intent counts the active intents, simulates for a while    *)
(* and writes.  A watch that is active is returned as it is.               *)
Admit(u) ==
  /\ client[u].pc = "idle"
  /\ Cardinality(IntentsIn("active")) < MaxActive
  /\ \E i \in Intents :
       /\ i \in Watches => intents[i] # "active"
       /\ Request(u, "create", i)
  /\ UNCHANGED <<intents, judgments, scored, scan, announced, scanLost, watchExpired>>

Register(u) ==
  LET i == client[u].id IN
  /\ client[u].pc = "create"
  /\ intents' = [intents EXCEPT ![i] = "active"]
  /\ announced' = announced \ {i}
  /\ IF i \in Zones THEN Request(u, "note", i)
     ELSE client' = [client EXCEPT ![u] = IdleClient]
  /\ UNCHANGED <<judgments, scored, scan, scanLost, watchExpired>>

NoteRegistration(u) ==
  /\ client[u].pc = "note"
  /\ judgments' = judgments \cup {<<client[u].id, "registered">>}
  /\ client' = [client EXCEPT ![u] = IdleClient]
  /\ UNCHANGED <<intents, scored, scan, announced, scanLost, watchExpired>>

(* cancel_entry_intent reads the row, whatever its status, and writes it   *)
(* back as cancelled.                                                      *)
ReadToCancel(u) ==
  /\ client[u].pc = "idle"
  /\ \E i \in Intents : intents[i] # "none" /\ Request(u, "cancel", i)
  /\ UNCHANGED <<intents, judgments, scored, scan, announced, scanLost, watchExpired>>

Cancel(u) ==
  /\ client[u].pc = "cancel"
  /\ intents' = [intents EXCEPT ![client[u].id] = "cancelled"]
  /\ client' = [client EXCEPT ![u] = IdleClient]
  /\ UNCHANGED <<judgments, scored, scan, announced, scanLost, watchExpired>>

-----------------------------------------------------------------------------
(* Mutant: a scan lists cancelled intents too.                             *)
ListedAll == {i \in Intents : intents[i] \in {"active", "cancelled"}}

Listed == IntentsIn("active")

(* The worker starts a scan when it waits for no other; the scan lists the *)
(* active intents and works from the copies.  The code lists those of a    *)
(* symbol when it comes to the symbol; here all are listed at the start,   *)
(* so a copy may only be older than the code's.                            *)
BeginScan(r) ==
  /\ scan[r].pc = "idle"
  /\ \A q \in Scans : scan[q].pc = "idle" \/ ~scan[q].heard
  /\ Scanning(r, [IdleScan EXCEPT !.pc = "judge", !.todo = Listed])
  /\ UNCHANGED <<intents, judgments, scored, client, announced, scanLost, watchExpired>>

(* Mutant: the candidates of a row replace those of the rows before.       *)
GatherLast(run, i, st) == IF st = "triggered" THEN {i} ELSE {}

Gather(run, i, st) == IF st = "triggered" THEN run.alerts \cup {i} ELSE run.alerts

(* Mutant: a watch is judged like a zone.                                  *)
OutcomeAny(i) == {"active", "expired", "triggered", "invalidated"}

(* What may become of a listed intent; a watch is refreshed or expires.    *)
Outcome(i) == {"active", "expired"} \cup (IF i \in Zones THEN {"triggered", "invalidated"} ELSE {})

(* The copy that was listed is written back with its outcome.              *)
JudgeIntent(r) ==
  LET run == scan[r] IN
  /\ run.pc = "judge"
  /\ \E i \in run.todo : \E st \in Outcome(i) :
       /\ intents' = [intents EXCEPT ![i] = st]
       /\ watchExpired' = (watchExpired \/ (i \in Watches /\ st = "expired"))
       /\ Scanning(r, [run EXCEPT !.todo = @ \ {i}, !.alerts = Gather(run, i, st),
                                  !.pc = IF st = "triggered" THEN "record" ELSE "judge",
                                  !.id = i])
  /\ UNCHANGED <<judgments, scored, client, announced, scanLost>>

RecordTrigger(r) ==
  /\ scan[r].pc = "record"
  /\ judgments' = judgments \cup {<<scan[r].id, "triggered">>}
  /\ Scanning(r, [scan[r] EXCEPT !.pc = "judge"])
  /\ UNCHANGED <<intents, scored, client, announced, scanLost, watchExpired>>

Score(r) ==
  /\ scan[r].pc = "judge" /\ scan[r].todo = {}
  /\ Scanning(r, [scan[r] EXCEPT !.pc = "score", !.id = "none"])
  /\ UNCHANGED <<intents, judgments, scored, client, announced, scanLost, watchExpired>>

Scorable(i) == intents[i] \in Resolved /\ i \notin scored

(* A watch has no zone: with a price path to measure, its score cannot be  *)
(* computed.                                                               *)
ScoreIntent(r) ==
  /\ scan[r].pc = "score"
  /\ \E i \in Intents : Scorable(i) /\ scored' = scored \cup {i}
  /\ UNCHANGED <<intents, judgments, scan, client, announced, scanLost, watchExpired>>

ScoringRaises(r) ==
  /\ scan[r].pc = "score"
  /\ \E i \in Watches : Scorable(i)
  /\ Scanning(r, IdleScan)
  /\ UNCHANGED <<intents, judgments, scored, client, announced, scanLost, watchExpired>>

(* The scan returns and the worker, if it still waits, sends the alerts.   *)
SendAlerts(r) ==
  /\ scan[r].pc = "score"
  /\ announced' = IF scan[r].heard THEN announced \cup scan[r].alerts ELSE announced
  /\ Scanning(r, IdleScan)
  /\ UNCHANGED <<intents, judgments, scored, client, scanLost, watchExpired>>

(* Bound: one scan is lost, by running on unheard or by dying.             *)
ScanTimesOut(r) ==
  /\ ~scanLost /\ scan[r].pc # "idle"
  /\ Scanning(r, [scan[r] EXCEPT !.heard = FALSE])
  /\ scanLost' = TRUE
  /\ UNCHANGED <<intents, judgments, scored, client, announced, watchExpired>>

(* A write fails, or the process dies.                                     *)
ScanDies(r) ==
  /\ ~scanLost /\ scan[r].pc # "idle"
  /\ Scanning(r, IdleScan)
  /\ scanLost' = TRUE
  /\ UNCHANGED <<intents, judgments, scored, client, announced, watchExpired>>

IntentNext ==
  \/ \E u \in Clients :
       \/ Admit(u) \/ Register(u) \/ NoteRegistration(u) \/ ReadToCancel(u) \/ Cancel(u)
  \/ \E r \in Scans :
       \/ BeginScan(r) \/ JudgeIntent(r) \/ RecordTrigger(r) \/ Score(r)
       \/ ScoreIntent(r) \/ ScoringRaises(r) \/ SendAlerts(r)
       \/ ScanTimesOut(r) \/ ScanDies(r)

IntentSpec == IntentInit /\ [][IntentNext]_intentVars

-----------------------------------------------------------------------------
(* The types of the intents.                                               *)
IntentTypeOK ==
  /\ intents \in [Intents -> {"none", "active", "cancelled"} \cup Resolved]
  /\ judgments \subseteq Zones \X {"registered", "triggered"}
  /\ scored \subseteq Intents /\ announced \subseteq Zones
  /\ \A r \in Scans :
       /\ scan[r].pc \in {"idle", "judge", "record", "score"}
       /\ scan[r].todo \subseteq Intents /\ scan[r].alerts \subseteq Zones
       /\ scan[r].heard \in BOOLEAN
  /\ \A u \in Clients :
       client[u] \in [pc : {"idle", "create", "note", "cancel"}, id : Intents \cup {"none"}]
  /\ scanLost \in BOOLEAN /\ watchExpired \in BOOLEAN

(* The alert of a triggered intent, which is written down as triggered     *)
(* once and never judged again, has been handed over or is with a scan     *)
(* that will hand it over.  Two things break it: a scan that times out or  *)
(* dies, and a watch that has expired, for its score raises at the end of  *)
(* every scan and the alerts of all intents go with it.                    *)
TriggeredIsAnnounced ==
  ~scanLost /\ ~watchExpired =>
    \A i \in IntentsIn("triggered") :
      i \in announced \/ \E r \in Scans : i \in scan[r].alerts

(* A user's cancellation is undone only by a scan that had listed the      *)
(* intent before, or by another registration of the same intent; a scan    *)
(* that begins after it leaves it alone.                                   *)
CancelledReturnsOnlyFromCopies ==
  [][\A i \in IntentsIn("cancelled") :
       /\ \A r \in Scans : i \in scan'[r].todo => i \in scan[r].todo
       /\ intents'[i] # "cancelled" =>
            \/ \E r \in Scans : i \in scan[r].todo
            \/ \E u \in Clients : client[u].pc = "create" /\ client[u].id = i]_intentVars
=============================================================================
