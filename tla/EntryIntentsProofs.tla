------------------------- MODULE EntryIntentsProofs -------------------------
(***************************************************************************)
(* EntryIntents, for every number of scans, requests and intents.          *)
(***************************************************************************)
EXTENDS EntryIntents, TLAPS

Run == [pc : {"idle", "judge", "record", "score"}, todo : SUBSET Intents,
        id : Intents \cup {"none"}, alerts : SUBSET Zones, heard : BOOLEAN]

Asked == [pc : {"idle", "create", "note", "cancel"}, id : Intents \cup {"none"}]

(* The types, with what a request or a scan that goes on has at hand.      *)
TypeInv ==
  /\ intents \in [Intents -> {"none", "active", "cancelled"} \cup Resolved]
  /\ judgments \subseteq Zones \X {"registered", "triggered"}
  /\ scored \subseteq Intents /\ announced \subseteq Zones
  /\ scanLost \in BOOLEAN /\ watchExpired \in BOOLEAN
  /\ scan \in [Scans -> Run]
  /\ client \in [Clients -> Asked]
  /\ \A r \in Scans : scan[r].pc = "record" => scan[r].id \in Zones
  /\ \A u \in Clients :
       /\ client[u].pc \in {"create", "cancel"} => client[u].id \in Intents
       /\ client[u].pc = "note" => client[u].id \in Zones

LEMMA IdleTypes == IdleScan \in Run /\ IdleClient \in Asked
BY DEF IdleScan, IdleClient, Run, Asked

LEMMA ScanningEffect ==
  ASSUME TypeInv, NEW r \in Scans, NEW next \in Run, Scanning(r, next),
         next.pc = "record" => next.id \in Zones
  PROVE  /\ scan' \in [Scans -> Run]
         /\ scan'[r] = next /\ \A q \in Scans \ {r} : scan'[q] = scan[q]
         /\ \A q \in Scans : scan'[q].pc = "record" => scan'[q].id \in Zones
BY DEF TypeInv, Scanning

LEMMA RequestEffect ==
  ASSUME TypeInv, NEW u \in Clients, NEW next \in Asked,
         client' = [client EXCEPT ![u] = next],
         next.pc \in {"create", "cancel"} => next.id \in Intents,
         next.pc = "note" => next.id \in Zones
  PROVE  /\ client' \in [Clients -> Asked]
         /\ \A v \in Clients :
              /\ client'[v].pc \in {"create", "cancel"} => client'[v].id \in Intents
              /\ client'[v].pc = "note" => client'[v].id \in Zones
BY DEF TypeInv

LEMMA TypeInit == IntentInit => TypeInv
<1>1. IdleScan.pc = "idle" /\ IdleClient.pc = "idle"
  BY DEF IdleScan, IdleClient
<1> QED
  BY <1>1, IdleTypes DEF IntentInit, TypeInv

LEMMA TypeNext == TypeInv /\ [IntentNext]_intentVars => TypeInv'
<1> SUFFICES ASSUME TypeInv, [IntentNext]_intentVars PROVE TypeInv'
  OBVIOUS
<1>a. /\ intents \in [Intents -> {"none", "active", "cancelled"} \cup Resolved]
      /\ judgments \subseteq Zones \X {"registered", "triggered"}
      /\ scored \subseteq Intents /\ announced \subseteq Zones
      /\ scanLost \in BOOLEAN /\ watchExpired \in BOOLEAN
  BY DEF TypeInv
<1>b. ASSUME NEW r \in Scans
      PROVE  scan[r] \in Run /\ (scan[r].pc = "record" => scan[r].id \in Zones)
  BY DEF TypeInv
<1>c. ASSUME NEW u \in Clients
      PROVE  /\ client[u].pc \in {"create", "cancel"} => client[u].id \in Intents
             /\ client[u].pc = "note" => client[u].id \in Zones
  BY DEF TypeInv
<1>1. ASSUME NEW u \in Clients, NEW pc, NEW i, Request(u, pc, i),
             pc \in {"create", "note", "cancel"}, i \in Intents, pc = "note" => i \in Zones
      PROVE  /\ client' \in [Clients -> Asked]
             /\ \A v \in Clients :
                  /\ client'[v].pc \in {"create", "cancel"} => client'[v].id \in Intents
                  /\ client'[v].pc = "note" => client'[v].id \in Zones
  <2>1. [pc |-> pc, id |-> i] \in Asked
    BY <1>1 DEF Asked
  <2> QED
    BY <1>1, <2>1, RequestEffect DEF Request
<1>2. ASSUME NEW u \in Clients, client' = [client EXCEPT ![u] = IdleClient]
      PROVE  /\ client' \in [Clients -> Asked]
             /\ \A v \in Clients :
                  /\ client'[v].pc \in {"create", "cancel"} => client'[v].id \in Intents
                  /\ client'[v].pc = "note" => client'[v].id \in Zones
  BY <1>2, IdleTypes, RequestEffect DEF IdleClient
<1>3. ASSUME NEW u \in Clients, Admit(u) \/ ReadToCancel(u) PROVE TypeInv'
  <2>1. PICK i \in Intents, pc \in {"create", "cancel"} : Request(u, pc, i)
    BY <1>3 DEF Admit, ReadToCancel
  <2> QED
    BY <1>1, <1>3, <1>a, <2>1 DEF Admit, ReadToCancel, TypeInv
<1>4. ASSUME NEW u \in Clients, Register(u) PROVE TypeInv'
  <2>1. client[u].id \in Intents
    BY <1>4, <1>c DEF Register
  <2>2. /\ client' \in [Clients -> Asked]
        /\ \A v \in Clients :
             /\ client'[v].pc \in {"create", "cancel"} => client'[v].id \in Intents
             /\ client'[v].pc = "note" => client'[v].id \in Zones
    BY <1>1, <1>2, <1>4, <2>1 DEF Register
  <2>3. /\ intents' \in [Intents -> {"none", "active", "cancelled"} \cup Resolved]
        /\ announced' \subseteq Zones
    BY <1>4, <1>a, <2>1 DEF Register
  <2> QED
    BY <1>4, <1>a, <2>2, <2>3 DEF Register, TypeInv
<1>5. ASSUME NEW u \in Clients, NoteRegistration(u) \/ Cancel(u) PROVE TypeInv'
  <2>1. client' = [client EXCEPT ![u] = IdleClient]
    BY <1>5 DEF NoteRegistration, Cancel
  <2>2. /\ intents' \in [Intents -> {"none", "active", "cancelled"} \cup Resolved]
        /\ judgments' \subseteq Zones \X {"registered", "triggered"}
    BY <1>5, <1>a, <1>c DEF NoteRegistration, Cancel
  <2> QED
    BY <1>2, <1>5, <1>a, <2>1, <2>2 DEF NoteRegistration, Cancel, TypeInv
<1>6. ASSUME NEW r \in Scans, BeginScan(r) PROVE TypeInv'
  <2>1. /\ [IdleScan EXCEPT !.pc = "judge", !.todo = Listed] \in Run
        /\ [IdleScan EXCEPT !.pc = "judge", !.todo = Listed].pc = "judge"
    BY DEF IdleScan, Run, Listed, IntentsIn
  <2> QED
    BY <1>6, <1>a, <2>1, ScanningEffect DEF BeginScan, TypeInv
<1>7. ASSUME NEW r \in Scans, JudgeIntent(r) PROVE TypeInv'
  <2>1. PICK i, st :
          /\ i \in scan[r].todo /\ st \in Outcome(i)
          /\ intents' = [intents EXCEPT ![i] = st]
          /\ watchExpired' = (watchExpired \/ (i \in Watches /\ st = "expired"))
          /\ Scanning(r, [scan[r] EXCEPT
                            !.todo = @ \ {i}, !.alerts = Gather(scan[r], i, st),
                            !.pc = IF st = "triggered" THEN "record" ELSE "judge",
                            !.id = i])
    BY <1>7 DEF JudgeIntent
  <2>2. i \in Intents /\ (st = "triggered" => i \in Zones)
    BY <2>1, <1>b DEF Run, Outcome
  <2>3. Gather(scan[r], i, st) \in SUBSET Zones
    BY <1>b, <2>2 DEF Gather, Run
  <2> DEFINE next == [scan[r] EXCEPT
                        !.todo = @ \ {i}, !.alerts = Gather(scan[r], i, st),
                        !.pc = IF st = "triggered" THEN "record" ELSE "judge",
                        !.id = i]
  <2>4. next \in Run /\ (next.pc = "record" => next.id \in Zones)
    BY <1>b, <2>2, <2>3 DEF Run
  <2>5. /\ intents' \in [Intents -> {"none", "active", "cancelled"} \cup Resolved]
        /\ watchExpired' \in BOOLEAN
    BY <1>a, <2>1, <2>2 DEF Outcome, Resolved
  <2> HIDE DEF next
  <2>6. /\ scan' \in [Scans -> Run]
        /\ \A q \in Scans : scan'[q].pc = "record" => scan'[q].id \in Zones
    BY <2>1, <2>4, ScanningEffect DEF next
  <2> QED
    BY <1>7, <1>a, <2>5, <2>6 DEF JudgeIntent, TypeInv
<1>8. ASSUME NEW r \in Scans, RecordTrigger(r) PROVE TypeInv'
  <2>1. /\ [scan[r] EXCEPT !.pc = "judge"] \in Run
        /\ [scan[r] EXCEPT !.pc = "judge"].pc = "judge"
    BY <1>b DEF Run
  <2>2. judgments' \subseteq Zones \X {"registered", "triggered"}
    BY <1>8, <1>a, <1>b DEF RecordTrigger
  <2> QED
    BY <1>8, <1>a, <2>1, <2>2, ScanningEffect DEF RecordTrigger, TypeInv
<1>9. ASSUME NEW r \in Scans, Score(r) PROVE TypeInv'
  <2>1. /\ [scan[r] EXCEPT !.pc = "score", !.id = "none"] \in Run
        /\ [scan[r] EXCEPT !.pc = "score", !.id = "none"].pc = "score"
    BY <1>b DEF Run
  <2> QED
    BY <1>9, <1>a, <2>1, ScanningEffect DEF Score, TypeInv
<1>10. ASSUME NEW r \in Scans, ScoreIntent(r) PROVE TypeInv'
  <2>1. scored' \subseteq Intents
    BY <1>10, <1>a DEF ScoreIntent
  <2> QED
    BY <1>10, <1>a, <2>1 DEF ScoreIntent, TypeInv
<1>11. ASSUME NEW r \in Scans, ScoringRaises(r) \/ SendAlerts(r) \/ ScanDies(r)
       PROVE  TypeInv'
  <2>1. Scanning(r, IdleScan) /\ IdleScan.pc = "idle"
    BY <1>11 DEF ScoringRaises, SendAlerts, ScanDies, IdleScan
  <2>2. announced' \subseteq Zones /\ scanLost' \in BOOLEAN
    BY <1>11, <1>a, <1>b DEF ScoringRaises, SendAlerts, ScanDies, Run
  <2> QED
    BY <1>11, <1>a, <2>1, <2>2, IdleTypes, ScanningEffect
       DEF ScoringRaises, SendAlerts, ScanDies, TypeInv
<1>12. ASSUME NEW r \in Scans, ScanTimesOut(r) PROVE TypeInv'
  <2>1. /\ [scan[r] EXCEPT !.heard = FALSE] \in Run
        /\ [scan[r] EXCEPT !.heard = FALSE].pc = scan[r].pc
        /\ [scan[r] EXCEPT !.heard = FALSE].id = scan[r].id
    BY <1>b DEF Run
  <2>2. /\ scan' \in [Scans -> Run]
        /\ \A q \in Scans : scan'[q].pc = "record" => scan'[q].id \in Zones
    BY <1>12, <1>b, <2>1, ScanningEffect DEF ScanTimesOut
  <2> QED
    BY <1>12, <1>a, <2>2 DEF ScanTimesOut, TypeInv
<1>13. CASE UNCHANGED intentVars
  BY <1>13, <1>a DEF intentVars, TypeInv
<1> QED
  BY <1>3, <1>4, <1>5, <1>6, <1>7, <1>8, <1>9, <1>10, <1>11, <1>12, <1>13 DEF IntentNext

LEMMA TypeInvariant == IntentSpec => []TypeInv
BY TypeInit, TypeNext, PTL DEF IntentSpec

(* The types of the intents, their scans and their requests.               *)
THEOREM IntentTypesCorrect == IntentSpec => []IntentTypeOK
<1>1. TypeInv => IntentTypeOK
  BY DEF TypeInv, IntentTypeOK, Run, Asked
<1> QED
  BY <1>1, TypeInvariant, PTL

-----------------------------------------------------------------------------
(* A cancellation is undone by nobody who did not have the intent in his   *)
(* hands before: a request that admitted it, or a scan that listed it      *)
(* (cancel_entry_intent, evaluate_entry_intents).                          *)
THEOREM CancellationsAreRead == IntentSpec => CancelledReturnsOnlyFromCopies
<1> DEFINE Returns ==
      \A i \in IntentsIn("cancelled") :
        /\ \A r \in Scans : i \in scan'[r].todo => i \in scan[r].todo
        /\ intents'[i] # "cancelled" =>
             \/ \E r \in Scans : i \in scan[r].todo
             \/ \E u \in Clients : client[u].pc = "create" /\ client[u].id = i
<1>1. ASSUME TypeInv, IntentNext PROVE Returns
  <2> SUFFICES ASSUME NEW i \in Intents, intents[i] = "cancelled"
               PROVE  /\ \A r \in Scans : i \in scan'[r].todo => i \in scan[r].todo
                      /\ intents'[i] # "cancelled" =>
                           \/ \E r \in Scans : i \in scan[r].todo
                           \/ \E u \in Clients : client[u].pc = "create" /\ client[u].id = i
    BY DEF IntentsIn
  <2>a. /\ intents \in [Intents -> {"none", "active", "cancelled"} \cup Resolved]
        /\ \A r \in Scans : scan[r] \in Run
    BY <1>1 DEF TypeInv
  <2>b. ASSUME NEW r \in Scans, NEW next, Scanning(r, next), i \in next.todo => i \in scan[r].todo
        PROVE  \A q \in Scans : i \in scan'[q].todo => i \in scan[q].todo
    BY <1>1, <2>b DEF Scanning, TypeInv
  <2>1. ASSUME NEW u \in Clients,
               Admit(u) \/ Register(u) \/ NoteRegistration(u) \/ ReadToCancel(u) \/ Cancel(u)
        PROVE  /\ UNCHANGED scan
               /\ intents'[i] # "cancelled" =>
                    client[u].pc = "create" /\ client[u].id = i
    BY <2>1, <2>a DEF Admit, Register, NoteRegistration, ReadToCancel, Cancel
  <2>2. ASSUME NEW r \in Scans, BeginScan(r)
        PROVE  UNCHANGED intents /\ \A q \in Scans : i \in scan'[q].todo => i \in scan[q].todo
    <3>1. i \notin [IdleScan EXCEPT !.pc = "judge", !.todo = Listed].todo
      BY DEF IdleScan, Listed, IntentsIn
    <3> QED
      BY <2>2, <2>b, <3>1 DEF BeginScan
  <2>3. ASSUME NEW r \in Scans, JudgeIntent(r)
        PROVE  /\ intents'[i] # "cancelled" => i \in scan[r].todo
               /\ \A q \in Scans : i \in scan'[q].todo => i \in scan[q].todo
    <3>1. PICK j, st :
            /\ j \in scan[r].todo /\ st \in Outcome(j)
            /\ intents' = [intents EXCEPT ![j] = st]
            /\ Scanning(r, [scan[r] EXCEPT
                              !.todo = @ \ {j}, !.alerts = Gather(scan[r], j, st),
                              !.pc = IF st = "triggered" THEN "record" ELSE "judge",
                              !.id = j])
      BY <2>3 DEF JudgeIntent
    <3>2. [scan[r] EXCEPT !.todo = @ \ {j}, !.alerts = Gather(scan[r], j, st),
                          !.pc = IF st = "triggered" THEN "record" ELSE "judge",
                          !.id = j].todo = scan[r].todo \ {j}
      BY <2>a DEF Run
    <3> QED
      BY <2>a, <2>b, <3>1, <3>2
  <2>4. ASSUME NEW r \in Scans,
               RecordTrigger(r) \/ Score(r) \/ ScoreIntent(r) \/ ScoringRaises(r)
                 \/ SendAlerts(r) \/ ScanTimesOut(r) \/ ScanDies(r)
        PROVE  UNCHANGED intents /\ \A q \in Scans : i \in scan'[q].todo => i \in scan[q].todo
    <3>1. /\ [scan[r] EXCEPT !.pc = "judge"].todo = scan[r].todo
          /\ [scan[r] EXCEPT !.pc = "score", !.id = "none"].todo = scan[r].todo
          /\ [scan[r] EXCEPT !.heard = FALSE].todo = scan[r].todo
          /\ IdleScan.todo = {}
      BY <2>a DEF Run, IdleScan
    <3> QED
      BY <2>4, <2>b, <3>1 DEF RecordTrigger, Score, ScoreIntent, ScoringRaises, SendAlerts,
                              ScanTimesOut, ScanDies
  <2> QED
    BY <1>1, <2>1, <2>2, <2>3, <2>4 DEF IntentNext
<1>2. TypeInv /\ [IntentNext]_intentVars => [Returns]_intentVars
  BY <1>1
<1> QED
  BY <1>2, TypeInvariant, PTL DEF IntentSpec, CancelledReturnsOnlyFromCopies

-----------------------------------------------------------------------------
(* While no scan was lost they do not overlap, and one that is idle keeps  *)
(* no alerts; a watch that has not expired is in no way resolved.          *)
AloneAndHeard ==
  /\ \A r \in Scans : scan[r].pc = "idle" => scan[r].alerts = {}
  /\ ~scanLost => /\ \A r \in Scans : scan[r].heard
                  /\ \A r, q \in Scans : scan[r].pc # "idle" /\ scan[q].pc # "idle" => r = q
  /\ ~watchExpired => \A i \in Watches : intents[i] \notin Resolved
  /\ TriggeredIsAnnounced

(* A triggered intent is announced or in the hands of a scan that will     *)
(* announce it, whatever users register and cancel meanwhile, until a scan *)
(* is lost or a watch expires (process_scout_scan, score_entry_intents).   *)
THEOREM TriggersAreAnnounced == IntentSpec => []TriggeredIsAnnounced
<1>1. IntentInit => AloneAndHeard
  BY DEF IntentInit, AloneAndHeard, TriggeredIsAnnounced, IntentsIn, IdleScan, Intents, Resolved
<1>2. TypeInv /\ AloneAndHeard /\ [IntentNext]_intentVars => AloneAndHeard'
  <2> SUFFICES ASSUME TypeInv, AloneAndHeard, [IntentNext]_intentVars PROVE AloneAndHeard'
    OBVIOUS
  <2>a. /\ intents \in [Intents -> {"none", "active", "cancelled"} \cup Resolved]
        /\ \A r \in Scans : scan[r] \in Run
    BY DEF TypeInv
  <2>b. ASSUME NEW r \in Scans, NEW next, Scanning(r, next)
        PROVE  scan'[r] = next /\ \A q \in Scans \ {r} : scan'[q] = scan[q]
    BY <2>b DEF Scanning, TypeInv
  <2>1. ASSUME NEW u \in Clients,
               Admit(u) \/ Register(u) \/ NoteRegistration(u) \/ ReadToCancel(u) \/ Cancel(u)
        PROVE  AloneAndHeard'
    <3>1. /\ UNCHANGED <<scan, scanLost, watchExpired>>
          /\ \A i \in Intents : intents'[i] = intents[i] \/ intents'[i] \in {"active", "cancelled"}
      BY <2>1, <2>a DEF Admit, Register, NoteRegistration, ReadToCancel, Cancel
    <3>2. \A i \in Intents : intents'[i] = "triggered" =>
            intents[i] = "triggered" /\ (i \in announced => i \in announced')
      BY <2>1, <2>a, <3>1 DEF Admit, Register, NoteRegistration, ReadToCancel, Cancel
    <3> QED
      BY <3>1, <3>2 DEF AloneAndHeard, TriggeredIsAnnounced, IntentsIn, Resolved, Intents
  <2>2. ASSUME NEW r \in Scans, BeginScan(r) PROVE AloneAndHeard'
    <3> DEFINE next == [IdleScan EXCEPT !.pc = "judge", !.todo = Listed]
    <3>1. next.heard /\ next.alerts = {} /\ next.pc = "judge"
      BY DEF IdleScan
    <3>2. /\ Scanning(r, next) /\ scan[r].pc = "idle"
          /\ \A q \in Scans : scan[q].pc = "idle" \/ ~scan[q].heard
          /\ UNCHANGED <<intents, announced, scanLost, watchExpired>>
      BY <2>2 DEF BeginScan
    <3> HIDE DEF next
    <3>3. scan'[r] = next /\ \A q \in Scans \ {r} : scan'[q] = scan[q]
      BY <2>b, <3>2
    <3> QED
      BY <3>1, <3>2, <3>3 DEF AloneAndHeard, TriggeredIsAnnounced, IntentsIn
  <2>3. ASSUME NEW r \in Scans, JudgeIntent(r) PROVE AloneAndHeard'
    <3>1. PICK i, st :
            /\ i \in scan[r].todo /\ st \in Outcome(i)
            /\ intents' = [intents EXCEPT ![i] = st]
            /\ watchExpired' = (watchExpired \/ (i \in Watches /\ st = "expired"))
            /\ Scanning(r, [scan[r] EXCEPT
                              !.todo = @ \ {i}, !.alerts = Gather(scan[r], i, st),
                              !.pc = IF st = "triggered" THEN "record" ELSE "judge",
                              !.id = i])
      BY <2>3 DEF JudgeIntent
    <3> DEFINE next == [scan[r] EXCEPT
                          !.todo = @ \ {i}, !.alerts = Gather(scan[r], i, st),
                          !.pc = IF st = "triggered" THEN "record" ELSE "judge",
                          !.id = i]
    <3>2. /\ next.pc # "idle" /\ next.heard = scan[r].heard
          /\ scan[r].alerts \subseteq next.alerts /\ (st = "triggered" => i \in next.alerts)
      BY <2>a DEF Run, Gather
    <3> HIDE DEF next
    <3>3. scan'[r] = next /\ \A q \in Scans \ {r} : scan'[q] = scan[q]
      BY <2>b, <3>1 DEF next
    <3>4. /\ scan[r].pc = "judge" /\ i \in Intents
          /\ UNCHANGED <<announced, scanLost>>
      BY <2>3, <2>a, <3>1 DEF JudgeIntent, Run
    <3>5. /\ intents'[i] = st /\ \A j \in Intents \ {i} : intents'[j] = intents[j]
      BY <2>a, <3>1, <3>4
    <3>6. ~watchExpired' => \A j \in Watches : intents'[j] \notin Resolved
      <4>1. i \in Watches => st \in {"active", "expired"}
        BY KindsAssumption, <3>1 DEF Outcome
      <4> QED
        BY <3>1, <3>5, <4>1 DEF AloneAndHeard, Resolved, Intents
    <3>7. TriggeredIsAnnounced'
      <4>1. SUFFICES ASSUME ~scanLost, ~watchExpired, NEW j \in Intents,
                            intents'[j] = "triggered"
                     PROVE  j \in announced' \/ \E q \in Scans : j \in scan'[q].alerts
        BY <3>1, <3>4 DEF TriggeredIsAnnounced, IntentsIn
      <4>2. CASE j = i
        BY <3>2, <3>3, <3>5, <4>1, <4>2
      <4>3. CASE j # i
        <5>1. j \in announced \/ \E q \in Scans : j \in scan[q].alerts
          BY <3>5, <4>1, <4>3 DEF AloneAndHeard, TriggeredIsAnnounced, IntentsIn
        <5> QED
          BY <3>2, <3>3, <3>4, <5>1
      <4> QED
        BY <4>2, <4>3
    <3> QED
      BY <3>2, <3>3, <3>4, <3>6, <3>7 DEF AloneAndHeard
  <2>4. ASSUME NEW r \in Scans, RecordTrigger(r) \/ Score(r) PROVE AloneAndHeard'
    <3>1. PICK next : /\ Scanning(r, next) /\ next.pc # "idle"
                      /\ next.heard = scan[r].heard /\ next.alerts = scan[r].alerts
      <4>1. CASE RecordTrigger(r)
        <5> DEFINE new == [scan[r] EXCEPT !.pc = "judge"]
        <5>1. /\ new.pc = "judge" /\ new.heard = scan[r].heard
              /\ new.alerts = scan[r].alerts
          BY <2>a DEF Run
        <5>2. Scanning(r, new)
          BY <4>1 DEF RecordTrigger
        <5> HIDE DEF new
        <5> QED
          BY <5>1, <5>2
      <4>2. CASE Score(r)
        <5> DEFINE new == [scan[r] EXCEPT !.pc = "score", !.id = "none"]
        <5>1. /\ new.pc = "score" /\ new.heard = scan[r].heard
              /\ new.alerts = scan[r].alerts
          BY <2>a DEF Run
        <5>2. Scanning(r, new)
          BY <4>2 DEF Score
        <5> HIDE DEF new
        <5> QED
          BY <5>1, <5>2
      <4> QED
        BY <2>4, <4>1, <4>2
    <3>2. scan'[r] = next /\ \A q \in Scans \ {r} : scan'[q] = scan[q]
      BY <2>b, <3>1
    <3>3. scan[r].pc # "idle" /\ UNCHANGED <<intents, announced, scanLost, watchExpired>>
      BY <2>4 DEF RecordTrigger, Score
    <3> QED
      BY <3>1, <3>2, <3>3 DEF AloneAndHeard, TriggeredIsAnnounced, IntentsIn
  <2>5. ASSUME NEW r \in Scans, ScoringRaises(r) \/ SendAlerts(r) PROVE AloneAndHeard'
    <3>1. IdleScan.pc = "idle" /\ IdleScan.heard /\ IdleScan.alerts = {}
      BY DEF IdleScan
    <3>2. scan'[r] = IdleScan /\ \A q \in Scans \ {r} : scan'[q] = scan[q]
      BY <2>5, <2>b DEF ScoringRaises, SendAlerts
    <3>3. UNCHANGED <<intents, scanLost, watchExpired>>
      BY <2>5 DEF ScoringRaises, SendAlerts
    <3>4. ~scanLost /\ ~watchExpired => announced' = announced \cup scan[r].alerts
      <4>1. CASE ScoringRaises(r)
        BY <4>1 DEF ScoringRaises, Scorable, AloneAndHeard
      <4>2. CASE SendAlerts(r)
        BY <4>2 DEF SendAlerts, AloneAndHeard
      <4> QED
        BY <2>5, <4>1, <4>2
    <3>5. TriggeredIsAnnounced'
      BY <3>2, <3>3, <3>4 DEF AloneAndHeard, TriggeredIsAnnounced, IntentsIn
    <3> QED
      BY <3>1, <3>2, <3>3, <3>5 DEF AloneAndHeard
  <2>6. ASSUME NEW r \in Scans, ScanTimesOut(r) \/ ScanDies(r) PROVE AloneAndHeard'
    <3>1. PICK next : Scanning(r, next) /\ (next.pc = "idle" => next.alerts = {})
      BY <2>6, <2>a DEF ScanTimesOut, ScanDies, Run, IdleScan
    <3>2. scan'[r] = next /\ \A q \in Scans \ {r} : scan'[q] = scan[q]
      BY <2>b, <3>1
    <3>3. scanLost' /\ UNCHANGED <<intents, watchExpired>>
      BY <2>6 DEF ScanTimesOut, ScanDies
    <3> QED
      BY <3>1, <3>2, <3>3 DEF AloneAndHeard, TriggeredIsAnnounced
  <2>7. ASSUME NEW r \in Scans, ScoreIntent(r) PROVE AloneAndHeard'
    BY <2>7 DEF ScoreIntent, AloneAndHeard, TriggeredIsAnnounced, IntentsIn
  <2>8. CASE UNCHANGED intentVars
    BY <2>8 DEF intentVars, AloneAndHeard, TriggeredIsAnnounced, IntentsIn
  <2> QED
    BY <2>1, <2>2, <2>3, <2>4, <2>5, <2>6, <2>7, <2>8 DEF IntentNext
<1>3. AloneAndHeard => TriggeredIsAnnounced
  BY DEF AloneAndHeard
<1> QED
  BY <1>1, <1>2, <1>3, TypeInvariant, PTL DEF IntentSpec
=============================================================================
