------------------------ MODULE PulseRedeliveryProofs ------------------------
(***************************************************************************)
(* PulseRedelivery keeps its promise as long as only deliver_alerts sends  *)
(* alerts: proved for every set of alerts, length of the list and number   *)
(* of restarts: a failed alert stays on the list, and reaches the user in  *)
(* the end.  The hypothesis Others = {} is what the code does not provide; *)
(* the run pulse_shared shows that it is needed.                           *)
(***************************************************************************)
EXTENDS PulseRedelivery, TLAPS, SequenceTheorems

(* The list in the file is the one in memory; while a pulse is composed or *)
(* sent no alert of its own job is, and a pulse being sent merges the list *)
(* as it still is when the send returns.                                   *)
PulseInv ==
  /\ TypeOK
  /\ saved = pending
  /\ pulse # "idle" => sending \subseteq Others
  /\ pulse = "sending" => merged = Entries(pending)

(* Cutting a list to its last entries yields a list of some of its entries. *)
LEMMA KeptType ==
  ASSUME NEW list \in Seq(Alerts)
  PROVE  Kept(list) \in Seq(Alerts) /\ Entries(Kept(list)) \subseteq Entries(list)
<1> DEFINE first == Len(list) - RedeliveryMax + 1
<1>1. CASE Len(list) > RedeliveryMax
  <2>1. /\ Len(list) \in Nat /\ first \in Int /\ 1 <= first /\ first <= Len(list)
        /\ \A i \in first..Len(list) : i \in 1..Len(list) /\ list[i] \in Alerts
    BY <1>1, RedeliveryBoundsAssumption
  <2> DEFINE kept == SubSeq(list, first, Len(list))
  <2>2. /\ kept \in Seq(Alerts)
        /\ Len(kept) = Len(list) - first + 1
        /\ \A i \in 1..(Len(list) - first + 1) : kept[i] = list[first + i - 1]
    BY <2>1, SubSeqProperties
  <2>3. \A i \in 1..Len(kept) : first + i - 1 \in 1..Len(list) /\ kept[i] = list[first + i - 1]
    BY <2>1, <2>2
  <2>4. Range(kept) \subseteq Range(list)
    <3> HIDE DEF kept, first
    <3> QED
      BY <2>2, <2>3 DEF Range
  <2>5. Kept(list) = kept
    BY <1>1 DEF Kept
  <2> QED
    BY <2>2, <2>4, <2>5 DEF Entries
<1>2. CASE ~(Len(list) > RedeliveryMax)
  BY <1>2 DEF Kept
<1> QED
  BY <1>1, <1>2

LEMMA AppendedEntries ==
  ASSUME NEW list \in Seq(Alerts), NEW a \in Alerts
  PROVE  /\ Append(list, a) \in Seq(Alerts)
         /\ Entries(Append(list, a)) = Entries(list) \cup {a}
<1>1. /\ Append(list, a) \in Seq(Alerts)
      /\ Len(Append(list, a)) = Len(list) + 1
      /\ \A i \in 1..Len(list) : Append(list, a)[i] = list[i]
      /\ Append(list, a)[Len(list) + 1] = a
  BY AppendProperties
<1>2. DOMAIN list = 1..Len(list) /\ DOMAIN Append(list, a) = 1..(Len(list) + 1)
      /\ Len(list) \in Nat
  BY <1>1
<1>3. 1..(Len(list) + 1) = 1..Len(list) \cup {Len(list) + 1}
  BY <1>2
<1> QED
  BY <1>1, <1>2, <1>3 DEF Entries, Range

(* What an alert that joins the list does to it.                           *)
LEMMA FailedJoins ==
  ASSUME TypeOK, NEW a \in Alerts, SendFails(a)
  PROVE  /\ pending' \in Seq(Alerts) /\ saved' = pending' /\ evicted' \subseteq Alerts
         /\ Entries(pending) \cup {a} \subseteq Entries(pending') \cup evicted'
         /\ evicted \subseteq evicted'
<1> DEFINE longer == Append(pending, a)
<1>1. longer \in Seq(Alerts) /\ Entries(longer) = Entries(pending) \cup {a}
  BY AppendedEntries DEF TypeOK
<1>2. pending' = Kept(longer) /\ saved' = pending'
      /\ evicted' = evicted \cup (Entries(longer) \ Entries(pending'))
  BY DEF SendFails
<1>3. pending' \in Seq(Alerts)
  BY <1>1, <1>2, KeptType
<1>4. Entries(longer) \subseteq Alerts
  BY <1>1 DEF Entries, Range, TypeOK
<1> HIDE DEF longer
<1> QED
  BY <1>1, <1>2, <1>3, <1>4 DEF TypeOK

LEMMA EmptyList == <<>> \in Seq(Alerts) /\ Entries(<<>>) = {}
BY DEF Entries, Range

LEMMA EntriesType ==
  ASSUME NEW list \in Seq(Alerts) PROVE Entries(list) \subseteq Alerts
BY DEF Entries, Range

-----------------------------------------------------------------------------
LEMMA TypeInit == Init => TypeOK
<1> SUFFICES ASSUME Init PROVE TypeOK
  OBVIOUS
<1>1. pending \in Seq(Alerts) /\ saved \in Seq(Alerts)
  BY EmptyList DEF Init
<1>2. 0 \in 0..MaxRestarts
  BY RedeliveryBoundsAssumption
<1> QED
  BY <1>1, <1>2 DEF Init, TypeOK

LEMMA TypeNext == TypeOK /\ [Next]_vars => TypeOK'
<1> SUFFICES ASSUME TypeOK, [Next]_vars PROVE TypeOK'
  OBVIOUS
<1> USE DEF TypeOK
<1>1. ASSUME NEW a \in Alerts, FireStarts(a) PROVE TypeOK'
  BY <1>1 DEF FireStarts
<1>2. ASSUME NEW a \in Alerts, SendSucceeds(a) PROVE TypeOK'
  BY <1>2 DEF SendSucceeds
<1>3. ASSUME NEW a \in Alerts, SendFails(a) PROVE TypeOK'
  <2>1. /\ pending' \in Seq(Alerts) /\ saved' = pending' /\ evicted' \subseteq Alerts
    BY <1>3, FailedJoins
  <2> QED
    BY <1>3, <2>1 DEF SendFails
<1>4. ASSUME NEW a \in Alerts, SendCut(a) PROVE TypeOK'
  BY <1>4 DEF SendCut
<1>5. CASE PulseStarts
  BY <1>5 DEF PulseStarts
<1>6. CASE PulseSends
  BY <1>6, EntriesType DEF PulseSends
<1>7. CASE PulseFails
  BY <1>7 DEF PulseFails
<1>8. CASE PulseDelivered
  BY <1>8, EmptyList DEF PulseDelivered
<1>9. CASE PulseCut
  BY <1>9 DEF PulseCut
<1>10. CASE Mute \/ MuteEnds
  BY <1>10 DEF Mute, MuteEnds
<1>11. CASE Restart
  <2>1. PICK lost \in SUBSET (fired \ (failed \cup reached)) : fired' = fired \ lost
    BY <1>11 DEF Restart
  <2>2. restarts' \in 0..MaxRestarts
    BY <1>11, RedeliveryBoundsAssumption DEF Restart
  <2>3. /\ sending' = {} /\ pulse' = "idle" /\ merged' = {}
        /\ pending' = saved /\ UNCHANGED <<saved, muted, failed, reached, evicted>>
    BY <1>11 DEF Restart
  <2> QED
    BY <2>1, <2>2, <2>3
<1>12. CASE UNCHANGED vars
  BY <1>12 DEF vars
<1> QED
  BY <1>1, <1>2, <1>3, <1>4, <1>5, <1>6, <1>7, <1>8, <1>9, <1>10, <1>11, <1>12
     DEF Next

(* Every variable keeps its type, and no send is awaited whose rule is     *)
(* still armed.                                                            *)
THEOREM TypeCorrect == Spec => []TypeOK
BY TypeInit, TypeNext, PTL DEF Spec

-----------------------------------------------------------------------------
LEMMA PulseInit == Init => PulseInv
BY TypeInit DEF Init, PulseInv

LEMMA PulseNext == Others = {} /\ PulseInv /\ [Next]_vars => PulseInv'
<1> SUFFICES ASSUME Others = {}, PulseInv, [Next]_vars PROVE PulseInv'
  OBVIOUS
<1> USE DEF PulseInv
<1>0. TypeOK'
  BY TypeNext
<1>1. ASSUME NEW a \in Alerts, FireStarts(a) PROVE PulseInv'
  BY <1>0, <1>1 DEF FireStarts, OwnIdle
<1>2. ASSUME NEW a \in Alerts, SendSucceeds(a) PROVE PulseInv'
  BY <1>0, <1>2 DEF SendSucceeds
<1>3. ASSUME NEW a \in Alerts, SendFails(a) PROVE PulseInv'
  (* No send of another job ends while the pulse is being sent.            *)
  <2>1. pulse = "idle"
    BY <1>3 DEF SendFails
  <2> QED
    BY <1>0, <1>3, <2>1 DEF SendFails
<1>4. ASSUME NEW a \in Alerts, SendCut(a) PROVE PulseInv'
  BY <1>0, <1>4 DEF SendCut
<1>5. CASE PulseStarts \/ PulseSends
  BY <1>0, <1>5 DEF PulseStarts, PulseSends, OwnIdle
<1>6. CASE PulseFails \/ PulseDelivered \/ PulseCut
  BY <1>0, <1>6 DEF PulseFails, PulseDelivered, PulseCut
<1>7. CASE Mute \/ MuteEnds
  BY <1>0, <1>7 DEF Mute, MuteEnds
<1>8. CASE Restart
  BY <1>0, <1>8 DEF Restart
<1>9. CASE UNCHANGED vars
  BY <1>0, <1>9 DEF vars
<1> QED
  BY <1>1, <1>2, <1>3, <1>4, <1>5, <1>6, <1>7, <1>8, <1>9 DEF Next

LEMMA PendingInit == Init => FailedStaysPending
BY DEF Init, FailedStaysPending

LEMMA PendingNext ==
  PulseInv /\ FailedStaysPending /\ [Next]_vars => FailedStaysPending'
<1> SUFFICES ASSUME PulseInv, FailedStaysPending, [Next]_vars
             PROVE  FailedStaysPending'
  OBVIOUS
<1> USE DEF FailedStaysPending
<1>1. ASSUME NEW a \in Alerts, SendFails(a) PROVE FailedStaysPending'
  <2>1. TypeOK
    BY DEF PulseInv
  <2>2. /\ Entries(pending) \cup {a} \subseteq Entries(pending') \cup evicted'
        /\ evicted \subseteq evicted'
    BY <1>1, <2>1, FailedJoins
  <2>3. failed' = failed \cup {a} /\ reached' = reached
    BY <1>1 DEF SendFails
  <2> QED
    BY <2>2, <2>3
<1>2. ASSUME NEW a \in Alerts, FireStarts(a) \/ SendSucceeds(a) \/ SendCut(a)
      PROVE  FailedStaysPending'
  BY <1>2 DEF FireStarts, SendSucceeds, SendCut
<1>3. CASE PulseDelivered
  (* The list that is cleared is the list that was merged.                 *)
  <2>1. Entries(pending) \subseteq reached'
    BY <1>3 DEF PulseDelivered, PulseInv
  <2>2. failed' = failed /\ evicted' = evicted /\ reached \subseteq reached'
    BY <1>3 DEF PulseDelivered
  <2> QED
    BY <2>1, <2>2
<1>4. CASE PulseStarts \/ PulseSends \/ PulseFails \/ PulseCut \/ Mute \/ MuteEnds
  BY <1>4 DEF PulseStarts, PulseSends, PulseFails, PulseCut, Mute, MuteEnds
<1>5. CASE Restart
  <2>1. pending' = pending
    BY <1>5 DEF Restart, PulseInv
  <2> QED
    BY <1>5, <2>1 DEF Restart
<1>6. CASE UNCHANGED vars
  BY <1>6 DEF vars
<1> QED
  BY <1>1, <1>2, <1>3, <1>4, <1>5, <1>6 DEF Next

(* If no other job sends alerts, an alert that could not be sent stays on  *)
(* the list until a delivered pulse has told of it.                        *)
THEOREM FailedKeptAlone ==
  ASSUME Others = {} PROVE Spec => []FailedStaysPending
<1>1. PulseInv /\ [Next]_vars => PulseInv'
  BY PulseNext
<1>2. PulseInv /\ FailedStaysPending /\ [Next]_vars => FailedStaysPending'
  BY PendingNext
<1> QED
  BY <1>1, <1>2, PulseInit, PendingInit, PTL DEF Spec

(* Under the same hypothesis a crash at any moment finds it in the file.   *)
THEOREM FailedSavedAlone ==
  ASSUME Others = {} PROVE Spec => []FailedSurvivesCrash
<1>1. PulseInv /\ [Next]_vars => PulseInv'
  BY PulseNext
<1>2. PulseInv /\ FailedStaysPending => FailedSurvivesCrash
  BY DEF PulseInv, FailedStaysPending, FailedSurvivesCrash
<1> QED
  BY <1>1, <1>2, PulseInit, FailedKeptAlone, PTL DEF Spec

-----------------------------------------------------------------------------
(* Liveness.  What an action needs to be enabled is its guard; TLAPS takes *)
(* that as a hypothesis, since it does not look into ENABLED.              *)
GuardsEnable ==
  /\ \A a \in Alerts : [](a \in sending => ENABLED <<SendEnds(a)>>_vars)
  /\ [](muted => ENABLED <<MuteEnds>>_vars)
  /\ [](OwnIdle /\ ~muted => ENABLED <<PulseStarts>>_vars)
  /\ [](pulse = "composing" => ENABLED <<PulseSends>>_vars)
  /\ [](pulse = "sending" => ENABLED <<PulseDelivered>>_vars)

(* The hooks run one by one: at most one send is awaited.                  *)
OneSend == \A a, b \in sending : a = b

LEMMA OneSendNext ==
  Others = {} /\ PulseInv /\ OneSend /\ [Next]_vars => OneSend'
<1> SUFFICES ASSUME Others = {}, PulseInv, OneSend, [Next]_vars PROVE OneSend'
  OBVIOUS
<1>1. ASSUME NEW a \in Alerts, FireStarts(a) PROVE OneSend'
  <2>1. sending' = {a}
    BY <1>1 DEF FireStarts, OwnIdle
  <2> QED
    BY <2>1 DEF OneSend
<1>2. CASE sending' \subseteq sending
  BY <1>2 DEF OneSend
<1>3. Next /\ (\A a \in Alerts : ~FireStarts(a)) => sending' \subseteq sending
  BY DEF Next, SendSucceeds, SendFails, SendCut, PulseStarts, PulseSends, PulseFails,
         PulseDelivered, PulseCut, Mute, MuteEnds, Restart
<1>4. UNCHANGED vars => sending' \subseteq sending
  BY DEF vars
<1> QED
  BY <1>1, <1>2, <1>3, <1>4

LEMMA AloneInvariants ==
  ASSUME Others = {}
  PROVE  Spec => []PulseInv /\ []OneSend /\ []FailedStaysPending
<1>1. PulseInv /\ [Next]_vars => PulseInv'
  BY PulseNext
<1>2. PulseInv /\ OneSend /\ [Next]_vars => OneSend'
  BY OneSendNext
<1>3. Init => OneSend
  BY DEF Init, OneSend
<1> QED
  BY <1>1, <1>2, <1>3, PulseInit, FailedKeptAlone, PTL DEF Spec

(* The one send that is awaited ends, and leaves the hooks idle.           *)
Awaits(a) == pulse = "idle" /\ sending = {a}

LEMMA AwaitsEnds ==
  ASSUME Others = {}, NEW a \in Alerts
  PROVE  FairSpec /\ GuardsEnable => [](Awaits(a) => <>OwnIdle)
<1>1. PulseInv /\ Awaits(a) /\ [Next]_vars => Awaits(a)' \/ OwnIdle'
  <2> SUFFICES ASSUME PulseInv, Awaits(a), [Next]_vars PROVE Awaits(a)' \/ OwnIdle'
    OBVIOUS
  <2>1. pulse = "idle" /\ sending = {a} /\ ~OwnIdle
    BY DEF Awaits, OwnIdle
  <2>2. ASSUME NEW b \in Alerts, FireStarts(b) PROVE FALSE
    BY <2>1, <2>2 DEF FireStarts
  <2>3. ASSUME NEW b \in Alerts, SendEnds(b) PROVE OwnIdle'
    BY <2>1, <2>3 DEF SendEnds, SendSucceeds, SendFails, SendCut, OwnIdle
  <2>4. CASE PulseStarts \/ PulseSends \/ PulseFails \/ PulseDelivered \/ PulseCut
    BY <2>1, <2>4 DEF PulseStarts, PulseSends, PulseFails, PulseDelivered, PulseCut
  <2>5. CASE Mute \/ MuteEnds \/ UNCHANGED vars
    BY <2>1, <2>5 DEF Mute, MuteEnds, vars, Awaits
  <2>6. CASE Restart
    BY <2>6 DEF Restart, OwnIdle
  <2> QED
    BY <2>2, <2>3, <2>4, <2>5, <2>6 DEF Next, SendEnds
<1>2. Awaits(a) /\ <<SendEnds(a)>>_vars => OwnIdle'
  BY DEF Awaits, SendEnds, SendSucceeds, SendFails, SendCut, OwnIdle
<1>3. Awaits(a) => a \in sending
  BY DEF Awaits
<1>4. FairSpec => WF_vars(SendEnds(a))
  <2>1. FairSpec => SendsEnd
    BY PTL DEF FairSpec
  <2>2. SendsEnd => SendEndsFairly(a)
    BY DEF SendsEnd
  <2> QED
    BY <2>1, <2>2, PTL DEF SendEndsFairly
<1>5. GuardsEnable => [](a \in sending => ENABLED <<SendEnds(a)>>_vars)
  BY DEF GuardsEnable
<1>6. FairSpec => []PulseInv /\ [][Next]_vars
  BY AloneInvariants, PTL DEF FairSpec, Spec
<1> QED
  BY <1>1, <1>2, <1>3, <1>4, <1>5, <1>6, PTL

(* Whatever the pulse is at, it ends.                                      *)
LEMMA PulseEnds ==
  FairSpec /\ GuardsEnable => []<>(pulse = "idle")
<1> DEFINE idle      == pulse = "idle"
           composing == pulse = "composing"
           sent      == pulse = "sending"
<1>1. TypeOK => idle \/ composing \/ sent
  BY DEF TypeOK
<1>2. <<PulseSends>>_vars => sent'
  BY DEF PulseSends
<1>3. <<PulseDelivered>>_vars => idle'
  BY DEF PulseDelivered
<1>4. sent /\ [Next]_vars => sent' \/ idle'
  BY DEF Next, FireStarts, SendSucceeds, SendFails, SendCut, PulseStarts, PulseSends,
         PulseFails, PulseDelivered, PulseCut, Mute, MuteEnds, Restart, vars, OwnIdle
<1>5. FairSpec => []TypeOK /\ [][Next]_vars /\ SF_vars(PulseSends) /\ SF_vars(PulseDelivered)
  BY TypeCorrect, PTL DEF FairSpec, Spec
<1>6. GuardsEnable => /\ [](composing => ENABLED <<PulseSends>>_vars)
                      /\ [](sent => ENABLED <<PulseDelivered>>_vars)
  BY PTL DEF GuardsEnable
<1> HIDE DEF idle, composing, sent
<1>7. FairSpec /\ GuardsEnable => []<>idle
  BY <1>1, <1>2, <1>3, <1>4, <1>5, <1>6, PTL
<1> QED
  BY <1>7 DEF idle

(* The hooks are idle and alerts not muted again and again: while they are *)
(* muted nothing of deliver_alerts starts, and a mute ends.                *)
LEMMA PulsesAreDue ==
  ASSUME Others = {}
  PROVE  FairSpec /\ GuardsEnable => []<>(OwnIdle /\ ~muted)
<1> DEFINE idle == pulse = "idle"
           due  == OwnIdle /\ ~muted
<1>1. FairSpec => /\ []PulseInv /\ []OneSend /\ [][Next]_vars
                  /\ WF_vars(MuteEnds)
  BY AloneInvariants, PTL DEF FairSpec, Spec
<1>2. GuardsEnable => [](muted => ENABLED <<MuteEnds>>_vars)
  BY PTL DEF GuardsEnable
<1>3. FairSpec /\ GuardsEnable => []((\E a \in Alerts : Awaits(a)) => <>OwnIdle)
  <2>1. ASSUME NEW a \in Alerts
        PROVE  FairSpec /\ GuardsEnable => [](Awaits(a) => <>OwnIdle)
    BY AwaitsEnds
  <2>2. FairSpec /\ GuardsEnable => [](\A a \in Alerts : (Awaits(a) => <>OwnIdle))
    BY <2>1
  <2>3. (\A a \in Alerts : (Awaits(a) => <>OwnIdle))
          => ((\E a \in Alerts : Awaits(a)) => <>OwnIdle)
    OBVIOUS
  <2> QED
    BY <2>2, <2>3, PTL
<1>4. PulseInv /\ OneSend /\ idle => OwnIdle \/ \E a \in Alerts : Awaits(a)
  BY DEF PulseInv, TypeOK, OneSend, OwnIdle, Awaits
<1>5. OwnIdle /\ muted /\ [Next]_vars => (OwnIdle' /\ muted') \/ due'
  <2> SUFFICES ASSUME OwnIdle, muted, [Next]_vars PROVE (OwnIdle' /\ muted') \/ due'
    OBVIOUS
  <2>1. pulse = "idle" /\ sending = {}
    BY DEF OwnIdle
  <2>2. ASSUME NEW b \in Alerts, FireStarts(b) \/ SendSucceeds(b) \/ SendFails(b) \/ SendCut(b)
        PROVE  FALSE
    BY <2>1, <2>2 DEF FireStarts, SendSucceeds, SendFails, SendCut
  <2>3. CASE MuteEnds
    BY <2>1, <2>3 DEF MuteEnds, OwnIdle
  <2>4. ~(PulseStarts \/ PulseSends \/ PulseFails \/ PulseDelivered \/ PulseCut \/ Mute)
    BY <2>1 DEF PulseStarts, PulseSends, PulseFails, PulseDelivered, PulseCut, Mute
  <2>5. CASE Restart \/ UNCHANGED vars
    BY <2>1, <2>5 DEF Restart, vars, OwnIdle
  <2> QED
    BY <2>2, <2>3, <2>4, <2>5 DEF Next
<1>6. OwnIdle /\ muted /\ <<MuteEnds>>_vars => due'
  BY DEF MuteEnds, OwnIdle
<1>7. OwnIdle => due \/ (OwnIdle /\ muted)
  OBVIOUS
<1>8. FairSpec /\ GuardsEnable => []<>idle
  BY PulseEnds
<1> DEFINE busy  == \E a \in Alerts : Awaits(a)
           quiet == OwnIdle
<1> HIDE DEF idle, due, busy, quiet
<1>9. FairSpec /\ GuardsEnable => []<>quiet
  <2>1. FairSpec /\ GuardsEnable => [](busy => <>quiet)
    BY <1>3 DEF busy, quiet
  <2>2. PulseInv /\ OneSend /\ idle => quiet \/ busy
    BY <1>4 DEF busy, quiet
  <2> QED
    BY <1>1, <1>8, <2>1, <2>2, PTL
<1>10. FairSpec /\ GuardsEnable => []<>due
  <2>1. (quiet /\ muted /\ [Next]_vars => (quiet' /\ muted') \/ due')
        /\ (quiet /\ muted /\ <<MuteEnds>>_vars => due')
        /\ (quiet => due \/ (quiet /\ muted))
    BY <1>5, <1>6, <1>7 DEF quiet
  <2> QED
    BY <1>1, <1>2, <1>9, <2>1, PTL
<1> QED
  BY <1>10 DEF due

(* Pulses are delivered again and again.                                   *)
LEMMA PulsesAreDelivered ==
  ASSUME Others = {}
  PROVE  FairSpec /\ GuardsEnable => []<><<PulseDelivered>>_vars
<1> DEFINE due       == OwnIdle /\ ~muted
           composing == pulse = "composing"
           sent      == pulse = "sending"
<1>1. <<PulseStarts>>_vars => composing'
  BY DEF PulseStarts
<1>2. <<PulseSends>>_vars => sent'
  BY DEF PulseSends
<1>3. FairSpec => SF_vars(PulseStarts) /\ SF_vars(PulseSends) /\ SF_vars(PulseDelivered)
  BY PTL DEF FairSpec
<1>4. GuardsEnable => /\ [](due => ENABLED <<PulseStarts>>_vars)
                      /\ [](composing => ENABLED <<PulseSends>>_vars)
                      /\ [](sent => ENABLED <<PulseDelivered>>_vars)
  BY PTL DEF GuardsEnable
<1>5. FairSpec /\ GuardsEnable => []<>due
  BY PulsesAreDue
<1> HIDE DEF due, composing, sent
<1> QED
  BY <1>1, <1>2, <1>3, <1>4, <1>5, PTL

(* If no other job sends alerts, an alert that could not be sent arrives,  *)
(* unless the list has no room for it: pulses are delivered again and      *)
(* again, and each tells of the whole list, which the alert is on.         *)
THEOREM FailedArriveAlone ==
  ASSUME Others = {} PROVE FairSpec /\ GuardsEnable => FailedArrives
<1>1. ASSUME NEW a \in Alerts
      PROVE  FairSpec /\ GuardsEnable => (a \in failed ~> a \in reached \cup evicted)
  <2> DEFINE lost    == a \in failed
             settled == a \in reached \cup evicted
  <2>1. TypeOK /\ lost /\ [Next]_vars => lost'
    BY DEF Next, FireStarts, SendSucceeds, SendFails, SendCut, PulseStarts, PulseSends,
           PulseFails, PulseDelivered, PulseCut, Mute, MuteEnds, Restart, vars
  <2>2. PulseInv /\ FailedStaysPending /\ lost /\ <<PulseDelivered>>_vars => settled'
    BY DEF PulseInv, FailedStaysPending, PulseDelivered
  <2>3. FairSpec => []PulseInv /\ []TypeOK /\ []FailedStaysPending /\ [][Next]_vars
    BY AloneInvariants, TypeCorrect, PTL DEF FairSpec, Spec
  <2>4. FairSpec /\ GuardsEnable => []<><<PulseDelivered>>_vars
    BY PulsesAreDelivered
  <2> HIDE DEF lost, settled
  <2>5. FairSpec /\ GuardsEnable => (lost ~> settled)
    BY <2>1, <2>2, <2>3, <2>4, PTL
  <2> QED
    BY <2>5 DEF lost, settled
<1> QED
  BY <1>1 DEF FailedArrives
=============================================================================
