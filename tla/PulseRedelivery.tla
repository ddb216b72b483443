--------------------------- MODULE PulseRedelivery ---------------------------
(***************************************************************************)
(* What becomes of an alert Telegram would not take: it joins the list     *)
(* pending_redelivery, the next periodic pulse merges the list into its    *)
(* message, and a pulse that was delivered clears the list.                *)
(*                                                                         *)
(* The list is shared by all jobs of the worker.  The jobs are coroutines  *)
(* of one event loop, so what happens between two awaits is one step; the  *)
(* awaits here are the sends, and the pulse's gathering of its contents.   *)
(***************************************************************************)
EXTENDS Naturals, Sequences, Functions

CONSTANTS
  Alerts,         \* alerts that will be fired, each by one job
  Others,         \* those fired by jobs other than deliver_alerts
  RedeliveryMax,  \* the list keeps this many entries, the last ones
  MaxRestarts     \* bound: restarts of the process

ASSUME OthersAssumption == Others \subseteq Alerts
ASSUME RedeliveryBoundsAssumption == /\ RedeliveryMax \in Nat \ {0}
                                     /\ MaxRestarts \in Nat

VARIABLES
  fired,     \* alerts whose rule state is not armed any more
  sending,   \* alerts whose send is awaited
  pending,   \* NotificationState.pending_redelivery
  saved,     \* the same, in notification_state.json
  pulse,     \* where maybe_send_pulse stands
  merged,    \* what the pulse being sent merges
  muted,     \* NotificationState.is_muted
  failed,    \* history: alerts whose send returned 0
  reached,   \* history: alerts the user was told of, in time or by a pulse
  evicted,   \* history: alerts the list had no room for
  restarts   \* history: restarts so far

vars == <<fired, sending, pending, saved, pulse, merged, muted, failed,
          reached, evicted, restarts>>

Entries(list) == Range(list)

Init ==
  /\ fired = {} /\ sending = {}
  /\ pending = <<>> /\ saved = <<>>
  /\ pulse = "idle" /\ merged = {}
  /\ muted = FALSE
  /\ failed = {} /\ reached = {} /\ evicted = {}
  /\ restarts = 0

(* The hooks of deliver_alerts, the pulse among them, run one by one.      *)
OwnIdle == pulse = "idle" /\ sending \subseteq Others

-----------------------------------------------------------------------------
(* _fire_if_allowed, of an alert.  Some of the other jobs alert although   *)
(* alerts are muted (evaluate_liveness_alerts).                            *)

(* Mutant: the rule state is left for after the send.                      *)
FireStartsArmed(a) ==
  /\ a \notin fired
  /\ a \in Others \/ (OwnIdle /\ ~muted)
  /\ sending' = sending \cup {a}
  /\ UNCHANGED <<fired, pending, saved, pulse, merged, muted, failed, reached,
                 evicted, restarts>>

FireStarts(a) ==
  /\ a \notin fired
  /\ a \in Others \/ (OwnIdle /\ ~muted)
  /\ fired' = fired \cup {a}
  /\ sending' = sending \cup {a}
  /\ UNCHANGED <<pending, saved, pulse, merged, muted, failed, reached,
                 evicted, restarts>>

SendSucceeds(a) ==
  /\ a \in sending
  /\ sending' = sending \ {a}
  /\ reached' = reached \cup {a}
  /\ saved' = pending
  /\ UNCHANGED <<fired, pending, pulse, merged, muted, failed, evicted, restarts>>

Kept(list) ==
  IF Len(list) > RedeliveryMax
  THEN SubSeq(list, Len(list) - RedeliveryMax + 1, Len(list))
  ELSE list

(* Mutant: the state is saved before the entry is appended.                *)
SendFailsUnsaved(a) ==
  LET longer == Append(pending, a)
  IN /\ a \in sending
     /\ sending' = sending \ {a}
     /\ failed' = failed \cup {a}
     /\ pending' = Kept(longer)
     /\ evicted' = evicted \cup (Entries(longer) \ Entries(pending'))
     /\ saved' = pending
     /\ UNCHANGED <<fired, pulse, merged, muted, reached, restarts>>

(* The entry is appended and saved without an await in between.            *)
SendFails(a) ==
  LET longer == Append(pending, a)
  IN /\ a \in sending
     /\ sending' = sending \ {a}
     /\ failed' = failed \cup {a}
     /\ pending' = Kept(longer)
     /\ evicted' = evicted \cup (Entries(longer) \ Entries(pending'))
     /\ saved' = pending'
     /\ UNCHANGED <<fired, pulse, merged, muted, reached, restarts>>

(* The hook's budget cuts the send: nobody learns what became of it.       *)
SendCut(a) ==
  /\ a \in sending
  /\ sending' = sending \ {a}
  /\ UNCHANGED <<fired, pending, saved, pulse, merged, muted, failed, reached,
                 evicted, restarts>>

-----------------------------------------------------------------------------
(* maybe_send_pulse.                                                       *)

(* The interval has passed.  The contexts, the tracked symbols and the     *)
(* paper summary are awaited.                                              *)
PulseStarts ==
  /\ OwnIdle
  /\ ~muted
  /\ pulse' = "composing"
  /\ UNCHANGED <<fired, sending, pending, saved, merged, muted, failed,
                 reached, evicted, restarts>>

(* pulse_candidate counts the whole list (and names its first five).       *)
PulseSends ==
  /\ pulse = "composing"
  /\ pulse' = "sending"
  /\ merged' = Entries(pending)
  /\ UNCHANGED <<fired, sending, pending, saved, muted, failed, reached,
                 evicted, restarts>>

(* Mutant: the list is cleared although the pulse was not delivered.       *)
PulseFailsClearing ==
  /\ pulse = "sending"
  /\ pulse' = "idle" /\ merged' = {}
  /\ pending' = <<>> /\ saved' = <<>>
  /\ UNCHANGED <<fired, sending, muted, failed, reached, evicted, restarts>>

PulseFails ==
  /\ pulse = "sending"
  /\ pulse' = "idle" /\ merged' = {}
  /\ saved' = pending
  /\ UNCHANGED <<fired, sending, pending, muted, failed, reached, evicted, restarts>>

(* Mutant: a delivered pulse keeps the entries it has merged to itself.    *)
PulseDeliveredUnread ==
  /\ pulse = "sending"
  /\ pulse' = "idle" /\ merged' = {}
  /\ UNCHANGED <<fired, sending, pending, saved, muted, failed, reached,
                 evicted, restarts>>

(* The list is cleared as it is after the send.                            *)
PulseDelivered ==
  /\ pulse = "sending"
  /\ pulse' = "idle" /\ merged' = {}
  /\ reached' = reached \cup merged
  /\ pending' = <<>> /\ saved' = <<>>
  /\ UNCHANGED <<fired, sending, muted, failed, evicted, restarts>>

(* The budget of the hook, or of deliver_alerts, runs out.                 *)
PulseCut ==
  /\ pulse # "idle"
  /\ pulse' = "idle" /\ merged' = {}
  /\ UNCHANGED <<fired, sending, pending, saved, muted, failed, reached,
                 evicted, restarts>>

-----------------------------------------------------------------------------
Mute ==
  /\ ~muted
  /\ muted' = TRUE
  /\ UNCHANGED <<fired, sending, pending, saved, pulse, merged, failed,
                 reached, evicted, restarts>>

(* The user unmutes, or muted_until passes.                                *)
MuteEnds ==
  /\ muted
  /\ muted' = FALSE
  /\ UNCHANGED <<fired, sending, pending, saved, pulse, merged, failed,
                 reached, evicted, restarts>>

(* The process dies and reads the file back.  Rule states whose send never *)
(* returned may not be in it: their alerts can be fired again.             *)
Restart ==
  /\ restarts < MaxRestarts
  /\ restarts' = restarts + 1
  /\ sending' = {} /\ pulse' = "idle" /\ merged' = {}
  /\ pending' = saved
  /\ \E lost \in SUBSET (fired \ (failed \cup reached)) : fired' = fired \ lost
  /\ UNCHANGED <<saved, muted, failed, reached, evicted>>

Next ==
  \/ \E a \in Alerts :
       FireStarts(a) \/ SendSucceeds(a) \/ SendFails(a) \/ SendCut(a)
  \/ PulseStarts \/ PulseSends \/ PulseFails \/ PulseDelivered \/ PulseCut
  \/ Mute \/ MuteEnds \/ Restart

Spec == Init /\ [][Next]_vars

(* Awaits end, a mute has an end, pulses are due again and again, and      *)
(* Telegram takes some of those that are sent.                             *)
SendEnds(a)       == SendSucceeds(a) \/ SendFails(a) \/ SendCut(a)
SendEndsFairly(a) == WF_vars(SendEnds(a))
SendsEnd          == \A a \in Alerts : SendEndsFairly(a)

FairSpec ==
  /\ Spec
  /\ SendsEnd
  /\ WF_vars(MuteEnds)
  /\ SF_vars(PulseStarts)
  /\ SF_vars(PulseSends)
  /\ SF_vars(PulseDelivered)

-----------------------------------------------------------------------------
TypeOK ==
  /\ fired \subseteq Alerts /\ sending \subseteq fired
  /\ pending \in Seq(Alerts) /\ saved \in Seq(Alerts)
  /\ pulse \in {"idle", "composing", "sending"}
  /\ merged \subseteq Alerts
  /\ muted \in BOOLEAN
  /\ failed \subseteq Alerts /\ reached \subseteq Alerts
  /\ evicted \subseteq Alerts
  /\ restarts \in 0..MaxRestarts

(***************************************************************************)
(* An alert that could not be sent is on the list until a delivered pulse  *)
(* has told of it, unless the list had no room ("failed sends are merged   *)
(* into the next pulse, which guarantees that they arrive",                *)
(* _fire_if_allowed) - through cuts, failed pulses and restarts.           *)
(***************************************************************************)
FailedStaysPending == failed \subseteq Entries(pending) \cup reached \cup evicted

(***************************************************************************)
(* A crash at any moment finds the list in the file.                       *)
(***************************************************************************)
FailedSurvivesCrash == failed \subseteq Entries(saved) \cup reached \cup evicted

(***************************************************************************)
(* An alert that could not be sent arrives in the end.                     *)
(***************************************************************************)
FailedArrives ==
  \A a \in Alerts : a \in failed ~> a \in reached \cup evicted
=============================================================================
