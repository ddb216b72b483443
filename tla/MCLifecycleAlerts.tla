-------------------------- MODULE MCLifecycleAlerts --------------------------
(* Model-checking instances of LifecycleAlerts.                            *)
EXTENDS LifecycleAlerts

(* The coroutine may be cut at each of its awaits, and between a message   *)
(* Telegram took and the answer to it.                                     *)
EveryCut == {"context", "sending", "sent"}

(* Cuts while the context of an entry alert is awaited only: no send is    *)
(* ever cut.                                                               *)
ContextCut == {"context"}

SendingCut == {"context", "sending"}

EveryTrouble == {"mute", "age", "outage", "save", "evict"}
=============================================================================
