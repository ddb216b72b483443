----------------------------- MODULE MCJobRunner -----------------------------
(* Model-checking instances of JobRunner: worker_liveness, which revives;  *)
(* daily_summary, on a tick of its own and a hook of deliver_alerts; and   *)
(* whale_follow_engine, heavy and also run when a whale trades.            *)
EXTENDS JobRunner
=============================================================================
