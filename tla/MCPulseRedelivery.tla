-------------------------- MODULE MCPulseRedelivery --------------------------
(* Model-checking instances of PulseRedelivery: three alerts for a list of *)
(* two, of one job or of two.                                              *)
EXTENDS PulseRedelivery
=============================================================================
