---------------------------- MODULE MCLogFanout -----------------------------
(* LogFanout for TLC: the instance is in the configuration alone. *)
EXTENDS LogFanout

=============================================================================
