------------------------------ MODULE MCTimers ------------------------------
(***************************************************************************)
(* Timers on a small instance.  Timers share nothing, so one will do.      *)
(***************************************************************************)
EXTENDS Timers
=============================================================================
