----------------------------- MODULE MCLoginRamp -----------------------------
(* Four players log in two at a time.  The ramp then lasts two slow logins, *)
(* longer than KeptAlive allows a player to be idle, so that only the polls  *)
(* can keep the first ones alive; a request may outlast the polling period.  *)
EXTENDS LoginRamp
=============================================================================
