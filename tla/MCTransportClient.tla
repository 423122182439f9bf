-------------------------- MODULE MCTransportClient --------------------------
(* The transport client on four calls and three versions of the variables:  *)
(* enough for an answered call, a timeout whose worker outlives it, and two *)
(* refused calls, with a change of the variables before and after each.     *)
EXTENDS TransportClient
=============================================================================
