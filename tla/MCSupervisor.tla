---------------------------- MODULE MCSupervisor ----------------------------
(***************************************************************************)
(* The supervisor with a patience of a few seconds instead of a minute.    *)
(***************************************************************************)
EXTENDS Supervisor

MCPatience == 3
===============================================================================
