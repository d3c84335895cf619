---------------------------- MODULE MCClientSet ----------------------------
(***************************************************************************)
(* Few listeners, a timeout of one second and a limit of listeners that    *)
(* is smaller than their number.                                           *)
(***************************************************************************)
EXTENDS ClientSet

MCThree == {1, 2, 3}
MCTwo   == {1, 2}
===============================================================================
