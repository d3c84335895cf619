---------------------------- MODULE MCNegotiation ----------------------------
(***************************************************************************)
(* A size_t of four bits with numbers beyond it on both sides, a radio     *)
(* with at most two addresses, a buffer of two lines, and two writes that  *)
(* may fail.                                                               *)
(***************************************************************************)
EXTENDS Negotiation

MCNumbers == {-17, -2, 0, 3, 16}
===============================================================================
