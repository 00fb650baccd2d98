---------------------------- MODULE MCInterrupt ----------------------------
(***************************************************************************)
(* Interrupt on small instances: two threads, two items each and up to     *)
(* three presses.                                                          *)
(***************************************************************************)
EXTENDS Interrupt
=============================================================================
