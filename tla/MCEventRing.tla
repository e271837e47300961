---------------------------- MODULE MCEventRing ----------------------------
(***************************************************************************)
(* A ring of three, polled two at a time.                                  *)
(***************************************************************************)
EXTENDS EventRing
=============================================================================
