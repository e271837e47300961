---------------------------- MODULE MCUsbCapture ----------------------------
(***************************************************************************)
(* The USB capture, model-checked: chunks read in parts, recoveries up to  *)
(* their limit, a stop at every point.                                     *)
(***************************************************************************)
EXTENDS UsbCapture
=============================================================================
