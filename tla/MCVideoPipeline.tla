-------------------------- MODULE MCVideoPipeline --------------------------
(***************************************************************************)
(* TLC instance of VideoPipeline: the modes of the table.                  *)
(***************************************************************************)
EXTENDS VideoPipeline, VideoClock

MCSupported == DOMAIN ModeTable

(***************************************************************************)
(* Whatever mode the clock and the generator run with, it is the one mode  *)
(* of the table with its dimensions, and a display can show it: the search *)
(* of video_dynclk.c finds dividers the clock manager can run, and the     *)
(* registers bring the raster of video_vtc.c to 60 Hz.                     *)
(***************************************************************************)
OutputIsDisplayable ==
  /\ pipe.gen # NoTiming =>
       LET t == ModeTable[pipe.gen] IN Find(t.h.active, t.v.active) = {pipe.gen}
  /\ pipe.clk # NoTiming => Displayable(pipe.clk)
=============================================================================
