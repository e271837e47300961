----------------------------- MODULE MCCaptions -----------------------------
(***************************************************************************)
(* TLC instance of Captions, with the rendering of what it shows.          *)
(***************************************************************************)
EXTENDS Captions, CaptionLayout

(***************************************************************************)
(* Whatever texts the slots hold, they are wrapped without loss, drawn     *)
(* inside the box without one line touching another, and shown on the      *)
(* display with nothing of an earlier caption in the mask                  *)
(* (subtitle_pipeline_write_caption).                                      *)
(***************************************************************************)
CaptionDrawn ==
  /\ bottom # None /\ top = None => SinglesDrawn
  /\ bottom # None /\ top # None => PairsDrawn
  /\ bottom # None => CaptionsShown /\ PixelsInOrder
=============================================================================
