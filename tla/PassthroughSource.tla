------------------------- MODULE PassthroughSource -------------------------
(***************************************************************************)
(* What VideoAO promises to SystemAO: every new picture is reported, with  *)
(* its own mode, by a report that is delivered or refused; modes never     *)
(* change under a running picture, and after the end there is no picture   *)
(* any more.                                                               *)
(***************************************************************************)
CONSTANTS Shown,  \* the modes that can be passed through
          None

VARIABLES shown, announced, refused, ended

svars == <<shown, announced, refused, ended>>

SInit == shown = None /\ announced = None /\ refused = FALSE /\ ended = FALSE

Report(m) == \/ announced' = m /\ refused' = FALSE
             \/ announced' = announced /\ refused' = TRUE

Show(m) ==
  /\ ~ended /\ shown = None
  /\ shown' = m /\ Report(m)
  /\ UNCHANGED ended

Blank == shown # None /\ shown' = None /\ UNCHANGED <<announced, refused, ended>>

End == ~ended /\ ended' = TRUE /\ shown' = None /\ UNCHANGED <<announced, refused>>

SNext == (\E m \in Shown : Show(m)) \/ Blank \/ End

SSpec == SInit /\ [][SNext]_svars
=============================================================================
